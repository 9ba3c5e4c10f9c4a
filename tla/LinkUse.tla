------------------------------- MODULE LinkUse -------------------------------
(***************************************************************************)
(* What the program does with share links: the cores create and parse      *)
(* protocol objects and build outbounds from them again and again (tests,  *)
(* probes, rotations), the tester removes links that mean the same         *)
(* connection, the proxy opens a listener and prints its link, and chains  *)
(* join several outbounds.                                                 *)
(***************************************************************************)
EXTENDS Links, FiniteSets
Xray == INSTANCE XrayLinks
Box == INSTANCE SingboxLinks

CONSTANTS
    Text,       \* the strings that occur
    LinkSet,    \* the links that occur
    Flags,      \* the inbound settings of the proxy that occur
    DedupLinks, \* the links of lists to deduplicate
    DedupLen,   \* bound: length of such a list
    ChainLinks, \* the links that chains are made of
    MaxBuilds,  \* bound: builds from one object
    AllowInsecure \* the option of both cores

\* Paths, query options, and links: credentials and the form they are written in,
\* host (in upper case?), port (0: none; with leading zeros, as a JSON number?), the
\* order of the options. VMess has no password.
Path == [slashes : Nat, name : Text]
Query == [type : Text, headerType : Text, host : Text, path : Path, serviceName : Path,
          authority : Text, mode : Text, extra : Text, flow : Text, encryption : Text,
          security : Text, sni : Text, fp : Text, alpn : Text, allowInsecure : Text, pcs : Text,
          pbk : Text, obfs : Text, reserved : Text, mtu : Text, local : Text, other : Text]
Link ==
    {l \in [scheme : Text, user : Text, pass : Text, form : Text, host : Text, upper : BOOLEAN,
            port : Nat, padded : BOOLEAN, number : BOOLEAN, order : Nat, q : Query,
            remark : Text] : l.scheme = "vmess" => l.pass = "empty"}

\* The inbound flags.
Flag == [proto : {"vless", "vmess", "socks", "http"}, transport : {"tcp", "ws", "grpc", "xhttp"},
         tls : {"off", "on", "certs"}, path : Path, mode : Text]

\* The strings of the program itself.
ASSUME TextAssumption ==
    {"empty", "auto", "b64", "chrome", "cred", "grpc", "gun", "h", "http", "http/1.1", "hysteria", "hysteria2",
     "listen", "Listener", "multi", "none", "plain", "shadowsocks", "socks", "tcp", "tls", "trojan", "true",
     "user", "vless", "vmess", "wireguard", "ws", "xhttp"} \subseteq Text
ASSUME BoundsAssumption == DedupLen \in Nat \ {0} /\ MaxBuilds \in Nat \ {0} /\ AllowInsecure \in BOOLEAN
ASSUME LinksAssumption == LinkSet \cup DedupLinks \cup ChainLinks \subseteq Link /\ Flags \subseteq Flag

VARIABLES
    task,     \* what the links are used for: none yet, use, dedup, listen, chain
    core,     \* the core: xray, singbox or auto
    link,     \* use: the original link. listen: the printed one
    obj,      \* use, listen: the protocol object
    builds,   \* use: outbounds built from obj. listen: inbounds. chain: outbounds with tag and detour
    input,    \* dedup: links still to look at
    seen,     \* dedup: identities seen
    unique,   \* dedup: links kept
    dropped   \* dedup: links removed
vars == <<task, core, link, obj, builds, input, seen, unique, dropped>>

Cores == {"xray", "singbox", "auto"}
ProxyCores == {"xray", "singbox"}
NoLink == [scheme |-> "none"]

-----------------------------------------------------------------------------
(* The cores *)

\* AutomaticCore.selectCoreForLink.
selectCoreForLink(c, l) ==
    CASE c # "auto" -> c
      [] c = "auto" /\ l.scheme \in {"hysteria2", "hy2"} -> "singbox"
      [] OTHER -> "xray"

\* CreateProtocol, by scheme, and the Parse of what it creates.
XrayParse(l) ==
    CASE l.scheme = "vmess" -> Xray!VmessParse(l)
      [] l.scheme = "vless" -> Xray!VlessParse(l)
      [] l.scheme = "ss" -> Xray!ShadowsocksParse(l)
      [] l.scheme = "trojan" -> Xray!TrojanParse(l)
      [] l.scheme = "socks" -> Xray!SocksParse(l)
      [] l.scheme = "wireguard" -> Xray!WireguardParse(l)
      [] l.scheme \in {"hysteria2", "hy2"} -> Xray!Hysteria2Parse(l)
      [] OTHER -> Fail

BoxParse(l) ==
    CASE l.scheme = "vmess" -> Box!VmessParse(l)
      [] l.scheme = "vless" -> Box!VlessParse(l)
      [] l.scheme = "ss" -> Box!ShadowsocksParse(l)
      [] l.scheme = "trojan" -> Box!TrojanParse(l)
      [] l.scheme = "socks" -> Box!SocksParse(l)
      [] l.scheme = "wireguard" -> Box!WireguardParse(l)
      [] l.scheme \in {"hysteria2", "hy2"} -> Box!Hysteria2Parse(l)
      [] OTHER -> Fail

Parse(c, l) == IF selectCoreForLink(c, l) = "xray" THEN XrayParse(l) ELSE BoxParse(l)

\* MakeInstance and MakeHttpClient build the outbound of the object.
XrayOutbound(o) ==
    CASE o.proto = "vless" -> Xray!VlessOutbound(o, AllowInsecure)
      [] o.proto = "vmess" -> Xray!VmessOutbound(o, AllowInsecure)
      [] o.proto = "trojan" -> Xray!TrojanOutbound(o, AllowInsecure)
      [] o.proto = "shadowsocks" -> Xray!ShadowsocksOutbound(o)
      [] o.proto = "socks" -> Xray!SocksOutbound(o)
      [] o.proto = "hysteria2" -> Xray!Hysteria2Outbound(o, AllowInsecure)
      [] o.proto = "wireguard" -> Xray!WireguardOutbound(o)

BoxOutbound(o) ==
    CASE o.proto = "vless" -> Box!VlessOutbound(o, AllowInsecure)
      [] o.proto = "vmess" -> Box!VmessOutbound(o, AllowInsecure)
      [] o.proto = "trojan" -> Box!TrojanOutbound(o, AllowInsecure)
      [] o.proto = "shadowsocks" -> Box!ShadowsocksOutbound(o)
      [] o.proto = "socks" -> Box!SocksOutbound(o)
      [] o.proto = "hysteria2" -> Box!Hysteria2Outbound(o, AllowInsecure)
      [] o.proto = "wireguard" -> Box!WireguardOutbound(o)

Outbound(c, o) == IF c = "xray" THEN XrayOutbound(o) ELSE BoxOutbound(o)

\* The object after a build.
AfterBuild(c, o) ==
    CASE o.proto = "vless" -> IF c = "xray" THEN Xray!VlessTrimmed(o) ELSE Box!VlessTrimmed(o)
      [] o.proto = "trojan" -> IF c = "xray" THEN Xray!TrojanTrimmed(o) ELSE Box!TrojanTrimmed(o)
      [] o.proto = "vmess" -> IF c = "xray" THEN Xray!VmessAfterBuild(o) ELSE Box!VmessTrimmed(o)
      [] OTHER -> o

-----------------------------------------------------------------------------
(* Connection identity *)

\* Credentials of ss and socks as the parser read them, not as they are written.
Credentials(l, o) ==
    IF l.scheme \in {"ss", "socks"} THEN <<"parsed", o.id, o.pass>> ELSE <<l.form, l.user, l.pass>>

\* Faulty variant: the options are left out, as the remark is.
canonicalNoOptions(l, o) ==
    <<"uri", IF l.scheme = "hy2" THEN "hysteria2" ELSE l.scheme, Credentials(l, o), l.host, l.port>>

\* The URI without remark, with sorted options, the host in lower case and the
\* port without leading zeros, if it is one.
canonicalURI(l, o) ==
    <<"uri", IF l.scheme = "hy2" THEN "hysteria2" ELSE l.scheme, Credentials(l, o), l.host, l.port,
      IF HasPort(l) THEN FALSE ELSE l.upper, IF Port16(l.port) THEN FALSE ELSE l.padded, l.q>>

\* The JSON object without ps; its numbers are written as strings.
canonicalVMess(l, o) ==
    IF l.form = "json" THEN <<"json", l.user, l.host, l.upper, l.port, l.padded, l.q>>
    ELSE canonicalURI(l, o)

ConnectionFingerprint(l, o) == IF l.scheme = "vmess" THEN canonicalVMess(l, o) ELSE canonicalURI(l, o)

\* The identity under which a link is remembered: a link that does not parse
\* stands for itself.
Identity(c, l) ==
    LET o == Parse(c, l) IN
    IF o.ok THEN <<"connection", ConnectionFingerprint(l, o)>> ELSE <<"raw", l>>

-----------------------------------------------------------------------------
(* Actions *)

Init ==
    /\ task = "none" /\ core = "xray" /\ link = NoLink /\ obj = Fail /\ builds = <<>>
    /\ input = <<>> /\ seen = {} /\ unique = <<>> /\ dropped = <<>>

\* CreateProtocol and Parse.
Create(c, l) ==
    /\ task = "none"
    /\ task' = "use" /\ core' = selectCoreForLink(c, l) /\ link' = l /\ obj' = Parse(c, l)
    /\ UNCHANGED <<builds, input, seen, unique, dropped>>

\* One more instance or HTTP client from the same object.
Build ==
    /\ task = "use" /\ obj.ok /\ Len(builds) < MaxBuilds
    /\ builds' = Append(builds, Outbound(core, obj))
    /\ obj' = AfterBuild(core, obj)
    /\ UNCHANGED <<task, core, link, input, seen, unique, dropped>>

\* SemanticDeduplicateLinks, called with a list.
Deduplicate(c, list) ==
    /\ task = "none"
    /\ task' = "dedup" /\ core' = c /\ input' = list
    /\ UNCHANGED <<link, obj, builds, seen, unique, dropped>>

\* Its loop.
DedupNext ==
    /\ task = "dedup" /\ input # <<>>
    /\ LET key == Identity(core, Head(input)) IN
       \/ /\ key \in seen
          /\ dropped' = Append(dropped, Head(input))
          /\ UNCHANGED <<seen, unique>>
       \/ /\ key \notin seen
          /\ seen' = seen \cup {key} /\ unique' = Append(unique, Head(input))
          /\ UNCHANGED dropped
    /\ input' = Tail(input)
    /\ UNCHANGED <<task, core, link, obj, builds>>

\* createInbound without a link: the object for the inbound flags, http for
\* system mode, of which sing-box has socks and http alone. host and mode stand
\* for the options of the transport.
createXrayInbound(f) ==
    LET base == [NoQuery EXCEPT !.type = f.transport, !.security = IF f.tls = "off" THEN "empty" ELSE "tls"]
        plain == f.proto \in {"socks", "http"}
        q == CASE plain -> NoQuery
               [] ~plain /\ f.transport = "tcp" -> base
               [] ~plain /\ f.transport = "ws" -> [base EXCEPT !.host = "h", !.path = f.path]
               [] f.transport = "xhttp" /\ f.proto = "vless" ->
                    [base EXCEPT !.host = "h", !.path = f.path, !.mode = f.mode,
                                 !.security = IF @ = "empty" THEN "none" ELSE @]
               [] f.transport = "xhttp" /\ f.proto = "vmess" ->
                    [base EXCEPT !.host = "h", !.path = f.path, !.headerType = f.mode, !.encryption = "none"]
               [] f.transport = "grpc" /\ f.proto = "vless" ->
                    [base EXCEPT !.serviceName = f.path, !.authority = "h"]
               [] f.transport = "grpc" /\ f.proto = "vmess" -> [base EXCEPT !.path = f.path, !.host = "h"]
    IN  [ok |-> TRUE, proto |-> f.proto, id |-> IF f.proto = "http" THEN "empty" ELSE "cred",
         pass |-> IF f.proto = "socks" THEN "cred" ELSE "empty", address |-> "listen", port |-> 443,
         padded |-> FALSE, remark |-> "Listener", q |-> q, certs |-> f.tls = "certs"]

\* The xray objects for vless, socks and http write a link; a VMess or sing-box
\* object that was not parsed from one has none.
GetLink(c, o) ==
    CASE o.proto = "http" -> Xray!HttpGetLink(o)
      [] c = "xray" /\ o.proto = "vless" -> Xray!VlessGetLink(o)
      [] c = "xray" /\ o.proto = "socks" -> Xray!SocksGetLink(o)
      [] OTHER -> NoLink

\* The listener is created and its link printed.
Listen(c, f) ==
    /\ task = "none"
    /\ c = "xray" \/ f.proto \in {"socks", "http"}
    /\ task' = "listen" /\ core' = c
    /\ obj' = createXrayInbound(f) /\ link' = GetLink(c, createXrayInbound(f))
    /\ UNCHANGED <<builds, input, seen, unique, dropped>>

\* createInbound from a link the user gave. (System mode takes only socks.)
ListenLink(c, l) ==
    /\ task = "none" /\ Parse(c, l).ok
    /\ task' = "listen" /\ core' = c /\ obj' = Parse(c, l) /\ link' = l
    /\ UNCHANGED <<builds, input, seen, unique, dropped>>

XrayInbound(o) ==
    CASE o.proto = "vless" -> Xray!VlessInbound(o, o.certs)
      [] o.proto = "vmess" -> Xray!VmessInbound(o, o.certs)
      [] o.proto = "trojan" -> Xray!TrojanInbound(o)
      [] o.proto = "shadowsocks" -> Xray!ShadowsocksInbound(o)
      [] o.proto = "socks" -> Xray!SocksInbound(o)
      [] o.proto = "http" -> Xray!HttpInbound(o)
      [] OTHER -> Fail

\* The other protocols give options without a body, which sing-box refuses.
BoxInbound(o) ==
    CASE o.proto = "vless" -> Box!VlessInbound(o)
      [] o.proto = "vmess" -> Box!VmessInbound(o)
      [] o.proto = "trojan" -> Box!TrojanInbound(o)
      [] o.proto = "socks" -> Box!SocksInbound(o)
      [] o.proto = "http" -> Box!HttpInbound(o)
      [] OTHER -> Fail

AfterInbound(o) ==
    CASE o.proto \in {"vless", "trojan"} -> Xray!AfterInbound(o)
      [] o.proto = "vmess" -> Xray!VmessTrimmed(o)
      [] OTHER -> o

\* Every instance of the xray core builds the inbound from the same object; the
\* sing-box core builds it once, in SetInbound.
Rebuilds == IF core = "xray" THEN MaxBuilds ELSE 1

BuildInbound ==
    /\ task = "listen" /\ Len(builds) < Rebuilds
    /\ builds' = Append(builds, IF core = "xray" THEN XrayInbound(obj) ELSE BoxInbound(obj))
    /\ obj' = AfterInbound(obj)
    /\ UNCHANGED <<task, core, link, input, seen, unique, dropped>>

\* MakeChainedInstance: every hop but the last dials through the next one.
Chained(outs) ==
    [i \in 1..Len(outs) |-> [out |-> outs[i], detour |-> IF i < Len(outs) THEN i + 1 ELSE 0]]

MakeChainedInstance(c, hops) ==
    /\ task = "none" /\ Len(hops) >= 2
    /\ LET outs == [i \in 1..Len(hops) |-> Outbound(c, Parse(c, hops[i]))] IN
       /\ \A i \in 1..Len(hops) : Parse(c, hops[i]).ok /\ outs[i].ok
       /\ builds' = Chained(outs)
    /\ task' = "chain" /\ core' = c /\ unique' = hops
    /\ UNCHANGED <<link, obj, input, seen, dropped>>

Done ==
    /\ \/ task = "use" /\ (~obj.ok \/ Len(builds) = MaxBuilds)
       \/ task = "listen" /\ Len(builds) = Rebuilds
       \/ task = "dedup" /\ input = <<>>
       \/ task = "chain"
    /\ UNCHANGED vars

Next ==
    \/ \E c \in Cores, l \in LinkSet : Create(c, l)
    \/ Build
    \/ \E c \in Cores, n \in 1..DedupLen : \E list \in [1..n -> DedupLinks] : Deduplicate(c, list)
    \/ DedupNext
    \/ \E c \in ProxyCores, f \in Flags : Listen(c, f)
    \/ \E c \in ProxyCores, l \in LinkSet : ListenLink(c, l)
    \/ BuildInbound
    \/ \E c \in ProxyCores, n \in 2..3 : \E hops \in [1..n -> ChainLinks] : MakeChainedInstance(c, hops)
    \/ Done

Spec == Init /\ [][Next]_vars
-----------------------------------------------------------------------------
(* Properties *)

\* p after n more slashes were trimmed.
Lost(p, n) == [p EXCEPT !.slashes = IF @ > n THEN @ - n ELSE 0]

\* Rotations and retries build from one object several times, and builds write
\* to it. All builds of an object are the same outbound, but for the service
\* name of a gRPC network, of which every build drops one leading slash more.
RebuildStable ==
    task = "use" =>
        \A i \in DOMAIN builds :
            builds[i] = IF builds[1].ok THEN [builds[1] EXCEPT !.stream.service = Lost(@, i - 1)] ELSE Fail

\* Links that one author would call the same: they differ in the remark, in the
\* order of options, in the case of the host, in leading zeros of the port.
Alike(l, m) ==
    /\ l.form # "json"
    /\ [l EXCEPT !.remark = "empty", !.order = 0, !.upper = FALSE, !.padded = FALSE]
         = [m EXCEPT !.remark = "empty", !.order = 0, !.upper = FALSE, !.padded = FALSE]

\* A link is dropped only for a link kept before it that makes the same
\* connection (or, when it does not parse, has the same text), and of two links
\* that parse, have a port and differ in nothing that matters only one is kept.
DedupFaithful ==
    task = "dedup" =>
        LET Built(l) == Outbound(selectCoreForLink(core, l), Parse(core, l)) IN
        /\ \A i \in DOMAIN dropped : \E j \in DOMAIN unique :
              IF Parse(core, dropped[i]).ok
              THEN /\ Parse(core, unique[j]).ok
                   /\ (Built(dropped[i]).ok /\ Built(unique[j]).ok) => Built(dropped[i]) = Built(unique[j])
              ELSE dropped[i] = unique[j]
        /\ \A i, j \in DOMAIN unique :
              (i # j /\ Parse(core, unique[i]).ok /\ HasPort(unique[i]) /\ Port16(unique[i].port)) =>
                  ~Alike(unique[i], unique[j])

\* An empty path is the root.
Rooted(p) == IF p = NoPath THEN Root ELSE p

\* What the peer sees of an outbound, whichever core made it.
Seen(o) ==
    <<o.server, o.port, o.id, IF o.proto = "socks" /\ o.id = "empty" THEN "empty" ELSE o.pass,
      o.tls.on, o.tls.reality,
      IF o.stream.network \in {"empty", "tcp", "hysteria"} THEN "plain" ELSE o.stream.network,
      IF o.stream.network \in {"ws", "httpupgrade"} THEN <<o.stream.host, Rooted(o.stream.path)>> ELSE <<>>,
      o.stream.service>>

\* The servers a connection of outbound i passes: one with a detour reaches its
\* own server through the detour.
Servers(i) ==
    LET way[k \in 1..Len(builds)] ==
          IF builds[k].detour = 0 THEN <<builds[k].out.server>>
          ELSE Append(way[builds[k].detour], builds[k].out.server)
    IN  way[i]

\* Both cores make the same connection of a link they both accept: the same
\* server, credentials, transport and use of TLS. (They differ in the name they
\* check without an SNI, in fingerprints, in ALPN, and in what they do with a SOCKS
\* password that has no user.) And both lead a chain through every hop, and through
\* no other server.
CoresAgree ==
    /\ task = "use" =>
          LET x == XrayParse(link)
              b == BoxParse(link)
          IN  (x.ok /\ b.ok) =>
                  ((XrayOutbound(x).ok /\ BoxOutbound(b).ok) => Seen(XrayOutbound(x)) = Seen(BoxOutbound(b)))
    /\ task = "chain" =>
          /\ Len(Servers(1)) = Len(unique)
          /\ {Servers(1)[i] : i \in 1..Len(unique)} = {unique[i].host : i \in 1..Len(unique)}

\* What client and listener must agree on: sing-box listeners name no host, and
\* a path only for ws; of VLESS and Trojan only one side reads the header of a
\* network that is called raw.
Transport(s) ==
    LET t == [s EXCEPT !.extra = "empty", !.path = Rooted(@)] IN
    CASE core = "xray" /\ s.network # "raw" -> t
      [] core # "xray" /\ s.network = "ws" -> [t EXCEPT !.host = "empty"]
      [] OTHER -> [t EXCEPT !.host = "empty", !.path = Root]

\* The outbound of a client that reads the link of the listener.
ListenerClient == IF Parse(core, link).ok THEN Outbound(core, Parse(core, link)) ELSE Fail

\* A client that reads the link the proxy printed finds the listener with the
\* same credentials (a listener without users takes anyone) and transport (but
\* for the slashes that every rebuild of the listener drops). With certificate
\* files it also finds TLS where its link has it; without them the listener is
\* plain, whatever the link says. A link made from flags can always be read.
ListenerLink ==
    (task = "listen" /\ link # NoLink /\ link.scheme # "http") =>
        LET client == ListenerClient IN
        /\ link \notin LinkSet => client.ok
        /\ \A i \in DOMAIN builds : (client.ok /\ builds[i].ok) =>
              /\ client.port = builds[i].port
              /\ builds[i].id # "empty" => <<client.id, client.pass>> = <<builds[i].id, builds[i].pass>>
              /\ Transport([client.stream EXCEPT !.service = Lost(@, i - 1)]) = Transport(builds[i].stream)
              /\ obj.certs => client.tls.on = builds[i].tls.on
              /\ ~obj.certs => builds[i].tls = NoTLS

=============================================================================
