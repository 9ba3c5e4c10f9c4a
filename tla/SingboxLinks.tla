----------------------------- MODULE SingboxLinks -----------------------------
(***************************************************************************)
(* The protocols of the sing-box core: Parse, CraftOutboundOptions and     *)
(* CraftInboundOptions, and how the last two change their object. GetLink  *)
(* returns the original link for every protocol but Http.                  *)
(***************************************************************************)
EXTENDS Links

-----------------------------------------------------------------------------
(* Parse *)

\* Fields are filled by their tags; nothing is validated and no network,
\* fingerprint or security is defaulted.
VlessParse(l) ==
    IF ~HasPort(l) THEN Fail
    ELSE Parsed(l, "vless",
            [l.q EXCEPT !.path = DefaultPath(l.q.headerType = "http" \/ l.q.type \in {"ws", "h2"}, l.q),
                        !.authority = "empty", !.pcs = "empty", !.extra = "empty"])

method1(l) == IF l.form # "json" THEN Fail ELSE Parsed(l, "vmess", l.q)

method2(l) ==
    LET q == l.q
        network == CASE q.obfs = "websocket" -> "ws" [] q.obfs = "none" -> "tcp" [] OTHER -> "empty"
        tls == IF q.security = "1" THEN "tls" ELSE "empty"
    IN  IF l.form # "legacy" \/ ~HasPort(l) THEN Fail
        ELSE Parsed(l, "vmess",
                [NoQuery EXCEPT !.path = q.path, !.host = q.host,
                                !.sni = IF q.sni = "empty" /\ tls = "tls" THEN q.host ELSE q.sni,
                                !.security = tls, !.type = network, !.encryption = q.encryption,
                                !.headerType = IF network = "empty" THEN "empty" ELSE "none"])

VmessParse(l) ==
    LET v == IF method1(l).ok THEN method1(l) ELSE method2(l) IN
    IF ~v.ok THEN Fail
    ELSE [v EXCEPT !.q.path = DefaultPath(v.q.headerType = "http" \/ v.q.type \in {"ws", "h2"}, v.q)]

\* Faulty variant: no TLS unless the link asks for it.
TrojanNoDefaultTLS(l) ==
    IF ~HasPort(l) \/ ~IsValidHostOrSNI(l.q.sni) \/ ~IsValidHostOrSNI(l.q.host) THEN Fail
    ELSE Parsed(l, "trojan",
            [l.q EXCEPT !.path = DefaultPath(l.q.type \in {"ws", "http"}, l.q), !.type = Or(@, "tcp")])

TrojanParse(l) ==
    LET q == l.q
        security == Or(q.security, "tls")
    IN  IF ~HasPort(l) \/ ~IsValidHostOrSNI(q.sni) \/ ~IsValidHostOrSNI(q.host) THEN Fail
        ELSE Parsed(l, "trojan",
                [q EXCEPT !.path = DefaultPath(q.type \in {"ws", "http"}, q),
                          !.type = Or(@, "tcp"),
                          !.security = security,
                          !.fp = IF security \in {"tls", "reality"} THEN Or(@, "chrome") ELSE @,
                          !.authority = "empty", !.pcs = "empty", !.extra = "empty"])

\* Only base64(method:password).
ShadowsocksParse(l) ==
    IF ~HasPort(l) \/ l.form # "b64" THEN Fail ELSE Parsed(l, "shadowsocks", NoQuery)

SocksParse(l) ==
    IF ~HasPort(l) THEN Fail
    ELSE Parsed([l EXCEPT !.pass = IF l.form = "user" THEN "empty" ELSE @], "socks", NoQuery)

Hysteria2Parse(l) ==
    IF ~HasPort(l) THEN Fail ELSE Parsed(l, "hysteria2", [l.q EXCEPT !.sni = Or(@, l.host)])

\* A number that does not parse is an error.
WireguardParse(l) == IF l.q.mtu = "x" THEN Fail ELSE Parsed(l, "wireguard", l.q)

-----------------------------------------------------------------------------
(* Outbounds *)

Stream(network, host, path, service) ==
    LET s == [NoStream EXCEPT !.network = network] IN
    CASE network \in {"ws", "http", "httpupgrade"} -> [s EXCEPT !.host = host, !.path = path]
      [] network = "grpc" -> [s EXCEPT !.service = service]
      [] OTHER -> s

\* The server name is the SNI alone; the flag of the core is kept with TLS off.
TLSOptions(q, on, allowInsecure) ==
    [on |-> on, serverName |-> q.sni, pcs |-> "empty",
     alpn |-> CASE ~on -> "empty" [] on /\ q.alpn \in {"empty", "none"} -> "http/1.1" [] OTHER -> q.alpn,
     fp |-> CASE ~on -> "empty" [] on /\ q.fp \in {"empty", "none"} -> "chrome" [] OTHER -> q.fp,
     lax |-> allowInsecure \/ (on /\ Insecure(q.allowInsecure)),
     reality |-> IF q.security = "reality" THEN q.pbk ELSE "empty"]

VlessTrimmed(v) == IF v.q.type = "grpc" THEN [v EXCEPT !.q.serviceName = TrimSlash(@)] ELSE v
TrojanTrimmed(t) == IF t.q.type = "grpc" THEN [t EXCEPT !.q.serviceName = TrimSlash(@)] ELSE t
VmessTrimmed(v) == IF v.q.type = "grpc" THEN [v EXCEPT !.q.path = TrimSlash(@)] ELSE v

\* A VLESS link that names the network tcp is refused; one that names none is
\* not.
VlessOutbound(v, allowInsecure) ==
    LET u == VlessTrimmed(v) IN
    IF v.q.type = "tcp" THEN Fail
    ELSE Endpoint(v, Truncated(v.port), Stream(v.q.type, v.q.host, v.q.path, u.q.serviceName),
                  TLSOptions(v.q, v.q.security \in {"tls", "reality"}, allowInsecure), v.q.flow, v.q.encryption)

VmessOutbound(v, allowInsecure) ==
    LET u == VmessTrimmed(v) IN
    IF v.port = 0 THEN Fail
    ELSE Endpoint(v, Truncated(v.port), Stream(v.q.type, v.q.host, v.q.path, u.q.path),
                  TLSOptions([v.q EXCEPT !.security = "empty"], v.q.security = "tls", allowInsecure),
                  v.q.flow, v.q.encryption)

TrojanOutbound(t, allowInsecure) ==
    LET u == TrojanTrimmed(t) IN
    Endpoint(t, Truncated(t.port), Stream(t.q.type, t.q.host, t.q.path, u.q.serviceName),
             TLSOptions(t.q, t.q.security \in {"tls", "reality"}, allowInsecure), "empty", t.q.encryption)

ShadowsocksOutbound(s) == Endpoint(s, Truncated(s.port), NoStream, NoTLS, s.q.flow, s.q.encryption)
SocksOutbound(s) == Endpoint(s, Truncated(s.port), NoStream, NoTLS, s.q.flow, s.q.encryption)

Hysteria2Outbound(h, allowInsecure) ==
    Endpoint(h, Truncated(h.port), NoStream,
             [NoTLS EXCEPT !.on = TRUE, !.serverName = h.q.sni,
                           !.lax = allowInsecure \/ Insecure(h.q.allowInsecure)],
             h.q.flow, h.q.obfs)

\* Local addresses must be prefixes, reserved bytes a list of numbers.
WireguardOutbound(w) ==
    IF w.port = 0 \/ ~Port16(w.port) \/ w.q.reserved \in {"x", "b64"} \/ w.q.local = "empty" THEN Fail
    ELSE Endpoint(w, w.port, NoStream, NoTLS, w.q.reserved, w.q.pbk)

-----------------------------------------------------------------------------
(* Inbounds, without TLS. *)

VlessInbound(v) ==
    Endpoint(v, Truncated(v.port), Stream(v.q.type, "empty", IF v.q.type = "ws" THEN v.q.path ELSE NoPath,
                                          VlessTrimmed(v).q.serviceName),
             NoTLS, v.q.flow, v.q.encryption)
TrojanInbound(t) ==
    Endpoint(t, Truncated(t.port), Stream(t.q.type, "empty", IF t.q.type = "ws" THEN t.q.path ELSE NoPath,
                                          TrojanTrimmed(t).q.serviceName),
             NoTLS, t.q.flow, t.q.encryption)
VmessInbound(v) ==
    Endpoint(v, Truncated(v.port), Stream(v.q.type, "empty", IF v.q.type = "ws" THEN v.q.path ELSE NoPath,
                                          VmessTrimmed(v).q.path),
             NoTLS, v.q.flow, v.q.encryption)
\* Users only when both credentials are there.
SocksInbound(s) ==
    LET both == s.id # "empty" /\ s.pass # "empty" IN
    Endpoint(IF both THEN s ELSE [s EXCEPT !.id = "empty", !.pass = "empty"], Truncated(s.port),
             NoStream, NoTLS, s.q.flow, s.q.encryption)
HttpInbound(h) == Endpoint(h, Truncated(h.port), NoStream, NoTLS, h.q.flow, h.q.encryption)
=============================================================================
