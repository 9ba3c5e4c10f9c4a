------------------------------ MODULE XrayLinks ------------------------------
(***************************************************************************)
(* The protocols of the xray core: what Parse keeps of a share link, what  *)
(* BuildOutboundDetourConfig and BuildInboundDetourConfig make of it, how  *)
(* both change the object they are called on, and the link GetLink writes. *)
(***************************************************************************)
EXTENDS Links

-----------------------------------------------------------------------------
(* Parse *)

VlessParse(l) ==
    LET q == l.q
        secure == q.security \in {"tls", "reality"}
    IN  IF ~HasPort(l) \/ ~isValidHostName(q.sni) \/ ~isValidHostName(q.host)
        THEN Fail
        ELSE Parsed(l, "vless",
                [q EXCEPT !.path = DefaultPath(q.headerType = "http" \/ q.type \in {"ws", "h2", "xhttp"}, q),
                          !.type = IF secure \/ q.security = "empty" THEN Or(@, "tcp") ELSE @,
                          !.fp = IF secure THEN Or(@, "chrome") ELSE @])

\* The base64 JSON form. Port and alterId may be numbers or strings, and a
\* missing port is noticed only by the build.
method1(l) ==
    IF l.form # "json" \/ ~IsValidHostOrSNI(l.q.host) \/ ~IsValidHostOrSNI(l.q.sni) THEN Fail
    ELSE Parsed(l, "vmess", l.q)

\* The legacy form: obfs names the network, tls=1 the security, peer the SNI,
\* obfsParam the host.
method2(l) ==
    LET q == l.q
        network == CASE q.obfs = "websocket" -> "ws" [] q.obfs = "none" -> "tcp" [] OTHER -> "empty"
        tls == IF q.security = "1" THEN "tls" ELSE "empty"
        sni == IF q.sni = "empty" /\ tls = "tls" THEN q.host ELSE q.sni
    IN  IF l.form # "legacy" \/ ~HasPort(l) \/ ~IsValidHostOrSNI(q.host) \/ ~IsValidHostOrSNI(sni) THEN Fail
        ELSE Parsed(l, "vmess",
                [NoQuery EXCEPT !.path = q.path, !.host = q.host, !.sni = sni, !.security = tls, !.type = network,
                                !.encryption = q.encryption,
                                !.headerType = IF network = "empty" THEN "empty" ELSE "none"])

VmessParse(l) ==
    LET v == IF method1(l).ok THEN method1(l) ELSE method2(l) IN
    IF ~v.ok THEN Fail
    ELSE [v EXCEPT !.q.path = DefaultPath(v.q.headerType \in {"xhttp", "http"} \/ v.q.type \in {"ws", "h2"}, v.q),
                   !.q.type = Or(@, "tcp")]

TrojanParse(l) ==
    LET q == l.q
        security == Or(q.security, "tls")
    IN  IF ~HasPort(l) \/ ~IsValidHostOrSNI(q.sni) \/ ~IsValidHostOrSNI(q.host) THEN Fail
        ELSE Parsed(l, "trojan",
                [q EXCEPT !.path = DefaultPath(\/ q.headerType \in {"xhttp", "http"}
                                               \/ q.type \in {"ws", "h2", "xhttp"}, q),
                          !.type = Or(@, "tcp"),
                          !.security = security,
                          !.fp = IF security \in {"tls", "reality"} THEN Or(@, "chrome") ELSE @,
                          !.extra = "empty"])

\* base64(method:password), or the two in plain text.
ShadowsocksParse(l) ==
    IF ~HasPort(l) \/ l.form \notin {"b64", "plain"} THEN Fail ELSE Parsed(l, "shadowsocks", NoQuery)

\* user:password in plain text or in base64, or a user alone.
SocksParse(l) ==
    IF ~HasPort(l) THEN Fail
    ELSE Parsed([l EXCEPT !.pass = IF l.form = "user" THEN "empty" ELSE @], "socks", NoQuery)

Hysteria2Parse(l) ==
    IF ~HasPort(l) \/ ~IsValidHostOrSNI(l.q.sni) THEN Fail
    ELSE Parsed(l, "hysteria2", [l.q EXCEPT !.sni = Or(@, l.host)])

\* A number that does not scan is left 0, and the endpoint may lack a port.
WireguardParse(l) ==
    Parsed(l, "wireguard", [l.q EXCEPT !.mtu = IF @ = "x" THEN "empty" ELSE @])

-----------------------------------------------------------------------------
(* Streams and TLS *)

\* The switch on the network. tcp: the names the protocol knows it by.
Stream(network, header, host, path, service, authority, mode, extra, tcp) ==
    LET s == [NoStream EXCEPT !.network = network] IN
    CASE network \in tcp ->
            IF header \in {"empty", "none"} THEN s ELSE [s EXCEPT !.host = host, !.path = path]
      [] network \in {"ws", "httpupgrade", "splithttp"} -> [s EXCEPT !.host = host, !.path = path]
      [] network = "xhttp" ->
            [s EXCEPT !.host = host, !.path = path, !.mode = Or(mode, "auto"), !.extra = extra]
      [] network = "grpc" ->
            [s EXCEPT !.service = service, !.authority = authority,
                      !.mode = IF mode = "multi" THEN "multi" ELSE "gun"]
      [] OTHER -> s

\* Flags of the link and of the core ask for a lax check; without a name there
\* is none to check by.
TLSSettings(q, allowInsecure) ==
    LET name == Or(q.sni, q.host) IN
    [on |-> TRUE, serverName |-> name, fp |-> Or(q.fp, "chrome"), alpn |-> q.alpn,
     lax |-> (allowInsecure \/ Insecure(q.allowInsecure)) /\ name # "empty", pcs |-> q.pcs, reality |-> "empty"]

RealitySettings(q) ==
    [on |-> TRUE, serverName |-> q.sni, fp |-> Or(q.fp, "chrome"), alpn |-> "empty", lax |-> FALSE, pcs |-> "empty",
     reality |-> q.pbk]

Secured(q, allowInsecure) ==
    CASE q.security = "tls" -> TLSSettings(q, allowInsecure)
      [] q.security = "reality" -> RealitySettings(q)
      [] OTHER -> NoTLS

-----------------------------------------------------------------------------
(* Outbounds. The grpc case changes the object: it trims a slash off the    *)
(* service name and forgets the flow.                                      *)

VlessTrimmed(v) ==
    IF v.q.type = "grpc" THEN [v EXCEPT !.q.serviceName = TrimSlash(@), !.q.flow = "empty"] ELSE v
TrojanTrimmed(t) ==
    IF t.q.type = "grpc" THEN [t EXCEPT !.q.serviceName = TrimSlash(@), !.q.flow = "empty"] ELSE t
VmessTrimmed(v) ==
    IF v.q.type = "grpc" THEN [v EXCEPT !.q.path = TrimSlash(@)] ELSE v

VlessStream(v) ==
    Stream(v.q.type, v.q.headerType, v.q.host, v.q.path, v.q.serviceName, v.q.authority, v.q.mode, v.q.extra,
           {"tcp", "raw"})
TrojanStream(t) ==
    Stream(t.q.type, t.q.headerType, t.q.host, t.q.path, t.q.serviceName, t.q.authority, t.q.mode, "empty", {"tcp"})
\* VMess keeps the service name in the path, the authority in the host and the
\* mode in the type.
VmessStream(v) ==
    Stream(v.q.type, v.q.headerType, v.q.host, v.q.path, v.q.path, v.q.host, v.q.headerType, "empty", {"tcp"})

VlessOutbound(v, allowInsecure) ==
    LET u == VlessTrimmed(v) IN
    IF ~Port16(v.port) THEN Fail
    ELSE Endpoint(v, v.port, VlessStream(u), Secured(v.q, allowInsecure), u.q.flow, Or(v.q.encryption, "none"))

\* VMess has no REALITY. Its JSON may also carry allowinsecure as a Boolean.
VmessOutbound(v, allowInsecure) ==
    LET u == VmessTrimmed(v) IN
    IF ~Port16(v.port) \/ v.port = 0 THEN Fail
    ELSE Endpoint(v, v.port, VmessStream(u),
                  IF v.q.security = "tls"
                  THEN TLSSettings([v.q EXCEPT !.allowInsecure = IF @ = "bool" THEN "true" ELSE @], allowInsecure)
                  ELSE NoTLS,
                  v.q.flow, Or(v.q.encryption, "auto"))

\* Faulty variant: the fingerprint of the link is overwritten, too.
VmessOverwriteFp(v) ==
    IF v.q.security = "tls" THEN [VmessTrimmed(v) EXCEPT !.q.fp = "chrome"] ELSE VmessTrimmed(v)

\* The build of a VMess object also stores the default fingerprint.
VmessAfterBuild(v) ==
    LET u == VmessTrimmed(v) IN
    IF v.q.security = "tls" THEN [u EXCEPT !.q.fp = Or(@, "chrome")] ELSE u

TrojanOutbound(t, allowInsecure) ==
    LET u == TrojanTrimmed(t) IN
    IF ~Port16(t.port) THEN Fail
    ELSE Endpoint(t, t.port, TrojanStream(u), Secured(t.q, allowInsecure), u.q.flow, t.q.encryption)

\* The port is written into JSON text as it stands: a leading zero breaks it.
ShadowsocksOutbound(s) ==
    IF s.padded \/ ~Port16(s.port) THEN Fail
    ELSE Endpoint(s, s.port, NoStream, NoTLS, s.q.flow, s.q.encryption)
\* A password without a user is not used.
SocksUser(s) == [s EXCEPT !.pass = IF s.id = "empty" THEN "empty" ELSE @]
SocksOutbound(s) ==
    IF s.padded \/ ~Port16(s.port) THEN Fail
    ELSE Endpoint(SocksUser(s), s.port, [NoStream EXCEPT !.network = "tcp"], NoTLS, s.q.flow, s.q.encryption)

Hysteria2Outbound(h, allowInsecure) ==
    IF ~Port16(h.port) THEN Fail
    ELSE Endpoint(h, h.port, [NoStream EXCEPT !.network = "hysteria"],
            [NoTLS EXCEPT !.on = TRUE, !.serverName = h.q.sni,
                          !.lax = (allowInsecure \/ Insecure(h.q.allowInsecure)) /\ h.q.sni # "empty"],
            h.q.flow, h.q.encryption)

\* Reserved bytes in a list or in base64; others are ignored.
WireguardOutbound(w) ==
    Endpoint(w, w.port, NoStream, NoTLS, IF w.q.reserved = "x" THEN "empty" ELSE w.q.reserved, w.q.pbk)

-----------------------------------------------------------------------------
(* Inbounds: TLS only with certificate files, which only a listener made    *)
(* from flags has (certs).                                                 *)

AfterInbound(v) ==
    IF v.q.type = "grpc" THEN [v EXCEPT !.q.serviceName = TrimSlash(@)] ELSE v

Certified(q, certs) ==
    IF q.security = "tls" /\ certs
    THEN [NoTLS EXCEPT !.on = TRUE, !.serverName = q.sni, !.alpn = q.alpn] ELSE NoTLS

VlessInbound(v, certs) ==
    Endpoint(v, v.port, Stream(v.q.type, v.q.headerType, v.q.host, v.q.path, AfterInbound(v).q.serviceName,
                               v.q.authority, v.q.mode, "empty", {"tcp"}),
             Certified(v.q, certs), v.q.flow, v.q.encryption)

\* The alterId is written into JSON text as it stands, which is none when it is
\* not set: so the listener that flags ask for is never built.
VmessInbound(v, certs) ==
    LET u == VmessTrimmed(v) IN
    IF v.port = 0 \/ v.q.mtu \in {"empty", "x"} THEN Fail
    ELSE Endpoint(v, v.port, VmessStream(u), Certified(v.q, certs), v.q.flow, v.q.encryption)

TrojanInbound(t) ==
    Endpoint(t, t.port, Stream(t.q.type, t.q.headerType, t.q.host, t.q.path, AfterInbound(t).q.serviceName,
                               t.q.authority, t.q.mode, "empty", {"tcp", "raw"}),
             NoTLS, t.q.flow, t.q.encryption)

ShadowsocksInbound(s) == Endpoint(s, s.port, NoStream, NoTLS, s.q.flow, s.q.encryption)
SocksInbound(s) ==
    Endpoint(SocksUser(s), s.port, [NoStream EXCEPT !.network = "tcp"], NoTLS, s.q.flow, s.q.encryption)
HttpInbound(h) == Endpoint(h, h.port, [NoStream EXCEPT !.network = "tcp"], NoTLS, h.q.flow, h.q.encryption)

-----------------------------------------------------------------------------
(* GetLink of an object that was not made from a link: a listener. Others   *)
(* return their link.                                                      *)

Written(c, scheme, form, user, q) ==
    [scheme |-> scheme, user |-> user, pass |-> c.pass, form |-> form, host |-> c.address, upper |-> FALSE,
     port |-> c.port, padded |-> c.padded, number |-> FALSE,
     order |-> 0, q |-> q, remark |-> c.remark]

\* Faulty variant: the authority is not written.
VlessNoAuthority(v) == Written(v, "vless", "plain", v.id, [v.q EXCEPT !.extra = "empty", !.authority = "empty"])

\* The option extra is not written.
VlessGetLink(v) == Written(v, "vless", "plain", v.id, [v.q EXCEPT !.extra = "empty"])
\* Credentials are written only when both are there.
SocksGetLink(s) ==
    IF s.id # "empty" /\ s.pass # "empty" THEN Written(s, "socks", "b64", s.id, NoQuery)
    ELSE Written([s EXCEPT !.pass = "empty"], "socks", "user", "empty", NoQuery)
HttpGetLink(h) == Written(h, "http", "user", "empty", NoQuery)
=============================================================================
