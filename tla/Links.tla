-------------------------------- MODULE Links --------------------------------
(***************************************************************************)
(* Share links and the values the protocols of both cores make from them.  *)
(* A link is a record of its decoded parts: the text is never spelled out. *)
(* Names stand for classes of strings: "empty" is the empty one, "a_b" a   *)
(* name with a character outside [A-Za-z0-9.-], "a[b" one with a bracket.  *)
(***************************************************************************)
EXTENDS Naturals, Sequences

\* A path or gRPC service name: its leading slashes, and the rest.
NoPath == [slashes |-> 0, name |-> "empty"]
Root == [slashes |-> 1, name |-> "empty"]

\* if name[0] == '/' { name = name[1:] }
TrimSlash(p) == IF p.slashes > 0 THEN [p EXCEPT !.slashes = @ - 1] ELSE p

\* The query options (for VMess: the JSON fields). type is the network, pbk
\* stands for the REALITY options, local for the local addresses of WireGuard, mtu
\* for its MTU and for the alterId of VMess, other for an option that no parser
\* reads.
NoQuery == [type |-> "empty", headerType |-> "empty", host |-> "empty", path |-> NoPath, serviceName |-> NoPath,
            authority |-> "empty", mode |-> "empty", extra |-> "empty", flow |-> "empty",
            encryption |-> "empty", security |-> "empty", sni |-> "empty", fp |-> "empty", alpn |-> "empty",
            allowInsecure |-> "empty", pcs |-> "empty", pbk |-> "empty", obfs |-> "empty",
            reserved |-> "empty", mtu |-> "empty", local |-> "empty", other |-> "empty"]

\* utils.IsValidHostOrSNI: none of []().
IsValidHostOrSNI(s) == s # "a[b"
\* The stricter check that only the VLESS parser of the xray core makes.
isValidHostName(s) == s \notin {"a[b", "a_b"}

Insecure(s) == s \in {"1", "true"}
Or(s, default) == IF s = "empty" THEN default ELSE s

\* The network needs a path, and the link has none.
DefaultPath(needed, q) == IF needed /\ q.path = NoPath THEN Root ELSE q.path

\* What Parse leaves in the protocol object. certs: whether it has certificate
\* files, which no link names.
Fail == [ok |-> FALSE]
Parsed(l, proto, q) ==
    [ok |-> TRUE, proto |-> proto, id |-> l.user, pass |-> l.pass, address |-> l.host,
     port |-> l.port, padded |-> l.padded, q |-> q, remark |-> l.remark, certs |-> FALSE]

\* SplitHostPort fails without a port.
HasPort(l) == l.port # 0
\* strconv.ParseUint(port, 10, 16).
Port16(n) == n < 65536
\* uint16(port) after strconv.Atoi: the value is truncated.
Truncated(n) == n % 65536

\* The transport part of an outbound or inbound.
NoStream == [network |-> "empty", host |-> "empty", path |-> NoPath, service |-> NoPath, authority |-> "empty",
             mode |-> "empty", extra |-> "empty"]
NoTLS == [on |-> FALSE, serverName |-> "empty", fp |-> "empty", alpn |-> "empty", lax |-> FALSE,
          pcs |-> "empty", reality |-> "empty"]

\* The bodies of the outbounds and inbounds of both cores.
Endpoint(c, port, stream, tls, flow, encryption) ==
    [ok |-> TRUE, proto |-> c.proto, server |-> c.address, port |-> port, id |-> c.id, pass |-> c.pass,
     stream |-> stream, tls |-> tls, flow |-> flow, encryption |-> encryption]
=============================================================================
