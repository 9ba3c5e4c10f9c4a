------------------------------- MODULE MCLinks -------------------------------
(* The links and flags of the small instance. *)
EXTENDS LinkUse

P(n, s) == [slashes |-> n, name |-> s]

Base(scheme, form) ==
    [scheme |-> scheme, user |-> "u", pass |-> IF scheme = "vmess" THEN "empty" ELSE "p", form |-> form,
     host |-> "s1", upper |-> FALSE, port |-> 443, padded |-> FALSE, number |-> FALSE,
     order |-> 0, q |-> NoQuery, remark |-> "r1"]

\* The same link from another place, in another spelling.
Spellings(l) ==
    {l, [l EXCEPT !.remark = "r2", !.order = 1], [l EXCEPT !.upper = TRUE], [l EXCEPT !.padded = TRUE]}

Networks == {"empty", "tcp", "ws", "httpupgrade", "h2"}
TypicalQuery(t, sec) == [NoQuery EXCEPT !.type = t, !.security = sec, !.host = "h", !.path = P(1, "p"), !.sni = "n"]
Grpc == [NoQuery EXCEPT !.type = "grpc", !.serviceName = P(2, "g"), !.path = P(2, "g"), !.flow = "f",
                        !.authority = "h", !.security = "tls", !.sni = "n"]

StreamLinks ==
    {[Base(s[1], s[2]) EXCEPT !.q = TypicalQuery(t, sec)] :
        s \in {<<"vless", "plain">>, <<"trojan", "plain">>, <<"vmess", "json">>},
        t \in Networks, sec \in {"empty", "tls", "reality"}}
    \cup {[Base(s[1], s[2]) EXCEPT !.q = Grpc] :
        s \in {<<"vless", "plain">>, <<"trojan", "plain">>, <<"vmess", "json">>}}

\* VMess links with an alterId.
WithAid ==
    {[l EXCEPT !.q.mtu = a] : l \in {k \in StreamLinks : k.scheme = "vmess"}, a \in {"0", "x"}}

Variants ==
    LET v == [Base("vless", "plain") EXCEPT !.q = TypicalQuery("ws", "tls")]
        m == [Base("vmess", "json") EXCEPT !.q = TypicalQuery("ws", "tls")]
    IN  {[v EXCEPT !.host = "s2"], [v EXCEPT !.user = "w"], [v EXCEPT !.port = 8443], [v EXCEPT !.port = 0],
         [v EXCEPT !.port = 66000], [v EXCEPT !.q.sni = "empty"], [v EXCEPT !.q.sni = "a[b"],
         [v EXCEPT !.q.host = "a_b"], [v EXCEPT !.q.path = NoPath], [v EXCEPT !.q.other = "o"],
         [v EXCEPT !.q.allowInsecure = "1"], [m EXCEPT !.host = "s2"], [m EXCEPT !.number = TRUE],
         [m EXCEPT !.port = 0], [m EXCEPT !.q.fp = "firefox"], [m EXCEPT !.q.allowInsecure = "bool"],
         [v EXCEPT !.q.type = "xhttp", !.q.extra = "e"], [v EXCEPT !.port = 66000, !.padded = TRUE],
         [v EXCEPT !.q.type = "raw", !.q.headerType = "http"],
         [m EXCEPT !.q.type = "httpupgrade", !.q.headerType = "xhttp", !.q.path = NoPath]}
        \cup Spellings(v) \cup Spellings(m)

OtherLinks ==
    Spellings(Base("ss", "plain")) \cup {Base("ss", "b64"), [Base("ss", "b64") EXCEPT !.user = "w"], Base("ss", "bad")}
    \cup {Base("socks", f) : f \in {"plain", "b64", "user"}} \cup {[Base("socks", "plain") EXCEPT !.padded = TRUE]}
    \cup {[Base("socks", "plain") EXCEPT !.user = "empty"]}
    \cup {[Base("wireguard", "plain") EXCEPT !.port = 0, !.upper = u] : u \in BOOLEAN}
    \cup {Base(s, "plain") : s \in {"hysteria2", "hy2", "http"}}
    \cup {[Base("hysteria2", "plain") EXCEPT !.q.sni = "n"]}
    \cup {[Base("wireguard", "plain") EXCEPT !.q.local = a, !.q.reserved = r] :
            a \in {"empty", "l"}, r \in {"x", "b64", "list"}}
    \cup {[Base("wireguard", "plain") EXCEPT !.q.mtu = "x"]}
    \cup {[Base("vmess", "legacy") EXCEPT !.q.obfs = o, !.q.security = s, !.q.host = "h"] :
            o \in {"empty", "none", "websocket"}, s \in {"empty", "1"}}

MCText == STRING
MCLinkSet == StreamLinks \cup WithAid \cup Variants \cup OtherLinks
MCDedupLinks == Variants \cup OtherLinks

MCFlags ==
    [proto : {"vless", "vmess"}, transport : {"tcp", "ws", "grpc", "xhttp"}, tls : {"off", "on", "certs"},
     path : {NoPath, P(0, "p"), P(1, "p"), P(2, "p")}, mode : {"empty", "packet-up"}]
    \cup [proto : {"socks", "http"}, transport : {"tcp"}, tls : {"off"}, path : {NoPath}, mode : {"empty"}]

MCChainLinks ==
    {[Base("vless", "plain") EXCEPT !.q = TypicalQuery("ws", "tls")],
     [Base("trojan", "plain") EXCEPT !.host = "s2", !.q = TypicalQuery("ws", "tls")],
     [Base("socks", "plain") EXCEPT !.host = "s3"]}
=============================================================================
