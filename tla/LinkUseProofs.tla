---------------------------- MODULE LinkUseProofs ----------------------------
(***************************************************************************)
(* Proofs about the use of share links. What the provers need first is     *)
(* every protocol's outbound and inbound as a record over the fields of    *)
(* its object, without updates of updates: the lemmas of the first part    *)
(* give it. The four invariants then follow from inductive invariants of   *)
(* the four tasks.                                                         *)
(***************************************************************************)
EXTENDS LinkUse, SequenceTheorems, TLAPS

-----------------------------------------------------------------------------
(* Types *)

\* What Parse returns when it succeeds, and the object of a listener.
Object == [ok : {TRUE}, proto : Text, id : Text, pass : Text, address : Text,
           port : Nat, padded : BOOLEAN, q : Query, remark : Text, certs : BOOLEAN]

Streams == [network : Text, host : Text, path : Path, service : Path, authority : Text,
            mode : Text, extra : Text]
Securities == [on : BOOLEAN, serverName : Text, fp : Text, alpn : Text, lax : BOOLEAN, pcs : Text,
               reality : Text]

Protocols == {"vless", "vmess", "trojan", "shadowsocks", "socks", "hysteria2", "wireguard"}

\* Outbounds and inbounds.
Endpoints == [ok : {TRUE}, proto : Text, server : Text, port : Nat, id : Text, pass : Text,
              stream : Streams, tls : Securities, flow : Text, encryption : Text]

\* A stream and an endpoint that lost a slash of its service name.
Less(s) == [s EXCEPT !.service = TrimSlash(@)]
Cut(e) == IF e.ok THEN [e EXCEPT !.stream.service = TrimSlash(@)] ELSE Fail

\* The bodies have their type, and are the same in both instances of Links.
LEMMA EndpointType ==
    ASSUME NEW o, NEW port, NEW s, NEW t, NEW f, NEW e,
           o \in Object, port \in Nat, s \in Streams, t \in Securities, f \in Text, e \in Text
    PROVE  Endpoint(o, port, s, t, f, e) \in Endpoints
BY DEF Endpoint, Endpoints, Object
\* The body is the same in both instances of Links.
LEMMA EndpointSame ==
    ASSUME NEW o, NEW port, NEW s, NEW t, NEW f, NEW e
    PROVE  /\ Xray!Endpoint(o, port, s, t, f, e) = Endpoint(o, port, s, t, f, e)
           /\ Box!Endpoint(o, port, s, t, f, e) = Endpoint(o, port, s, t, f, e)
BY DEF Endpoint, Xray!Endpoint, Box!Endpoint

\* Cutting an endpoint cuts its stream.
LEMMA CutEndpoint ==
    ASSUME NEW o, NEW port, NEW s, NEW t, NEW f, NEW e,
           o \in Object, port \in Nat, s \in Streams, t \in Securities, f \in Text, e \in Text
    PROVE  Cut(Endpoint(o, port, s, t, f, e)) = Endpoint(o, port, Less(s), t, f, e)
BY DEF Endpoint, Cut, Less

\* A trimmed path is a path, and the two instances of Links trim alike.
LEMMA TrimType ==
    ASSUME NEW p \in Path
    PROVE  /\ TrimSlash(p) \in Path
           /\ Xray!TrimSlash(p) = TrimSlash(p) /\ Box!TrimSlash(p) = TrimSlash(p)
BY DEF TrimSlash, Xray!TrimSlash, Box!TrimSlash, Path

\* No path has no slash to lose.
LEMMA NoPathType == NoPath \in Path /\ TrimSlash(NoPath) = NoPath
<1>1. NoPath \in Path
  BY TextAssumption DEF NoPath, Path
<1>2. NoPath.slashes = 0
  BY DEF NoPath
<1> QED  BY <1>1, <1>2 DEF TrimSlash

-----------------------------------------------------------------------------
(* Streams *)

\* Two streams that differ in a slash of the service name.
LEMMA CutStream ==
    ASSUME NEW x \in Streams, NEW y \in Streams, y.service = TrimSlash(x.service),
           y.network = x.network, y.host = x.host, y.path = x.path, y.authority = x.authority,
           y.mode = x.mode, y.extra = x.extra
    PROVE  Less(x) = y
BY DEF Streams, Less

\* The network carries host and path (xray).
XHosted(n, h, tcp) ==
    \/ n \in tcp /\ h \notin {"empty", "none"}
    \/ n \in {"ws", "httpupgrade", "splithttp", "xhttp"}

\* Xray!Stream field by field.
XStream(n, h, host, p, s, a, m, e, tcp) ==
    [network |-> n,
     host |-> IF XHosted(n, h, tcp) THEN host ELSE "empty",
     path |-> IF XHosted(n, h, tcp) THEN p ELSE NoPath,
     service |-> IF n = "grpc" THEN s ELSE NoPath,
     authority |-> IF n = "grpc" THEN a ELSE "empty",
     mode |-> IF n = "xhttp" THEN Or(m, "auto")
              ELSE IF n = "grpc" THEN (IF m = "multi" THEN "multi" ELSE "gun") ELSE "empty",
     extra |-> IF n = "xhttp" THEN e ELSE "empty"]

\* The switch on the network sets exactly these fields.
LEMMA XrayStream ==
    ASSUME NEW n, NEW h, NEW host, NEW p, NEW s, NEW a, NEW m, NEW e, NEW tcp,
           n \in Text, h \in Text, host \in Text, p \in Path, s \in Path, a \in Text, m \in Text, e \in Text,
           tcp \in {{"tcp"}, {"tcp", "raw"}}
    PROVE  Xray!Stream(n, h, host, p, s, a, m, e, tcp) = XStream(n, h, host, p, s, a, m, e, tcp)
<1> USE DEF Xray!Stream, XStream, XHosted, Xray!NoStream, Xray!NoPath, NoPath, Xray!Or, Or
<1>1. CASE n \in tcp
  <2>1. CASE h \in {"empty", "none"}
    BY <1>1, <2>1
  <2>2. CASE h \notin {"empty", "none"}
    BY <1>1, <2>2
  <2> QED  BY <2>1, <2>2
<1>2. CASE n \in {"ws", "httpupgrade", "splithttp"}
  BY <1>2
<1>3. CASE n = "xhttp"
  BY <1>3
<1>4. CASE n = "grpc"
  BY <1>4
<1>5. CASE /\ n \notin tcp
           /\ n \notin {"ws", "httpupgrade", "splithttp", "xhttp", "grpc"}
  BY <1>5
<1> QED  BY <1>1, <1>2, <1>3, <1>4, <1>5

\* Its type, and what a trimmed service name makes of it.
LEMMA XStreamCut ==
    ASSUME NEW n, NEW h, NEW host, NEW p, NEW s, NEW a, NEW m, NEW e, NEW tcp,
           n \in Text, h \in Text, host \in Text, p \in Path, s \in Path, a \in Text, m \in Text, e \in Text,
            tcp \in {{"tcp"}, {"tcp", "raw"}}
    PROVE  /\ XStream(n, h, host, p, s, a, m, e, tcp) \in Streams
           /\ Less(XStream(n, h, host, p, s, a, m, e, tcp))
                = XStream(n, h, host, p, TrimSlash(s), a, m, e, tcp)
<1>1. Or(m, "auto") \in Text
  BY TextAssumption DEF Or
<1>2. \A r \in Path : XStream(n, h, host, p, r, a, m, e, tcp) \in Streams
  BY <1>1, NoPathType, TextAssumption DEF XStream, Streams
<1>3. Less(XStream(n, h, host, p, s, a, m, e, tcp))
        = XStream(n, h, host, p, TrimSlash(s), a, m, e, tcp)
  <2> DEFINE x == XStream(n, h, host, p, s, a, m, e, tcp)
             y == XStream(n, h, host, p, TrimSlash(s), a, m, e, tcp)
  <2>1. x.service = (IF n = "grpc" THEN s ELSE NoPath) /\ y.service = IF n = "grpc" THEN TrimSlash(s) ELSE NoPath
    BY DEF XStream
  <2>2. y.service = TrimSlash(x.service)
    BY <2>1, NoPathType
  <2>3. /\ y.network = x.network /\ y.host = x.host /\ y.path = x.path /\ y.authority = x.authority
        /\ y.mode = x.mode /\ y.extra = x.extra
    BY DEF XStream
  <2>4. x \in Streams /\ y \in Streams
    BY <1>2, TrimType
  <2> HIDE DEF x, y
  <2>5. Less(x) = y
    BY <2>2, <2>3, <2>4, CutStream
  <2> QED  BY <2>5 DEF x, y
<1> QED  BY <1>2, <1>3

\* Box!Stream field by field.
BHosted(n) == n \in {"ws", "http", "httpupgrade"}
BStream(n, host, p, s) ==
    [network |-> n, host |-> IF BHosted(n) THEN host ELSE "empty", path |-> IF BHosted(n) THEN p ELSE NoPath,
     service |-> IF n = "grpc" THEN s ELSE NoPath, authority |-> "empty", mode |-> "empty", extra |-> "empty"]

\* The switch on the network sets exactly these fields.
LEMMA BoxStream ==
    ASSUME NEW n, NEW host, NEW p, NEW s, n \in Text, host \in Text, p \in Path, s \in Path
    PROVE  Box!Stream(n, host, p, s) = BStream(n, host, p, s)
<1> USE DEF Box!Stream, BStream, BHosted, Box!NoStream, Box!NoPath, NoPath
<1>1. CASE n \in {"ws", "http", "httpupgrade"}
  BY <1>1
<1>2. CASE n = "grpc"
  BY <1>2
<1>3. CASE n \notin {"ws", "http", "httpupgrade", "grpc"}
  BY <1>3
<1> QED  BY <1>1, <1>2, <1>3

\* Its type, and what a trimmed service name makes of it.
LEMMA BStreamCut ==
    ASSUME NEW n, NEW host, NEW p, NEW s,
           n \in Text, host \in Text, p \in Path, s \in Path
    PROVE  /\ BStream(n, host, p, s) \in Streams
           /\ Less(BStream(n, host, p, s)) = BStream(n, host, p, TrimSlash(s))
<1>1. \A r \in Path : BStream(n, host, p, r) \in Streams
  BY NoPathType, TextAssumption DEF BStream, Streams
<1>2. Less(BStream(n, host, p, s)) = BStream(n, host, p, TrimSlash(s))
  <2> DEFINE x == BStream(n, host, p, s)
             y == BStream(n, host, p, TrimSlash(s))
  <2>1. x.service = (IF n = "grpc" THEN s ELSE NoPath) /\ y.service = IF n = "grpc" THEN TrimSlash(s) ELSE NoPath
    BY DEF BStream
  <2>2. y.service = TrimSlash(x.service)
    BY <2>1, NoPathType
  <2>3. /\ y.network = x.network /\ y.host = x.host /\ y.path = x.path /\ y.authority = x.authority
        /\ y.mode = x.mode /\ y.extra = x.extra
    BY DEF BStream
  <2>4. x \in Streams /\ y \in Streams
    BY <1>1, TrimType
  <2> HIDE DEF x, y
  <2>5. Less(x) = y
    BY <2>2, <2>3, <2>4, CutStream
  <2> QED  BY <2>5 DEF x, y
<1> QED  BY <1>1, <1>2

-----------------------------------------------------------------------------
(* TLS *)

\* TLS settings have their type.
LEMMA SecuredType ==
    ASSUME NEW q \in Query, NEW on \in BOOLEAN
    PROVE  /\ Xray!TLSSettings(q, AllowInsecure) \in Securities
           /\ Xray!Secured(q, AllowInsecure) \in Securities
           /\ Box!TLSOptions(q, on, AllowInsecure) \in Securities
           /\ NoTLS \in Securities
<1>1. NoTLS \in Securities
  BY TextAssumption DEF NoTLS, Securities
<1>2. \A a, b \in Text : Xray!Or(a, b) \in Text
  BY DEF Xray!Or
<1>3. Xray!TLSSettings(q, AllowInsecure) \in Securities
  BY <1>2, TextAssumption, BoundsAssumption DEF Xray!TLSSettings, Securities, Query, Xray!Insecure
<1>4. Xray!RealitySettings(q) \in Securities
  BY <1>2, TextAssumption DEF Xray!RealitySettings, Securities, Query
<1>5. Xray!Secured(q, AllowInsecure) \in Securities
  BY <1>1, <1>3, <1>4 DEF Xray!Secured, NoTLS, Xray!NoTLS
<1>6. Box!TLSOptions(q, on, AllowInsecure) \in Securities
  BY TextAssumption, BoundsAssumption DEF Box!TLSOptions, Securities, Query, Box!Insecure
<1> QED  BY <1>1, <1>3, <1>5, <1>6

-----------------------------------------------------------------------------
(* Objects after a build *)

\* w is v but for service name, path, flow and fingerprint.
Same(w, v) ==
    /\ w \in Object /\ w.proto = v.proto /\ w.address = v.address /\ w.id = v.id /\ w.pass = v.pass
    /\ w.port = v.port /\ w.padded = v.padded /\ w.certs = v.certs
    /\ w.q.type = v.q.type /\ w.q.headerType = v.q.headerType /\ w.q.host = v.q.host
    /\ w.q.authority = v.q.authority /\ w.q.mode = v.q.mode /\ w.q.extra = v.q.extra
    /\ w.q.encryption = v.q.encryption /\ w.q.security = v.q.security /\ w.q.sni = v.q.sni
    /\ w.q.alpn = v.q.alpn /\ w.q.allowInsecure = v.q.allowInsecure /\ w.q.pcs = v.q.pcs
    /\ w.q.pbk = v.q.pbk /\ w.q.obfs = v.q.obfs /\ w.q.reserved = v.q.reserved /\ w.q.local = v.q.local
    /\ w.q.mtu = v.q.mtu

\* Updates of one option. They keep the others.
WithService(v, p) == [v EXCEPT !.q.serviceName = p]
WithPath(v, p) == [v EXCEPT !.q.path = p]
NoFlow(v) == [v EXCEPT !.q.flow = "empty"]
WithFp(v, f) == [v EXCEPT !.q.fp = f]

\* Another service name.
LEMMA UpdateService ==
    ASSUME NEW v \in Object, NEW p \in Path, NEW w, w = WithService(v, p)
    PROVE  /\ Same(w, v) /\ w.q.serviceName = p
           /\ w.q.path = v.q.path /\ w.q.flow = v.q.flow /\ w.q.fp = v.q.fp
<1>1. w \in Object
  BY DEF Object, Query, WithService
<1>2. w.q = [v.q EXCEPT !.serviceName = p]
  BY DEF Object, Query, WithService
<1> QED  BY ZenonT(60), <1>1, <1>2 DEF Same, Object, Query, WithService
\* Another path.
LEMMA UpdatePath ==
    ASSUME NEW v \in Object, NEW p \in Path, NEW w, w = WithPath(v, p)
    PROVE  /\ Same(w, v) /\ w.q.path = p
           /\ w.q.serviceName = v.q.serviceName /\ w.q.flow = v.q.flow /\ w.q.fp = v.q.fp
<1>1. w \in Object
  BY DEF Object, Query, WithPath
<1>2. w.q = [v.q EXCEPT !.path = p]
  BY DEF Object, Query, WithPath
<1> QED  BY ZenonT(60), <1>1, <1>2 DEF Same, Object, Query, WithPath
\* No flow.
LEMMA UpdateNoFlow ==
    ASSUME NEW v \in Object, NEW w, w = NoFlow(v)
    PROVE  /\ Same(w, v) /\ w.q.flow = "empty"
           /\ w.q.serviceName = v.q.serviceName /\ w.q.path = v.q.path /\ w.q.fp = v.q.fp
<1>1. w \in Object
  BY TextAssumption DEF Object, Query, NoFlow
<1>2. w.q = [v.q EXCEPT !.flow = "empty"]
  BY DEF Object, Query, NoFlow
<1> QED  BY ZenonT(60), <1>1, <1>2 DEF Same, Object, Query, NoFlow
\* Another fingerprint.
LEMMA UpdateFp ==
    ASSUME NEW v \in Object, NEW f \in Text, NEW w, w = WithFp(v, f)
    PROVE  /\ Same(w, v) /\ w.q.fp = f
           /\ w.q.serviceName = v.q.serviceName /\ w.q.path = v.q.path /\ w.q.flow = v.q.flow
<1>1. w \in Object
  BY DEF Object, Query, WithFp
<1>2. w.q = [v.q EXCEPT !.fp = f]
  BY DEF Object, Query, WithFp
<1> QED  BY ZenonT(60), <1>1, <1>2 DEF Same, Object, Query, WithFp

\* Same is a preorder on objects.
LEMMA SameTwice ==
    ASSUME NEW u, NEW v, NEW w, Same(w, u), Same(u, v)
    PROVE  Same(w, v)
BY DEF Same
\* Every object is the same as itself.
LEMMA SameSelf ==
    ASSUME NEW v \in Object
    PROVE  Same(v, v)
BY DEF Same

\* grpc loses a slash.
TrimIf(v, p) == IF v.q.type = "grpc" THEN TrimSlash(p) ELSE p

\* VLESS and Trojan of the xray core: also the flow is forgotten.
LEMMA XrayTrimmed ==
    ASSUME NEW v \in Object, NEW w, w = Xray!VlessTrimmed(v)
    PROVE  /\ Same(w, v) /\ w.q.serviceName = TrimIf(v, v.q.serviceName) /\ w.q.path = v.q.path
           /\ w.q.flow = (IF v.q.type = "grpc" THEN "empty" ELSE v.q.flow) /\ w.q.fp = v.q.fp
           /\ w = Xray!TrojanTrimmed(v)
<1>1. w = Xray!TrojanTrimmed(v)
  BY DEF Xray!VlessTrimmed, Xray!TrojanTrimmed
<1>2. CASE v.q.type = "grpc"
  <2>1. v.q.serviceName \in Path
    BY DEF Object, Query
  <2>2. PICK u : u = WithService(v, TrimSlash(v.q.serviceName))
    OBVIOUS
  <2>3. w = [v EXCEPT !.q.serviceName = TrimSlash(v.q.serviceName), !.q.flow = "empty"]
    BY <1>2, <2>1, TrimType DEF Xray!VlessTrimmed
  <2>4. w = NoFlow(u)
    BY <2>2, <2>3 DEF WithService, NoFlow
  <2>5. /\ Same(u, v) /\ u.q.serviceName = TrimSlash(v.q.serviceName)
        /\ u.q.path = v.q.path /\ u.q.flow = v.q.flow /\ u.q.fp = v.q.fp
    BY <2>1, <2>2, TrimType, UpdateService
  <2>6. /\ Same(w, u) /\ w.q.flow = "empty" /\ w.q.serviceName = u.q.serviceName
        /\ w.q.path = u.q.path /\ w.q.fp = u.q.fp
    <3>1. u \in Object
      BY <2>5 DEF Same
    <3> QED  BY <3>1, <2>4, UpdateNoFlow
  <2>7. Same(w, v)
    BY <2>5, <2>6, SameTwice
  <2> QED  BY <1>1, <1>2, <2>5, <2>6, <2>7 DEF TrimIf
<1>3. CASE v.q.type # "grpc"
  BY <1>1, <1>3, SameSelf DEF Xray!VlessTrimmed, TrimIf
<1> QED  BY <1>2, <1>3

\* VLESS and Trojan of the sing-box core, and listeners of both.
LEMMA BoxTrimmed ==
    ASSUME NEW v \in Object, NEW w, w = Box!VlessTrimmed(v)
    PROVE  /\ Same(w, v) /\ w.q.serviceName = TrimIf(v, v.q.serviceName) /\ w.q.path = v.q.path
           /\ w.q.flow = v.q.flow /\ w.q.fp = v.q.fp
           /\ w = Box!TrojanTrimmed(v) /\ w = Xray!AfterInbound(v)
<1>1. v.q.serviceName \in Path
  BY DEF Object, Query
<1>2. w = Box!TrojanTrimmed(v) /\ w = Xray!AfterInbound(v)
  BY <1>1, TrimType DEF Box!VlessTrimmed, Box!TrojanTrimmed, Xray!AfterInbound
<1>3. CASE v.q.type = "grpc"
  <2>1. w = WithService(v, TrimSlash(v.q.serviceName))
    BY <1>1, <1>3, TrimType DEF Box!VlessTrimmed, WithService
  <2> QED  BY <1>1, <1>2, <1>3, <2>1, TrimType, UpdateService DEF TrimIf
<1>4. CASE v.q.type # "grpc"
  BY <1>2, <1>4, SameSelf DEF Box!VlessTrimmed, TrimIf
<1> QED  BY <1>3, <1>4

\* VMess, whose service name is its path.
LEMMA VmessTrimmed ==
    ASSUME NEW v \in Object, NEW w, w = Xray!VmessTrimmed(v)
    PROVE  /\ Same(w, v) /\ w.q.path = TrimIf(v, v.q.path) /\ w.q.serviceName = v.q.serviceName
           /\ w.q.flow = v.q.flow /\ w.q.fp = v.q.fp
           /\ w = Box!VmessTrimmed(v)
<1>1. v.q.path \in Path
  BY DEF Object, Query
<1>2. w = Box!VmessTrimmed(v)
  BY <1>1, TrimType DEF Box!VmessTrimmed, Xray!VmessTrimmed
<1>3. CASE v.q.type = "grpc"
  <2>1. w = WithPath(v, TrimSlash(v.q.path))
    BY <1>1, <1>3, TrimType DEF Xray!VmessTrimmed, WithPath
  <2> QED  BY <1>1, <1>2, <1>3, <2>1, TrimType, UpdatePath DEF TrimIf
<1>4. CASE v.q.type # "grpc"
  BY <1>2, <1>4, SameSelf DEF Xray!VmessTrimmed, TrimIf
<1> QED  BY <1>3, <1>4

\* VMess after a build of the xray core: the fingerprint is the one every build uses.
LEMMA VmessBuilt ==
    ASSUME NEW v \in Object, NEW w, w = Xray!VmessAfterBuild(v)
    PROVE  /\ Same(w, v) /\ w.q.path = TrimIf(v, v.q.path)
           /\ w.q.flow = v.q.flow
           /\ v.q.security = "tls" => Or(w.q.fp, "chrome") = Or(v.q.fp, "chrome")
<1>1. PICK u : u = Xray!VmessTrimmed(v)
  OBVIOUS
<1>2. /\ Same(u, v) /\ u.q.path = TrimIf(v, v.q.path)
      /\ u.q.flow = v.q.flow /\ u.q.fp = v.q.fp
  BY <1>1, VmessTrimmed
<1>3. CASE v.q.security = "tls"
  <2>1. u.q.fp \in Text /\ u \in Object
    BY <1>2 DEF Same, Object, Query
  <2>2. w = WithFp(u, Or(u.q.fp, "chrome"))
    BY <1>1, <1>3 DEF WithFp, Xray!VmessAfterBuild, Xray!Or, Or
  <2>3. Or(u.q.fp, "chrome") \in Text /\ Or(Or(u.q.fp, "chrome"), "chrome") = Or(u.q.fp, "chrome")
    BY <2>1, TextAssumption DEF Or
  <2>4. /\ Same(w, u) /\ w.q.fp = Or(u.q.fp, "chrome")
        /\ w.q.path = u.q.path /\ w.q.flow = u.q.flow
    BY <2>1, <2>2, <2>3, UpdateFp
  <2>5. Same(w, v)
    BY <1>2, <2>4, SameTwice
  <2> QED  BY <1>2, <2>3, <2>4, <2>5
<1>4. CASE v.q.security # "tls"
  BY <1>1, <1>2, <1>4 DEF Xray!VmessAfterBuild
<1> QED  BY <1>3, <1>4

-----------------------------------------------------------------------------
(* Outbounds, field by field *)

\* The fields of an object have their types.
LEMMA ObjectFields ==
    ASSUME NEW v \in Object
    PROVE  /\ v.q \in Query /\ v.port \in Nat /\ v.pass \in Text /\ v.id \in Text
           /\ v.proto \in Text /\ v.address \in Text
           /\ v.q.type \in Text /\ v.q.headerType \in Text /\ v.q.host \in Text /\ v.q.authority \in Text
           /\ v.q.mode \in Text /\ v.q.extra \in Text /\ v.q.flow \in Text /\ v.q.encryption \in Text
           /\ v.q.path \in Path /\ v.q.serviceName \in Path
BY DEF Object, Query

\* The streams of the protocols, and the TLS settings of VMess.
XVless(v) ==
    XStream(v.q.type, v.q.headerType, v.q.host, v.q.path, TrimSlash(v.q.serviceName), v.q.authority, v.q.mode,
            v.q.extra, {"tcp", "raw"})
XTrojan(v) ==
    XStream(v.q.type, v.q.headerType, v.q.host, v.q.path, TrimSlash(v.q.serviceName), v.q.authority, v.q.mode,
            "empty", {"tcp"})
XVmess(v) ==
    XStream(v.q.type, v.q.headerType, v.q.host, v.q.path, TrimSlash(v.q.path), v.q.host, v.q.headerType, "empty",
            {"tcp"})
XVmessTLS(v) ==
    IF v.q.security = "tls"
    THEN Xray!TLSSettings([v.q EXCEPT !.allowInsecure = IF @ = "bool" THEN "true" ELSE @], AllowInsecure)
    ELSE NoTLS
Flow(v) == IF v.q.type = "grpc" THEN "empty" ELSE v.q.flow

\* They are what the builds compute on the trimmed object.
LEMMA XVlessStream ==
    ASSUME NEW v \in Object
    PROVE  /\ Xray!VlessStream(Xray!VlessTrimmed(v)) = XVless(v) /\ XVless(v) \in Streams
           /\ Xray!VlessTrimmed(v).q.flow = Flow(v)
<1>1. PICK u : u = Xray!VlessTrimmed(v)
  OBVIOUS
<1>2. /\ Same(u, v) /\ u.q.serviceName = TrimIf(v, v.q.serviceName) /\ u.q.path = v.q.path
      /\ u.q.flow = Flow(v)
  BY <1>1, XrayTrimmed DEF Flow
<1>3. Xray!VlessStream(u) = XStream(u.q.type, u.q.headerType, u.q.host, u.q.path, u.q.serviceName,
                                    u.q.authority, u.q.mode, u.q.extra, {"tcp", "raw"})
  <2>1. u \in Object
    BY <1>2 DEF Same
  <2> QED  BY <2>1, ObjectFields, XrayStream DEF Xray!VlessStream
<1>4. @ = XVless(v)
  BY <1>2 DEF XVless, XStream, TrimIf, Same
<1>5. XVless(v) \in Streams
  BY ObjectFields, TrimType, XStreamCut DEF XVless
<1> QED  BY <1>1, <1>2, <1>3, <1>4, <1>5

\* Trojan of the xray core.
LEMMA XTrojanStream ==
    ASSUME NEW v \in Object
    PROVE  /\ Xray!TrojanStream(Xray!TrojanTrimmed(v)) = XTrojan(v) /\ XTrojan(v) \in Streams
           /\ Xray!TrojanTrimmed(v).q.flow = Flow(v)
<1>1. PICK u : u = Xray!TrojanTrimmed(v)
  OBVIOUS
<1>2. /\ Same(u, v) /\ u.q.serviceName = TrimIf(v, v.q.serviceName) /\ u.q.path = v.q.path
      /\ u.q.flow = Flow(v)
  BY <1>1, XrayTrimmed DEF Flow
<1>3. Xray!TrojanStream(u) = XStream(u.q.type, u.q.headerType, u.q.host, u.q.path, u.q.serviceName,
                                     u.q.authority, u.q.mode, "empty", {"tcp"})
  <2>1. u \in Object
    BY <1>2 DEF Same
  <2> QED  BY <2>1, ObjectFields, XrayStream, TextAssumption DEF Xray!TrojanStream
<1>4. @ = XTrojan(v)
  BY <1>2 DEF XTrojan, XStream, TrimIf, Same
<1>5. XTrojan(v) \in Streams
  BY ObjectFields, TrimType, XStreamCut, TextAssumption DEF XTrojan
<1> QED  BY <1>1, <1>2, <1>3, <1>4, <1>5

\* VMess of the xray core.
LEMMA XVmessStream ==
    ASSUME NEW v \in Object
    PROVE  Xray!VmessStream(Xray!VmessTrimmed(v)) = XVmess(v) /\ XVmess(v) \in Streams
<1>1. PICK u : u = Xray!VmessTrimmed(v)
  OBVIOUS
<1>2. Same(u, v) /\ u.q.path = TrimIf(v, v.q.path)
  BY <1>1, VmessTrimmed
<1>3. Xray!VmessStream(u) = XStream(u.q.type, u.q.headerType, u.q.host, u.q.path, u.q.path,
                                    u.q.host, u.q.headerType, "empty", {"tcp"})
  <2>1. u \in Object
    BY <1>2 DEF Same
  <2> QED  BY <2>1, ObjectFields, XrayStream, TextAssumption DEF Xray!VmessStream
<1>4. @ = XVmess(v)
  BY <1>2 DEF XVmess, XStream, XHosted, TrimIf, Same
<1>5. XVmess(v) \in Streams
  BY ObjectFields, TrimType, XStreamCut, TextAssumption DEF XVmess
<1> QED  BY <1>1, <1>2, <1>3, <1>4, <1>5

BVless(v) == BStream(v.q.type, v.q.host, v.q.path, TrimSlash(v.q.serviceName))
BVmess(v) == BStream(v.q.type, v.q.host, v.q.path, TrimSlash(v.q.path))

\* VLESS and Trojan of the sing-box core.
LEMMA BVlessStream ==
    ASSUME NEW v \in Object
    PROVE  /\ Box!Stream(v.q.type, v.q.host, v.q.path, Box!VlessTrimmed(v).q.serviceName) = BVless(v)
           /\ Box!TrojanTrimmed(v) = Box!VlessTrimmed(v) /\ BVless(v) \in Streams
<1>1. PICK u : u = Box!VlessTrimmed(v)
  OBVIOUS
<1>2. u.q.serviceName = TrimIf(v, v.q.serviceName) /\ u = Box!TrojanTrimmed(v)
  BY <1>1, BoxTrimmed
<1>3. Box!Stream(v.q.type, v.q.host, v.q.path, u.q.serviceName)
        = BStream(v.q.type, v.q.host, v.q.path, u.q.serviceName)
  BY <1>2, ObjectFields, TrimType, BoxStream DEF TrimIf
<1>4. @ = BVless(v)
  BY <1>2 DEF BVless, BStream, TrimIf
<1>5. BVless(v) \in Streams
  BY ObjectFields, TrimType, BStreamCut DEF BVless
<1> QED  BY <1>1, <1>2, <1>3, <1>4, <1>5

\* VMess of the sing-box core.
LEMMA BVmessStream ==
    ASSUME NEW v \in Object
    PROVE  /\ Box!Stream(v.q.type, v.q.host, v.q.path, Box!VmessTrimmed(v).q.path) = BVmess(v)
           /\ BVmess(v) \in Streams
<1>1. PICK u : u = Xray!VmessTrimmed(v)
  OBVIOUS
<1>2. u.q.path = TrimIf(v, v.q.path) /\ u = Box!VmessTrimmed(v)
  BY <1>1, VmessTrimmed
<1>3. Box!Stream(v.q.type, v.q.host, v.q.path, u.q.path) = BStream(v.q.type, v.q.host, v.q.path, u.q.path)
  BY <1>2, ObjectFields, TrimType, BoxStream DEF TrimIf
<1>4. @ = BVmess(v)
  BY <1>2 DEF BVmess, BStream, TrimIf
<1>5. BVmess(v) \in Streams
  BY ObjectFields, TrimType, BStreamCut DEF BVmess
<1> QED  BY <1>2, <1>3, <1>4, <1>5

\* The outbounds of VLESS, Trojan and VMess.
LEMMA XrayVless ==
    ASSUME NEW v \in Object
    PROVE  Xray!VlessOutbound(v, AllowInsecure) =
             IF Port16(v.port)
             THEN Endpoint(v, v.port, XVless(v), Xray!Secured(v.q, AllowInsecure), Flow(v), Or(v.q.encryption, "none"))
             ELSE Fail
BY XVlessStream, EndpointSame DEF Xray!VlessOutbound, Xray!Port16, Port16, Xray!Fail, Fail, Xray!Or, Or
\* Trojan of the xray core.
LEMMA XrayTrojan ==
    ASSUME NEW v \in Object
    PROVE  Xray!TrojanOutbound(v, AllowInsecure) =
             IF Port16(v.port)
             THEN Endpoint(v, v.port, XTrojan(v), Xray!Secured(v.q, AllowInsecure), Flow(v), v.q.encryption)
             ELSE Fail
BY XTrojanStream, EndpointSame DEF Xray!TrojanOutbound, Xray!Port16, Port16, Xray!Fail, Fail
\* VMess of the xray core.
LEMMA XrayVmess ==
    ASSUME NEW v \in Object
    PROVE  Xray!VmessOutbound(v, AllowInsecure) =
             IF Port16(v.port) /\ v.port # 0
             THEN Endpoint(v, v.port, XVmess(v), XVmessTLS(v), v.q.flow, Or(v.q.encryption, "auto"))
             ELSE Fail
<1>1. PICK t : t = XVmessTLS(v)
  OBVIOUS
<1>2. Xray!VmessOutbound(v, AllowInsecure) =
        IF ~Port16(v.port) \/ v.port = 0 THEN Fail
        ELSE Xray!Endpoint(v, v.port, Xray!VmessStream(Xray!VmessTrimmed(v)), t, v.q.flow, Xray!Or(v.q.encryption, "auto"))
  BY <1>1 DEF Xray!VmessOutbound, XVmessTLS, Xray!Port16, Port16, Xray!Fail, Fail, Xray!NoTLS, NoTLS
<1> QED  BY <1>1, <1>2, XVmessStream, EndpointSame DEF Xray!Or, Or
\* VLESS of the sing-box core, which keeps the port's last 16 bits.
LEMMA BoxVless ==
    ASSUME NEW v \in Object
    PROVE  Box!VlessOutbound(v, AllowInsecure) =
             IF v.q.type = "tcp" THEN Fail
             ELSE Endpoint(v, v.port % 65536, BVless(v),
                           Box!TLSOptions(v.q, v.q.security \in {"tls", "reality"}, AllowInsecure),
                           v.q.flow, v.q.encryption)
<1>1. PICK t : t = Box!TLSOptions(v.q, v.q.security \in {"tls", "reality"}, AllowInsecure)
  OBVIOUS
<1>2. Box!VlessOutbound(v, AllowInsecure) =
        IF v.q.type = "tcp" THEN Fail
        ELSE Box!Endpoint(v, Box!Truncated(v.port),
                          Box!Stream(v.q.type, v.q.host, v.q.path, Box!VlessTrimmed(v).q.serviceName), t,
                          v.q.flow, v.q.encryption)
  BY <1>1 DEF Box!VlessOutbound, Box!Fail, Fail
<1> QED  BY <1>1, <1>2, BVlessStream, EndpointSame DEF Box!Truncated
\* Trojan of the sing-box core.
LEMMA BoxTrojan ==
    ASSUME NEW v \in Object
    PROVE  Box!TrojanOutbound(v, AllowInsecure) =
             Endpoint(v, v.port % 65536, BVless(v),
                      Box!TLSOptions(v.q, v.q.security \in {"tls", "reality"}, AllowInsecure),
                      "empty", v.q.encryption)
<1>1. PICK t : t = Box!TLSOptions(v.q, v.q.security \in {"tls", "reality"}, AllowInsecure)
  OBVIOUS
<1>2. Box!TrojanOutbound(v, AllowInsecure) =
        Box!Endpoint(v, Box!Truncated(v.port),
                     Box!Stream(v.q.type, v.q.host, v.q.path, Box!TrojanTrimmed(v).q.serviceName), t,
                     "empty", v.q.encryption)
  BY <1>1 DEF Box!TrojanOutbound
<1> QED  BY <1>1, <1>2, BVlessStream, EndpointSame DEF Box!Truncated
BVmessTLS(v) == Box!TLSOptions([v.q EXCEPT !.security = "empty"], v.q.security = "tls", AllowInsecure)
\* VMess of the sing-box core.
LEMMA BoxVmess ==
    ASSUME NEW v \in Object
    PROVE  Box!VmessOutbound(v, AllowInsecure) =
             IF v.port = 0 THEN Fail
             ELSE Endpoint(v, v.port % 65536, BVmess(v), BVmessTLS(v), v.q.flow, v.q.encryption)
<1>1. PICK t : t = BVmessTLS(v)
  OBVIOUS
<1>2. Box!VmessOutbound(v, AllowInsecure) =
        IF v.port = 0 THEN Fail
        ELSE Box!Endpoint(v, Box!Truncated(v.port),
                          Box!Stream(v.q.type, v.q.host, v.q.path, Box!VmessTrimmed(v).q.path), t,
                          v.q.flow, v.q.encryption)
  BY <1>1 DEF Box!VmessOutbound, BVmessTLS, Box!Fail, Fail
<1> QED  BY <1>1, <1>2, BVmessStream, EndpointSame DEF Box!Truncated

-----------------------------------------------------------------------------
(* Every outbound is an endpoint or a failure *)

\* TLS settings of VMess.
LEMMA VmessTLSType ==
    ASSUME NEW v \in Object
    PROVE  XVmessTLS(v) \in Securities /\ BVmessTLS(v) \in Securities
<1>1. PICK q : q = [v.q EXCEPT !.allowInsecure = IF @ = "bool" THEN "true" ELSE @]
  OBVIOUS
<1>2. PICK r : r = [v.q EXCEPT !.security = "empty"]
  OBVIOUS
<1>3. q \in Query /\ r \in Query
  BY <1>1, <1>2, ObjectFields, TextAssumption DEF Query
<1>4. XVmessTLS(v) \in Securities
  BY <1>1, <1>3, SecuredType DEF XVmessTLS
<1>5. BVmessTLS(v) \in Securities
  <2>1. PICK on \in BOOLEAN : on = (v.q.security = "tls")
    OBVIOUS
  <2>2. Box!TLSOptions(r, on, AllowInsecure) \in Securities
    BY <1>3, SecuredType
  <2> QED  BY <1>2, <2>1, <2>2 DEF BVmessTLS
<1> QED  BY <1>4, <1>5

\* TLS of VLESS and Trojan, sing-box.
LEMMA BoxTLSType ==
    ASSUME NEW v \in Object
    PROVE  Box!TLSOptions(v.q, v.q.security \in {"tls", "reality"}, AllowInsecure) \in Securities
<1> DEFINE on == v.q.security \in {"tls", "reality"}
<1>1. on \in BOOLEAN
  OBVIOUS
<1> HIDE DEF on
<1>2. Box!TLSOptions(v.q, on, AllowInsecure) \in Securities
  BY <1>1, ObjectFields, SecuredType
<1> QED  BY <1>2 DEF on

\* Streams without options.
LEMMA PlainStreams ==
    /\ Xray!NoStream = NoStream /\ Box!NoStream = NoStream /\ Xray!NoTLS = NoTLS /\ Box!NoTLS = NoTLS
    /\ Xray!Fail = Fail /\ Box!Fail = Fail
    /\ NoStream \in Streams /\ NoStream.service = NoPath
    /\ \A n \in Text : /\ [NoStream EXCEPT !.network = n] \in Streams
                       /\ [NoStream EXCEPT !.network = n].service = NoPath
                       /\ [NoStream EXCEPT !.network = n].network = n
<1>1. /\ Xray!NoStream = NoStream /\ Box!NoStream = NoStream /\ Xray!NoTLS = NoTLS /\ Box!NoTLS = NoTLS
      /\ Xray!Fail = Fail /\ Box!Fail = Fail
  BY DEF Xray!NoStream, Box!NoStream, NoStream, Xray!NoPath, Box!NoPath, NoPath, Xray!NoTLS, Box!NoTLS, NoTLS,
         Xray!Fail, Box!Fail, Fail
<1>2. NoStream \in Streams /\ NoStream.service = NoPath
  BY NoPathType, TextAssumption DEF NoStream, Streams
<1>3. \A n \in Text : /\ [NoStream EXCEPT !.network = n] \in Streams
                      /\ [NoStream EXCEPT !.network = n].service = NoPath
                      /\ [NoStream EXCEPT !.network = n].network = n
  BY <1>2 DEF Streams
<1> QED  BY <1>1, <1>2, <1>3

\* TLS of Hysteria2.
LEMMA Hysteria2TLSType ==
    ASSUME NEW n \in Text, NEW lax \in BOOLEAN
    PROVE  /\ [NoTLS EXCEPT !.on = TRUE, !.serverName = n, !.lax = lax] \in Securities
           /\ [NoTLS EXCEPT !.on = TRUE, !.serverName = n, !.lax = lax].on
           /\ [NoTLS EXCEPT !.on = TRUE, !.serverName = n, !.lax = lax].reality = "empty"
<1>1. NoTLS \in Securities /\ NoTLS.reality = "empty"
  BY TextAssumption DEF NoTLS, Securities
<1>2. PICK t : t = [NoTLS EXCEPT !.on = TRUE]
  OBVIOUS
<1>3. PICK u : u = [t EXCEPT !.serverName = n]
  OBVIOUS
<1>4. t \in Securities /\ t.on /\ t.reality = "empty"
  BY <1>1, <1>2 DEF Securities
<1>5. u \in Securities /\ u.on /\ u.reality = "empty"
  BY <1>3, <1>4 DEF Securities
<1>6. [u EXCEPT !.lax = lax] \in Securities /\ [u EXCEPT !.lax = lax].on /\ [u EXCEPT !.lax = lax].reality = "empty"
  BY <1>5 DEF Securities
<1>7. [NoTLS EXCEPT !.on = TRUE, !.serverName = n, !.lax = lax] = [u EXCEPT !.lax = lax]
  BY <1>2, <1>3
<1> QED  BY <1>6, <1>7

\* An endpoint whose stream has no service has none to cut.
LEMMA CutNothing ==
    ASSUME NEW e \in Endpoints, e.stream.service = NoPath
    PROVE  Cut(e) = e
<1>1. Less(e.stream) = e.stream
  BY NoPathType DEF Endpoints, Streams, Less
<1>2. [e EXCEPT !.stream.service = TrimSlash(@)] = [e EXCEPT !.stream = e.stream]
  BY <1>1 DEF Endpoints, Less
<1> QED  BY <1>2 DEF Endpoints, Cut

\* What holds of an object, its outbound and its next outbound.
Regular(c, o) ==
    LET e == Outbound(c, o) IN
    /\ e \in Endpoints \cup {Fail}
    /\ e.ok => e.server = o.address
    /\ AfterBuild(c, o) \in Object /\ AfterBuild(c, o).proto = o.proto
    /\ Outbound(c, AfterBuild(c, o)) = Cut(e)

\* The next outbound of an object, from its stream.
LEMMA NextOutbound ==
    ASSUME NEW v \in Object, NEW w, Same(w, v), NEW port, NEW s, NEW r, NEW t, NEW f, NEW e,
           port \in Nat, s \in Streams, t \in Securities, f \in Text, e \in Text,
           r = Less(s)
    PROVE  /\ Endpoint(v, port, s, t, f, e) \in Endpoints
           /\ Endpoint(v, port, s, t, f, e).ok
           /\ Endpoint(v, port, s, t, f, e).server = v.address
           /\ Endpoint(w, port, r, t, f, e) = Cut(Endpoint(v, port, s, t, f, e))
<1>1. Endpoint(v, port, s, t, f, e) \in Endpoints
  BY EndpointType
<1>2. Cut(Endpoint(v, port, s, t, f, e)) = Endpoint(v, port, r, t, f, e)
  BY CutEndpoint
<1>3. Endpoint(v, port, r, t, f, e) = Endpoint(w, port, r, t, f, e)
  BY DEF Endpoint, Same
<1> QED  BY <1>1, <1>2, <1>3 DEF Endpoint

\* The streams of the trimmed object.
LEMMA XVlessNext ==
    ASSUME NEW v \in Object, NEW w, w = Xray!VlessTrimmed(v)
    PROVE  /\ XVless(w) = Less(XVless(v))
           /\ XTrojan(w) = Less(XTrojan(v))
<1>1. Same(w, v) /\ w.q.serviceName = TrimIf(v, v.q.serviceName) /\ w.q.path = v.q.path
  BY XrayTrimmed
<1>2. TrimSlash(v.q.serviceName) \in Path
  BY ObjectFields, TrimType
<1>3. Less(XVless(v))
        = XStream(v.q.type, v.q.headerType, v.q.host, v.q.path, TrimSlash(TrimSlash(v.q.serviceName)),
                  v.q.authority, v.q.mode, v.q.extra, {"tcp", "raw"})
  BY <1>2, ObjectFields, XStreamCut DEF XVless
<1>4. @ = XVless(w)
  BY <1>1 DEF XVless, XStream, TrimIf, Same
<1>5. Less(XTrojan(v))
        = XStream(v.q.type, v.q.headerType, v.q.host, v.q.path, TrimSlash(TrimSlash(v.q.serviceName)),
                  v.q.authority, v.q.mode, "empty", {"tcp"})
  BY <1>2, ObjectFields, XStreamCut, TextAssumption DEF XTrojan
<1>6. @ = XTrojan(w)
  BY <1>1 DEF XTrojan, XStream, TrimIf, Same
<1> QED  BY <1>3, <1>4, <1>5, <1>6
\* VMess of the xray core.
LEMMA XVmessNext ==
    ASSUME NEW v \in Object, NEW w, Same(w, v), w.q.path = TrimIf(v, v.q.path)
    PROVE  XVmess(w) = Less(XVmess(v))
<1>1. TrimSlash(v.q.path) \in Path
  BY ObjectFields, TrimType
<1>2. Less(XVmess(v))
        = XStream(v.q.type, v.q.headerType, v.q.host, v.q.path, TrimSlash(TrimSlash(v.q.path)),
                  v.q.host, v.q.headerType, "empty", {"tcp"})
  BY <1>1, ObjectFields, XStreamCut, TextAssumption DEF XVmess
<1>3. @ = XVmess(w)
  BY DEF XVmess, XStream, XHosted, TrimIf, Same
<1> QED  BY <1>2, <1>3
\* All three of the sing-box core.
LEMMA BoxNext ==
    ASSUME NEW v \in Object, NEW w
    PROVE  /\ w = Box!VlessTrimmed(v) => BVless(w) = Less(BVless(v))
           /\ w = Box!VmessTrimmed(v) => BVmess(w) = Less(BVmess(v))
<1>1. TrimSlash(v.q.path) \in Path /\ TrimSlash(v.q.serviceName) \in Path
  BY ObjectFields, TrimType
<1>2. ASSUME w = Box!VlessTrimmed(v)
      PROVE  BVless(w) = Less(BVless(v))
  <2>1. Same(w, v) /\ w.q.serviceName = TrimIf(v, v.q.serviceName) /\ w.q.path = v.q.path
    BY <1>2, BoxTrimmed
  <2>2. Less(BVless(v))
          = BStream(v.q.type, v.q.host, v.q.path, TrimSlash(TrimSlash(v.q.serviceName)))
    BY <1>1, ObjectFields, BStreamCut DEF BVless
  <2>3. @ = BVless(w)
    BY <2>1 DEF BVless, BStream, TrimIf, Same
  <2> QED  BY <2>2, <2>3
<1>3. ASSUME w = Box!VmessTrimmed(v)
      PROVE  BVmess(w) = Less(BVmess(v))
  <2>1. Same(w, v) /\ w.q.path = TrimIf(v, v.q.path)
    BY <1>3, VmessTrimmed
  <2>2. Less(BVmess(v))
          = BStream(v.q.type, v.q.host, v.q.path, TrimSlash(TrimSlash(v.q.path)))
    BY <1>1, ObjectFields, BStreamCut DEF BVmess
  <2>3. @ = BVmess(w)
    BY <2>1 DEF BVmess, BStream, BHosted, TrimIf, Same
  <2> QED  BY <2>2, <2>3
<1> QED  BY <1>2, <1>3

\* An object is regular if its outbound and its next one are endpoints that
\* differ in the stream, or both fail.
LEMMA RegularBy ==
    ASSUME NEW c, NEW o \in Object, NEW w, Same(w, o), w = AfterBuild(c, o),
           NEW port, NEW s, NEW t, NEW f, NEW e,
           port \in Nat, s \in Streams, t \in Securities, f \in Text, e \in Text,
           \/ Outbound(c, o) = Endpoint(o, port, s, t, f, e) /\ Outbound(c, w) = Endpoint(w, port, Less(s), t, f, e)
           \/ Outbound(c, o) = Fail /\ Outbound(c, w) = Fail
    PROVE  Regular(c, o)
<1>1. PICK r : r = Less(s)
  OBVIOUS
<1>2. /\ Endpoint(o, port, s, t, f, e) \in Endpoints /\ Endpoint(o, port, s, t, f, e).ok
      /\ Endpoint(o, port, s, t, f, e).server = o.address
      /\ Endpoint(w, port, r, t, f, e) = Cut(Endpoint(o, port, s, t, f, e))
  BY <1>1, NextOutbound
<1>3. w \in Object /\ w.proto = o.proto
  BY DEF Same
<1> QED  BY <1>1, <1>2, <1>3 DEF Regular, Fail, Cut

\* VLESS, Trojan and VMess of the xray core.
LEMMA RegularXrayVless ==
    ASSUME NEW o \in Object, o.proto = "vless"
    PROVE  Regular("xray", o)
<1>1. PICK w : w = Xray!VlessTrimmed(o)
  OBVIOUS
<1>2. Same(w, o) /\ w.q.flow = Flow(o) /\ w.q.fp = o.q.fp
  BY <1>1, XrayTrimmed DEF Flow
<1>3. w \in Object /\ w.proto = o.proto /\ w.port = o.port
  BY <1>2 DEF Same
<1>4. /\ Xray!Secured(w.q, AllowInsecure) = Xray!Secured(o.q, AllowInsecure)
      /\ Flow(w) = Flow(o) /\ Or(w.q.encryption, "none") = Or(o.q.encryption, "none")
  BY <1>2 DEF Same, Flow, Xray!Secured, Xray!TLSSettings, Xray!RealitySettings
<1>5. /\ Flow(o) \in Text /\ Or(o.q.encryption, "none") \in Text /\ o.port \in Nat
      /\ XVless(o) \in Streams /\ Xray!Secured(o.q, AllowInsecure) \in Securities
  BY ObjectFields, XVlessStream, SecuredType, TextAssumption DEF Flow, Or
<1>6. XVless(w) = Less(XVless(o))
  BY <1>1, XVlessNext
<1>7. w = AfterBuild("xray", o)
  BY <1>1 DEF AfterBuild
<1>8. /\ Outbound("xray", o) = Xray!VlessOutbound(o, AllowInsecure)
      /\ Outbound("xray", w) = Xray!VlessOutbound(w, AllowInsecure)
  BY <1>3 DEF Outbound, XrayOutbound
<1>9. \/ /\ Outbound("xray", o) = Endpoint(o, o.port, XVless(o),
                                           Xray!Secured(o.q, AllowInsecure), Flow(o), Or(o.q.encryption, "none"))
         /\ Outbound("xray", w) = Endpoint(w, o.port, Less(XVless(o)),
                                           Xray!Secured(o.q, AllowInsecure), Flow(o), Or(o.q.encryption, "none"))
      \/ Outbound("xray", o) = Fail /\ Outbound("xray", w) = Fail
  BY <1>3, <1>4, <1>6, <1>8, XrayVless
<1> QED  BY <1>2, <1>5, <1>7, <1>9, RegularBy

\* Trojan: the build trims the service name of a gRPC network.
LEMMA RegularXrayTrojan ==
    ASSUME NEW o \in Object, o.proto = "trojan"
    PROVE  Regular("xray", o)
<1>1. PICK w : w = Xray!VlessTrimmed(o)
  OBVIOUS
<1>2. Same(w, o) /\ w.q.flow = Flow(o) /\ w.q.fp = o.q.fp /\ w = Xray!TrojanTrimmed(o)
  BY <1>1, XrayTrimmed DEF Flow
<1>3. w \in Object /\ w.proto = o.proto /\ w.port = o.port
  BY <1>2 DEF Same
<1>4. /\ Xray!Secured(w.q, AllowInsecure) = Xray!Secured(o.q, AllowInsecure)
      /\ Flow(w) = Flow(o) /\ w.q.encryption = o.q.encryption
  BY <1>2 DEF Same, Flow, Xray!Secured, Xray!TLSSettings, Xray!RealitySettings
<1>5. /\ Flow(o) \in Text /\ o.q.encryption \in Text /\ o.port \in Nat
      /\ XTrojan(o) \in Streams /\ Xray!Secured(o.q, AllowInsecure) \in Securities
  BY ObjectFields, XTrojanStream, SecuredType, TextAssumption DEF Flow
<1>6. XTrojan(w) = Less(XTrojan(o))
  BY <1>1, XVlessNext
<1>7. w = AfterBuild("xray", o)
  BY <1>2 DEF AfterBuild
<1>8. /\ Outbound("xray", o) = Xray!TrojanOutbound(o, AllowInsecure)
      /\ Outbound("xray", w) = Xray!TrojanOutbound(w, AllowInsecure)
  BY <1>3 DEF Outbound, XrayOutbound
<1>9. \/ /\ Outbound("xray", o) = Endpoint(o, o.port, XTrojan(o),
                                           Xray!Secured(o.q, AllowInsecure), Flow(o), o.q.encryption)
         /\ Outbound("xray", w) = Endpoint(w, o.port, Less(XTrojan(o)),
                                           Xray!Secured(o.q, AllowInsecure), Flow(o), o.q.encryption)
      \/ Outbound("xray", o) = Fail /\ Outbound("xray", w) = Fail
  BY <1>3, <1>4, <1>6, <1>8, XrayTrojan
<1> QED  BY <1>2, <1>5, <1>7, <1>9, RegularBy

\* VMess: the build trims the path and fills in the fingerprint.
LEMMA RegularXrayVmess ==
    ASSUME NEW o \in Object, o.proto = "vmess"
    PROVE  Regular("xray", o)
<1>1. PICK w : w = Xray!VmessAfterBuild(o)
  OBVIOUS
<1>2. /\ Same(w, o) /\ w.q.path = TrimIf(o, o.q.path) /\ w.q.flow = o.q.flow
      /\ o.q.security = "tls" => Or(w.q.fp, "chrome") = Or(o.q.fp, "chrome")
  BY <1>1, VmessBuilt
<1>3. w \in Object /\ w.proto = o.proto /\ w.port = o.port
  BY <1>2 DEF Same
<1>4. XVmessTLS(w) = XVmessTLS(o) /\ Or(w.q.encryption, "auto") = Or(o.q.encryption, "auto")
  <2>1. PICK p, q : /\ p = [w.q EXCEPT !.allowInsecure = IF @ = "bool" THEN "true" ELSE @]
                    /\ q = [o.q EXCEPT !.allowInsecure = IF @ = "bool" THEN "true" ELSE @]
    OBVIOUS
  <2>2. /\ p.sni = q.sni /\ p.host = q.host /\ p.alpn = q.alpn /\ p.pcs = q.pcs
        /\ p.allowInsecure = q.allowInsecure
        /\ o.q.security = "tls" => Or(p.fp, "chrome") = Or(q.fp, "chrome")
    <3>1. w.q \in Query /\ o.q \in Query
      BY <1>3, ObjectFields
    <3> QED  BY <1>2, <2>1, <3>1 DEF Same, Query
  <2>3. o.q.security = "tls" => Xray!TLSSettings(p, AllowInsecure) = Xray!TLSSettings(q, AllowInsecure)
    BY <2>2 DEF Xray!TLSSettings, Xray!Or, Or
  <2> QED  BY <1>2, <2>1, <2>3 DEF XVmessTLS, Same
<1>5. /\ o.q.flow \in Text /\ Or(o.q.encryption, "auto") \in Text /\ o.port \in Nat
      /\ XVmess(o) \in Streams /\ XVmessTLS(o) \in Securities
  BY ObjectFields, XVmessStream, VmessTLSType, TextAssumption DEF Or
<1>6. XVmess(w) = Less(XVmess(o))
  BY <1>2, XVmessNext
<1>7. w = AfterBuild("xray", o)
  BY <1>1 DEF AfterBuild
<1>8. /\ Outbound("xray", o) = Xray!VmessOutbound(o, AllowInsecure)
      /\ Outbound("xray", w) = Xray!VmessOutbound(w, AllowInsecure)
  BY <1>3 DEF Outbound, XrayOutbound
<1>9. \/ /\ Outbound("xray", o) = Endpoint(o, o.port, XVmess(o), XVmessTLS(o), o.q.flow, Or(o.q.encryption, "auto"))
         /\ Outbound("xray", w) = Endpoint(w, o.port, Less(XVmess(o)), XVmessTLS(o), o.q.flow, Or(o.q.encryption, "auto"))
      \/ Outbound("xray", o) = Fail /\ Outbound("xray", w) = Fail
  BY <1>2, <1>3, <1>4, <1>6, <1>8, XrayVmess
<1> QED  BY <1>2, <1>5, <1>7, <1>9, RegularBy

\* VLESS, Trojan and VMess of the sing-box core.
LEMMA RegularBoxVless ==
    ASSUME NEW o \in Object, o.proto = "vless"
    PROVE  Regular("singbox", o)
<1>1. PICK w : w = Box!VlessTrimmed(o)
  OBVIOUS
<1>2. Same(w, o) /\ w.q.flow = o.q.flow /\ w.q.fp = o.q.fp
  BY <1>1, BoxTrimmed
<1>3. w \in Object /\ w.proto = o.proto /\ w.port = o.port
  BY <1>2 DEF Same
<1> DEFINE T(v) == Box!TLSOptions(v.q, v.q.security \in {"tls", "reality"}, AllowInsecure)
<1>4. T(w) = T(o) /\ w.q.encryption = o.q.encryption /\ w.q.type = o.q.type
  BY <1>2 DEF Same, Box!TLSOptions
<1>5. /\ o.q.flow \in Text /\ o.q.encryption \in Text /\ o.port % 65536 \in Nat
      /\ BVless(o) \in Streams /\ T(o) \in Securities
  BY ObjectFields, BVlessStream, BoxTLSType
<1>6. BVless(w) = Less(BVless(o))
  BY <1>1, BoxNext
<1>7. w = AfterBuild("singbox", o)
  BY <1>1 DEF AfterBuild
<1>8. /\ Outbound("singbox", o) =
           IF o.q.type = "tcp" THEN Fail
           ELSE Endpoint(o, o.port % 65536, BVless(o), T(o), o.q.flow, o.q.encryption)
      /\ Outbound("singbox", w) =
           IF w.q.type = "tcp" THEN Fail
           ELSE Endpoint(w, w.port % 65536, BVless(w), T(w), w.q.flow, w.q.encryption)
  BY <1>3, BoxVless DEF Outbound, BoxOutbound
<1> HIDE DEF T
<1>9. PICK n, t, s : n = o.port % 65536 /\ t = T(o) /\ s = BVless(o)
  OBVIOUS
<1>10. \/ /\ Outbound("singbox", o) = Endpoint(o, n, s, t, o.q.flow, o.q.encryption)
          /\ Outbound("singbox", w) = Endpoint(w, n, Less(s), t, o.q.flow, o.q.encryption)
       \/ Outbound("singbox", o) = Fail /\ Outbound("singbox", w) = Fail
  BY <1>2, <1>3, <1>4, <1>6, <1>8, <1>9
<1>11. n \in Nat /\ s \in Streams /\ t \in Securities /\ o.q.flow \in Text /\ o.q.encryption \in Text
  BY <1>5, <1>9
<1> QED  BY <1>2, <1>7, <1>10, <1>11, RegularBy

\* Trojan of the sing-box core.
LEMMA RegularBoxTrojan ==
    ASSUME NEW o \in Object, o.proto = "trojan"
    PROVE  Regular("singbox", o)
<1>1. PICK w : w = Box!VlessTrimmed(o)
  OBVIOUS
<1>2. Same(w, o) /\ w.q.fp = o.q.fp /\ w = Box!TrojanTrimmed(o)
  BY <1>1, BoxTrimmed
<1>3. w \in Object /\ w.proto = o.proto /\ w.port = o.port
  BY <1>2 DEF Same
<1> DEFINE T(v) == Box!TLSOptions(v.q, v.q.security \in {"tls", "reality"}, AllowInsecure)
<1>4. T(w) = T(o) /\ w.q.encryption = o.q.encryption
  BY <1>2 DEF Same, Box!TLSOptions
<1>5. /\ "empty" \in Text /\ o.q.encryption \in Text /\ o.port % 65536 \in Nat
      /\ BVless(o) \in Streams /\ T(o) \in Securities
  BY ObjectFields, BVlessStream, BoxTLSType, TextAssumption
<1>6. BVless(w) = Less(BVless(o))
  BY <1>1, BoxNext
<1>7. w = AfterBuild("singbox", o)
  BY <1>2 DEF AfterBuild
<1>8. /\ Outbound("singbox", o) = Endpoint(o, o.port % 65536, BVless(o), T(o), "empty", o.q.encryption)
      /\ Outbound("singbox", w) = Endpoint(w, w.port % 65536, BVless(w), T(w), "empty", w.q.encryption)
  BY <1>3, BoxTrojan DEF Outbound, BoxOutbound
<1> HIDE DEF T
<1> QED  BY <1>2, <1>3, <1>4, <1>5, <1>6, <1>7, <1>8, RegularBy

\* VMess of the sing-box core.
LEMMA RegularBoxVmess ==
    ASSUME NEW o \in Object, o.proto = "vmess"
    PROVE  Regular("singbox", o)
<1>1. PICK w : w = Xray!VmessTrimmed(o)
  OBVIOUS
<1>2. Same(w, o) /\ w.q.flow = o.q.flow /\ w.q.fp = o.q.fp /\ w = Box!VmessTrimmed(o)
  BY <1>1, VmessTrimmed
<1>3. w \in Object /\ w.proto = o.proto /\ w.port = o.port
  BY <1>2 DEF Same
<1>4. BVmessTLS(w) = BVmessTLS(o) /\ w.q.encryption = o.q.encryption
  <2>1. PICK p, q : p = [w.q EXCEPT !.security = "empty"] /\ q = [o.q EXCEPT !.security = "empty"]
    OBVIOUS
  <2>2. /\ p.sni = q.sni /\ p.alpn = q.alpn /\ p.fp = q.fp /\ p.allowInsecure = q.allowInsecure
        /\ p.security = q.security /\ p.pbk = q.pbk
    <3>1. w.q \in Query /\ o.q \in Query
      BY <1>3, ObjectFields
    <3> QED  BY <1>2, <2>1, <3>1 DEF Same, Query
  <2>3. w.q.security = o.q.security /\ w.q.encryption = o.q.encryption
    BY <1>2 DEF Same
  <2> QED  BY <2>1, <2>2, <2>3 DEF BVmessTLS, Box!TLSOptions
<1>5. /\ o.q.flow \in Text /\ o.q.encryption \in Text /\ o.port % 65536 \in Nat
      /\ BVmess(o) \in Streams /\ BVmessTLS(o) \in Securities
  BY ObjectFields, BVmessStream, VmessTLSType
<1>6. BVmess(w) = Less(BVmess(o))
  BY <1>2, BoxNext
<1>7. w = AfterBuild("singbox", o)
  BY <1>2 DEF AfterBuild
<1>8. /\ Outbound("singbox", o) =
           IF o.port = 0 THEN Fail ELSE Endpoint(o, o.port % 65536, BVmess(o), BVmessTLS(o), o.q.flow, o.q.encryption)
      /\ Outbound("singbox", w) =
           IF w.port = 0 THEN Fail ELSE Endpoint(w, w.port % 65536, BVmess(w), BVmessTLS(w), w.q.flow, w.q.encryption)
  BY <1>3, BoxVmess DEF Outbound, BoxOutbound
<1>9. PICK n, s, t, f, e : n = o.port % 65536 /\ s = BVmess(o) /\ t = BVmessTLS(o) /\ f = o.q.flow /\ e = o.q.encryption
  OBVIOUS
<1>10. n \in Nat /\ s \in Streams /\ t \in Securities /\ f \in Text /\ e \in Text
  BY <1>5, <1>9
<1>11. \/ /\ Outbound("singbox", o) = Endpoint(o, n, s, t, f, e)
          /\ Outbound("singbox", w) = Endpoint(w, n, Less(s), t, f, e)
       \/ Outbound("singbox", o) = Fail /\ Outbound("singbox", w) = Fail
  <2>1. w.port = o.port /\ w.q.flow = f /\ w.q.encryption = e /\ BVmess(w) = Less(s) /\ BVmessTLS(w) = t
    BY <1>2, <1>3, <1>4, <1>6, <1>9
  <2> QED  BY <1>8, <1>9, <2>1
<1> QED  BY <1>2, <1>7, <1>10, <1>11, RegularBy

\* The other protocols: the build leaves the object alone, and there is no service.
LEMMA RegularPlain ==
    ASSUME NEW c, NEW o \in Object, AfterBuild(c, o) = o,
           NEW u, NEW port, NEW s, NEW t, NEW f, NEW e,
           u \in Object, u.address = o.address, port \in Nat, s \in Streams, s.service = NoPath,
           t \in Securities, f \in Text, e \in Text,
           Outbound(c, o) = Endpoint(u, port, s, t, f, e) \/ Outbound(c, o) = Fail
    PROVE  Regular(c, o)
<1>1. PICK x : x = Endpoint(u, port, s, t, f, e)
  OBVIOUS
<1>2. x \in Endpoints
  BY <1>1, EndpointType
<1>3. x.ok /\ x.server = o.address /\ x.stream.service = NoPath
  BY <1>1 DEF Endpoint
<1>4. Cut(x) = x
  BY <1>2, <1>3, CutNothing
<1>5. Outbound(c, o) = x \/ Outbound(c, o) = Fail
  BY <1>1
<1> QED  BY <1>2, <1>3, <1>4, <1>5 DEF Regular, Fail, Cut

\* SOCKS objects without a password they do not use.
LEMMA SocksUserType ==
    ASSUME NEW o \in Object
    PROVE  /\ Xray!SocksUser(o) \in Object /\ Xray!SocksUser(o).address = o.address
           /\ Xray!SocksUser(o).id = o.id /\ Xray!SocksUser(o).proto = o.proto
           /\ Xray!SocksUser(o).pass = IF o.id = "empty" THEN "empty" ELSE o.pass
BY TextAssumption DEF Xray!SocksUser, Object

\* Protocols without a stream: the build changes nothing.
LEMMA RegularXrayOthers ==
    ASSUME NEW o \in Object, o.proto \in {"shadowsocks", "socks", "hysteria2", "wireguard"}
    PROVE  Regular("xray", o)
<1>1. AfterBuild("xray", o) = o
  BY DEF AfterBuild
<1>2. /\ o.port \in Nat /\ o.q.flow \in Text /\ o.q.encryption \in Text /\ o.q.sni \in Text
      /\ o.q.pbk \in Text /\ o.q.reserved \in Text
  BY DEF Object, Query
<1>3. /\ NoStream \in Streams /\ NoStream.service = NoPath /\ NoTLS \in Securities
      /\ Xray!NoStream = NoStream /\ Xray!NoTLS = NoTLS /\ Xray!Fail = Fail
  BY PlainStreams, SecuredType, ObjectFields
<1>4. CASE o.proto = "shadowsocks"
  <2>1. \/ Outbound("xray", o) = Endpoint(o, o.port, NoStream, NoTLS, o.q.flow, o.q.encryption)
        \/ Outbound("xray", o) = Fail
    BY <1>3, <1>4, EndpointSame DEF Outbound, XrayOutbound, Xray!ShadowsocksOutbound
  <2> QED  BY <1>1, <1>2, <1>3, <2>1, RegularPlain
<1>5. CASE o.proto = "socks"
  <2>1. PICK s : s = [NoStream EXCEPT !.network = "tcp"]
    OBVIOUS
  <2>2. s \in Streams /\ s.service = NoPath
    BY <2>1, PlainStreams, TextAssumption
  <2>3. PICK u : u = Xray!SocksUser(o)
    OBVIOUS
  <2>4. u \in Object /\ u.address = o.address
    BY <2>3, SocksUserType
  <2>5. \/ Outbound("xray", o) = Endpoint(u, o.port, s, NoTLS, o.q.flow, o.q.encryption)
        \/ Outbound("xray", o) = Fail
    BY <1>3, <1>5, <2>1, <2>3, EndpointSame DEF Outbound, XrayOutbound, Xray!SocksOutbound
  <2> QED  BY <1>1, <1>2, <1>3, <2>2, <2>4, <2>5, RegularPlain
<1>6. CASE o.proto = "hysteria2"
  <2>1. PICK s : s = [NoStream EXCEPT !.network = "hysteria"]
    OBVIOUS
  <2>2. s \in Streams /\ s.service = NoPath
    BY <2>1, PlainStreams, TextAssumption
  <2> DEFINE lax == (AllowInsecure \/ Xray!Insecure(o.q.allowInsecure)) /\ o.q.sni # "empty"
  <2>3. lax \in BOOLEAN
    OBVIOUS
  <2> HIDE DEF lax
  <2>4. PICK t : t = [NoTLS EXCEPT !.on = TRUE, !.serverName = o.q.sni, !.lax = lax]
    OBVIOUS
  <2>5. t \in Securities
    BY <1>2, <2>3, <2>4, Hysteria2TLSType
  <2>6. Xray!Hysteria2Outbound(o, AllowInsecure) =
          IF ~Xray!Port16(o.port) THEN Fail ELSE Endpoint(o, o.port, s, t, o.q.flow, o.q.encryption)
    BY <1>3, <2>1, <2>4, EndpointSame DEF Xray!Hysteria2Outbound, lax
  <2>7. \/ Outbound("xray", o) = Endpoint(o, o.port, s, t, o.q.flow, o.q.encryption)
        \/ Outbound("xray", o) = Fail
    BY <1>6, <2>6 DEF Outbound, XrayOutbound
  <2> QED  BY <1>1, <1>2, <2>2, <2>5, <2>7, RegularPlain
<1>7. CASE o.proto = "wireguard"
  <2>1. PICK f : f = IF o.q.reserved = "x" THEN "empty" ELSE o.q.reserved
    OBVIOUS
  <2>2. f \in Text
    BY <1>2, <2>1, TextAssumption
  <2>3. Outbound("xray", o) = Endpoint(o, o.port, NoStream, NoTLS, f, o.q.pbk)
    BY <1>3, <1>7, <2>1, EndpointSame DEF Outbound, XrayOutbound, Xray!WireguardOutbound
  <2> QED  BY <1>1, <1>2, <1>3, <2>2, <2>3, RegularPlain
<1> QED  BY <1>4, <1>5, <1>6, <1>7

\* The same of the sing-box core.
LEMMA RegularBoxOthers ==
    ASSUME NEW o \in Object, o.proto \in {"shadowsocks", "socks", "hysteria2", "wireguard"}
    PROVE  Regular("singbox", o)
<1>1. AfterBuild("singbox", o) = o
  BY DEF AfterBuild
<1>2. /\ o.port \in Nat /\ o.q.flow \in Text /\ o.q.encryption \in Text /\ o.q.sni \in Text
      /\ o.q.pbk \in Text /\ o.q.reserved \in Text /\ o.q.obfs \in Text
  BY DEF Object, Query
<1>3. /\ NoStream \in Streams /\ NoStream.service = NoPath /\ NoTLS \in Securities
      /\ Box!NoStream = NoStream /\ Box!NoTLS = NoTLS /\ Box!Fail = Fail
  BY PlainStreams, SecuredType, ObjectFields
<1>4. PICK n : n = o.port % 65536
  OBVIOUS
<1>5. n \in Nat /\ Box!Truncated(o.port) = n
  BY <1>2, <1>4 DEF Box!Truncated
<1>6. CASE o.proto \in {"shadowsocks", "socks"}
  <2>1. Outbound("singbox", o) = Endpoint(o, n, NoStream, NoTLS, o.q.flow, o.q.encryption)
    BY <1>3, <1>5, <1>6, EndpointSame DEF Outbound, BoxOutbound, Box!ShadowsocksOutbound, Box!SocksOutbound
  <2> QED  BY <1>1, <1>2, <1>3, <1>5, <2>1, RegularPlain
<1>7. CASE o.proto = "hysteria2"
  <2> DEFINE lax == AllowInsecure \/ Box!Insecure(o.q.allowInsecure)
  <2>1. lax \in BOOLEAN
    OBVIOUS
  <2> HIDE DEF lax
  <2>2. PICK t : t = [NoTLS EXCEPT !.on = TRUE, !.serverName = o.q.sni, !.lax = lax]
    OBVIOUS
  <2>3. t \in Securities
    BY <1>2, <2>1, <2>2, Hysteria2TLSType
  <2>4. Box!Hysteria2Outbound(o, AllowInsecure) = Endpoint(o, n, NoStream, t, o.q.flow, o.q.obfs)
    BY <1>3, <1>5, <2>2, EndpointSame DEF Box!Hysteria2Outbound, lax
  <2>5. Outbound("singbox", o) = Endpoint(o, n, NoStream, t, o.q.flow, o.q.obfs)
    BY <1>7, <2>4 DEF Outbound, BoxOutbound
  <2> QED  BY <1>1, <1>2, <1>3, <1>5, <2>3, <2>5, RegularPlain
<1>8. CASE o.proto = "wireguard"
  <2>1. \/ Outbound("singbox", o) = Endpoint(o, o.port, NoStream, NoTLS, o.q.reserved, o.q.pbk)
        \/ Outbound("singbox", o) = Fail
    BY <1>3, <1>8, EndpointSame DEF Outbound, BoxOutbound, Box!WireguardOutbound
  <2> QED  BY <1>1, <1>2, <1>3, <2>1, RegularPlain
<1> QED  BY <1>6, <1>7, <1>8

\* Every object a link can become.
LEMMA OutboundRegular ==
    ASSUME NEW c \in ProxyCores, NEW o \in Object, o.proto \in Protocols
    PROVE  Regular(c, o)
<1>1. CASE c = "xray"
  BY <1>1, RegularXrayVless, RegularXrayTrojan, RegularXrayVmess, RegularXrayOthers DEF Protocols
<1>2. CASE c = "singbox"
  BY <1>2, RegularBoxVless, RegularBoxTrojan, RegularBoxVmess, RegularBoxOthers DEF Protocols
<1> QED  BY <1>1, <1>2 DEF ProxyCores

-----------------------------------------------------------------------------
(* What Parse returns *)

\* A link without the condition on VMess.
Record == [scheme : Text, user : Text, pass : Text, form : Text, host : Text, upper : BOOLEAN,
           port : Nat, padded : BOOLEAN, number : BOOLEAN, order : Nat, q : Query, remark : Text]

\* o is an object of this protocol with the parts of the link l.
ParsedAs(o, l, proto) ==
    /\ o \in Object /\ o.ok /\ o.proto = proto /\ o.address = l.host /\ o.id = l.user
    /\ o.port = l.port /\ o.padded = l.padded /\ o.certs = FALSE

\* The options that no parser of VLESS and Trojan touches.
SameOptions(q, r) ==
    /\ q.headerType = r.headerType /\ q.host = r.host /\ q.serviceName = r.serviceName /\ q.mode = r.mode
    /\ q.flow = r.flow /\ q.encryption = r.encryption /\ q.sni = r.sni /\ q.alpn = r.alpn
    /\ q.allowInsecure = r.allowInsecure /\ q.pbk = r.pbk

\* A link and its fields.
LEMMA LinkType ==
    ASSUME NEW l \in Link
    PROVE  l \in Record /\ l.q \in Query /\ l.port \in Nat /\ (l.scheme = "vmess" => l.pass = "empty")
BY DEF Link, Record

\* What Parse makes of a record is an object.
LEMMA ParsedType ==
    ASSUME NEW l, NEW p, NEW q, l \in Record, p \in Text, q \in Query
    PROVE  /\ Parsed(l, p, q) \in Object /\ Parsed(l, p, q).ok /\ Parsed(l, p, q).proto = p
           /\ Parsed(l, p, q).address = l.host /\ Parsed(l, p, q).id = l.user
           /\ Parsed(l, p, q).pass = l.pass /\ Parsed(l, p, q).port = l.port
           /\ Parsed(l, p, q).padded = l.padded /\ Parsed(l, p, q).certs = FALSE
           /\ Parsed(l, p, q).q = q
BY DEF Parsed, Object, Record

\* The instances of Links parse alike.
LEMMA ParsedSame ==
    /\ \A l, p, q : Xray!Parsed(l, p, q) = Parsed(l, p, q) /\ Box!Parsed(l, p, q) = Parsed(l, p, q)
    /\ \A n, q : /\ Xray!DefaultPath(n, q) = DefaultPath(n, q) /\ Box!DefaultPath(n, q) = DefaultPath(n, q)
    /\ \A s, d : Xray!Or(s, d) = Or(s, d) /\ Box!Or(s, d) = Or(s, d)
    /\ Xray!Fail = Fail /\ Box!Fail = Fail
BY DEF Xray!Parsed, Box!Parsed, Parsed, Xray!DefaultPath, Box!DefaultPath, DefaultPath, Xray!Or, Box!Or, Or,
       Xray!Fail, Box!Fail, Fail, Xray!NoPath, Box!NoPath, NoPath, Xray!Root, Box!Root, Root

\* A default path is a path, and equal to its option but for the root.
LEMMA DefaultPathType ==
    ASSUME NEW q \in Query, NEW n
    PROVE  /\ DefaultPath(n, q) \in Path /\ Rooted(DefaultPath(n, q)) = Rooted(q.path)
           /\ DefaultPath(n, q) = NoPath => q.path = NoPath
<1>1. Root \in Path /\ Root # NoPath
  <2>1. Root \in Path /\ Root.slashes = 1 /\ NoPath.slashes = 0
    BY TextAssumption DEF Root, NoPath, Path
  <2> QED  BY <2>1
<1> QED  BY <1>1 DEF DefaultPath, Rooted, Query

\* VLESS.
LEMMA XrayVlessParsed ==
    ASSUME NEW l \in Link, Xray!VlessParse(l).ok
    PROVE  \E q \in Query :
             /\ Xray!VlessParse(l) = Parsed(l, "vless", q)
             /\ HasPort(l) /\ SameOptions(q, l.q)
             /\ q.path = DefaultPath(l.q.headerType = "http" \/ l.q.type \in {"ws", "h2", "xhttp"}, l.q)
             /\ q.type = IF l.q.security \in {"tls", "reality", "empty"} THEN Or(l.q.type, "tcp") ELSE l.q.type
             /\ q.security = l.q.security /\ q.authority = l.q.authority /\ q.extra = l.q.extra
<1> DEFINE p == DefaultPath(l.q.headerType = "http" \/ l.q.type \in {"ws", "h2", "xhttp"}, l.q)
           t == IF l.q.security \in {"tls", "reality", "empty"} THEN Or(l.q.type, "tcp") ELSE l.q.type
           f == IF l.q.security \in {"tls", "reality"} THEN Or(l.q.fp, "chrome") ELSE l.q.fp
<1>1. l.q \in Query
  BY LinkType
<1>2. p \in Path /\ t \in Text /\ f \in Text
  BY <1>1, DefaultPathType, TextAssumption DEF Query, Or
<1>3. /\ HasPort(l)
      /\ Xray!VlessParse(l) = Parsed(l, "vless", [l.q EXCEPT !.path = p, !.type = t, !.fp = f])
  BY ParsedSame DEF Xray!VlessParse, Fail, HasPort, Xray!HasPort
<1> HIDE DEF p, t, f
<1>4. PICK q1 : q1 = [l.q EXCEPT !.path = p]
  OBVIOUS
<1>5. PICK q2 : q2 = [q1 EXCEPT !.type = t]
  OBVIOUS
<1>6. PICK q : q = [q2 EXCEPT !.fp = f]
  OBVIOUS
<1>7. q = [l.q EXCEPT !.path = p, !.type = t, !.fp = f]
  BY <1>4, <1>5, <1>6
<1>8. q1 \in Query /\ SameOptions(q1, l.q) /\ q1.path = p
      /\ q1.security = l.q.security /\ q1.authority = l.q.authority /\ q1.extra = l.q.extra
  BY <1>1, <1>2, <1>4 DEF Query, SameOptions
<1>9. q2 \in Query /\ SameOptions(q2, q1) /\ q2.path = p /\ q2.type = t
      /\ q2.security = l.q.security /\ q2.authority = l.q.authority /\ q2.extra = l.q.extra
  BY <1>2, <1>5, <1>8 DEF Query, SameOptions
<1>10. q \in Query /\ SameOptions(q, q2) /\ q.path = p /\ q.type = t
      /\ q.security = l.q.security /\ q.authority = l.q.authority /\ q.extra = l.q.extra
  BY <1>2, <1>6, <1>9 DEF Query, SameOptions
<1>11. SameOptions(q, l.q)
  BY <1>8, <1>9, <1>10 DEF SameOptions
<1> QED  BY <1>3, <1>7, <1>10, <1>11 DEF p, t

\* VLESS of the sing-box core.
LEMMA BoxVlessParsed ==
    ASSUME NEW l \in Link, Box!VlessParse(l).ok
    PROVE  \E q \in Query :
             /\ Box!VlessParse(l) = Parsed(l, "vless", q)
             /\ HasPort(l) /\ SameOptions(q, l.q)
             /\ q.path = DefaultPath(l.q.headerType = "http" \/ l.q.type \in {"ws", "h2"}, l.q)
             /\ q.type = l.q.type /\ q.security = l.q.security
<1> DEFINE p == DefaultPath(l.q.headerType = "http" \/ l.q.type \in {"ws", "h2"}, l.q)
<1>1. l.q \in Query
  BY LinkType
<1>2. p \in Path
  BY <1>1, DefaultPathType
<1>3. /\ HasPort(l)
      /\ Box!VlessParse(l) = Parsed(l, "vless",
                                [l.q EXCEPT !.path = p, !.authority = "empty", !.pcs = "empty", !.extra = "empty"])
  BY ParsedSame DEF Box!VlessParse, Fail, HasPort, Box!HasPort
<1> HIDE DEF p
<1>4. PICK q : q = [l.q EXCEPT !.path = p, !.authority = "empty", !.pcs = "empty", !.extra = "empty"]
  OBVIOUS
<1>5. q \in Query
  <2>1. PICK q1 : q1 = [l.q EXCEPT !.path = p]
    OBVIOUS
  <2>2. PICK q2 : q2 = [q1 EXCEPT !.authority = "empty"]
    OBVIOUS
  <2>3. PICK q3 : q3 = [q2 EXCEPT !.pcs = "empty"]
    OBVIOUS
  <2>4. q = [q3 EXCEPT !.extra = "empty"]
    BY <1>4, <2>1, <2>2, <2>3
  <2>5. q1 \in Query
    BY <1>1, <1>2, <2>1 DEF Query
  <2>6. q2 \in Query
    BY <2>2, <2>5, TextAssumption DEF Query
  <2>7. q3 \in Query
    BY <2>3, <2>6, TextAssumption DEF Query
  <2> QED  BY <2>4, <2>7, TextAssumption DEF Query
<1>6. SameOptions(q, l.q) /\ q.path = p /\ q.type = l.q.type /\ q.security = l.q.security
  BY <1>1, <1>4 DEF Query, SameOptions
<1> QED  BY <1>3, <1>4, <1>5, <1>6 DEF p

\* Trojan.
LEMMA XrayTrojanParsed ==
    ASSUME NEW l \in Link, Xray!TrojanParse(l).ok
    PROVE  \E q \in Query :
             /\ Xray!TrojanParse(l) = Parsed(l, "trojan", q)
             /\ HasPort(l) /\ SameOptions(q, l.q)
             /\ q.path = DefaultPath(\/ l.q.headerType \in {"xhttp", "http"}
                                     \/ l.q.type \in {"ws", "h2", "xhttp"}, l.q)
             /\ q.type = Or(l.q.type, "tcp") /\ q.security = Or(l.q.security, "tls")
             /\ q.authority = l.q.authority /\ q.extra = "empty"
<1> DEFINE p == DefaultPath(\/ l.q.headerType \in {"xhttp", "http"}
                            \/ l.q.type \in {"ws", "h2", "xhttp"}, l.q)
           t == Or(l.q.type, "tcp")
           s == Or(l.q.security, "tls")
           f == IF Or(l.q.security, "tls") \in {"tls", "reality"} THEN Or(l.q.fp, "chrome") ELSE l.q.fp
<1>1. l.q \in Query
  BY LinkType
<1>2. p \in Path /\ t \in Text /\ s \in Text /\ f \in Text
  BY <1>1, DefaultPathType, TextAssumption DEF Query, Or
<1>3. /\ HasPort(l)
      /\ Xray!TrojanParse(l) = Parsed(l, "trojan",
             [l.q EXCEPT !.path = p, !.type = t, !.security = s, !.fp = f, !.extra = "empty"])
  BY ParsedSame DEF Xray!TrojanParse, Fail, HasPort, Xray!HasPort
<1> HIDE DEF p, t, s, f
<1>4. PICK q : q = [l.q EXCEPT !.path = p, !.type = t, !.security = s, !.fp = f, !.extra = "empty"]
  OBVIOUS
<1>5. q \in Query
  <2>1. PICK q1 : q1 = [l.q EXCEPT !.path = p]
    OBVIOUS
  <2>2. PICK q2 : q2 = [q1 EXCEPT !.type = t]
    OBVIOUS
  <2>3. PICK q3 : q3 = [q2 EXCEPT !.security = s]
    OBVIOUS
  <2>4. PICK q4 : q4 = [q3 EXCEPT !.fp = f]
    OBVIOUS
  <2>5. q = [q4 EXCEPT !.extra = "empty"]
    BY <1>4, <2>1, <2>2, <2>3, <2>4
  <2>6. q1 \in Query
    BY <1>1, <1>2, <2>1 DEF Query
  <2>7. q2 \in Query
    BY <1>2, <2>2, <2>6 DEF Query
  <2>8. q3 \in Query
    BY <1>2, <2>3, <2>7 DEF Query
  <2>9. q4 \in Query
    BY <1>2, <2>4, <2>8 DEF Query
  <2> QED  BY <2>5, <2>9, TextAssumption DEF Query
<1>6. /\ SameOptions(q, l.q) /\ q.path = p /\ q.type = t /\ q.security = s
      /\ q.authority = l.q.authority /\ q.extra = "empty"
  BY <1>1, <1>4 DEF Query, SameOptions
<1> QED  BY <1>3, <1>4, <1>5, <1>6 DEF p, t, s

\* Trojan of the sing-box core.
LEMMA BoxTrojanParsed ==
    ASSUME NEW l \in Link, Box!TrojanParse(l).ok
    PROVE  \E q \in Query :
             /\ Box!TrojanParse(l) = Parsed(l, "trojan", q)
             /\ HasPort(l) /\ SameOptions(q, l.q)
             /\ q.path = DefaultPath(l.q.type \in {"ws", "http"}, l.q)
             /\ q.type = Or(l.q.type, "tcp") /\ q.security = Or(l.q.security, "tls")
<1> DEFINE p == DefaultPath(l.q.type \in {"ws", "http"}, l.q)
           t == Or(l.q.type, "tcp")
           s == Or(l.q.security, "tls")
           f == IF Or(l.q.security, "tls") \in {"tls", "reality"} THEN Or(l.q.fp, "chrome") ELSE l.q.fp
<1>1. l.q \in Query
  BY LinkType
<1>2. p \in Path /\ t \in Text /\ s \in Text /\ f \in Text
  BY <1>1, DefaultPathType, TextAssumption DEF Query, Or
<1>3. /\ HasPort(l)
      /\ Box!TrojanParse(l) = Parsed(l, "trojan",
             [l.q EXCEPT !.path = p, !.type = t, !.security = s, !.fp = f,
                         !.authority = "empty", !.pcs = "empty", !.extra = "empty"])
  BY ParsedSame DEF Box!TrojanParse, Fail, HasPort, Box!HasPort
<1> HIDE DEF p, t, s, f
<1>4. PICK q : q = [l.q EXCEPT !.path = p, !.type = t, !.security = s, !.fp = f,
                               !.authority = "empty", !.pcs = "empty", !.extra = "empty"]
  OBVIOUS
<1>5. q \in Query
  <2>1. PICK q1 : q1 = [l.q EXCEPT !.path = p]
    OBVIOUS
  <2>2. PICK q2 : q2 = [q1 EXCEPT !.type = t]
    OBVIOUS
  <2>3. PICK q3 : q3 = [q2 EXCEPT !.security = s]
    OBVIOUS
  <2>4. PICK q4 : q4 = [q3 EXCEPT !.fp = f]
    OBVIOUS
  <2>5. PICK q5 : q5 = [q4 EXCEPT !.authority = "empty"]
    OBVIOUS
  <2>6. PICK q6 : q6 = [q5 EXCEPT !.pcs = "empty"]
    OBVIOUS
  <2>7. q = [q6 EXCEPT !.extra = "empty"]
    BY <1>4, <2>1, <2>2, <2>3, <2>4, <2>5, <2>6
  <2>8. q1 \in Query
    BY <1>1, <1>2, <2>1 DEF Query
  <2>9. q2 \in Query
    BY <1>2, <2>2, <2>8 DEF Query
  <2>10. q3 \in Query
    BY <1>2, <2>3, <2>9 DEF Query
  <2>11. q4 \in Query
    BY <1>2, <2>4, <2>10 DEF Query
  <2>12. q5 \in Query
    BY <2>5, <2>11, TextAssumption DEF Query
  <2>13. q6 \in Query
    BY <2>6, <2>12, TextAssumption DEF Query
  <2> QED  BY <2>7, <2>13, TextAssumption DEF Query
<1>6. SameOptions(q, l.q) /\ q.path = p /\ q.type = t /\ q.security = s
  BY <1>1, <1>4 DEF Query, SameOptions
<1> QED  BY <1>3, <1>4, <1>5, <1>6 DEF p, t, s

\* VMess: the options of either form, and the parts of the link that are kept.
LegacyNetwork(q) == CASE q.obfs = "websocket" -> "ws" [] q.obfs = "none" -> "tcp" [] OTHER -> "empty"
LegacyTLS(q) == IF q.security = "1" THEN "tls" ELSE "empty"
Legacy(q) ==
    [NoQuery EXCEPT !.path = q.path, !.host = q.host,
                    !.sni = IF q.sni = "empty" /\ LegacyTLS(q) = "tls" THEN q.host ELSE q.sni,
                    !.security = LegacyTLS(q), !.type = LegacyNetwork(q), !.encryption = q.encryption,
                    !.headerType = IF LegacyNetwork(q) = "empty" THEN "empty" ELSE "none"]

\* No options.
LEMMA NoQueryType == NoQuery \in Query
BY NoPathType, TextAssumption DEF NoQuery, Query

\* The options of the legacy form.
LEMMA LegacyType ==
    ASSUME NEW q \in Query
    PROVE  Legacy(q) \in Query
<1> DEFINE n == LegacyNetwork(q)
           t == LegacyTLS(q)
           s == IF q.sni = "empty" /\ LegacyTLS(q) = "tls" THEN q.host ELSE q.sni
           h == IF LegacyNetwork(q) = "empty" THEN "empty" ELSE "none"
<1>1. n \in Text
  <2>1. CASE q.obfs = "websocket"
    BY <2>1, TextAssumption DEF LegacyNetwork
  <2>2. CASE q.obfs = "none"
    BY <2>2, TextAssumption DEF LegacyNetwork
  <2>3. CASE q.obfs # "websocket" /\ q.obfs # "none"
    BY <2>3, TextAssumption DEF LegacyNetwork
  <2> QED  BY <2>1, <2>2, <2>3
<1>2. t \in Text /\ s \in Text /\ h \in Text /\ q.path \in Path /\ q.host \in Text /\ q.encryption \in Text
  BY TextAssumption DEF LegacyTLS, Query
<1>3. Legacy(q) = [NoQuery EXCEPT !.path = q.path, !.host = q.host, !.sni = s, !.security = t, !.type = n,
                                  !.encryption = q.encryption, !.headerType = h]
  BY DEF Legacy
<1> HIDE DEF n, t, s, h
<1>4. PICK q1 : q1 = [NoQuery EXCEPT !.path = q.path]
  OBVIOUS
<1>5. PICK q2 : q2 = [q1 EXCEPT !.host = q.host]
  OBVIOUS
<1>6. q2 \in Query
  <2>1. q1 \in Query
    BY <1>2, <1>4, NoQueryType DEF Query
  <2> QED  BY <1>2, <1>5, <2>1 DEF Query
<1>7. PICK q3 : q3 = [q2 EXCEPT !.sni = s]
  OBVIOUS
<1>8. PICK q4 : q4 = [q3 EXCEPT !.security = t]
  OBVIOUS
<1>9. PICK q5 : q5 = [q4 EXCEPT !.type = n]
  OBVIOUS
<1>10. PICK q6 : q6 = [q5 EXCEPT !.encryption = q.encryption]
  OBVIOUS
<1>11. q3 \in Query
  BY <1>2, <1>6, <1>7 DEF Query
<1>12. q4 \in Query
  BY <1>2, <1>8, <1>11 DEF Query
<1>13. q5 \in Query
  BY <1>1, <1>9, <1>12 DEF Query
<1>14. q6 \in Query
  BY <1>2, <1>10, <1>13 DEF Query
<1>15. Legacy(q) = [q6 EXCEPT !.headerType = h]
  BY <1>3, <1>4, <1>5, <1>7, <1>8, <1>9, <1>10
<1> QED  BY <1>2, <1>14, <1>15 DEF Query

VmessOptions(l) == IF l.form = "json" THEN l.q ELSE Legacy(l.q)

\* A parsed object with other options.
WithOptions(v, r) == [v EXCEPT !.q = r]
\* It is what Parse makes of the link with these options.
LEMMA ParsedWith ==
    ASSUME NEW l, NEW q, NEW r, NEW v, l \in Record, q \in Query, r \in Query, v = Parsed(l, "vmess", q)
    PROVE  WithOptions(v, r) = Parsed(l, "vmess", r) /\ v \in Object /\ v.q = q
<1>1. v \in Object /\ v.q = q
  <2>1. "vmess" \in Text
    BY TextAssumption
  <2>2. v \in Object
    BY <2>1, ParsedType
  <2>3. v.q = q
    BY DEF Parsed
  <2> QED  BY <2>2, <2>3
<1>2. PICK w : w = Parsed(l, "vmess", r)
  OBVIOUS
<1>3. /\ w.ok = v.ok /\ w.proto = v.proto /\ w.address = v.address /\ w.id = v.id /\ w.pass = v.pass
      /\ w.port = v.port /\ w.padded = v.padded /\ w.certs = v.certs /\ w.remark = v.remark /\ w.q = r
  BY <1>2 DEF Parsed
<1>4. w \in Object
  <2>1. "vmess" \in Text
    BY TextAssumption
  <2> QED  BY <1>2, <2>1, ParsedType
<1>5. WithOptions(v, r) = w
  BY <1>1, <1>3, <1>4 DEF Object, WithOptions
<1> QED  BY <1>1, <1>2, <1>5

\* Path and network of an object are set.
WithNetwork(v, p, t) == [v EXCEPT !.q.path = p, !.q.type = t]

\* The base of both parsers.
LEMMA VmessMethods ==
    ASSUME NEW l \in Link
    PROVE  /\ VmessOptions(l) \in Query
           /\ Xray!VmessParse(l).ok =>
                LET v == Parsed(l, "vmess", VmessOptions(l)) IN
                /\ l.form = "json" \/ (l.form = "legacy" /\ HasPort(l))
                /\ Xray!VmessParse(l) =
                     WithNetwork(v, DefaultPath(v.q.headerType \in {"xhttp", "http"} \/ v.q.type \in {"ws", "h2"}, v.q),
                                 Or(v.q.type, "tcp"))
           /\ Box!VmessParse(l).ok =>
                LET v == Parsed(l, "vmess", VmessOptions(l)) IN
                /\ l.form = "json" \/ (l.form = "legacy" /\ HasPort(l))
                /\ Box!VmessParse(l) =
                     WithPath(v, DefaultPath(v.q.headerType = "http" \/ v.q.type \in {"ws", "h2"}, v.q))
<1>1. l \in Record /\ l.q \in Query
  BY LinkType
<1>2. VmessOptions(l) \in Query
  BY <1>1, LegacyType DEF VmessOptions
<1> DEFINE v == Parsed(l, "vmess", VmessOptions(l))
<1>3. /\ Xray!method1(l) = Fail \/ (l.form = "json" /\ Xray!method1(l) = v)
      /\ Box!method1(l) = Fail \/ (l.form = "json" /\ Box!method1(l) = v)
  BY ParsedSame DEF Xray!method1, Box!method1, VmessOptions
<1>4. Xray!method2(l) = Fail \/ (l.form = "legacy" /\ HasPort(l) /\ Xray!method2(l) = v)
  <2>1. Xray!NoQuery = NoQuery
    BY DEF Xray!NoQuery, NoQuery, Xray!NoPath, NoPath
  <2>2. \/ Xray!method2(l) = Fail
        \/ /\ l.form = "legacy" /\ HasPort(l)
           /\ Xray!method2(l) = Parsed(l, "vmess", Legacy(l.q))
    BY <2>1, ParsedSame DEF Xray!method2, Xray!HasPort, HasPort, Legacy, LegacyNetwork, LegacyTLS
  <2> QED  BY <2>2 DEF VmessOptions
<1>5. Box!method2(l) = Fail \/ (l.form = "legacy" /\ HasPort(l) /\ Box!method2(l) = v)
  <2>1. Box!NoQuery = NoQuery
    BY DEF Box!NoQuery, NoQuery, Box!NoPath, NoPath
  <2>2. \/ Box!method2(l) = Fail
        \/ /\ l.form = "legacy" /\ HasPort(l)
           /\ Box!method2(l) = Parsed(l, "vmess", Legacy(l.q))
    BY <2>1, ParsedSame DEF Box!method2, Box!HasPort, HasPort, Legacy, LegacyNetwork, LegacyTLS
  <2> QED  BY <2>2 DEF VmessOptions
<1> HIDE DEF v
<1>6. v.ok /\ ~Fail.ok
  BY DEF v, Parsed, Fail
<1>7. Xray!VmessParse(l).ok =>
        /\ l.form = "json" \/ (l.form = "legacy" /\ HasPort(l))
        /\ Xray!VmessParse(l) =
             WithNetwork(v, DefaultPath(v.q.headerType \in {"xhttp", "http"} \/ v.q.type \in {"ws", "h2"}, v.q),
                         Or(v.q.type, "tcp"))
  <2>1. v \in Object
    BY <1>1, <1>2, ParsedWith DEF v
  <2>2. PICK p : p = DefaultPath(v.q.headerType \in {"xhttp", "http"} \/ v.q.type \in {"ws", "h2"}, v.q)
    OBVIOUS
  <2>3. [v EXCEPT !.q.path = p, !.q.type = Or(@, "tcp")] = WithNetwork(v, p, Or(v.q.type, "tcp"))
    BY <2>1 DEF Object, Query, WithNetwork
  <2>4. Xray!VmessParse(l).ok =>
          /\ l.form = "json" \/ (l.form = "legacy" /\ HasPort(l))
          /\ Xray!VmessParse(l) = [v EXCEPT !.q.path = p, !.q.type = Or(@, "tcp")]
    BY <1>3, <1>4, <1>6, <2>2, ParsedSame DEF Xray!VmessParse
  <2> QED  BY <2>2, <2>3, <2>4
<1>8. Box!VmessParse(l).ok =>
        /\ l.form = "json" \/ (l.form = "legacy" /\ HasPort(l))
        /\ Box!VmessParse(l) =
             WithPath(v, DefaultPath(v.q.headerType = "http" \/ v.q.type \in {"ws", "h2"}, v.q))
  BY <1>3, <1>5, <1>6, ParsedSame DEF Box!VmessParse, WithPath
<1> QED  BY <1>2, <1>7, <1>8 DEF v

\* Setting path and network of a parsed object.
LEMMA ParsedPath ==
    ASSUME NEW l, NEW q, NEW p, NEW t, NEW v,
           l \in Record, q \in Query, p \in Path, t \in Text, v = Parsed(l, "vmess", q)
    PROVE  \E r \in Query :
             /\ WithNetwork(v, p, t) = Parsed(l, "vmess", r)
             /\ SameOptions(r, q) /\ r.security = q.security /\ r.path = p /\ r.type = t
<1>1. PICK q1 : q1 = [q EXCEPT !.path = p]
  OBVIOUS
<1>2. PICK r : r = [q1 EXCEPT !.type = t]
  OBVIOUS
<1>3. q1 \in Query
  BY <1>1 DEF Query
<1>4. r \in Query
  BY <1>2, <1>3 DEF Query
<1>5. SameOptions(r, q) /\ r.security = q.security /\ r.path = p /\ r.type = t
  BY <1>1, <1>2 DEF SameOptions, Query
<1>6. WithNetwork(v, p, t) = Parsed(l, "vmess", r)
  <2>2. v.q = q /\ v \in Object
    BY ParsedWith
  <2>3. WithNetwork(v, p, t) = WithOptions(v, r)
    BY <1>1, <1>2, <2>2 DEF Object, WithNetwork, WithOptions
  <2> QED  BY <1>4, <2>3, ParsedWith
<1> QED  BY <1>4, <1>5, <1>6

\* VMess of the xray core.
LEMMA XrayVmessParsed ==
    ASSUME NEW l \in Link, Xray!VmessParse(l).ok
    PROVE  \E q \in Query :
             /\ Xray!VmessParse(l) = Parsed(l, "vmess", q)
             /\ l.form = "json" \/ (l.form = "legacy" /\ HasPort(l))
             /\ SameOptions(q, VmessOptions(l)) /\ q.security = VmessOptions(l).security
             /\ Rooted(q.path) = Rooted(VmessOptions(l).path)
             /\ q.type = Or(VmessOptions(l).type, "tcp")
             /\ q.path # VmessOptions(l).path => q.headerType \in {"xhttp", "http"} \/ q.type \in {"ws", "h2"}
<1>1. PICK q0 : q0 = VmessOptions(l)
  OBVIOUS
<1>2. l \in Record
  BY LinkType
<1>3. PICK v : v = Parsed(l, "vmess", q0)
  OBVIOUS
<1>4. PICK p : p = DefaultPath(q0.headerType \in {"xhttp", "http"} \/ q0.type \in {"ws", "h2"}, q0)
  OBVIOUS
<1>5. PICK t : t = Or(q0.type, "tcp")
  OBVIOUS
<1>6. q0 \in Query
  BY <1>1, VmessMethods
<1>7. v.q = q0
  BY <1>3 DEF Parsed
<1>8. /\ l.form = "json" \/ (l.form = "legacy" /\ HasPort(l))
      /\ Xray!VmessParse(l) = WithNetwork(v, p, t)
  BY <1>1, <1>2, <1>3, <1>4, <1>5, <1>7, VmessMethods
<1>9. p \in Path /\ t \in Text /\ Rooted(p) = Rooted(q0.path)
  BY <1>4, <1>5, <1>6, DefaultPathType, TextAssumption DEF Or, Query
<1>10. PICK q \in Query : /\ WithNetwork(v, p, t) = Parsed(l, "vmess", q)
                          /\ SameOptions(q, q0) /\ q.security = q0.security /\ q.path = p /\ q.type = t
  BY <1>2, <1>3, <1>6, <1>9, ParsedPath
<1>11. q.path # q0.path => q.headerType \in {"xhttp", "http"} \/ q.type \in {"ws", "h2"}
  BY <1>4, <1>5, <1>10 DEF DefaultPath, Or, SameOptions
<1> QED  BY <1>1, <1>2, <1>5, <1>8, <1>9, <1>10, <1>11

\* VMess of the sing-box core.
LEMMA BoxVmessParsed ==
    ASSUME NEW l \in Link, Box!VmessParse(l).ok
    PROVE  \E q \in Query :
             /\ Box!VmessParse(l) = Parsed(l, "vmess", q)
             /\ l.form = "json" \/ (l.form = "legacy" /\ HasPort(l))
             /\ SameOptions(q, VmessOptions(l)) /\ q.security = VmessOptions(l).security
             /\ Rooted(q.path) = Rooted(VmessOptions(l).path)
             /\ q.type = VmessOptions(l).type
             /\ q.path # VmessOptions(l).path => q.headerType = "http" \/ q.type \in {"ws", "h2"}
<1>1. PICK q0 : q0 = VmessOptions(l)
  OBVIOUS
<1>2. l \in Record
  BY LinkType
<1>3. PICK v : v = Parsed(l, "vmess", q0)
  OBVIOUS
<1>4. PICK p : p = DefaultPath(q0.headerType = "http" \/ q0.type \in {"ws", "h2"}, q0)
  OBVIOUS
<1>5. q0 \in Query
  BY <1>1, VmessMethods
<1>6. v.q = q0
  BY <1>3 DEF Parsed
<1>7. /\ l.form = "json" \/ (l.form = "legacy" /\ HasPort(l))
      /\ Box!VmessParse(l) = WithPath(v, p)
  BY <1>1, <1>2, <1>3, <1>4, <1>6, VmessMethods
<1>7a. p \in Path /\ Rooted(p) = Rooted(q0.path)
  BY <1>4, <1>5, DefaultPathType
<1>8. WithPath(v, p) = Parsed(l, "vmess", [q0 EXCEPT !.path = p])
  <2>1. v \in Object
    BY <1>2, <1>3, <1>5, ParsedWith
  <2>2. WithPath(v, p) = WithOptions(v, [q0 EXCEPT !.path = p])
    BY <1>6, <2>1 DEF Object, WithPath, WithOptions
    <2>3. [q0 EXCEPT !.path = p] \in Query
    BY <1>5, <1>7a DEF Query
  <2> QED  BY <1>2, <1>3, <1>5, <2>2, <2>3, ParsedWith
<1>9. PICK q : q = [q0 EXCEPT !.path = p]
  OBVIOUS
<1>10. q \in Query /\ SameOptions(q, q0) /\ q.security = q0.security /\ q.path = p /\ q.type = q0.type
  BY <1>5, <1>7a, <1>9 DEF Query, SameOptions
<1>11. q.path # q0.path => q.headerType = "http" \/ q.type \in {"ws", "h2"}
  BY <1>4, <1>10 DEF DefaultPath, SameOptions
<1> QED  BY <1>1, <1>2, <1>7, <1>8, <1>7a, <1>9, <1>10, <1>11

\* The other protocols: Shadowsocks, SOCKS, Hysteria2 and WireGuard.
SocksLink(l) == [l EXCEPT !.pass = IF l.form = "user" THEN "empty" ELSE @]
Named(l) == [l.q EXCEPT !.sni = Or(@, l.host)]
Scanned(q) == [q EXCEPT !.mtu = IF @ = "x" THEN "empty" ELSE @]

\* The links and options their parsers work on.
LEMMA OtherTypes ==
    ASSUME NEW l \in Link
    PROVE  /\ SocksLink(l) \in Record /\ SocksLink(l).user = l.user /\ SocksLink(l).host = l.host
           /\ SocksLink(l).port = l.port /\ SocksLink(l).padded = l.padded
           /\ SocksLink(l).pass = IF l.form = "user" THEN "empty" ELSE l.pass
           /\ Named(l) \in Query /\ Named(l).sni = Or(l.q.sni, l.host)
           /\ Named(l).flow = l.q.flow /\ Named(l).encryption = l.q.encryption
           /\ Scanned(l.q) \in Query /\ Scanned(l.q).pbk = l.q.pbk /\ Scanned(l.q).reserved = l.q.reserved
<1>1. l \in Record /\ l.q \in Query
  BY LinkType
<1>2. "empty" \in Text
  BY TextAssumption
<1>3. /\ SocksLink(l) \in Record /\ SocksLink(l).user = l.user /\ SocksLink(l).host = l.host
      /\ SocksLink(l).port = l.port /\ SocksLink(l).padded = l.padded
      /\ SocksLink(l).pass = IF l.form = "user" THEN "empty" ELSE l.pass
  BY <1>1, <1>2 DEF SocksLink, Record
<1>4. l.host \in Text /\ Or(l.q.sni, l.host) \in Text
  BY <1>1 DEF Record, Query, Or
<1>5. /\ Named(l) \in Query /\ Named(l).sni = Or(l.q.sni, l.host)
      /\ Named(l).flow = l.q.flow /\ Named(l).encryption = l.q.encryption
  BY <1>1, <1>4 DEF Named, Query
<1>6. Scanned(l.q) \in Query /\ Scanned(l.q).pbk = l.q.pbk /\ Scanned(l.q).reserved = l.q.reserved
  BY <1>1, <1>2 DEF Scanned, Query
<1> QED  BY <1>3, <1>5, <1>6

\* What their parsers return.
LEMMA OthersParsed ==
    ASSUME NEW l \in Link
    PROVE  /\ \A o \in {Xray!ShadowsocksParse(l), Box!ShadowsocksParse(l)} :
                o = Fail \/ (HasPort(l) /\ o = Parsed(l, "shadowsocks", NoQuery))
           /\ \A o \in {Xray!SocksParse(l), Box!SocksParse(l)} :
                o = Fail \/ (HasPort(l) /\ o = Parsed(SocksLink(l), "socks", NoQuery))
           /\ \A o \in {Xray!Hysteria2Parse(l), Box!Hysteria2Parse(l)} :
                o = Fail \/ (HasPort(l) /\ o = Parsed(l, "hysteria2", Named(l)))
           /\ Xray!WireguardParse(l) = Parsed(l, "wireguard", Scanned(l.q))
           /\ Box!WireguardParse(l) = Fail \/ Box!WireguardParse(l) = Parsed(l, "wireguard", l.q)
<1>1. Xray!NoQuery = NoQuery /\ Box!NoQuery = NoQuery
  BY DEF Xray!NoQuery, Box!NoQuery, NoQuery, Xray!NoPath, Box!NoPath, NoPath
<1>2. \A o \in {Xray!ShadowsocksParse(l), Box!ShadowsocksParse(l)} :
        o = Fail \/ (HasPort(l) /\ o = Parsed(l, "shadowsocks", NoQuery))
  BY <1>1, ParsedSame DEF Xray!ShadowsocksParse, Box!ShadowsocksParse, HasPort, Xray!HasPort, Box!HasPort
<1>3. \A o \in {Xray!SocksParse(l), Box!SocksParse(l)} :
        o = Fail \/ (HasPort(l) /\ o = Parsed(SocksLink(l), "socks", NoQuery))
  BY <1>1, ParsedSame DEF Xray!SocksParse, Box!SocksParse, HasPort, Xray!HasPort, Box!HasPort, SocksLink
<1>4. \A o \in {Xray!Hysteria2Parse(l), Box!Hysteria2Parse(l)} :
        o = Fail \/ (HasPort(l) /\ o = Parsed(l, "hysteria2", Named(l)))
  <2>1. PICK s : s = Or(l.q.sni, l.host)
    OBVIOUS
  <2>2. l.q \in Query
    BY LinkType
  <2>3. /\ [l.q EXCEPT !.sni = Xray!Or(@, l.host)] = Named(l)
        /\ [l.q EXCEPT !.sni = Box!Or(@, l.host)] = Named(l)
    BY <2>2, ParsedSame DEF Named, Query
  <2> QED  BY <2>3, ParsedSame DEF Xray!Hysteria2Parse, Box!Hysteria2Parse, HasPort, Xray!HasPort, Box!HasPort
<1>5. /\ Xray!WireguardParse(l) = Parsed(l, "wireguard", Scanned(l.q))
      /\ Box!WireguardParse(l) = Fail \/ Box!WireguardParse(l) = Parsed(l, "wireguard", l.q)
  BY ParsedSame DEF Xray!WireguardParse, Box!WireguardParse, Scanned
<1> QED  BY <1>2, <1>3, <1>4, <1>5

\* A parser that does not succeed leaves no object.
LEMMA ParsedOrFail ==
    ASSUME NEW l \in Link
    PROVE  \A o \in {Xray!VlessParse(l), Box!VlessParse(l), Xray!TrojanParse(l), Box!TrojanParse(l),
                     Xray!VmessParse(l), Box!VmessParse(l)} : o = Fail \/ o.ok
<1>1. \A m, p, q : Parsed(m, p, q).ok
  BY DEF Parsed
<1>2. \A o \in {Xray!VlessParse(l), Box!VlessParse(l), Xray!TrojanParse(l), Box!TrojanParse(l)} : o = Fail \/ o.ok
  BY <1>1, ParsedSame DEF Xray!VlessParse, Box!VlessParse, Xray!TrojanParse, Box!TrojanParse
<1>3. Xray!VmessParse(l) = Fail \/ Xray!VmessParse(l).ok
  <2>1. PICK v : v = IF Xray!method1(l).ok THEN Xray!method1(l) ELSE Xray!method2(l)
    OBVIOUS
  <2>2. CASE ~v.ok
    BY <2>1, <2>2, ParsedSame DEF Xray!VmessParse
  <2>3. CASE v.ok
    <3>1. PICK p, t : Xray!VmessParse(l) = [v EXCEPT !.q.path = p, !.q.type = Xray!Or(@, t)]
      BY <2>1, <2>3 DEF Xray!VmessParse
    <3>2. [v EXCEPT !.q.path = p, !.q.type = Xray!Or(@, t)].ok
      BY <2>3
    <3> QED  BY <3>1, <3>2
  <2> QED  BY <2>2, <2>3
<1>4. Box!VmessParse(l) = Fail \/ Box!VmessParse(l).ok
  BY ParsedSame DEF Box!VmessParse
<1> QED  BY <1>2, <1>3, <1>4

\* What every parser returns: nothing, or an object with the parts of the link.
Good(o, l) == o = Fail \/ (\E p \in Protocols : ParsedAs(o, l, p))

\* What Parse makes of a record with the parts of the link is good.
LEMMA GoodBy ==
    ASSUME NEW l, NEW m, NEW p, NEW q, l \in Record, m \in Record, p \in Protocols, q \in Query,
           m.host = l.host, m.user = l.user, m.port = l.port, m.padded = l.padded
    PROVE  Good(Parsed(m, p, q), l)
<1>1. p \in Text
  BY TextAssumption DEF Protocols
<1>2. PICK o : o = Parsed(m, p, q)
  OBVIOUS
<1>3. /\ o \in Object /\ o.ok /\ o.proto = p /\ o.address = m.host /\ o.id = m.user
      /\ o.port = m.port /\ o.padded = m.padded /\ o.certs = FALSE
  <2>1. o \in Object
    BY <1>1, <1>2, ParsedType
  <2>2. /\ o.ok /\ o.proto = p /\ o.address = m.host /\ o.id = m.user
        /\ o.port = m.port /\ o.padded = m.padded /\ o.certs = FALSE
    BY <1>2 DEF Parsed
  <2> QED  BY <2>1, <2>2
<1>4. ParsedAs(o, l, p)
  BY <1>3 DEF ParsedAs
<1> QED  BY <1>2, <1>4 DEF Good

\* All parsers are good.
LEMMA ParsersGood ==
    ASSUME NEW l \in Link
    PROVE  \A o \in {Xray!VlessParse(l), Box!VlessParse(l), Xray!TrojanParse(l), Box!TrojanParse(l),
                     Xray!VmessParse(l), Box!VmessParse(l), Xray!ShadowsocksParse(l), Box!ShadowsocksParse(l),
                     Xray!SocksParse(l), Box!SocksParse(l), Xray!Hysteria2Parse(l), Box!Hysteria2Parse(l),
                     Xray!WireguardParse(l), Box!WireguardParse(l), Fail} : Good(o, l)
<1>1. l \in Record /\ l.q \in Query /\ NoQuery \in Query /\ Named(l) \in Query /\ Scanned(l.q) \in Query
  BY LinkType, NoQueryType, OtherTypes
<1>2. \A p \in Protocols, q \in Query : Good(Parsed(l, p, q), l)
  BY <1>1, GoodBy
<1>3. \A q \in Query : Good(Parsed(SocksLink(l), "socks", q), l)
  BY <1>1, OtherTypes, GoodBy DEF Protocols
<1>4. Good(Fail, l)
  BY DEF Good
<1>5. "vless" \in Protocols /\ "trojan" \in Protocols /\ "vmess" \in Protocols /\ "shadowsocks" \in Protocols
      /\ "hysteria2" \in Protocols /\ "wireguard" \in Protocols
  BY DEF Protocols
<1>6. Good(Xray!VlessParse(l), l)
  BY <1>2, <1>4, <1>5, ParsedOrFail, XrayVlessParsed
<1>7. Good(Box!VlessParse(l), l)
  BY <1>2, <1>4, <1>5, ParsedOrFail, BoxVlessParsed
<1>8. Good(Xray!TrojanParse(l), l)
  BY <1>2, <1>4, <1>5, ParsedOrFail, XrayTrojanParsed
<1>9. Good(Box!TrojanParse(l), l)
  BY <1>2, <1>4, <1>5, ParsedOrFail, BoxTrojanParsed
<1>10. Good(Xray!VmessParse(l), l)
  BY <1>2, <1>4, <1>5, ParsedOrFail, XrayVmessParsed
<1>11. Good(Box!VmessParse(l), l)
  BY <1>2, <1>4, <1>5, ParsedOrFail, BoxVmessParsed
<1>12. Good(Xray!ShadowsocksParse(l), l) /\ Good(Box!ShadowsocksParse(l), l)
  BY <1>1, <1>2, <1>4, <1>5, OthersParsed
<1>13. Good(Xray!SocksParse(l), l) /\ Good(Box!SocksParse(l), l)
  BY <1>1, <1>3, <1>4, OthersParsed
<1>14. Good(Xray!Hysteria2Parse(l), l) /\ Good(Box!Hysteria2Parse(l), l)
  BY <1>1, <1>2, <1>4, <1>5, OthersParsed
<1>15. Good(Xray!WireguardParse(l), l) /\ Good(Box!WireguardParse(l), l)
  BY <1>1, <1>2, <1>4, <1>5, OthersParsed
<1> QED  BY <1>4, <1>6, <1>7, <1>8, <1>9, <1>10, <1>11, <1>12, <1>13, <1>14, <1>15

\* Parse of a core, and the core it is done by.
LEMMA ParseType ==
    ASSUME NEW c \in Cores, NEW l \in Link
    PROVE  /\ Good(XrayParse(l), l) /\ Good(BoxParse(l), l) /\ Good(Parse(c, l), l)
           /\ selectCoreForLink(c, l) \in ProxyCores
<1>1. Good(XrayParse(l), l)
  BY ParsersGood DEF XrayParse
<1>2. Good(BoxParse(l), l)
  BY ParsersGood DEF BoxParse
<1>3. selectCoreForLink(c, l) \in ProxyCores
  BY DEF Cores, ProxyCores, selectCoreForLink
<1> QED  BY <1>1, <1>2, <1>3 DEF Parse

-----------------------------------------------------------------------------
(* Builds from one object *)

\* A service name that lost slashes, one after the other.
LEMMA LostNext ==
    ASSUME NEW p \in Path, NEW n \in Nat
    PROVE  /\ Lost(p, n) \in Path /\ Lost(p, 0) = p
           /\ TrimSlash(Lost(p, n)) = Lost(p, n + 1)
<1>1. /\ Lost(p, n) \in Path /\ Lost(p, n).name = p.name
      /\ Lost(p, n).slashes = IF p.slashes > n THEN p.slashes - n ELSE 0
  BY DEF Lost, Path
<1>2. /\ Lost(p, n + 1) \in Path /\ Lost(p, n + 1).name = p.name
      /\ Lost(p, n + 1).slashes = IF p.slashes > n + 1 THEN p.slashes - (n + 1) ELSE 0
  BY DEF Lost, Path
<1>3. Lost(p, 0) = p
  BY DEF Lost, Path
<1>4. p.slashes \in Nat
  BY DEF Path
<1>5. PICK x : x = Lost(p, n)
  OBVIOUS
<1>6. PICK y : y = Lost(p, n + 1)
  OBVIOUS
<1>7. TrimSlash(x) = y
  <2>1. CASE p.slashes > n
    <3>1. x.slashes > 0 /\ y.slashes = x.slashes - 1 /\ x.name = y.name /\ x \in Path /\ y \in Path
      BY <1>1, <1>2, <1>4, <1>5, <1>6, <2>1
    <3> QED  BY <3>1 DEF TrimSlash, Path
  <2>2. CASE ~(p.slashes > n)
    <3>1. x.slashes = 0 /\ y.slashes = 0 /\ x.name = y.name /\ x \in Path /\ y \in Path
      BY <1>1, <1>2, <1>4, <1>5, <1>6, <2>2
    <3> QED  BY <3>1 DEF TrimSlash, Path
  <2> QED  BY <2>1, <2>2
<1> QED  BY <1>1, <1>3, <1>5, <1>6, <1>7

\* The outbound that the n-th build after e makes.
Rebuilt(e, n) == IF e.ok THEN [e EXCEPT !.stream.service = Lost(@, n)] ELSE Fail

\* An endpoint with another service name.
LEMMA RebuiltFields ==
    ASSUME NEW e \in Endpoints, NEW p \in Path, NEW x, x = [e EXCEPT !.stream.service = p]
    PROVE  /\ x \in Endpoints /\ x.stream = [e.stream EXCEPT !.service = p]
           /\ x.stream.service = p /\ e.stream.service \in Path
           /\ x.ok = e.ok /\ x.proto = e.proto /\ x.server = e.server /\ x.port = e.port /\ x.id = e.id
           /\ x.pass = e.pass /\ x.tls = e.tls /\ x.flow = e.flow /\ x.encryption = e.encryption
           /\ x.stream.network = e.stream.network /\ x.stream.host = e.stream.host
           /\ x.stream.path = e.stream.path /\ x.stream.authority = e.stream.authority
           /\ x.stream.mode = e.stream.mode /\ x.stream.extra = e.stream.extra
<1>1. e.stream \in Streams
  BY DEF Endpoints
<1>2. PICK s : s = [e.stream EXCEPT !.service = p]
  OBVIOUS
<1>3. /\ s \in Streams /\ s.service = p /\ s.network = e.stream.network /\ s.host = e.stream.host
      /\ s.path = e.stream.path /\ s.authority = e.stream.authority
      /\ s.mode = e.stream.mode /\ s.extra = e.stream.extra /\ e.stream.service \in Path
  BY <1>1, <1>2 DEF Streams
<1>4. x = [e EXCEPT !.stream = s]
  BY <1>2 DEF Endpoints
<1>5. /\ x \in Endpoints /\ x.stream = s
      /\ x.ok = e.ok /\ x.proto = e.proto /\ x.server = e.server /\ x.port = e.port /\ x.id = e.id
      /\ x.pass = e.pass /\ x.tls = e.tls /\ x.flow = e.flow /\ x.encryption = e.encryption
  BY <1>3, <1>4 DEF Endpoints
<1> QED  BY <1>2, <1>3, <1>5

\* One more build cuts one more slash.
LEMMA RebuiltNext ==
    ASSUME NEW e \in Endpoints \cup {Fail}, NEW n \in Nat
    PROVE  /\ Rebuilt(e, n) \in Endpoints \cup {Fail} /\ Rebuilt(e, 0) = e
           /\ Cut(Rebuilt(e, n)) = Rebuilt(e, n + 1)
<1>1. CASE e = Fail
  BY <1>1 DEF Rebuilt, Cut, Fail
<1>2. CASE e \in Endpoints
  <2>1. e.ok /\ e.stream \in Streams /\ e.stream.service \in Path
    BY <1>2 DEF Endpoints, Streams
  <2>2. PICK p : p = Lost(e.stream.service, n)
    OBVIOUS
  <2>3. PICK x : x = [e EXCEPT !.stream.service = p]
    OBVIOUS
  <2>4. p \in Path /\ TrimSlash(p) = Lost(e.stream.service, n + 1) /\ Lost(e.stream.service, 0) = e.stream.service
    BY <2>1, <2>2, LostNext
  <2>5. Rebuilt(e, n) = x
    BY <2>1, <2>2, <2>3 DEF Rebuilt
  <2>6. x \in Endpoints /\ x.ok /\ x.stream.service = p
    BY <1>2, <2>1, <2>3, <2>4, RebuiltFields
  <2>7. PICK r : r = TrimSlash(p)
    OBVIOUS
  <2>8. Cut(x) = [x EXCEPT !.stream.service = r]
    BY <2>6, <2>7 DEF Cut
  <2>9. Rebuilt(e, n + 1) = [e EXCEPT !.stream.service = r]
    BY <2>1, <2>4, <2>7 DEF Rebuilt
  <2>10. [x EXCEPT !.stream.service = r] = [e EXCEPT !.stream.service = r]
    BY <2>3, <1>2, <2>1 DEF Endpoints, Streams
  <2>11. Rebuilt(e, 0) = e
    <3>1. Rebuilt(e, 0) = [e EXCEPT !.stream.service = e.stream.service]
      BY <2>1, <2>4 DEF Rebuilt
    <3> QED  BY <1>2, <2>1, <3>1 DEF Endpoints, Streams
  <2> QED  BY <2>5, <2>6, <2>8, <2>9, <2>10, <2>11
<1> QED  BY <1>1, <1>2

\* Before a task starts, nothing was built, kept or dropped.
Idle == task = "none" => (builds = <<>> /\ seen = {} /\ unique = <<>> /\ dropped = <<>>)

\* An object that was parsed, and the outbounds built from it so far: each is the
\* first one less a slash for every build since, and the object's next outbound is
\* the first one less a slash for every build.
UseInv ==
    /\ Idle
    /\ task = "use" =>
         /\ core \in ProxyCores /\ link \in Link
         /\ obj = Fail \/ (obj \in Object /\ obj.proto \in Protocols)
         /\ builds \in Seq(Endpoints \cup {Fail})
         /\ \A i \in 1..Len(builds) : builds[i] = Rebuilt(builds[1], i - 1)
         /\ builds # <<>> => (obj # Fail /\ Outbound(core, obj) = Rebuilt(builds[1], Len(builds)))

\* CreateProtocol starts it.
LEMMA UseInvCreate ==
    ASSUME UseInv, NEW c \in Cores, NEW l \in LinkSet, Create(c, l)
    PROVE  UseInv'
<1>1. l \in Link
  BY LinksAssumption
<1>2. Good(Parse(c, l), l) /\ selectCoreForLink(c, l) \in ProxyCores
  BY <1>1, ParseType
<1>3. /\ task' = "use" /\ core' \in ProxyCores /\ link' = l /\ builds' = <<>>
      /\ obj' = Fail \/ (obj' \in Object /\ obj'.proto \in Protocols)
  BY <1>2 DEF UseInv, Idle, Create, Good, ParsedAs
<1>4. <<>> \in Seq(Endpoints \cup {Fail}) /\ Len(<<>>) = 0
  OBVIOUS
<1> QED  BY <1>1, <1>3, <1>4 DEF UseInv, Idle

\* A build keeps it.
LEMMA UseInvBuild ==
    ASSUME UseInv, Build
    PROVE  UseInv'
<1>1. /\ task = "use" /\ task' = "use" /\ core \in ProxyCores /\ core' = core /\ link \in Link /\ link' = link
      /\ obj \in Object /\ obj.proto \in Protocols /\ builds \in Seq(Endpoints \cup {Fail})
      /\ builds' = Append(builds, Outbound(core, obj)) /\ obj' = AfterBuild(core, obj)
      /\ \A i \in 1..Len(builds) : builds[i] = Rebuilt(builds[1], i - 1)
      /\ builds # <<>> => Outbound(core, obj) = Rebuilt(builds[1], Len(builds))
  BY DEF UseInv, Build, Fail
<1>2. PICK e : e = Outbound(core, obj)
  OBVIOUS
<1>3. /\ e \in Endpoints \cup {Fail} /\ obj' \in Object /\ obj'.proto \in Protocols
      /\ Outbound(core', obj') = Cut(e)
  BY <1>1, <1>2, OutboundRegular DEF Regular
<1>4. obj' # Fail
  BY <1>3 DEF Object, Fail
<1>5. PICK n : n = Len(builds)
  OBVIOUS
<1>6. /\ n \in Nat /\ builds' = Append(builds, e) /\ Len(builds') = n + 1
      /\ builds' \in Seq(Endpoints \cup {Fail}) /\ builds' # <<>>
      /\ builds'[n + 1] = e /\ \A i \in 1..n : builds'[i] = builds[i]
  BY <1>1, <1>2, <1>3, <1>5
<1>7. PICK b : b = builds'[1]
  OBVIOUS
<1>8. b \in Endpoints \cup {Fail}
  BY <1>6, <1>7
<1>9. e = Rebuilt(b, n)
  <2>1. CASE n = 0
    BY <1>6, <1>7, <1>8, <2>1, RebuiltNext
  <2>2. CASE n # 0
    <3>1. builds # <<>> /\ b = builds[1]
      BY <1>1, <1>5, <1>6, <1>7, <2>2
    <3> QED  BY <1>1, <1>2, <1>5, <3>1
  <2> QED  BY <2>1, <2>2
<1>10. \A i \in 1..(n + 1) : builds'[i] = Rebuilt(b, i - 1)
  <2>1. \A i \in 1..n : builds'[i] = Rebuilt(b, i - 1)
    BY <1>1, <1>5, <1>6, <1>7
  <2> QED  BY <1>6, <1>9, <2>1
<1>11. Outbound(core', obj') = Rebuilt(b, n + 1)
  BY <1>3, <1>6, <1>8, <1>9, RebuiltNext
<1> QED  BY <1>1, <1>3, <1>4, <1>6, <1>7, <1>10, <1>11 DEF UseInv, Idle

\* Every build of an object is the first one but for the slashes lost since.
\* (Instances and HTTP clients are made from one protocol object again and again.)
THEOREM RebuildsStable == Spec => []RebuildStable
<1>1. Init => UseInv
  BY DEF Init, UseInv, Idle
<1>2. UseInv /\ [Next]_vars => UseInv'
  <2> SUFFICES ASSUME UseInv, [Next]_vars
               PROVE  UseInv'
    OBVIOUS
  <2>1. CASE UNCHANGED vars
    BY <2>1 DEF vars, UseInv, Idle
  <2>2. CASE \E c \in Cores, l \in LinkSet : Create(c, l)
    BY <2>2, UseInvCreate
  <2>3. CASE Build
    BY <2>3, UseInvBuild
  <2>4. CASE \E c \in Cores, n \in 1..DedupLen : \E list \in [1..n -> DedupLinks] : Deduplicate(c, list)
    BY <2>4 DEF Deduplicate, UseInv, Idle
  <2>5. CASE DedupNext
    BY <2>5 DEF DedupNext, UseInv, Idle
  <2>6. CASE \E c \in ProxyCores, f \in Flags : Listen(c, f)
    BY <2>6 DEF Listen, UseInv, Idle
  <2>7. CASE \E c \in ProxyCores, l \in LinkSet : ListenLink(c, l)
    BY <2>7 DEF ListenLink, UseInv, Idle
  <2>8. CASE BuildInbound
    BY <2>8 DEF BuildInbound, UseInv, Idle
  <2>9. CASE \E c \in ProxyCores, n \in 2..3 : \E hops \in [1..n -> ChainLinks] : MakeChainedInstance(c, hops)
    BY <2>9 DEF MakeChainedInstance, UseInv, Idle
  <2>10. CASE Done
    BY <2>10 DEF Done, vars, UseInv, Idle
  <2> QED  BY <2>1, <2>2, <2>3, <2>4, <2>5, <2>6, <2>7, <2>8, <2>9, <2>10 DEF Next
<1>3. UseInv => RebuildStable
  <2> SUFFICES ASSUME UseInv, task = "use", NEW i \in DOMAIN builds
               PROVE  builds[i] = Rebuilt(builds[1], i - 1)
    BY DEF RebuildStable, Rebuilt
  <2>1. DOMAIN builds = 1..Len(builds)
    BY DEF UseInv
  <2> QED  BY <2>1 DEF UseInv
<1> QED  BY <1>1, <1>2, <1>3, PTL DEF Spec

-----------------------------------------------------------------------------
(* Deduplication *)

\* Objects that differ only in the spelling of the port and in the remark.
Like(o, w) ==
    /\ o.proto = w.proto /\ o.id = w.id /\ o.pass = w.pass /\ o.address = w.address /\ o.port = w.port
    /\ o.q = w.q

\* The endpoint of alike objects is the same.
LEMMA EndpointLike ==
    ASSUME NEW o, NEW w, Like(o, w)
    PROVE  \A port, s, t, f, e : Endpoint(o, port, s, t, f, e) = Endpoint(w, port, s, t, f, e)
BY DEF Like, Endpoint

\* They have the same outbound, unless a build fails.
LEMMA OutboundLike ==
    ASSUME NEW c \in ProxyCores, NEW o \in Object, NEW w \in Object, o.proto \in Protocols, Like(o, w)
    PROVE  Outbound(c, o) = Outbound(c, w) \/ Outbound(c, o) = Fail \/ Outbound(c, w) = Fail
<1>1. o.q = w.q /\ o.port = w.port /\ o.proto = w.proto
  BY DEF Like
<1>2. CASE c = "xray"
  <2>1. Outbound(c, o) = XrayOutbound(o) /\ Outbound(c, w) = XrayOutbound(w)
    BY <1>2 DEF Outbound
  <2>2. CASE o.proto = "vless"
    BY <1>1, <2>1, <2>2, XrayVless, EndpointLike DEF XrayOutbound, XVless, Flow
  <2>3. CASE o.proto = "vmess"
    <3>1. XVmessTLS(o) = XVmessTLS(w) /\ XVmess(o) = XVmess(w)
      BY <1>1, Zenon DEF XVmessTLS, XVmess
    <3> QED  BY <1>1, <2>1, <2>3, <3>1, XrayVmess, EndpointLike DEF XrayOutbound
  <2>4. CASE o.proto = "trojan"
    BY <1>1, <2>1, <2>4, XrayTrojan, EndpointLike DEF XrayOutbound, XTrojan, Flow
  <2>5. CASE o.proto = "shadowsocks"
    BY <1>1, <2>1, <2>5, EndpointLike, EndpointSame, PlainStreams DEF XrayOutbound, Xray!ShadowsocksOutbound
  <2>6. CASE o.proto = "socks"
    <3>1. Like(Xray!SocksUser(o), Xray!SocksUser(w))
      BY SocksUserType DEF Like, Xray!SocksUser, Object
    <3>2. PICK s : s = [NoStream EXCEPT !.network = "tcp"]
      OBVIOUS
    <3>3. \A v \in Object : \/ Xray!SocksOutbound(v) = Fail
                            \/ Xray!SocksOutbound(v) =
                                 Endpoint(Xray!SocksUser(v), v.port, s, NoTLS, v.q.flow, v.q.encryption)
      BY <3>2, EndpointSame, PlainStreams DEF Xray!SocksOutbound
    <3> QED  BY <1>1, <2>1, <2>6, <3>1, <3>3, EndpointLike DEF XrayOutbound
  <2>7. CASE o.proto = "hysteria2"
    <3>1. PICK s : s = [NoStream EXCEPT !.network = "hysteria"]
      OBVIOUS
    <3>2. PICK t : t = [NoTLS EXCEPT !.on = TRUE, !.serverName = o.q.sni,
                          !.lax = (AllowInsecure \/ Xray!Insecure(o.q.allowInsecure)) /\ o.q.sni # "empty"]
      OBVIOUS
    <3>3. /\ Xray!Hysteria2Outbound(o, AllowInsecure) \in {Fail, Endpoint(o, o.port, s, t, o.q.flow, o.q.encryption)}
          /\ Xray!Hysteria2Outbound(w, AllowInsecure) \in {Fail, Endpoint(w, w.port, s, t, o.q.flow, o.q.encryption)}
      BY <1>1, <3>1, <3>2, EndpointSame, PlainStreams DEF Xray!Hysteria2Outbound
    <3> QED  BY <1>1, <2>1, <2>7, <3>3, EndpointLike DEF XrayOutbound
  <2>8. CASE o.proto = "wireguard"
    BY <1>1, <2>1, <2>8, EndpointLike, EndpointSame, PlainStreams DEF XrayOutbound, Xray!WireguardOutbound
  <2> QED  BY <2>2, <2>3, <2>4, <2>5, <2>6, <2>7, <2>8 DEF Protocols
<1>3. CASE c = "singbox"
  <2>1. Outbound(c, o) = BoxOutbound(o) /\ Outbound(c, w) = BoxOutbound(w)
    BY <1>3 DEF Outbound
  <2>2. CASE o.proto = "vless"
    BY <1>1, <2>1, <2>2, BoxVless, EndpointLike DEF BoxOutbound, BVless
  <2>3. CASE o.proto = "vmess"
    <3>1. BVmessTLS(o) = BVmessTLS(w) /\ BVmess(o) = BVmess(w)
      BY <1>1, Zenon DEF BVmessTLS, BVmess
    <3> QED  BY <1>1, <2>1, <2>3, <3>1, BoxVmess, EndpointLike DEF BoxOutbound
  <2>4. CASE o.proto = "trojan"
    BY <1>1, <2>1, <2>4, BoxTrojan, EndpointLike DEF BoxOutbound, BVless
  <2>5. CASE o.proto \in {"shadowsocks", "socks"}
    BY <1>1, <2>1, <2>5, EndpointLike, EndpointSame, PlainStreams
       DEF BoxOutbound, Box!ShadowsocksOutbound, Box!SocksOutbound
  <2>7. CASE o.proto = "hysteria2"
    <3>2. PICK t : t = [NoTLS EXCEPT !.on = TRUE, !.serverName = o.q.sni,
                          !.lax = AllowInsecure \/ Box!Insecure(o.q.allowInsecure)]
      OBVIOUS
    <3>3. /\ Box!Hysteria2Outbound(o, AllowInsecure) = Endpoint(o, Box!Truncated(o.port), NoStream, t, o.q.flow, o.q.obfs)
          /\ Box!Hysteria2Outbound(w, AllowInsecure) = Endpoint(w, Box!Truncated(o.port), NoStream, t, o.q.flow, o.q.obfs)
      BY <1>1, <3>2, EndpointSame, PlainStreams DEF Box!Hysteria2Outbound
    <3> QED  BY <1>1, <2>1, <2>7, <3>3, EndpointLike DEF BoxOutbound
  <2>8. CASE o.proto = "wireguard"
    BY <1>1, <2>1, <2>8, EndpointLike, EndpointSame, PlainStreams DEF BoxOutbound, Box!WireguardOutbound
  <2> QED  BY <2>2, <2>3, <2>4, <2>5, <2>7, <2>8 DEF Protocols
<1> QED  BY <1>2, <1>3 DEF ProxyCores

\* Links that differ in spelling and remark only.
Agree(l, m) ==
    /\ l.user = m.user /\ l.pass = m.pass /\ l.form = m.form /\ l.host = m.host /\ l.port = m.port
    /\ l.q = m.q

\* Both fail, or both are objects that are alike.
SameParse(o, w) == o.ok => (w.ok /\ Like(o, w))

\* Parsed objects of records that agree are alike.
LEMMA ParsedLike ==
    ASSUME NEW l, NEW m, NEW p, NEW q,
           l.user = m.user, l.pass = m.pass, l.host = m.host, l.port = m.port
    PROVE  Like(Parsed(l, p, q), Parsed(m, p, q)) /\ Parsed(m, p, q).ok
BY DEF Like, Parsed

\* Options after Parse, of VLESS and Trojan.
XVlessOptions(q) ==
    [q EXCEPT !.path = Xray!DefaultPath(q.headerType = "http" \/ q.type \in {"ws", "h2", "xhttp"}, q),
              !.type = IF q.security \in {"tls", "reality"} \/ q.security = "empty" THEN Xray!Or(@, "tcp") ELSE @,
              !.fp = IF q.security \in {"tls", "reality"} THEN Xray!Or(@, "chrome") ELSE @]
BVlessOptions(q) ==
    [q EXCEPT !.path = Box!DefaultPath(q.headerType = "http" \/ q.type \in {"ws", "h2"}, q),
              !.authority = "empty", !.pcs = "empty", !.extra = "empty"]
XTrojanOptions(q) ==
    [q EXCEPT !.path = Xray!DefaultPath(\/ q.headerType \in {"xhttp", "http"}
                                        \/ q.type \in {"ws", "h2", "xhttp"}, q),
              !.type = Xray!Or(@, "tcp"),
              !.security = Xray!Or(q.security, "tls"),
              !.fp = IF Xray!Or(q.security, "tls") \in {"tls", "reality"} THEN Xray!Or(@, "chrome") ELSE @,
              !.extra = "empty"]
BTrojanOptions(q) ==
    [q EXCEPT !.path = Box!DefaultPath(q.type \in {"ws", "http"}, q),
              !.type = Box!Or(@, "tcp"),
              !.security = Box!Or(q.security, "tls"),
              !.fp = IF Box!Or(q.security, "tls") \in {"tls", "reality"} THEN Box!Or(@, "chrome") ELSE @,
              !.authority = "empty", !.pcs = "empty", !.extra = "empty"]

\* The parsers in terms of these options.
LEMMA ParsersByOptions ==
    ASSUME NEW l
    PROVE  /\ Xray!VlessParse(l) =
                IF ~HasPort(l) \/ ~isValidHostName(l.q.sni) \/ ~isValidHostName(l.q.host) THEN Fail
                ELSE Parsed(l, "vless", XVlessOptions(l.q))
           /\ Box!VlessParse(l) = IF ~HasPort(l) THEN Fail ELSE Parsed(l, "vless", BVlessOptions(l.q))
           /\ Xray!TrojanParse(l) =
                IF ~HasPort(l) \/ ~IsValidHostOrSNI(l.q.sni) \/ ~IsValidHostOrSNI(l.q.host) THEN Fail
                ELSE Parsed(l, "trojan", XTrojanOptions(l.q))
           /\ Box!TrojanParse(l) =
                IF ~HasPort(l) \/ ~IsValidHostOrSNI(l.q.sni) \/ ~IsValidHostOrSNI(l.q.host) THEN Fail
                ELSE Parsed(l, "trojan", BTrojanOptions(l.q))
<1> USE DEF HasPort, Xray!HasPort, Box!HasPort, isValidHostName, Xray!isValidHostName,
            IsValidHostOrSNI, Xray!IsValidHostOrSNI, Box!IsValidHostOrSNI, Parsed, Xray!Parsed, Box!Parsed,
            Fail, Xray!Fail, Box!Fail
<1>1. Xray!VlessParse(l) =
        IF ~HasPort(l) \/ ~isValidHostName(l.q.sni) \/ ~isValidHostName(l.q.host) THEN Fail
        ELSE Parsed(l, "vless", XVlessOptions(l.q))
  BY Zenon DEF Xray!VlessParse, XVlessOptions
<1>2. Box!VlessParse(l) = IF ~HasPort(l) THEN Fail ELSE Parsed(l, "vless", BVlessOptions(l.q))
  BY Zenon DEF Box!VlessParse, BVlessOptions
<1>3. Xray!TrojanParse(l) =
        IF ~HasPort(l) \/ ~IsValidHostOrSNI(l.q.sni) \/ ~IsValidHostOrSNI(l.q.host) THEN Fail
        ELSE Parsed(l, "trojan", XTrojanOptions(l.q))
  BY Zenon DEF Xray!TrojanParse, XTrojanOptions
<1>4. Box!TrojanParse(l) =
        IF ~HasPort(l) \/ ~IsValidHostOrSNI(l.q.sni) \/ ~IsValidHostOrSNI(l.q.host) THEN Fail
        ELSE Parsed(l, "trojan", BTrojanOptions(l.q))
  BY Zenon DEF Box!TrojanParse, BTrojanOptions
<1> QED  BY <1>1, <1>2, <1>3, <1>4

\* VLESS and Trojan: links that agree parse alike.
LEMMA VlessTrojanAlike ==
    ASSUME NEW l, NEW m, Agree(l, m)
    PROVE  /\ SameParse(Xray!VlessParse(l), Xray!VlessParse(m))
           /\ SameParse(Box!VlessParse(l), Box!VlessParse(m))
           /\ SameParse(Xray!TrojanParse(l), Xray!TrojanParse(m))
           /\ SameParse(Box!TrojanParse(l), Box!TrojanParse(m))
<1>1. /\ l.q = m.q /\ HasPort(l) = HasPort(m)
      /\ \A p, q : Like(Parsed(l, p, q), Parsed(m, p, q)) /\ Parsed(m, p, q).ok
  BY ParsedLike DEF Agree, HasPort
<1>2. ~Fail.ok
  BY DEF Fail
<1> QED  BY <1>1, <1>2, ParsersByOptions DEF SameParse

\* The forms of VMess that a parser takes.
XVmessTaken(l) ==
    LET sni == IF l.q.sni = "empty" /\ LegacyTLS(l.q) = "tls" THEN l.q.host ELSE l.q.sni IN
    \/ l.form = "json" /\ IsValidHostOrSNI(l.q.host) /\ IsValidHostOrSNI(l.q.sni)
    \/ l.form = "legacy" /\ HasPort(l) /\ IsValidHostOrSNI(l.q.host) /\ IsValidHostOrSNI(sni)
BVmessTaken(l) == l.form = "json" \/ (l.form = "legacy" /\ HasPort(l))

\* A parser takes VMess of these forms and no other.
LEMMA VmessTaken ==
    ASSUME NEW l \in Link
    PROVE  /\ Xray!VmessParse(l).ok <=> XVmessTaken(l)
           /\ Box!VmessParse(l).ok <=> BVmessTaken(l)
<1>1. \A a, p, q : Xray!Parsed(a, p, q).ok /\ Box!Parsed(a, p, q).ok
  BY DEF Xray!Parsed, Box!Parsed
<1>2. ~Xray!Fail.ok /\ ~Box!Fail.ok
  BY DEF Xray!Fail, Box!Fail
<1>3. (Xray!method1(l).ok \/ Xray!method2(l).ok) <=> XVmessTaken(l)
  <2>1. Xray!method1(l).ok <=> l.form = "json" /\ IsValidHostOrSNI(l.q.host) /\ IsValidHostOrSNI(l.q.sni)
    BY <1>1, <1>2 DEF Xray!method1, IsValidHostOrSNI, Xray!IsValidHostOrSNI
  <2>2. Xray!method2(l).ok <=>
          /\ l.form = "legacy" /\ HasPort(l) /\ IsValidHostOrSNI(l.q.host)
          /\ IsValidHostOrSNI(IF l.q.sni = "empty" /\ LegacyTLS(l.q) = "tls" THEN l.q.host ELSE l.q.sni)
    BY <1>1, <1>2 DEF Xray!method2, IsValidHostOrSNI, Xray!IsValidHostOrSNI, HasPort, Xray!HasPort, LegacyTLS
  <2> QED  BY <2>1, <2>2 DEF XVmessTaken
<1>4. (Box!method1(l).ok \/ Box!method2(l).ok) <=> BVmessTaken(l)
  BY <1>1, <1>2 DEF Box!method1, Box!method2, BVmessTaken, HasPort, Box!HasPort
<1>5. Xray!VmessParse(l).ok <=> (Xray!method1(l).ok \/ Xray!method2(l).ok)
  <2>1. PICK v : v = IF Xray!method1(l).ok THEN Xray!method1(l) ELSE Xray!method2(l)
    OBVIOUS
  <2>2. v.ok <=> (Xray!method1(l).ok \/ Xray!method2(l).ok)
    BY <2>1
  <2>3. ASSUME v.ok PROVE Xray!VmessParse(l).ok
    BY <2>1, <2>3 DEF Xray!VmessParse
  <2>4. ASSUME ~v.ok PROVE ~Xray!VmessParse(l).ok
    BY <1>2, <2>1, <2>4 DEF Xray!VmessParse
  <2> QED  BY <2>2, <2>3, <2>4
<1>6. Box!VmessParse(l).ok <=> (Box!method1(l).ok \/ Box!method2(l).ok)
  <2>1. PICK v : v = IF Box!method1(l).ok THEN Box!method1(l) ELSE Box!method2(l)
    OBVIOUS
  <2>2. v.ok <=> (Box!method1(l).ok \/ Box!method2(l).ok)
    BY <2>1
  <2>3. ASSUME v.ok PROVE Box!VmessParse(l).ok
    BY <2>1, <2>3 DEF Box!VmessParse
  <2>4. ASSUME ~v.ok PROVE ~Box!VmessParse(l).ok
    BY <1>2, <2>1, <2>4 DEF Box!VmessParse
  <2> QED  BY <2>2, <2>3, <2>4
<1> QED  BY <1>3, <1>4, <1>5, <1>6

\* Updates of alike objects.
LEMMA UpdatesLike ==
    ASSUME NEW v \in Object, NEW w \in Object, Like(v, w), NEW p, NEW t
    PROVE  Like(WithNetwork(v, p, t), WithNetwork(w, p, t)) /\ Like(WithPath(v, p), WithPath(w, p))
<1>1. /\ v.q = w.q /\ v.proto = w.proto /\ v.id = w.id /\ v.pass = w.pass /\ v.address = w.address
      /\ v.port = w.port
  BY DEF Like
<1>2. PICK r : r = [v.q EXCEPT !.path = p]
  OBVIOUS
<1>3. PICK s : s = [r EXCEPT !.type = t]
  OBVIOUS
<1>4. /\ WithPath(v, p) = WithOptions(v, r) /\ WithPath(w, p) = WithOptions(w, r)
      /\ WithNetwork(v, p, t) = WithOptions(v, s) /\ WithNetwork(w, p, t) = WithOptions(w, s)
  BY <1>1, <1>2, <1>3 DEF WithPath, WithNetwork, WithOptions, Object
<1>5. \A x : Like(WithOptions(v, x), WithOptions(w, x))
  BY <1>1 DEF Like, WithOptions, Object
<1> QED  BY <1>4, <1>5

\* VMess: links that agree parse alike.
LEMMA VmessAlike ==
    ASSUME NEW l \in Link, NEW m \in Link, Agree(l, m)
    PROVE  /\ SameParse(Xray!VmessParse(l), Xray!VmessParse(m))
           /\ SameParse(Box!VmessParse(l), Box!VmessParse(m))
<1>1. l.q = m.q /\ l.form = m.form /\ l.port = m.port /\ VmessOptions(l) = VmessOptions(m)
  BY DEF Agree, VmessOptions
<1>2. /\ Xray!VmessParse(l).ok <=> Xray!VmessParse(m).ok
      /\ Box!VmessParse(l).ok <=> Box!VmessParse(m).ok
  BY <1>1, VmessTaken DEF XVmessTaken, BVmessTaken, HasPort
<1>3. PICK q : q = VmessOptions(l)
  OBVIOUS
<1>4. PICK v, w : v = Parsed(l, "vmess", q) /\ w = Parsed(m, "vmess", q)
  OBVIOUS
<1>5. q \in Query /\ l \in Record /\ m \in Record
  BY <1>3, VmessMethods, LinkType
<1>6. v \in Object /\ v.q = q /\ w \in Object /\ w.q = q
  BY <1>4, <1>5, ParsedWith
<1>7. Like(v, w)
  BY <1>4, ParsedLike DEF Agree
<1>8. Like(Xray!VmessParse(l), Xray!VmessParse(m)) \/ ~Xray!VmessParse(l).ok
  <2>1. PICK p, t : /\ p = DefaultPath(q.headerType \in {"xhttp", "http"} \/ q.type \in {"ws", "h2"}, q)
                    /\ t = Or(q.type, "tcp")
    OBVIOUS
  <2>2. Xray!VmessParse(l).ok => Xray!VmessParse(l) = WithNetwork(v, p, t)
    BY <1>3, <1>4, <1>6, <2>1, VmessMethods
  <2>3. Xray!VmessParse(m).ok => Xray!VmessParse(m) = WithNetwork(w, p, t)
    BY <1>1, <1>3, <1>4, <1>6, <2>1, VmessMethods
  <2> QED  BY <1>2, <1>6, <1>7, <2>2, <2>3, UpdatesLike
<1>9. Like(Box!VmessParse(l), Box!VmessParse(m)) \/ ~Box!VmessParse(l).ok
  <2>1. PICK p : p = DefaultPath(q.headerType = "http" \/ q.type \in {"ws", "h2"}, q)
    OBVIOUS
  <2>2. Box!VmessParse(l).ok => Box!VmessParse(l) = WithPath(v, p)
    BY <1>3, <1>4, <1>6, <2>1, VmessMethods
  <2>3. Box!VmessParse(m).ok => Box!VmessParse(m) = WithPath(w, p)
    BY <1>1, <1>3, <1>4, <1>6, <2>1, VmessMethods
  <2> QED  BY <1>2, <1>6, <1>7, <2>2, <2>3, UpdatesLike
<1> QED  BY <1>2, <1>8, <1>9 DEF SameParse

\* The other protocols as conditions and options.
LEMMA OthersByOptions ==
    ASSUME NEW l \in Link
    PROVE  /\ Xray!ShadowsocksParse(l) =
                IF HasPort(l) /\ l.form \in {"b64", "plain"} THEN Parsed(l, "shadowsocks", NoQuery) ELSE Fail
           /\ Box!ShadowsocksParse(l) =
                IF HasPort(l) /\ l.form = "b64" THEN Parsed(l, "shadowsocks", NoQuery) ELSE Fail
           /\ Xray!SocksParse(l) = IF HasPort(l) THEN Parsed(SocksLink(l), "socks", NoQuery) ELSE Fail
           /\ Box!SocksParse(l) = IF HasPort(l) THEN Parsed(SocksLink(l), "socks", NoQuery) ELSE Fail
           /\ Xray!Hysteria2Parse(l) =
                IF HasPort(l) /\ IsValidHostOrSNI(l.q.sni) THEN Parsed(l, "hysteria2", Named(l)) ELSE Fail
           /\ Box!Hysteria2Parse(l) = IF HasPort(l) THEN Parsed(l, "hysteria2", Named(l)) ELSE Fail
           /\ Xray!WireguardParse(l) = Parsed(l, "wireguard", Scanned(l.q))
           /\ Box!WireguardParse(l) = IF l.q.mtu = "x" THEN Fail ELSE Parsed(l, "wireguard", l.q)
<1> USE DEF HasPort, Xray!HasPort, Box!HasPort
<1>1. Xray!NoQuery = NoQuery /\ Box!NoQuery = NoQuery
  BY DEF Xray!NoQuery, Box!NoQuery, NoQuery, Xray!NoPath, Box!NoPath, NoPath
<1>2. /\ Xray!ShadowsocksParse(l) =
           IF HasPort(l) /\ l.form \in {"b64", "plain"} THEN Parsed(l, "shadowsocks", NoQuery) ELSE Fail
      /\ Box!ShadowsocksParse(l) =
           IF HasPort(l) /\ l.form = "b64" THEN Parsed(l, "shadowsocks", NoQuery) ELSE Fail
  BY <1>1, ParsedSame DEF Xray!ShadowsocksParse, Box!ShadowsocksParse
<1>3. /\ Xray!SocksParse(l) = IF HasPort(l) THEN Parsed(SocksLink(l), "socks", NoQuery) ELSE Fail
      /\ Box!SocksParse(l) = IF HasPort(l) THEN Parsed(SocksLink(l), "socks", NoQuery) ELSE Fail
  BY <1>1, ParsedSame DEF Xray!SocksParse, Box!SocksParse, SocksLink
<1>4. /\ Xray!Hysteria2Parse(l) =
           IF HasPort(l) /\ IsValidHostOrSNI(l.q.sni) THEN Parsed(l, "hysteria2", Named(l)) ELSE Fail
      /\ Box!Hysteria2Parse(l) = IF HasPort(l) THEN Parsed(l, "hysteria2", Named(l)) ELSE Fail
  <2>1. l.q \in Query
    BY LinkType
  <2>2. /\ [l.q EXCEPT !.sni = Xray!Or(@, l.host)] = Named(l)
        /\ [l.q EXCEPT !.sni = Box!Or(@, l.host)] = Named(l)
    BY <2>1, ParsedSame DEF Named, Query
  <2> QED  BY <2>2, ParsedSame DEF Xray!Hysteria2Parse, Box!Hysteria2Parse, IsValidHostOrSNI, Xray!IsValidHostOrSNI
<1>5. /\ Xray!WireguardParse(l) = Parsed(l, "wireguard", Scanned(l.q))
      /\ Box!WireguardParse(l) = IF l.q.mtu = "x" THEN Fail ELSE Parsed(l, "wireguard", l.q)
  BY ParsedSame DEF Xray!WireguardParse, Box!WireguardParse, Scanned
<1> QED  BY <1>2, <1>3, <1>4, <1>5

\* The other protocols: links that agree parse alike.
LEMMA OthersAlike ==
    ASSUME NEW l \in Link, NEW m \in Link, Agree(l, m)
    PROVE  /\ SameParse(Xray!ShadowsocksParse(l), Xray!ShadowsocksParse(m))
           /\ SameParse(Box!ShadowsocksParse(l), Box!ShadowsocksParse(m))
           /\ SameParse(Xray!SocksParse(l), Xray!SocksParse(m))
           /\ SameParse(Box!SocksParse(l), Box!SocksParse(m))
           /\ SameParse(Xray!Hysteria2Parse(l), Xray!Hysteria2Parse(m))
           /\ SameParse(Box!Hysteria2Parse(l), Box!Hysteria2Parse(m))
           /\ SameParse(Xray!WireguardParse(l), Xray!WireguardParse(m))
           /\ SameParse(Box!WireguardParse(l), Box!WireguardParse(m))
<1>1. l.q = m.q /\ l.form = m.form /\ (HasPort(l) <=> HasPort(m)) /\ l.host = m.host
  BY DEF Agree, HasPort
<1>2. \A p, q : Like(Parsed(l, p, q), Parsed(m, p, q)) /\ Parsed(m, p, q).ok
  BY ParsedLike DEF Agree
<1>3. \A p, q : Like(Parsed(SocksLink(l), p, q), Parsed(SocksLink(m), p, q)) /\ Parsed(SocksLink(m), p, q).ok
  BY ParsedLike, OtherTypes DEF Agree
<1>4. Named(l) = Named(m)
  BY <1>1, Zenon DEF Named
<1>5. ~Fail.ok
  BY DEF Fail
<1>6. /\ SameParse(Xray!ShadowsocksParse(l), Xray!ShadowsocksParse(m))
      /\ SameParse(Box!ShadowsocksParse(l), Box!ShadowsocksParse(m))
  BY <1>1, <1>2, <1>5, OthersByOptions DEF SameParse
<1>7. /\ SameParse(Xray!SocksParse(l), Xray!SocksParse(m))
      /\ SameParse(Box!SocksParse(l), Box!SocksParse(m))
  BY <1>1, <1>3, <1>5, OthersByOptions DEF SameParse
<1>8. /\ SameParse(Xray!Hysteria2Parse(l), Xray!Hysteria2Parse(m))
      /\ SameParse(Box!Hysteria2Parse(l), Box!Hysteria2Parse(m))
  BY <1>1, <1>2, <1>4, <1>5, OthersByOptions DEF SameParse
<1>9. /\ SameParse(Xray!WireguardParse(l), Xray!WireguardParse(m))
      /\ SameParse(Box!WireguardParse(l), Box!WireguardParse(m))
  BY <1>1, <1>2, <1>5, OthersByOptions DEF SameParse
<1> QED  BY <1>6, <1>7, <1>8, <1>9

\* hy2 is hysteria2.
SchemeOf(l) == IF l.scheme = "hy2" THEN "hysteria2" ELSE l.scheme

\* Links that agree in scheme, too.
LEMMA ParseAlike ==
    ASSUME NEW c \in Cores, NEW l \in Link, NEW m \in Link, Agree(l, m), SchemeOf(l) = SchemeOf(m)
    PROVE  SameParse(Parse(c, l), Parse(c, m)) /\ selectCoreForLink(c, l) = selectCoreForLink(c, m)
<1>1. l.scheme = m.scheme \/ (l.scheme \in {"hysteria2", "hy2"} /\ m.scheme \in {"hysteria2", "hy2"})
  BY DEF SchemeOf
<1>2. selectCoreForLink(c, l) = selectCoreForLink(c, m)
  BY <1>1 DEF selectCoreForLink, Cores
<1>3. SameParse(Fail, Fail)
  BY DEF SameParse, Fail
<1>4. SameParse(XrayParse(l), XrayParse(m))
  BY <1>1, <1>3, VlessTrojanAlike, VmessAlike, OthersAlike DEF XrayParse
<1>5. SameParse(BoxParse(l), BoxParse(m))
  BY <1>1, <1>3, VlessTrojanAlike, VmessAlike, OthersAlike DEF BoxParse
<1> QED  BY <1>2, <1>4, <1>5 DEF Parse

\* The credentials of ss and socks links are those of the object; its options
\* are none.
LEMMA CredentialsAlike ==
    ASSUME NEW c \in Cores, NEW l \in Link, NEW m \in Link, l.scheme = m.scheme, l.scheme \in {"ss", "socks"},
           Parse(c, l).ok, Parse(c, m).ok,
           Parse(c, l).id = Parse(c, m).id, Parse(c, l).pass = Parse(c, m).pass,
           l.host = m.host, l.port = m.port
    PROVE  Like(Parse(c, l), Parse(c, m)) /\ selectCoreForLink(c, l) = selectCoreForLink(c, m)
<1>1. selectCoreForLink(c, l) = selectCoreForLink(c, m)
  BY DEF selectCoreForLink, Cores
<1>2. ~Fail.ok
  BY DEF Fail
<1>3. /\ \A k \in Link : k.scheme = "ss" => Parse(c, k) \in {Parsed(k, "shadowsocks", NoQuery), Fail}
      /\ \A k \in Link : k.scheme = "socks" => Parse(c, k) \in {Parsed(SocksLink(k), "socks", NoQuery), Fail}
  BY OthersByOptions DEF Parse, XrayParse, BoxParse
<1>4. CASE l.scheme = "ss"
  <2>1. Parse(c, l) = Parsed(l, "shadowsocks", NoQuery) /\ Parse(c, m) = Parsed(m, "shadowsocks", NoQuery)
    BY <1>2, <1>3, <1>4
  <2> QED  BY <1>1, <2>1 DEF Like, Parsed
<1>5. CASE l.scheme = "socks"
  <2>1. Parse(c, l) = Parsed(SocksLink(l), "socks", NoQuery) /\ Parse(c, m) = Parsed(SocksLink(m), "socks", NoQuery)
    BY <1>2, <1>3, <1>5
  <2>2. SocksLink(l).host = l.host /\ SocksLink(l).port = l.port
        /\ SocksLink(m).host = m.host /\ SocksLink(m).port = m.port
    BY OtherTypes
  <2> QED  BY <1>1, <2>1, <2>2 DEF Like, Parsed
<1> QED  BY <1>4, <1>5

\* What a fingerprint tells of its link.
JSON(l) == l.scheme = "vmess" /\ l.form = "json"
\* Links with one fingerprint have the same scheme, host, port and options.
LEMMA FingerprintTells ==
    ASSUME NEW l, NEW m, NEW o, NEW w, ConnectionFingerprint(l, o) = ConnectionFingerprint(m, w)
    PROVE  /\ JSON(l) <=> JSON(m)
           /\ JSON(l) => (l.user = m.user /\ l.host = m.host /\ l.port = m.port /\ l.q = m.q)
           /\ ~JSON(l) => /\ SchemeOf(l) = SchemeOf(m) /\ Credentials(l, o) = Credentials(m, w)
                          /\ l.host = m.host /\ l.port = m.port /\ l.q = m.q
<1> DEFINE Text1(k) == <<"json", k.user, k.host, k.upper, k.port, k.padded, k.q>>
           Text2(k, x) == <<"uri", SchemeOf(k), Credentials(k, x), k.host, k.port,
                            IF HasPort(k) THEN FALSE ELSE k.upper, IF Port16(k.port) THEN FALSE ELSE k.padded, k.q>>
<1>1. /\ ConnectionFingerprint(l, o) = IF JSON(l) THEN Text1(l) ELSE Text2(l, o)
      /\ ConnectionFingerprint(m, w) = IF JSON(m) THEN Text1(m) ELSE Text2(m, w)
  BY DEF ConnectionFingerprint, canonicalVMess, canonicalURI, JSON, SchemeOf
<1>2. \A k : /\ Text1(k)[1] = "json" /\ Text1(k)[2] = k.user /\ Text1(k)[3] = k.host /\ Text1(k)[5] = k.port
             /\ Text1(k)[7] = k.q
  OBVIOUS
<1>3. \A k, x : /\ Text2(k, x)[1] = "uri" /\ Text2(k, x)[2] = SchemeOf(k) /\ Text2(k, x)[3] = Credentials(k, x)
                /\ Text2(k, x)[4] = k.host /\ Text2(k, x)[5] = k.port /\ Text2(k, x)[8] = k.q
  OBVIOUS
<1> HIDE DEF Text1, Text2
<1>4. JSON(l) <=> JSON(m)
  BY ZenonT(60), <1>1, <1>2, <1>3
<1>5. CASE JSON(l)
  <2>1. Text1(l) = Text1(m)
    BY <1>1, <1>4, <1>5
  <2> QED  BY <1>2, <1>4, <1>5, <2>1
<1>6. CASE ~JSON(l)
  <2>1. Text2(l, o) = Text2(m, w)
    BY <1>1, <1>4, <1>6
  <2> QED  BY <1>3, <1>4, <1>6, <2>1
<1> QED  BY <1>5, <1>6

\* Links under one identity make the same object, or are the same text.
LEMMA SameIdentity ==
    ASSUME NEW c \in Cores, NEW l \in Link, NEW m \in Link, Identity(c, l) = Identity(c, m)
    PROVE  /\ Parse(c, l).ok => /\ Parse(c, m).ok /\ Like(Parse(c, l), Parse(c, m))
                                /\ selectCoreForLink(c, l) = selectCoreForLink(c, m)
           /\ ~Parse(c, l).ok => l = m
<1>1. PICK o, w : o = Parse(c, l) /\ w = Parse(c, m)
  OBVIOUS
<1>2. PICK f, g : f = ConnectionFingerprint(l, o) /\ g = ConnectionFingerprint(m, w)
  OBVIOUS
<1>3. /\ Identity(c, l) = IF o.ok THEN <<"connection", f>> ELSE <<"raw", l>>
      /\ Identity(c, m) = IF w.ok THEN <<"connection", g>> ELSE <<"raw", m>>
  BY <1>1, <1>2 DEF Identity
<1>a. /\ \A a, b : <<"connection", a>> # <<"raw", b>>
      /\ \A x, a, b : <<x, a>> = <<x, b>> => a = b
  OBVIOUS
<1>4. CASE ~o.ok
  <2>1. Identity(c, l) = <<"raw", l>>
    BY <1>3, <1>4
  <2>2. ~w.ok
    BY <1>3, <1>a, <2>1
  <2>3. Identity(c, m) = <<"raw", m>>
    BY <1>3, <2>2
  <2> QED  BY <1>1, <1>4, <1>a, <2>1, <2>3
<1>5. CASE o.ok
  <2>1. w.ok /\ f = g
    <3>1. Identity(c, l) = <<"connection", f>>
      BY <1>3, <1>5
    <3>2. w.ok
      BY <1>3, <1>a, <3>1
    <3>3. Identity(c, m) = <<"connection", g>>
      BY <1>3, <3>2
    <3> QED  BY <1>a, <3>1, <3>2, <3>3
  <2>a. ConnectionFingerprint(l, o) = ConnectionFingerprint(m, w)
    BY <1>2, <2>1
  <2>2. CASE JSON(l)
    <3>1. JSON(m) /\ l.user = m.user /\ l.host = m.host /\ l.port = m.port /\ l.q = m.q
      BY ZenonT(60), <1>2, <2>1, <2>2, FingerprintTells
    <3>2. l.pass = "empty" /\ m.pass = "empty" /\ l.form = m.form /\ l.scheme = m.scheme
      BY <2>2, <3>1, LinkType DEF JSON
    <3>3. Agree(l, m) /\ SchemeOf(l) = SchemeOf(m)
      BY <3>1, <3>2 DEF Agree, SchemeOf
    <3> QED  BY <1>1, <1>5, <3>3, ParseAlike DEF SameParse
  <2>3. CASE ~JSON(l)
    <3>1. /\ SchemeOf(l) = SchemeOf(m) /\ Credentials(l, o) = Credentials(m, w)
          /\ l.host = m.host /\ l.port = m.port /\ l.q = m.q
      BY <2>3, <2>a, FingerprintTells
    <3>2. CASE l.scheme \in {"ss", "socks"}
      <4>1. m.scheme = l.scheme
        BY <3>1, <3>2 DEF SchemeOf
      <4>2. <<"parsed", o.id, o.pass>> = <<"parsed", w.id, w.pass>>
        BY <3>1, <3>2, <4>1 DEF Credentials
      <4>3. o.id = w.id /\ o.pass = w.pass
        BY <4>2
      <4> QED  BY <1>1, <1>5, <2>1, <3>1, <3>2, <4>1, <4>3, CredentialsAlike
    <3>3. CASE l.scheme \notin {"ss", "socks"}
      <4>1. m.scheme \notin {"ss", "socks"}
        BY <3>1, <3>3 DEF SchemeOf
      <4>2. <<l.form, l.user, l.pass>> = <<m.form, m.user, m.pass>>
        BY <3>1, <3>3, <4>1 DEF Credentials
      <4>3. Agree(l, m)
        BY <3>1, <4>2 DEF Agree
      <4> QED  BY <1>1, <1>5, <3>1, <4>3, ParseAlike DEF SameParse
    <3> QED  BY <3>2, <3>3
  <2> QED  BY <2>2, <2>3
<1> QED  BY <1>4, <1>5

\* Links that one author would call the same are remembered under one identity.
LEMMA AlikeIdentity ==
    ASSUME NEW c \in Cores, NEW l \in Link, NEW m \in Link, Alike(l, m), Parse(c, l).ok,
           HasPort(l), Port16(l.port)
    PROVE  Identity(c, l) = Identity(c, m)
<1>1. /\ l.scheme = m.scheme /\ l.user = m.user /\ l.pass = m.pass /\ l.form = m.form /\ l.host = m.host
      /\ l.port = m.port /\ l.q = m.q /\ l.form # "json"
  <2>1. l \in Record /\ m \in Record
    BY LinkType
  <2>2. PICK a, b : /\ a = [l EXCEPT !.remark = "empty", !.order = 0, !.upper = FALSE, !.padded = FALSE]
                    /\ b = [m EXCEPT !.remark = "empty", !.order = 0, !.upper = FALSE, !.padded = FALSE]
    OBVIOUS
  <2>3. /\ a.scheme = l.scheme /\ a.user = l.user /\ a.pass = l.pass /\ a.form = l.form /\ a.host = l.host
        /\ a.port = l.port /\ a.q = l.q
    BY <2>1, <2>2 DEF Record
  <2>4. /\ b.scheme = m.scheme /\ b.user = m.user /\ b.pass = m.pass /\ b.form = m.form /\ b.host = m.host
        /\ b.port = m.port /\ b.q = m.q
    BY <2>1, <2>2 DEF Record
  <2>5. a = b /\ l.form # "json"
    BY <2>2 DEF Alike
  <2> QED  BY <2>3, <2>4, <2>5
<1>2. PICK o, w : o = Parse(c, l) /\ w = Parse(c, m)
  OBVIOUS
<1>3. o.ok /\ w.ok /\ Like(o, w)
  BY <1>1, <1>2, ParseAlike DEF Agree, SchemeOf, SameParse
<1>4. Credentials(l, o) = Credentials(m, w)
  BY <1>1, <1>3 DEF Credentials, Like
<1>5. ConnectionFingerprint(l, o) = ConnectionFingerprint(m, w)
  <2>1. HasPort(m) /\ Port16(m.port)
    BY <1>1 DEF HasPort
  <2> QED  BY <1>1, <1>4, <2>1 DEF ConnectionFingerprint, canonicalVMess, canonicalURI
<1> QED  BY <1>2, <1>3, <1>5 DEF Identity

\* The identities seen are those of the links kept, which are all different, and
\* every link dropped has the identity of one kept.
DedupInv ==
    /\ Idle
    /\ task = "dedup" =>
         /\ core \in Cores /\ input \in Seq(DedupLinks) /\ unique \in Seq(DedupLinks) /\ dropped \in Seq(DedupLinks)
         /\ seen = {Identity(core, unique[i]) : i \in 1..Len(unique)}
         /\ \A i, j \in 1..Len(unique) : i # j => Identity(core, unique[i]) # Identity(core, unique[j])
         /\ \A i \in 1..Len(dropped) : \E j \in 1..Len(unique) : Identity(core, dropped[i]) = Identity(core, unique[j])

\* SemanticDeduplicateLinks starts it.
LEMMA DedupInvStart ==
    ASSUME DedupInv, NEW c \in Cores, NEW n \in 1..DedupLen, NEW list \in [1..n -> DedupLinks], Deduplicate(c, list)
    PROVE  DedupInv'
<1>1. /\ task' = "dedup" /\ core' = c /\ input' = list /\ seen' = {} /\ unique' = <<>> /\ dropped' = <<>>
  BY DEF DedupInv, Idle, Deduplicate
<1>2. list \in Seq(DedupLinks)
  BY BoundsAssumption
<1>3. <<>> \in Seq(DedupLinks) /\ Len(<<>>) = 0
  OBVIOUS
<1> QED  BY <1>1, <1>2, <1>3 DEF DedupInv, Idle

\* Its loop keeps it.
LEMMA DedupInvNext ==
    ASSUME DedupInv, DedupNext
    PROVE  DedupInv'
<1>1. /\ task = "dedup" /\ task' = "dedup" /\ core \in Cores /\ core' = core
      /\ input \in Seq(DedupLinks) /\ input # <<>> /\ unique \in Seq(DedupLinks) /\ dropped \in Seq(DedupLinks)
      /\ seen = {Identity(core, unique[i]) : i \in 1..Len(unique)}
      /\ \A i, j \in 1..Len(unique) : i # j => Identity(core, unique[i]) # Identity(core, unique[j])
      /\ \A i \in 1..Len(dropped) : \E j \in 1..Len(unique) : Identity(core, dropped[i]) = Identity(core, unique[j])
      /\ input' = Tail(input)
  BY DEF DedupInv, DedupNext
<1>2. PICK l : l = Head(input)
  OBVIOUS
<1>3. l \in DedupLinks /\ input' \in Seq(DedupLinks)
  BY <1>1, <1>2
<1>4. PICK key : key = Identity(core, l)
  OBVIOUS
<1>5. CASE key \in seen
  <2>1. dropped' = Append(dropped, l) /\ seen' = seen /\ unique' = unique
    BY <1>2, <1>4, <1>5 DEF DedupNext
  <2>2. PICK j \in 1..Len(unique) : key = Identity(core, unique[j])
    BY <1>1, <1>5
  <2>3. /\ dropped' \in Seq(DedupLinks) /\ Len(dropped') = Len(dropped) + 1
        /\ dropped'[Len(dropped) + 1] = l /\ \A i \in 1..Len(dropped) : dropped'[i] = dropped[i]
    BY <1>1, <1>3, <2>1
  <2>4. Len(dropped) \in Nat
    BY <1>1
  <2>5. \A i \in 1..Len(dropped') : \E k \in 1..Len(unique) : Identity(core, dropped'[i]) = Identity(core, unique[k])
    <3> SUFFICES ASSUME NEW i \in 1..Len(dropped')
                 PROVE  \E k \in 1..Len(unique) : Identity(core, dropped'[i]) = Identity(core, unique[k])
      OBVIOUS
    <3>1. CASE i \in 1..Len(dropped)
      <4>1. dropped'[i] = dropped[i]
        BY <2>3, <3>1
      <4> QED  BY <1>1, <3>1, <4>1
    <3>2. CASE i = Len(dropped) + 1
      BY <1>4, <2>2, <2>3, <3>2
    <3> QED  BY <2>3, <2>4, <3>1, <3>2
  <2> QED  BY <1>1, <1>3, <2>1, <2>3, <2>5 DEF DedupInv, Idle
<1>6. CASE key \notin seen
  <2>1. dropped' = dropped /\ seen' = seen \cup {key} /\ unique' = Append(unique, l)
    BY <1>2, <1>4, <1>6 DEF DedupNext
  <2>2. PICK n : n = Len(unique)
    OBVIOUS
  <2>3. /\ n \in Nat /\ unique' \in Seq(DedupLinks) /\ Len(unique') = n + 1
        /\ unique'[n + 1] = l /\ \A i \in 1..n : unique'[i] = unique[i]
    BY <1>1, <1>3, <2>1, <2>2
  <2>4. seen' = {Identity(core, unique'[i]) : i \in 1..Len(unique')}
    <3>1. \A x : x \in seen' <=> \E i \in 1..(n + 1) : x = Identity(core, unique'[i])
      <4>1. \A x : x \in seen <=> \E i \in 1..n : x = Identity(core, unique'[i])
        BY <1>1, <2>2, <2>3
      <4> QED  BY <1>4, <2>1, <2>3, <4>1
    <3> QED  BY <2>3, <3>1
  <2>5. \A i, j \in 1..Len(unique') : i # j => Identity(core, unique'[i]) # Identity(core, unique'[j])
    <3>1. \A i \in 1..n : Identity(core, unique'[i]) # key
      BY <1>1, <1>6, <2>2, <2>3
    <3>2. \A i, j \in 1..n : i # j => Identity(core, unique'[i]) # Identity(core, unique'[j])
      BY <1>1, <2>2, <2>3
    <3> QED  BY <1>4, <2>3, <3>1, <3>2
  <2>6. \A i \in 1..Len(dropped') : \E j \in 1..Len(unique') : Identity(core, dropped'[i]) = Identity(core, unique'[j])
    <3> SUFFICES ASSUME NEW i \in 1..Len(dropped)
                 PROVE  \E j \in 1..Len(unique') : Identity(core, dropped[i]) = Identity(core, unique'[j])
      BY <2>1
    <3>1. PICK j \in 1..n : Identity(core, dropped[i]) = Identity(core, unique[j])
      BY <1>1, <2>2
    <3>2. j \in 1..Len(unique') /\ unique'[j] = unique[j]
      BY <2>3, <3>1
    <3> QED  BY <3>1, <3>2
  <2>7. dropped' \in Seq(DedupLinks) /\ unique' \in Seq(DedupLinks)
    BY <1>1, <2>1, <2>3
  <2> QED  BY <1>1, <1>3, <2>4, <2>5, <2>6, <2>7 DEF DedupInv, Idle
<1> QED  BY <1>5, <1>6

\* Deduplication drops a link only for one that makes the same connection, and
\* keeps no two spellings of one connection (SemanticDeduplicateLinks).
THEOREM DedupsFaithful == Spec => []DedupFaithful
<1>1. Init => DedupInv
  BY DEF Init, DedupInv, Idle
<1>2. DedupInv /\ [Next]_vars => DedupInv'
  <2> SUFFICES ASSUME DedupInv, [Next]_vars
               PROVE  DedupInv'
    OBVIOUS
  <2>1. CASE UNCHANGED vars
    BY <2>1 DEF vars, DedupInv, Idle
  <2>2. CASE \E c \in Cores, l \in LinkSet : Create(c, l)
    BY <2>2 DEF Create, DedupInv, Idle
  <2>3. CASE Build
    BY <2>3 DEF Build, DedupInv, Idle
  <2>4. CASE \E c \in Cores, n \in 1..DedupLen : \E list \in [1..n -> DedupLinks] : Deduplicate(c, list)
    BY <2>4, DedupInvStart
  <2>5. CASE DedupNext
    BY <2>5, DedupInvNext
  <2>6. CASE \E c \in ProxyCores, f \in Flags : Listen(c, f)
    BY <2>6 DEF Listen, DedupInv, Idle
  <2>7. CASE \E c \in ProxyCores, l \in LinkSet : ListenLink(c, l)
    BY <2>7 DEF ListenLink, DedupInv, Idle
  <2>8. CASE BuildInbound
    BY <2>8 DEF BuildInbound, DedupInv, Idle
  <2>9. CASE \E c \in ProxyCores, n \in 2..3 : \E hops \in [1..n -> ChainLinks] : MakeChainedInstance(c, hops)
    BY <2>9 DEF MakeChainedInstance, DedupInv, Idle
  <2>10. CASE Done
    BY <2>10 DEF Done, vars, DedupInv, Idle
  <2> QED  BY <2>1, <2>2, <2>3, <2>4, <2>5, <2>6, <2>7, <2>8, <2>9, <2>10 DEF Next
<1>3. DedupInv => DedupFaithful
  <2> SUFFICES ASSUME DedupInv, task = "dedup"
               PROVE  DedupFaithful
    BY DEF DedupFaithful
  <2>1. /\ core \in Cores /\ unique \in Seq(DedupLinks) /\ dropped \in Seq(DedupLinks)
        /\ \A i, j \in 1..Len(unique) : i # j => Identity(core, unique[i]) # Identity(core, unique[j])
        /\ \A i \in 1..Len(dropped) : \E j \in 1..Len(unique) : Identity(core, dropped[i]) = Identity(core, unique[j])
    BY DEF DedupInv
  <2>2. /\ DOMAIN dropped = 1..Len(dropped) /\ DOMAIN unique = 1..Len(unique)
        /\ \A i \in DOMAIN dropped : dropped[i] \in Link
        /\ \A i \in DOMAIN unique : unique[i] \in Link
    BY <2>1, LinksAssumption
  <2> DEFINE Built(l) == Outbound(selectCoreForLink(core, l), Parse(core, l))
  <2>3. ASSUME NEW i \in DOMAIN dropped
        PROVE  \E j \in DOMAIN unique :
                 IF Parse(core, dropped[i]).ok
                 THEN /\ Parse(core, unique[j]).ok
                      /\ (Built(dropped[i]).ok /\ Built(unique[j]).ok) => Built(dropped[i]) = Built(unique[j])
                 ELSE dropped[i] = unique[j]
    <3>1. PICK j \in DOMAIN unique : Identity(core, dropped[i]) = Identity(core, unique[j])
      BY <2>1, <2>2
    <3>2. PICK l, m : l = dropped[i] /\ m = unique[j]
      OBVIOUS
    <3>3. l \in Link /\ m \in Link
      BY <2>2, <3>2
    <3>4. CASE ~Parse(core, l).ok
      BY <2>1, <3>1, <3>2, <3>3, <3>4, SameIdentity
    <3>5. CASE Parse(core, l).ok
      <4>1. /\ Parse(core, m).ok /\ Like(Parse(core, l), Parse(core, m))
            /\ selectCoreForLink(core, l) = selectCoreForLink(core, m)
        BY <2>1, <3>1, <3>2, <3>3, <3>5, SameIdentity
      <4>2. PICK o, w, c : o = Parse(core, l) /\ w = Parse(core, m) /\ c = selectCoreForLink(core, l)
        OBVIOUS
      <4>3. o # Fail /\ w # Fail
        BY <3>5, <4>1, <4>2 DEF Fail
      <4>4. c \in ProxyCores /\ o \in Object /\ w \in Object /\ o.proto \in Protocols
        <5>1. Good(o, l) /\ Good(w, m) /\ c \in ProxyCores
          BY <2>1, <3>3, <4>2, ParseType
        <5> QED  BY <4>3, <5>1 DEF Good, ParsedAs
      <4>5. Outbound(c, o) = Outbound(c, w) \/ Outbound(c, o) = Fail \/ Outbound(c, w) = Fail
        BY <4>1, <4>2, <4>4, OutboundLike
      <4>6. Built(l) = Outbound(c, o) /\ Built(m) = Outbound(c, w)
        BY <4>1, <4>2
      <4>7. (Built(l).ok /\ Built(m).ok) => Built(l) = Built(m)
        BY <4>5, <4>6 DEF Fail
      <4> HIDE DEF Built
      <4> QED  BY <3>2, <3>5, <4>1, <4>7
    <3> QED  BY <3>4, <3>5
  <2>4. ASSUME NEW i \in DOMAIN unique, NEW j \in DOMAIN unique, i # j, Parse(core, unique[i]).ok,
               HasPort(unique[i]), Port16(unique[i].port)
        PROVE  ~Alike(unique[i], unique[j])
    <3>1. Identity(core, unique[i]) # Identity(core, unique[j])
      BY <2>1, <2>2, <2>4
    <3> QED  BY <2>1, <2>2, <2>4, <3>1, AlikeIdentity
  <2> QED  BY <2>3, <2>4 DEF DedupFaithful
<1> QED  BY <1>1, <1>2, <1>3, PTL DEF Spec

-----------------------------------------------------------------------------
(* The two cores *)

\* Networks without options of their own.
Plain(n) == IF n \in {"empty", "tcp", "hysteria"} THEN "plain" ELSE n
SeenPass(e) == IF e.proto = "socks" /\ e.id = "empty" THEN "empty" ELSE e.pass

\* Streams that look the same to the peer.
SeenStream(s, r) ==
    /\ Plain(s.network) = Plain(r.network) /\ s.service = r.service
    /\ s.network \in {"ws", "httpupgrade"} => (s.host = r.host /\ Rooted(s.path) = Rooted(r.path))

\* Endpoints that agree in these parts are seen the same.
LEMMA SeenSame ==
    ASSUME NEW e, NEW f, e.server = f.server, e.port = f.port, e.id = f.id, SeenPass(e) = SeenPass(f),
           e.tls.on = f.tls.on, e.tls.reality = f.tls.reality, SeenStream(e.stream, f.stream)
    PROVE  Seen(e) = Seen(f)
<1>1. CASE e.stream.network \in {"ws", "httpupgrade"}
  <2>1. f.stream.network = e.stream.network
    BY <1>1 DEF SeenStream, Plain
  <2> QED  BY <1>1, <2>1 DEF Seen, SeenPass, SeenStream, Plain
<1>2. CASE e.stream.network \notin {"ws", "httpupgrade"}
  <2>1. f.stream.network \notin {"ws", "httpupgrade"}
    BY <1>2 DEF SeenStream, Plain
  <2> QED  BY <1>2, <2>1 DEF Seen, SeenPass, SeenStream, Plain
<1> QED  BY <1>1, <1>2

\* The same for endpoints of two objects of one link.
LEMMA SeenEndpoints ==
    ASSUME NEW o, NEW w, NEW n, NEW s, NEW r, NEW t, NEW u, NEW f, NEW g, NEW e, NEW h,
           o.proto = w.proto, o.address = w.address, o.id = w.id,
           o.pass = w.pass \/ (o.proto = "socks" /\ o.id = "empty"),
           t.on = u.on, t.reality = u.reality, SeenStream(s, r)
    PROVE  Seen(Endpoint(o, n, s, t, f, e)) = Seen(Endpoint(w, n, r, u, g, h))
<1>1. PICK a, b : a = Endpoint(o, n, s, t, f, e) /\ b = Endpoint(w, n, r, u, g, h)
  OBVIOUS
<1>2. /\ a.server = b.server /\ a.port = b.port /\ a.id = b.id /\ SeenPass(a) = SeenPass(b)
      /\ a.tls = t /\ b.tls = u /\ a.stream = s /\ b.stream = r
  BY <1>1 DEF Endpoint, SeenPass
<1>3. Seen(a) = Seen(b)
  BY <1>2, SeenSame
<1> QED  BY <1>1, <1>3

\* Truncation changes no port that the xray core takes.
LEMMA PortSame ==
    ASSUME NEW n \in Nat, Port16(n)
    PROVE  n % 65536 = n
BY DEF Port16

\* Paths that differ at most in the default.
LEMMA RootedTrim ==
    ASSUME NEW p \in Path, NEW r \in Path, Rooted(p) = Rooted(r)
    PROVE  TrimSlash(p) = TrimSlash(r)
<1>1. TrimSlash(Root) = NoPath
  <2>1. Root \in Path /\ Root.slashes = 1 /\ Root.name = "empty"
    BY TextAssumption DEF Root, Path
  <2>2. NoPath \in Path /\ NoPath.slashes = 0 /\ NoPath.name = "empty"
    BY TextAssumption DEF NoPath, Path
  <2>3. TrimSlash(Root) \in Path /\ TrimSlash(Root).slashes = 0 /\ TrimSlash(Root).name = "empty"
    BY <2>1 DEF TrimSlash, Path
  <2> HIDE DEF Root
  <2> QED  BY <2>2, <2>3 DEF Path
<1>2. TrimSlash(NoPath) = NoPath
  BY NoPathType
<1> QED  BY <1>1, <1>2 DEF Rooted

\* TLS options of the sing-box core.
LEMMA TLSOptionsFields ==
    ASSUME NEW r, NEW on \in BOOLEAN
    PROVE  /\ Box!TLSOptions(r, on, AllowInsecure).on = on
           /\ Box!TLSOptions(r, on, AllowInsecure).reality = IF r.security = "reality" THEN r.pbk ELSE "empty"
BY DEF Box!TLSOptions

\* TLS of VLESS and Trojan is on with both cores, or off with both.
LEMMA TLSAgree ==
    ASSUME NEW q \in Query, NEW r \in Query, q.security = r.security, q.pbk = r.pbk, NEW t, NEW u,
           t = Xray!Secured(q, AllowInsecure),
           u = Box!TLSOptions(r, r.security \in {"tls", "reality"}, AllowInsecure)
    PROVE  t.on = u.on /\ t.reality = u.reality
<1> DEFINE on == r.security \in {"tls", "reality"}
<1>1. u = Box!TLSOptions(r, on, AllowInsecure) /\ on \in BOOLEAN
  OBVIOUS
<1>2. /\ r.security \in {"tls", "reality"} => on = TRUE
      /\ r.security \notin {"tls", "reality"} => on = FALSE
  OBVIOUS
<1> HIDE DEF on
<1>3. u.on = on /\ u.reality = IF r.security = "reality" THEN r.pbk ELSE "empty"
  BY <1>1, TLSOptionsFields
<1>4. CASE q.security = "tls"
  <2>1. t = Xray!TLSSettings(q, AllowInsecure)
    BY <1>4 DEF Xray!Secured
  <2>2. t.on = TRUE /\ t.reality = "empty"
    BY <2>1 DEF Xray!TLSSettings
  <2> QED  BY <1>2, <1>3, <1>4, <2>2
<1>5. CASE q.security = "reality"
  <2>1. t = Xray!RealitySettings(q)
    BY <1>5 DEF Xray!Secured
  <2>2. t.on = TRUE /\ t.reality = q.pbk
    BY <2>1 DEF Xray!RealitySettings
  <2> QED  BY <1>2, <1>3, <1>5, <2>2
<1>6. CASE q.security \notin {"tls", "reality"}
  <2>1. t = NoTLS
    BY <1>6, PlainStreams DEF Xray!Secured
  <2>2. t.on = FALSE /\ t.reality = "empty"
    BY <2>1 DEF NoTLS
  <2> QED  BY <1>2, <1>3, <1>6, <2>2
<1> QED  BY <1>4, <1>5, <1>6

\* The same for VMess, which has no REALITY.
LEMMA VmessTLSAgree ==
    ASSUME NEW v \in Object, NEW w \in Object, v.q.security = w.q.security, NEW t, NEW u,
           t = XVmessTLS(v), u = BVmessTLS(w)
    PROVE  t.on = u.on /\ t.reality = u.reality
<1> DEFINE on == w.q.security = "tls"
<1>1. PICK r : r = [w.q EXCEPT !.security = "empty"]
  OBVIOUS
<1>2. u = Box!TLSOptions(r, on, AllowInsecure) /\ on \in BOOLEAN
  BY <1>1 DEF BVmessTLS
<1>3. r.security = "empty"
  BY <1>1, ObjectFields DEF Query
<1>4. (w.q.security = "tls" => on = TRUE) /\ (w.q.security # "tls" => on = FALSE)
  OBVIOUS
<1> HIDE DEF on
<1>5. u.on = on /\ u.reality = "empty"
  BY <1>2, <1>3, TLSOptionsFields
<1>6. CASE v.q.security = "tls"
  <2>1. PICK q : t = Xray!TLSSettings(q, AllowInsecure)
    BY <1>6 DEF XVmessTLS
  <2>2. t.on = TRUE /\ t.reality = "empty"
    BY <2>1 DEF Xray!TLSSettings
  <2> QED  BY <1>4, <1>5, <1>6, <2>2
<1>7. CASE v.q.security # "tls"
  <2>1. t = NoTLS
    BY <1>7 DEF XVmessTLS
  <2>2. t.on = FALSE /\ t.reality = "empty"
    BY <2>1 DEF NoTLS
  <2> QED  BY <1>4, <1>5, <1>7, <2>2
<1> QED  BY <1>6, <1>7

\* Streams of the two cores, from options that agree.
LEMMA StreamsAgree ==
    ASSUME NEW n, NEW k, NEW h, NEW host, NEW p, NEW r, NEW s, NEW v, NEW a, NEW m, NEW e, NEW tcp,
           Plain(n) = Plain(k), Rooted(p) = Rooted(r), s = v
    PROVE  SeenStream(XStream(n, h, host, p, s, a, m, e, tcp), BStream(k, host, r, v))
<1>1. PICK x : x = XStream(n, h, host, p, s, a, m, e, tcp)
  OBVIOUS
<1>2. PICK b : b = BStream(k, host, r, v)
  OBVIOUS
<1>3. /\ x.network = n /\ x.service = (IF n = "grpc" THEN s ELSE NoPath)
      /\ n \in {"ws", "httpupgrade"} => (x.host = host /\ x.path = p)
  BY <1>1 DEF XStream, XHosted
<1>4. /\ b.network = k /\ b.service = (IF k = "grpc" THEN v ELSE NoPath)
      /\ k \in {"ws", "httpupgrade"} => (b.host = host /\ b.path = r)
  BY <1>2 DEF BStream, BHosted
<1>5. n \in {"ws", "httpupgrade", "grpc"} \/ k \in {"ws", "httpupgrade", "grpc"} => n = k
  BY DEF Plain
<1>6. SeenStream(x, b)
  BY <1>3, <1>4, <1>5 DEF SeenStream
<1> QED  BY <1>1, <1>2, <1>6

\* VLESS.
LEMMA VlessAgree ==
    ASSUME NEW l \in Link, NEW x, NEW b, x = Xray!VlessParse(l), b = Box!VlessParse(l), x.ok, b.ok,
           Xray!VlessOutbound(x, AllowInsecure).ok, Box!VlessOutbound(b, AllowInsecure).ok
    PROVE  Seen(Xray!VlessOutbound(x, AllowInsecure)) = Seen(Box!VlessOutbound(b, AllowInsecure))
<1>1. PICK q \in Query :
        /\ x = Parsed(l, "vless", q) /\ SameOptions(q, l.q)
        /\ q.path = DefaultPath(l.q.headerType = "http" \/ l.q.type \in {"ws", "h2", "xhttp"}, l.q)
        /\ q.type = IF l.q.security \in {"tls", "reality", "empty"} THEN Or(l.q.type, "tcp") ELSE l.q.type
        /\ q.security = l.q.security
  BY XrayVlessParsed
<1>2. PICK r \in Query :
        /\ b = Parsed(l, "vless", r) /\ SameOptions(r, l.q)
        /\ r.path = DefaultPath(l.q.headerType = "http" \/ l.q.type \in {"ws", "h2"}, l.q)
        /\ r.type = l.q.type /\ r.security = l.q.security
  BY BoxVlessParsed
<1>3. l \in Record /\ l.q \in Query /\ l.port \in Nat /\ "vless" \in Text
  BY LinkType, TextAssumption
<1>4. x \in Object /\ b \in Object
  <2>1. x = Parsed(l, "vless", q) /\ b = Parsed(l, "vless", r)
    BY <1>1, <1>2
  <2>2. l \in Record /\ "vless" \in Text
    BY <1>3
  <2>3. Parsed(l, "vless", q) \in Object /\ Parsed(l, "vless", r) \in Object
    BY <2>2, ParsedType
  <2> QED  BY <2>1, <2>3
<1>5. /\ x.q = q /\ b.q = r /\ x.port = l.port /\ b.port = l.port /\ x.proto = b.proto
      /\ x.address = b.address /\ x.id = b.id /\ x.pass = b.pass
  BY <1>1, <1>2 DEF Parsed
<1>6. PICK t, u : /\ t = Xray!Secured(q, AllowInsecure)
                  /\ u = Box!TLSOptions(r, r.security \in {"tls", "reality"}, AllowInsecure)
  OBVIOUS
<1>7. t.on = u.on /\ t.reality = u.reality
  <2>1. q.security = r.security /\ q.pbk = r.pbk
    BY <1>1, <1>2 DEF SameOptions
  <2> QED  BY <1>6, <2>1, TLSAgree
<1>8. SeenStream(XVless(x), BVless(b))
  <2>1. Plain(q.type) = Plain(r.type)
    BY <1>1, <1>2 DEF Plain, Or
  <2>2. Rooted(q.path) = Rooted(r.path)
    BY <1>1, <1>2, <1>3, DefaultPathType
  <2>3. q.host = r.host /\ q.serviceName = r.serviceName
    BY <1>1, <1>2 DEF SameOptions
  <2>4. PICK s : s = TrimSlash(q.serviceName)
    OBVIOUS
  <2>5. /\ XVless(x) = XStream(q.type, q.headerType, q.host, q.path, s, q.authority, q.mode, q.extra, {"tcp", "raw"})
        /\ BVless(b) = BStream(r.type, q.host, r.path, s)
    BY <1>5, <2>3, <2>4 DEF XVless, BVless
  <2> QED  BY <2>1, <2>2, <2>5, StreamsAgree
<1>9. PICK s, v : s = XVless(x) /\ v = BVless(b)
  OBVIOUS
<1>10. Port16(l.port)
  BY <1>4, <1>5, XrayVless DEF Fail
<1>11. PICK f, e : Xray!VlessOutbound(x, AllowInsecure) = Endpoint(x, l.port, s, t, f, e)
  BY <1>4, <1>5, <1>6, <1>9, <1>10, XrayVless
<1>12. PICK g, h : Box!VlessOutbound(b, AllowInsecure) = Endpoint(b, l.port, v, u, g, h)
  <2>1. l.port % 65536 = l.port
    BY <1>3, <1>10, PortSame
  <2> QED  BY <1>4, <1>5, <1>6, <1>9, <2>1, BoxVless DEF Fail
<1> QED  BY <1>5, <1>7, <1>8, <1>9, <1>11, <1>12, SeenEndpoints

\* Trojan.
LEMMA TrojanAgree ==
    ASSUME NEW l \in Link, NEW x, NEW b, x = Xray!TrojanParse(l), b = Box!TrojanParse(l), x.ok, b.ok,
           Xray!TrojanOutbound(x, AllowInsecure).ok
    PROVE  Seen(Xray!TrojanOutbound(x, AllowInsecure)) = Seen(Box!TrojanOutbound(b, AllowInsecure))
<1>1. PICK q \in Query :
        /\ x = Parsed(l, "trojan", q) /\ SameOptions(q, l.q)
        /\ q.path = DefaultPath(\/ l.q.headerType \in {"xhttp", "http"}
                                \/ l.q.type \in {"ws", "h2", "xhttp"}, l.q)
        /\ q.type = Or(l.q.type, "tcp") /\ q.security = Or(l.q.security, "tls")
  BY XrayTrojanParsed
<1>2. PICK r \in Query :
        /\ b = Parsed(l, "trojan", r) /\ SameOptions(r, l.q)
        /\ r.path = DefaultPath(l.q.type \in {"ws", "http"}, l.q)
        /\ r.type = Or(l.q.type, "tcp") /\ r.security = Or(l.q.security, "tls")
  BY BoxTrojanParsed
<1>3. l \in Record /\ l.q \in Query /\ l.port \in Nat /\ "trojan" \in Text
  BY LinkType, TextAssumption
<1>4. x \in Object /\ b \in Object
  <2>1. x = Parsed(l, "trojan", q) /\ b = Parsed(l, "trojan", r)
    BY <1>1, <1>2
  <2>2. l \in Record /\ "trojan" \in Text
    BY <1>3
  <2>3. Parsed(l, "trojan", q) \in Object /\ Parsed(l, "trojan", r) \in Object
    BY <2>2, ParsedType
  <2> QED  BY <2>1, <2>3
<1>5. /\ x.q = q /\ b.q = r /\ x.port = l.port /\ b.port = l.port /\ x.proto = b.proto
      /\ x.address = b.address /\ x.id = b.id /\ x.pass = b.pass
  BY <1>1, <1>2 DEF Parsed
<1>6. PICK t, u : /\ t = Xray!Secured(q, AllowInsecure)
                  /\ u = Box!TLSOptions(r, r.security \in {"tls", "reality"}, AllowInsecure)
  OBVIOUS
<1>7. t.on = u.on /\ t.reality = u.reality
  <2>1. q.security = r.security /\ q.pbk = r.pbk
    BY <1>1, <1>2 DEF SameOptions
  <2> QED  BY <1>6, <2>1, TLSAgree
<1>8. SeenStream(XTrojan(x), BVless(b))
  <2>2. Rooted(q.path) = Rooted(r.path)
    BY ZenonT(60), <1>1, <1>2, <1>3, DefaultPathType
  <2>3. q.host = r.host /\ q.serviceName = r.serviceName /\ q.type = r.type
    BY <1>1, <1>2 DEF SameOptions
  <2>4. PICK s : s = TrimSlash(q.serviceName)
    OBVIOUS
  <2>5. /\ XTrojan(x) = XStream(q.type, q.headerType, q.host, q.path, s, q.authority, q.mode, "empty", {"tcp"})
        /\ BVless(b) = BStream(r.type, q.host, r.path, s)
    BY <1>5, <2>3, <2>4 DEF XTrojan, BVless
  <2> QED  BY <2>2, <2>3, <2>5, StreamsAgree
<1>9. PICK s, v : s = XTrojan(x) /\ v = BVless(b)
  OBVIOUS
<1>10. Port16(l.port)
  BY <1>4, <1>5, XrayTrojan DEF Fail
<1>11. PICK f, e : Xray!TrojanOutbound(x, AllowInsecure) = Endpoint(x, l.port, s, t, f, e)
  BY <1>4, <1>5, <1>6, <1>9, <1>10, XrayTrojan
<1>12. PICK g, h : Box!TrojanOutbound(b, AllowInsecure) = Endpoint(b, l.port, v, u, g, h)
  <2>1. l.port % 65536 = l.port
    BY <1>3, <1>10, PortSame
  <2> QED  BY <1>4, <1>5, <1>6, <1>9, <2>1, BoxTrojan
<1> QED  BY <1>5, <1>7, <1>8, <1>9, <1>11, <1>12, SeenEndpoints

\* VMess.
LEMMA VmessAgree ==
    ASSUME NEW l \in Link, NEW x, NEW b, x = Xray!VmessParse(l), b = Box!VmessParse(l), x.ok, b.ok,
           Xray!VmessOutbound(x, AllowInsecure).ok
    PROVE  Seen(Xray!VmessOutbound(x, AllowInsecure)) = Seen(Box!VmessOutbound(b, AllowInsecure))
<1>1. PICK q \in Query :
        /\ x = Parsed(l, "vmess", q) /\ SameOptions(q, VmessOptions(l)) /\ q.security = VmessOptions(l).security
        /\ Rooted(q.path) = Rooted(VmessOptions(l).path) /\ q.type = Or(VmessOptions(l).type, "tcp")
  BY XrayVmessParsed
<1>2. PICK r \in Query :
        /\ b = Parsed(l, "vmess", r) /\ SameOptions(r, VmessOptions(l)) /\ r.security = VmessOptions(l).security
        /\ Rooted(r.path) = Rooted(VmessOptions(l).path) /\ r.type = VmessOptions(l).type
  BY BoxVmessParsed
<1>3. l \in Record /\ l.port \in Nat
  BY LinkType
<1>4. x \in Object /\ b \in Object
  <2>1. x = Parsed(l, "vmess", q) /\ b = Parsed(l, "vmess", r)
    BY <1>1, <1>2
  <2> QED  BY <1>3, <2>1, ParsedWith
<1>5. /\ x.q = q /\ b.q = r /\ x.port = l.port /\ b.port = l.port /\ x.proto = b.proto
      /\ x.address = b.address /\ x.id = b.id /\ x.pass = b.pass
  BY <1>1, <1>2 DEF Parsed
<1>6. PICK t, u : t = XVmessTLS(x) /\ u = BVmessTLS(b)
  OBVIOUS
<1>7. t.on = u.on /\ t.reality = u.reality
  BY <1>1, <1>2, <1>4, <1>5, <1>6, VmessTLSAgree
<1>8. SeenStream(XVmess(x), BVmess(b))
  <2>1. Plain(q.type) = Plain(r.type)
    BY <1>1, <1>2 DEF Plain, Or
  <2>2. Rooted(q.path) = Rooted(r.path) /\ q.path \in Path /\ r.path \in Path
    BY <1>1, <1>2 DEF Query
  <2>3. q.host = r.host /\ TrimSlash(q.path) = TrimSlash(r.path)
    BY <1>1, <1>2, <2>2, RootedTrim DEF SameOptions
  <2>4. PICK s : s = TrimSlash(q.path)
    OBVIOUS
  <2>5. /\ XVmess(x) = XStream(q.type, q.headerType, q.host, q.path, s, q.host, q.headerType, "empty", {"tcp"})
        /\ BVmess(b) = BStream(r.type, q.host, r.path, s)
    BY <1>5, <2>3, <2>4 DEF XVmess, BVmess
  <2> QED  BY <2>1, <2>2, <2>5, StreamsAgree
<1>9. PICK s, v : s = XVmess(x) /\ v = BVmess(b)
  OBVIOUS
<1>10. Port16(l.port) /\ l.port # 0
  BY <1>4, <1>5, XrayVmess DEF Fail
<1>11. PICK f, e : Xray!VmessOutbound(x, AllowInsecure) = Endpoint(x, l.port, s, t, f, e)
  BY <1>4, <1>5, <1>6, <1>9, <1>10, XrayVmess
<1>12. PICK g, h : Box!VmessOutbound(b, AllowInsecure) = Endpoint(b, l.port, v, u, g, h)
  <2>1. l.port % 65536 = l.port
    BY <1>3, <1>10, PortSame
  <2> QED  BY <1>4, <1>5, <1>6, <1>9, <1>10, <2>1, BoxVmess
<1> QED  BY <1>5, <1>7, <1>8, <1>9, <1>11, <1>12, SeenEndpoints

\* Streams of the other protocols.
LEMMA PlainAgree ==
    /\ SeenStream(NoStream, NoStream)
    /\ \A n \in {"tcp", "hysteria"} : SeenStream([NoStream EXCEPT !.network = n], NoStream)
<1>1. NoStream.network = "empty" /\ NoStream.service = NoPath
  BY DEF NoStream
<1>2. \A n \in {"tcp", "hysteria"} : /\ [NoStream EXCEPT !.network = n].service = NoPath
                                     /\ [NoStream EXCEPT !.network = n].network = n
  BY PlainStreams, TextAssumption
<1> QED  BY <1>1, <1>2 DEF SeenStream, Plain

\* Shadowsocks and SOCKS.
LEMMA SocksAgree ==
    ASSUME NEW x, NEW b, x.proto = b.proto, x.address = b.address, x.id = b.id, x.pass = b.pass, x.port = b.port,
           x.port \in Nat, x \in Object
    PROVE  /\ Xray!ShadowsocksOutbound(x).ok => Seen(Xray!ShadowsocksOutbound(x)) = Seen(Box!ShadowsocksOutbound(b))
           /\ (x.proto = "socks" /\ Xray!SocksOutbound(x).ok) => Seen(Xray!SocksOutbound(x)) = Seen(Box!SocksOutbound(b))
<1>1. PICK n : n = x.port
  OBVIOUS
<1>2. Port16(n) => Box!Truncated(b.port) = n
  BY <1>1, PortSame DEF Box!Truncated
<1>3. ASSUME Xray!ShadowsocksOutbound(x).ok
      PROVE  Seen(Xray!ShadowsocksOutbound(x)) = Seen(Box!ShadowsocksOutbound(b))
  <2>1. /\ Port16(n)
        /\ Xray!ShadowsocksOutbound(x) = Endpoint(x, n, NoStream, NoTLS, x.q.flow, x.q.encryption)
    BY <1>1, <1>3, EndpointSame, PlainStreams DEF Xray!ShadowsocksOutbound, Fail, Xray!Port16, Port16
  <2>2. Box!ShadowsocksOutbound(b) = Endpoint(b, n, NoStream, NoTLS, b.q.flow, b.q.encryption)
    BY <1>2, <2>1, EndpointSame, PlainStreams DEF Box!ShadowsocksOutbound
  <2> QED  BY <2>1, <2>2, PlainAgree, SeenEndpoints
<1>4. ASSUME x.proto = "socks", Xray!SocksOutbound(x).ok
      PROVE  Seen(Xray!SocksOutbound(x)) = Seen(Box!SocksOutbound(b))
  <2>1. PICK s : s = [NoStream EXCEPT !.network = "tcp"]
    OBVIOUS
  <2>2. PICK y : y = Xray!SocksUser(x)
    OBVIOUS
  <2>3. /\ Port16(n)
        /\ Xray!SocksOutbound(x) = Endpoint(y, n, s, NoTLS, x.q.flow, x.q.encryption)
    BY <1>1, <1>4, <2>1, <2>2, EndpointSame, PlainStreams DEF Xray!SocksOutbound, Fail, Xray!Port16, Port16
  <2>4. Box!SocksOutbound(b) = Endpoint(b, n, NoStream, NoTLS, b.q.flow, b.q.encryption)
    BY <1>2, <2>3, EndpointSame, PlainStreams DEF Box!SocksOutbound
  <2>5. /\ y.proto = b.proto /\ y.address = b.address /\ y.id = b.id
        /\ y.pass = b.pass \/ (y.proto = "socks" /\ y.id = "empty")
    BY <1>4, <2>2, SocksUserType
  <2>6. SeenStream(s, NoStream)
    BY <2>1, PlainAgree
  <2> QED  BY <2>3, <2>4, <2>5, <2>6, SeenEndpoints
<1> QED  BY <1>3, <1>4

\* Hysteria2 and WireGuard.
LEMMA Hysteria2Agree ==
    ASSUME NEW x, NEW b, x.proto = b.proto, x.address = b.address, x.id = b.id, x.pass = b.pass, x.port = b.port,
           x.port \in Nat, x \in Object, b \in Object, Xray!Hysteria2Outbound(x, AllowInsecure).ok
    PROVE  Seen(Xray!Hysteria2Outbound(x, AllowInsecure)) = Seen(Box!Hysteria2Outbound(b, AllowInsecure))
<1> DEFINE laxX == (AllowInsecure \/ Xray!Insecure(x.q.allowInsecure)) /\ x.q.sni # "empty"
           laxB == AllowInsecure \/ Box!Insecure(b.q.allowInsecure)
<1>1. laxX \in BOOLEAN /\ laxB \in BOOLEAN /\ x.q.sni \in Text /\ b.q.sni \in Text
  BY DEF Object, Query
<1> HIDE DEF laxX, laxB
<1>2. PICK t : t = [NoTLS EXCEPT !.on = TRUE, !.serverName = x.q.sni, !.lax = laxX]
  OBVIOUS
<1>3. PICK u : u = [NoTLS EXCEPT !.on = TRUE, !.serverName = b.q.sni, !.lax = laxB]
  OBVIOUS
<1>4. t.on = TRUE /\ t.reality = "empty" /\ u.on = TRUE /\ u.reality = "empty"
  <2>1. t.on /\ t.reality = "empty" /\ t \in Securities
    BY <1>1, <1>2, Hysteria2TLSType
  <2>2. u.on /\ u.reality = "empty" /\ u \in Securities
    BY <1>1, <1>3, Hysteria2TLSType
  <2> QED  BY <2>1, <2>2 DEF Securities
<1>5. PICK s : s = [NoStream EXCEPT !.network = "hysteria"]
  OBVIOUS
<1>6. /\ Port16(x.port)
      /\ Xray!Hysteria2Outbound(x, AllowInsecure) = Endpoint(x, x.port, s, t, x.q.flow, x.q.encryption)
  <2>1. Xray!Hysteria2Outbound(x, AllowInsecure) =
          IF ~Port16(x.port) THEN Fail ELSE Endpoint(x, x.port, s, t, x.q.flow, x.q.encryption)
    BY <1>2, <1>5, EndpointSame, PlainStreams DEF Xray!Hysteria2Outbound, laxX, Xray!Port16, Port16
  <2> QED  BY <2>1 DEF Fail
<1>7. Box!Hysteria2Outbound(b, AllowInsecure) = Endpoint(b, x.port, NoStream, u, b.q.flow, b.q.obfs)
  <2>1. Box!Truncated(b.port) = x.port
    BY <1>6, PortSame DEF Box!Truncated
  <2> QED  BY <1>3, <2>1, EndpointSame, PlainStreams DEF Box!Hysteria2Outbound, laxB
<1>8. SeenStream(s, NoStream)
  BY <1>5, PlainAgree
<1>9. PICK f, e : Xray!Hysteria2Outbound(x, AllowInsecure) = Endpoint(x, x.port, s, t, f, e)
  BY <1>6
<1>10. PICK g, h : Box!Hysteria2Outbound(b, AllowInsecure) = Endpoint(b, x.port, NoStream, u, g, h)
  BY <1>7
<1>11. t.on = u.on /\ t.reality = u.reality
  BY <1>4
<1>12. PICK v : v = NoStream
  OBVIOUS
<1>13. Seen(Endpoint(x, x.port, s, t, f, e)) = Seen(Endpoint(b, x.port, v, u, g, h))
  BY <1>8, <1>11, <1>12, SeenEndpoints
<1> QED  BY <1>9, <1>10, <1>12, <1>13

\* WireGuard.
LEMMA WireguardAgree ==
    ASSUME NEW x, NEW b, x.proto = b.proto, x.address = b.address, x.id = b.id, x.pass = b.pass, x.port = b.port,
           Box!WireguardOutbound(b).ok
    PROVE  Seen(Xray!WireguardOutbound(x)) = Seen(Box!WireguardOutbound(b))
<1>1. PICK n : n = x.port
  OBVIOUS
<1>2. PICK f, e : Xray!WireguardOutbound(x) = Endpoint(x, n, NoStream, NoTLS, f, e)
  BY <1>1, EndpointSame, PlainStreams DEF Xray!WireguardOutbound
<1>3. PICK g, h : Box!WireguardOutbound(b) = Endpoint(b, n, NoStream, NoTLS, g, h)
  BY <1>1, EndpointSame, PlainStreams DEF Box!WireguardOutbound, Fail
<1> QED  BY <1>2, <1>3, PlainAgree, SeenEndpoints

\* What one scheme's parsers return are objects that differ in their options.
LEMMA OthersObjects ==
    ASSUME NEW l, NEW p, NEW q, NEW r, NEW x, NEW b, l \in Record, p \in Text, q \in Query, r \in Query,
           x = Parsed(l, p, q), b = Parsed(l, p, r)
    PROVE  /\ x.proto = p /\ b.proto = p /\ x.address = b.address /\ x.id = b.id /\ x.pass = b.pass
           /\ x.port = b.port /\ x.port \in Nat /\ x \in Object /\ b \in Object
<1>1. /\ x.proto = p /\ b.proto = p /\ x.address = b.address /\ x.id = b.id /\ x.pass = b.pass
      /\ x.port = b.port /\ x.port = l.port
  BY DEF Parsed
<1>2. Parsed(l, p, q) \in Object /\ Parsed(l, p, r) \in Object
  BY ParsedType
<1>3. l.port \in Nat
  BY DEF Record
<1> QED  BY <1>1, <1>2, <1>3

\* Both cores make the same connection of a link that both accept.
SeenAlike(x, b) ==
    (x.ok /\ b.ok) => ((XrayOutbound(x).ok /\ BoxOutbound(b).ok) => Seen(XrayOutbound(x)) = Seen(BoxOutbound(b)))

\* VLESS, Trojan and VMess.
LEMMA StreamLinksAgree ==
    ASSUME NEW l \in Link
    PROVE  /\ SeenAlike(Xray!VlessParse(l), Box!VlessParse(l))
           /\ SeenAlike(Xray!TrojanParse(l), Box!TrojanParse(l))
           /\ SeenAlike(Xray!VmessParse(l), Box!VmessParse(l))
<1>1. SeenAlike(Xray!VlessParse(l), Box!VlessParse(l))
  <2> SUFFICES ASSUME NEW x, NEW b, x = Xray!VlessParse(l), b = Box!VlessParse(l), x.ok, b.ok,
                      XrayOutbound(x).ok, BoxOutbound(b).ok
               PROVE  Seen(XrayOutbound(x)) = Seen(BoxOutbound(b))
    BY DEF SeenAlike
  <2>1. x.proto = "vless" /\ b.proto = "vless"
    <3>1. \E q : x = Parsed(l, "vless", q)
      BY XrayVlessParsed
    <3>2. \E q : b = Parsed(l, "vless", q)
      BY BoxVlessParsed
    <3> QED  BY <3>1, <3>2 DEF Parsed
  <2>2. /\ XrayOutbound(x) = Xray!VlessOutbound(x, AllowInsecure)
        /\ BoxOutbound(b) = Box!VlessOutbound(b, AllowInsecure)
    BY <2>1 DEF XrayOutbound, BoxOutbound
  <2> QED  BY <2>2, VlessAgree
<1>2. SeenAlike(Xray!TrojanParse(l), Box!TrojanParse(l))
  <2> SUFFICES ASSUME NEW x, NEW b, x = Xray!TrojanParse(l), b = Box!TrojanParse(l), x.ok, b.ok,
                      XrayOutbound(x).ok, BoxOutbound(b).ok
               PROVE  Seen(XrayOutbound(x)) = Seen(BoxOutbound(b))
    BY DEF SeenAlike
  <2>1. x.proto = "trojan" /\ b.proto = "trojan"
    <3>1. \E q : x = Parsed(l, "trojan", q)
      BY XrayTrojanParsed
    <3>2. \E q : b = Parsed(l, "trojan", q)
      BY BoxTrojanParsed
    <3> QED  BY <3>1, <3>2 DEF Parsed
  <2>2. /\ XrayOutbound(x) = Xray!TrojanOutbound(x, AllowInsecure)
        /\ BoxOutbound(b) = Box!TrojanOutbound(b, AllowInsecure)
    BY <2>1 DEF XrayOutbound, BoxOutbound
  <2> QED  BY <2>2, TrojanAgree
<1>3. SeenAlike(Xray!VmessParse(l), Box!VmessParse(l))
  <2> SUFFICES ASSUME NEW x, NEW b, x = Xray!VmessParse(l), b = Box!VmessParse(l), x.ok, b.ok,
                      XrayOutbound(x).ok, BoxOutbound(b).ok
               PROVE  Seen(XrayOutbound(x)) = Seen(BoxOutbound(b))
    BY DEF SeenAlike
  <2>1. x.proto = "vmess" /\ b.proto = "vmess"
    <3>1. \E q : x = Parsed(l, "vmess", q)
      BY XrayVmessParsed
    <3>2. \E q : b = Parsed(l, "vmess", q)
      BY BoxVmessParsed
    <3> QED  BY <3>1, <3>2 DEF Parsed
  <2>2. /\ XrayOutbound(x) = Xray!VmessOutbound(x, AllowInsecure)
        /\ BoxOutbound(b) = Box!VmessOutbound(b, AllowInsecure)
    BY <2>1 DEF XrayOutbound, BoxOutbound
  <2> QED  BY <2>2, VmessAgree
<1> QED  BY <1>1, <1>2, <1>3

\* The other protocols.
LEMMA OtherLinksAgree ==
    ASSUME NEW l \in Link
    PROVE  /\ SeenAlike(Xray!ShadowsocksParse(l), Box!ShadowsocksParse(l))
           /\ SeenAlike(Xray!SocksParse(l), Box!SocksParse(l))
           /\ SeenAlike(Xray!Hysteria2Parse(l), Box!Hysteria2Parse(l))
           /\ SeenAlike(Xray!WireguardParse(l), Box!WireguardParse(l))
<1>1. /\ l \in Record /\ l.q \in Query /\ NoQuery \in Query /\ Named(l) \in Query /\ Scanned(l.q) \in Query
      /\ SocksLink(l) \in Record
  BY LinkType, NoQueryType, OtherTypes
<1>2. "shadowsocks" \in Text /\ "socks" \in Text /\ "hysteria2" \in Text /\ "wireguard" \in Text
  BY TextAssumption
<1>3. SeenAlike(Xray!ShadowsocksParse(l), Box!ShadowsocksParse(l))
  <2> SUFFICES ASSUME NEW x, NEW b, x = Xray!ShadowsocksParse(l), b = Box!ShadowsocksParse(l), x.ok, b.ok,
                      XrayOutbound(x).ok, BoxOutbound(b).ok
               PROVE  Seen(XrayOutbound(x)) = Seen(BoxOutbound(b))
    BY DEF SeenAlike
  <2>1. x = Parsed(l, "shadowsocks", NoQuery) /\ b = Parsed(l, "shadowsocks", NoQuery)
    BY OthersParsed DEF Fail
  <2>2. /\ x.proto = "shadowsocks" /\ b.proto = "shadowsocks" /\ x.address = b.address /\ x.id = b.id
        /\ x.pass = b.pass /\ x.port = b.port /\ x.port \in Nat /\ x \in Object
    BY <1>1, <1>2, <2>1, OthersObjects
  <2>3. XrayOutbound(x) = Xray!ShadowsocksOutbound(x) /\ BoxOutbound(b) = Box!ShadowsocksOutbound(b)
    BY <2>2 DEF XrayOutbound, BoxOutbound
  <2> QED  BY <2>2, <2>3, SocksAgree
<1>4. SeenAlike(Xray!SocksParse(l), Box!SocksParse(l))
  <2> SUFFICES ASSUME NEW x, NEW b, x = Xray!SocksParse(l), b = Box!SocksParse(l), x.ok, b.ok,
                      XrayOutbound(x).ok, BoxOutbound(b).ok
               PROVE  Seen(XrayOutbound(x)) = Seen(BoxOutbound(b))
    BY DEF SeenAlike
  <2>1. x = Parsed(SocksLink(l), "socks", NoQuery) /\ b = Parsed(SocksLink(l), "socks", NoQuery)
    BY OthersParsed DEF Fail
  <2>2. /\ x.proto = "socks" /\ b.proto = "socks" /\ x.address = b.address /\ x.id = b.id
        /\ x.pass = b.pass /\ x.port = b.port /\ x.port \in Nat /\ x \in Object
    BY <1>1, <1>2, <2>1, OthersObjects
  <2>3. XrayOutbound(x) = Xray!SocksOutbound(x) /\ BoxOutbound(b) = Box!SocksOutbound(b)
    BY <2>2 DEF XrayOutbound, BoxOutbound
  <2> QED  BY <2>2, <2>3, SocksAgree
<1>5. SeenAlike(Xray!Hysteria2Parse(l), Box!Hysteria2Parse(l))
  <2> SUFFICES ASSUME NEW x, NEW b, x = Xray!Hysteria2Parse(l), b = Box!Hysteria2Parse(l), x.ok, b.ok,
                      XrayOutbound(x).ok, BoxOutbound(b).ok
               PROVE  Seen(XrayOutbound(x)) = Seen(BoxOutbound(b))
    BY DEF SeenAlike
  <2>1. x = Parsed(l, "hysteria2", Named(l)) /\ b = Parsed(l, "hysteria2", Named(l))
    BY OthersParsed DEF Fail
  <2>2. /\ x.proto = "hysteria2" /\ b.proto = "hysteria2" /\ x.address = b.address /\ x.id = b.id
        /\ x.pass = b.pass /\ x.port = b.port /\ x.port \in Nat /\ x \in Object /\ b \in Object
    BY <1>1, <1>2, <2>1, OthersObjects
  <2>3. /\ XrayOutbound(x) = Xray!Hysteria2Outbound(x, AllowInsecure)
        /\ BoxOutbound(b) = Box!Hysteria2Outbound(b, AllowInsecure)
    BY <2>2 DEF XrayOutbound, BoxOutbound
  <2> QED  BY <2>2, <2>3, Hysteria2Agree
<1>6. SeenAlike(Xray!WireguardParse(l), Box!WireguardParse(l))
  <2> SUFFICES ASSUME NEW x, NEW b, x = Xray!WireguardParse(l), b = Box!WireguardParse(l), x.ok, b.ok,
                      XrayOutbound(x).ok, BoxOutbound(b).ok
               PROVE  Seen(XrayOutbound(x)) = Seen(BoxOutbound(b))
    BY DEF SeenAlike
  <2>1. x = Parsed(l, "wireguard", Scanned(l.q)) /\ b = Parsed(l, "wireguard", l.q)
    BY OthersParsed DEF Fail
  <2>2. /\ x.proto = "wireguard" /\ b.proto = "wireguard" /\ x.address = b.address /\ x.id = b.id
        /\ x.pass = b.pass /\ x.port = b.port
    BY <1>1, <1>2, <2>1, OthersObjects
  <2>3. XrayOutbound(x) = Xray!WireguardOutbound(x) /\ BoxOutbound(b) = Box!WireguardOutbound(b)
    BY <2>2 DEF XrayOutbound, BoxOutbound
  <2> QED  BY <2>2, <2>3, WireguardAgree
<1> QED  BY <1>3, <1>4, <1>5, <1>6

\* Every link.
LEMMA LinksAgree ==
    ASSUME NEW l \in Link
    PROVE  SeenAlike(XrayParse(l), BoxParse(l))
<1>1. SeenAlike(Fail, Fail)
  BY DEF SeenAlike, Fail
<1> QED  BY <1>1, StreamLinksAgree, OtherLinksAgree DEF XrayParse, BoxParse

\* The way of a connection through a chain, as a fixed point.
Way(w) ==
    w = [k \in 1..Len(builds) |->
            IF builds[k].detour = 0 THEN <<builds[k].out.server>>
            ELSE Append(w[builds[k].detour], builds[k].out.server)]

\* Servers is such a way.
LEMMA ServersWay == Servers(1) = (CHOOSE w : Way(w))[1]
BY Zenon DEF Servers, Way

\* A chain that was made: every hop's outbound reaches the hop's server, and all
\* but the last dial through the next one.
ChainInv ==
    /\ Idle
    /\ task = "chain" =>
         /\ Len(unique) \in 2..3 /\ Len(builds) = Len(unique)
         /\ \A k \in 1..Len(unique) :
               /\ builds[k].out.server = unique[k].host
               /\ builds[k].detour = IF k < Len(unique) THEN k + 1 ELSE 0

\* The way leads through every hop, and ends at the first.
LEMMA ChainWay ==
    ASSUME ChainInv, task = "chain"
    PROVE  Servers(1) = [i \in 1..Len(unique) |-> unique[Len(unique) + 1 - i].host]
<1>1. PICK n, h : n = Len(unique) /\ h = [k \in 1..n |-> unique[k].host]
  OBVIOUS
<1>2. /\ n \in 2..3 /\ Len(builds) = n
      /\ \A k \in 1..n : builds[k].out.server = h[k] /\ builds[k].detour = IF k < n THEN k + 1 ELSE 0
  BY <1>1 DEF ChainInv
<1>3. \A w : Way(w) <=>
        w = [k \in 1..n |-> IF k < n THEN Append(w[k + 1], h[k]) ELSE <<h[k]>>]
  <2> TAKE w
  <2>1. [k \in 1..Len(builds) |->
            IF builds[k].detour = 0 THEN <<builds[k].out.server>>
            ELSE Append(w[builds[k].detour], builds[k].out.server)]
        = [k \in 1..n |-> IF k < n THEN Append(w[k + 1], h[k]) ELSE <<h[k]>>]
    BY <1>2
  <2> QED  BY <2>1 DEF Way
<1>4. PICK v : v = [k \in 1..n |-> [i \in 1..(n + 1 - k) |-> h[n + 1 - i]]]
  OBVIOUS
<1>5. \A k \in 1..n : v[k] = [i \in 1..(n + 1 - k) |-> h[n + 1 - i]]
  BY <1>4
<1>6. v[n] = <<h[n]>>
  <2>1. n + 1 - n = 1 /\ n \in 1..n
    BY <1>2
  <2>2. v[n] = [i \in 1..1 |-> h[n + 1 - i]]
    BY <1>5, <2>1
  <2> QED  BY <1>2, <2>2
<1>7. \A k \in 1..n : k < n => v[k] = Append(v[k + 1], h[k])
  <2> TAKE k \in 1..n
  <2> HAVE k < n
  <2>1. PICK m : m = n - k
    OBVIOUS
  <2>2. /\ m \in Nat /\ n + 1 - k = m + 1 /\ n + 1 - (k + 1) = m /\ k + 1 \in 1..n
        /\ h[n + 1 - (m + 1)] = h[k]
    BY <1>2, <2>1
  <2>3. v[k] = [i \in 1..(m + 1) |-> h[n + 1 - i]] /\ v[k + 1] = [i \in 1..m |-> h[n + 1 - i]]
    BY <1>5, <2>2
  <2> QED  BY <2>2, <2>3
<1>8. Way(v)
  <2>1. \A k \in 1..n : v[k] = IF k < n THEN Append(v[k + 1], h[k]) ELSE <<h[k]>>
    <3> TAKE k \in 1..n
    <3>1. CASE k < n
      BY <1>7, <3>1
    <3>2. CASE ~(k < n)
      <4>1. k = n
        BY <1>2, <3>2
      <4> QED  BY <1>6, <3>2, <4>1
    <3> QED  BY <3>1, <3>2
  <2>2. v = [k \in 1..n |-> v[k]]
    BY <1>4
  <2>3. v = [k \in 1..n |-> IF k < n THEN Append(v[k + 1], h[k]) ELSE <<h[k]>>]
    BY <2>1, <2>2
  <2> QED  BY <1>3, <2>3
<1>9. ASSUME NEW w, Way(w)
      PROVE  w[1] = v[1]
  <2>1. \A k \in 1..n : w[k] = IF k < n THEN Append(w[k + 1], h[k]) ELSE <<h[k]>>
    BY <1>3, <1>9
  <2>2. w[n] = v[n]
    <3>1. n \in 1..n /\ ~(n < n)
      BY <1>2
    <3>2. w[n] = <<h[n]>>
      BY <2>1, <3>1
    <3> QED  BY <1>6, <3>2
  <2>3. CASE n = 2
    <3>1. w[1] = Append(w[2], h[1]) /\ v[1] = Append(v[2], h[1])
      BY <1>7, <2>1, <2>3
    <3> QED  BY <2>2, <2>3, <3>1
  <2>4. CASE n = 3
    <3>1. w[2] = Append(w[3], h[2]) /\ v[2] = Append(v[3], h[2])
      BY <1>7, <2>1, <2>4
    <3>2. w[1] = Append(w[2], h[1]) /\ v[1] = Append(v[2], h[1])
      BY <1>7, <2>1, <2>4
    <3> QED  BY <2>2, <2>4, <3>1, <3>2
  <2> QED  BY <1>2, <2>3, <2>4
<1>10. Servers(1) = v[1]
  <2>1. Way(CHOOSE w : Way(w))
    BY <1>8, Zenon
  <2> QED  BY <1>9, <2>1, ServersWay
<1>11. v[1] = [i \in 1..n |-> unique[n + 1 - i].host]
  <2>1. n + 1 - 1 = n /\ 1 \in 1..n
    BY <1>2
  <2>2. \A i \in 1..n : n + 1 - i \in 1..n /\ h[n + 1 - i] = unique[n + 1 - i].host
    BY <1>1, <1>2
  <2>3. v[1] = [i \in 1..n |-> h[n + 1 - i]]
    BY <1>5, <2>1
  <2> QED  BY <2>2, <2>3
<1> QED  BY <1>1, <1>10, <1>11

\* MakeChainedInstance makes a chain.
LEMMA ChainInvMake ==
    ASSUME ChainInv, NEW c \in ProxyCores, NEW n \in 2..3, NEW hops \in [1..n -> ChainLinks],
           MakeChainedInstance(c, hops)
    PROVE  ChainInv'
<1>1. PICK outs : outs = [i \in 1..Len(hops) |-> Outbound(c, Parse(c, hops[i]))]
  OBVIOUS
<1>2. Len(hops) = n /\ DOMAIN outs = 1..n
  BY <1>1
<1>3. Len(outs) = n
  BY <1>1, <1>2
<1>4. /\ task' = "chain" /\ unique' = hops /\ builds' = Chained(outs)
      /\ \A i \in 1..n : Parse(c, hops[i]).ok /\ outs[i].ok /\ outs[i] = Outbound(c, Parse(c, hops[i]))
  BY <1>1, <1>2 DEF MakeChainedInstance
<1>5. /\ Len(builds') = n
      /\ \A k \in 1..n : /\ builds'[k].out = outs[k]
                         /\ builds'[k].detour = IF k < n THEN k + 1 ELSE 0
  <2>1. builds' = [i \in 1..n |-> [out |-> outs[i], detour |-> IF i < n THEN i + 1 ELSE 0]]
    BY <1>3, <1>4 DEF Chained
  <2> QED  BY <2>1
<1>6. ASSUME NEW k \in 1..n
      PROVE  outs[k].server = hops[k].host
  <2>1. PICK l, o : l = hops[k] /\ o = Parse(c, l)
    OBVIOUS
  <2>2. l \in Link /\ o.ok /\ o # Fail
    BY <1>4, <2>1, LinksAssumption DEF Fail
  <2>3. Good(o, l)
    BY <2>1, <2>2, ParseType DEF Cores, ProxyCores
  <2>4. o \in Object /\ o.proto \in Protocols /\ o.address = l.host
    BY <2>2, <2>3 DEF Good, ParsedAs
  <2>5. Outbound(c, o).ok => Outbound(c, o).server = o.address
    BY <2>4, OutboundRegular DEF Regular
  <2> QED  BY <1>4, <2>1, <2>4, <2>5
<1> QED  BY <1>2, <1>4, <1>5, <1>6 DEF ChainInv, Idle

\* Both cores make the same connection of every link they both accept, and lead
\* a chain through every hop and no other server (CreateProtocol, the builders of both cores,
\* MakeChainedInstance).
THEOREM CoresAlwaysAgree == Spec => []CoresAgree
<1> DEFINE Inv == ChainInv /\ (task = "use" => link \in Link)
<1>1. Init => Inv
  BY DEF Init, ChainInv, Idle
<1>2. Inv /\ [Next]_vars => Inv'
  <2> SUFFICES ASSUME Inv, [Next]_vars
               PROVE  Inv'
    OBVIOUS
  <2>1. CASE UNCHANGED vars
    BY <2>1 DEF vars, ChainInv, Idle
  <2>2. CASE \E c \in Cores, l \in LinkSet : Create(c, l)
    BY <2>2, LinksAssumption DEF Create, ChainInv, Idle
  <2>3. CASE Build
    BY <2>3 DEF Build, ChainInv, Idle
  <2>4. CASE \E c \in Cores, n \in 1..DedupLen : \E list \in [1..n -> DedupLinks] : Deduplicate(c, list)
    BY <2>4 DEF Deduplicate, ChainInv, Idle
  <2>5. CASE DedupNext
    BY <2>5 DEF DedupNext, ChainInv, Idle
  <2>6. CASE \E c \in ProxyCores, f \in Flags : Listen(c, f)
    BY <2>6 DEF Listen, ChainInv, Idle
  <2>7. CASE \E c \in ProxyCores, l \in LinkSet : ListenLink(c, l)
    BY <2>7 DEF ListenLink, ChainInv, Idle
  <2>8. CASE BuildInbound
    BY <2>8 DEF BuildInbound, ChainInv, Idle
  <2>9. CASE \E c \in ProxyCores, n \in 2..3 : \E hops \in [1..n -> ChainLinks] : MakeChainedInstance(c, hops)
    <3>1. ChainInv'
      BY <2>9, ChainInvMake
    <3>2. task' = "chain"
      BY <2>9 DEF MakeChainedInstance
    <3> QED  BY <3>1, <3>2
  <2>10. CASE Done
    BY <2>10 DEF Done, vars, ChainInv, Idle
  <2> QED  BY <2>1, <2>2, <2>3, <2>4, <2>5, <2>6, <2>7, <2>8, <2>9, <2>10 DEF Next
<1>3. Inv => CoresAgree
  <2> SUFFICES ASSUME Inv
               PROVE  CoresAgree
    OBVIOUS
  <2>1. ASSUME task = "use"
        PROVE  LET x == XrayParse(link)
                   b == BoxParse(link)
               IN  (x.ok /\ b.ok) => ((XrayOutbound(x).ok /\ BoxOutbound(b).ok)
                                         => Seen(XrayOutbound(x)) = Seen(BoxOutbound(b)))
    <3>1. SeenAlike(XrayParse(link), BoxParse(link))
      BY <2>1, LinksAgree
    <3> QED  BY <3>1 DEF SeenAlike
  <2>2. ASSUME task = "chain"
        PROVE  /\ Len(Servers(1)) = Len(unique)
               /\ {Servers(1)[i] : i \in 1..Len(unique)} = {unique[i].host : i \in 1..Len(unique)}
    <3>1. PICK n, s : n = Len(unique) /\ s = Servers(1)
      OBVIOUS
    <3>2. n \in 2..3 /\ s = [i \in 1..n |-> unique[n + 1 - i].host]
      BY <2>2, <3>1, ChainWay DEF ChainInv
    <3>3. Len(s) = n
      BY <3>2
    <3>4. \A i \in 1..n : n + 1 - i \in 1..n /\ s[i] = unique[n + 1 - i].host /\ s[n + 1 - i] = unique[i].host
      BY <3>2
    <3>5. {s[i] : i \in 1..n} = {unique[i].host : i \in 1..n}
      BY <3>4
    <3> QED  BY <3>1, <3>3, <3>5
  <2> QED  BY <2>1, <2>2 DEF CoresAgree
<1> QED  BY <1>1, <1>2, <1>3, PTL DEF Spec

-----------------------------------------------------------------------------
(* Listeners *)

Inbound(c, o) == IF c = "xray" THEN XrayInbound(o) ELSE BoxInbound(o)
InProtocols == Protocols \cup {"http"}

\* TLS of a listener: its type, and whether it is on.
LEMMA CertifiedType ==
    ASSUME NEW v \in Object
    PROVE  /\ Xray!Certified(v.q, v.certs) \in Securities
           /\ Xray!Certified(v.q, v.certs).on = (v.q.security = "tls" /\ v.certs)
           /\ ~v.certs => Xray!Certified(v.q, v.certs) = NoTLS
           /\ \A w : Same(w, v) => Xray!Certified(w.q, w.certs) = Xray!Certified(v.q, v.certs)
<1>1. NoTLS \in Securities /\ NoTLS.on = FALSE /\ Xray!NoTLS = NoTLS
  BY SecuredType, ObjectFields, PlainStreams DEF NoTLS
<1>2. v.q.sni \in Text /\ v.q.alpn \in Text /\ v.certs \in BOOLEAN
  BY DEF Object, Query
<1>3. PICK t : t = [NoTLS EXCEPT !.on = TRUE]
  OBVIOUS
<1>4. t \in Securities /\ t.on = TRUE
  BY <1>1, <1>3 DEF Securities
<1>5. PICK u : u = [t EXCEPT !.serverName = v.q.sni]
  OBVIOUS
<1>6. u \in Securities /\ u.on = TRUE
  BY <1>2, <1>4, <1>5 DEF Securities
<1>7. PICK x : x = [u EXCEPT !.alpn = v.q.alpn]
  OBVIOUS
<1>8. x \in Securities /\ x.on = TRUE
  BY <1>2, <1>6, <1>7 DEF Securities
<1>9. x = [NoTLS EXCEPT !.on = TRUE, !.serverName = v.q.sni, !.alpn = v.q.alpn]
  BY <1>3, <1>5, <1>7
<1>10. Xray!Certified(v.q, v.certs) = IF v.q.security = "tls" /\ v.certs THEN x ELSE NoTLS
  BY <1>1, <1>9 DEF Xray!Certified
<1>11. ASSUME NEW w, Same(w, v)
       PROVE  Xray!Certified(w.q, w.certs) = Xray!Certified(v.q, v.certs)
  <2>1. w.certs = v.certs /\ w.q.security = v.q.security /\ w.q.sni = v.q.sni /\ w.q.alpn = v.q.alpn
    BY <1>11 DEF Same
  <2> QED  BY <2>1 DEF Xray!Certified
<1>12. Xray!Certified(v.q, v.certs) \in Securities
  BY <1>1, <1>8, <1>10
<1>13. Xray!Certified(v.q, v.certs).on = (v.q.security = "tls" /\ v.certs)
  BY <1>1, <1>2, <1>8, <1>10
<1>14. ~v.certs => Xray!Certified(v.q, v.certs) = NoTLS
  BY <1>10
<1> QED  BY <1>11, <1>12, <1>13, <1>14

\* The streams of the listeners.
XTrojanIn(v) ==
    XStream(v.q.type, v.q.headerType, v.q.host, v.q.path, TrimSlash(v.q.serviceName), v.q.authority, v.q.mode,
            "empty", {"tcp", "raw"})
InPath(v) == IF v.q.type = "ws" THEN v.q.path ELSE NoPath
BVlessIn(v) == BStream(v.q.type, "empty", InPath(v), TrimSlash(v.q.serviceName))
BVmessIn(v) == BStream(v.q.type, "empty", InPath(v), TrimSlash(v.q.path))

\* The listeners of the xray core.
LEMMA ListenerStreams ==
    ASSUME NEW v \in Object, NEW tcp, NEW s, tcp \in {{"tcp"}, {"tcp", "raw"}},
           s = Xray!Stream(v.q.type, v.q.headerType, v.q.host, v.q.path, Xray!AfterInbound(v).q.serviceName,
                           v.q.authority, v.q.mode, "empty", tcp)
    PROVE  s = XStream(v.q.type, v.q.headerType, v.q.host, v.q.path, TrimSlash(v.q.serviceName), v.q.authority,
                       v.q.mode, "empty", tcp)
<1>1. PICK u : u = Box!VlessTrimmed(v)
  OBVIOUS
<1>2. u = Xray!AfterInbound(v) /\ u.q.serviceName = TrimIf(v, v.q.serviceName)
  BY <1>1, BoxTrimmed
<1>3. PICK p : p = u.q.serviceName
  OBVIOUS
<1>4. p \in Path /\ (v.q.type = "grpc" => p = TrimSlash(v.q.serviceName))
  BY <1>2, <1>3, ObjectFields, TrimType DEF TrimIf
<1>5. s = XStream(v.q.type, v.q.headerType, v.q.host, v.q.path, p, v.q.authority, v.q.mode, "empty", tcp)
  BY <1>2, <1>3, <1>4, ObjectFields, XrayStream, TextAssumption
<1> QED  BY <1>4, <1>5 DEF XStream

\* The listeners of the sing-box core.
LEMMA BoxListenerStreams ==
    ASSUME NEW v \in Object
    PROVE  /\ Box!Stream(v.q.type, "empty", InPath(v), Box!VlessTrimmed(v).q.serviceName) = BVlessIn(v)
           /\ Box!Stream(v.q.type, "empty", InPath(v), Box!VmessTrimmed(v).q.path) = BVmessIn(v)
<1>1. PICK p, r : p = Box!VlessTrimmed(v).q.serviceName /\ r = Box!VmessTrimmed(v).q.path
  OBVIOUS
<1>2. p = TrimIf(v, v.q.serviceName) /\ r = TrimIf(v, v.q.path)
  BY <1>1, BoxTrimmed, VmessTrimmed
<1>3. p \in Path /\ r \in Path /\ InPath(v) \in Path
  BY <1>2, ObjectFields, TrimType, NoPathType DEF TrimIf, InPath
<1>4. /\ Box!Stream(v.q.type, "empty", InPath(v), p) = BStream(v.q.type, "empty", InPath(v), p)
      /\ Box!Stream(v.q.type, "empty", InPath(v), r) = BStream(v.q.type, "empty", InPath(v), r)
  BY <1>3, ObjectFields, TextAssumption, BoxStream
<1>5. /\ BStream(v.q.type, "empty", InPath(v), p) = BVlessIn(v)
      /\ BStream(v.q.type, "empty", InPath(v), r) = BVmessIn(v)
  BY <1>2 DEF BVlessIn, BVmessIn, BStream, TrimIf
<1> QED  BY <1>1, <1>4, <1>5

\* Their types, and what they are on the object after the build.
LEMMA ListenerNext ==
    ASSUME NEW v \in Object, NEW w, w = Box!VlessTrimmed(v)
    PROVE  /\ XTrojan(v) \in Streams /\ XTrojan(w) = Less(XTrojan(v))
           /\ XTrojanIn(v) \in Streams /\ XTrojanIn(w) = Less(XTrojanIn(v))
           /\ BVlessIn(v) \in Streams /\ BVlessIn(w) = Less(BVlessIn(v))
<1>1. Same(w, v) /\ w.q.serviceName = TrimIf(v, v.q.serviceName) /\ w.q.path = v.q.path
  BY BoxTrimmed
<1>2. TrimSlash(v.q.serviceName) \in Path /\ InPath(v) \in Path /\ "empty" \in Text
  BY ObjectFields, TrimType, NoPathType, TextAssumption DEF InPath
<1>3. XTrojan(v) \in Streams /\ XTrojan(w) = Less(XTrojan(v))
  <2>1. /\ XTrojan(v) \in Streams
        /\ Less(XTrojan(v))
             = XStream(v.q.type, v.q.headerType, v.q.host, v.q.path, TrimSlash(TrimSlash(v.q.serviceName)),
                       v.q.authority, v.q.mode, "empty", {"tcp"})
    BY <1>2, ObjectFields, XStreamCut DEF XTrojan
  <2>2. Less(XTrojan(v)) = XTrojan(w)
    BY <1>1, <2>1 DEF XTrojan, XStream, TrimIf, Same
  <2> QED  BY <2>1, <2>2
<1>4. XTrojanIn(v) \in Streams /\ XTrojanIn(w) = Less(XTrojanIn(v))
  <2>1. /\ XTrojanIn(v) \in Streams
        /\ Less(XTrojanIn(v))
             = XStream(v.q.type, v.q.headerType, v.q.host, v.q.path, TrimSlash(TrimSlash(v.q.serviceName)),
                       v.q.authority, v.q.mode, "empty", {"tcp", "raw"})
    BY <1>2, ObjectFields, XStreamCut DEF XTrojanIn
  <2>2. Less(XTrojanIn(v)) = XTrojanIn(w)
    BY <1>1, <2>1 DEF XTrojanIn, XStream, TrimIf, Same
  <2> QED  BY <2>1, <2>2
<1>5. BVlessIn(v) \in Streams /\ BVlessIn(w) = Less(BVlessIn(v))
  <2>1. /\ BVlessIn(v) \in Streams
        /\ Less(BVlessIn(v)) = BStream(v.q.type, "empty", InPath(v), TrimSlash(TrimSlash(v.q.serviceName)))
    BY <1>2, ObjectFields, BStreamCut DEF BVlessIn
  <2>2. Less(BVlessIn(v)) = BVlessIn(w)
    BY <1>1, <2>1 DEF BVlessIn, BStream, InPath, TrimIf, Same
  <2> QED  BY <2>1, <2>2
<1> QED  BY <1>3, <1>4, <1>5

\* VMess of the sing-box core.
LEMMA BVmessInNext ==
    ASSUME NEW v \in Object, NEW w, Same(w, v), w.q.path = TrimIf(v, v.q.path)
    PROVE  BVmessIn(v) \in Streams /\ BVmessIn(w) = Less(BVmessIn(v))
<1>1. TrimSlash(v.q.path) \in Path /\ InPath(v) \in Path /\ "empty" \in Text
  BY ObjectFields, TrimType, NoPathType, TextAssumption DEF InPath
<1>2. /\ BVmessIn(v) \in Streams
      /\ Less(BVmessIn(v)) = BStream(v.q.type, "empty", InPath(v), TrimSlash(TrimSlash(v.q.path)))
  BY <1>1, ObjectFields, BStreamCut DEF BVmessIn
<1>3. Less(BVmessIn(v)) = BVmessIn(w)
  BY <1>2 DEF BVmessIn, BStream, BHosted, InPath, TrimIf, Same
<1> QED  BY <1>2, <1>3

\* What holds of an object, its inbound and its next inbound.
RegularIn(c, o) ==
    LET e == Inbound(c, o)
        w == AfterInbound(o)
    IN  /\ e \in Endpoints \cup {Fail}
        /\ w \in Object /\ w.proto = o.proto /\ w.certs = o.certs /\ w.q.security = o.q.security
        /\ Inbound(c, w) = Cut(e)

\* It holds when the next inbound has the stream less one slash.
LEMMA RegularInBy ==
    ASSUME NEW c, NEW o \in Object, NEW w, Same(w, o), w = AfterInbound(o),
           NEW port, NEW s, NEW r, NEW t, NEW f, NEW e,
           port \in Nat, s \in Streams, t \in Securities, f \in Text, e \in Text, r = Less(s),
           \/ Inbound(c, o) = Endpoint(o, port, s, t, f, e) /\ Inbound(c, w) = Endpoint(w, port, r, t, f, e)
           \/ Inbound(c, o) = Fail /\ Inbound(c, w) = Fail
    PROVE  RegularIn(c, o)
<1>1. /\ Endpoint(o, port, s, t, f, e) \in Endpoints
      /\ Endpoint(w, port, r, t, f, e) = Cut(Endpoint(o, port, s, t, f, e))
  BY NextOutbound
<1>2. w \in Object /\ w.proto = o.proto /\ w.certs = o.certs /\ w.q.security = o.q.security
  BY DEF Same
<1>3. Inbound(c, o) \in Endpoints \cup {Fail} /\ Inbound(c, w) = Cut(Inbound(c, o))
  BY <1>1 DEF Fail, Cut
<1> QED  BY <1>2, <1>3 DEF RegularIn

\* VLESS, Trojan and VMess, field by field.
LEMMA XrayInbounds ==
    ASSUME NEW v \in Object
    PROVE  /\ Xray!VlessInbound(v, v.certs)
                = Endpoint(v, v.port, XTrojan(v), Xray!Certified(v.q, v.certs), v.q.flow, v.q.encryption)
           /\ Xray!VmessInbound(v, v.certs) =
                IF v.port = 0 \/ v.q.mtu \in {"empty", "x"} THEN Fail
                ELSE Endpoint(v, v.port, XVmess(v), Xray!Certified(v.q, v.certs), v.q.flow, v.q.encryption)
           /\ Xray!TrojanInbound(v) = Endpoint(v, v.port, XTrojanIn(v), NoTLS, v.q.flow, v.q.encryption)
<1>1. PICK t : t = Xray!Certified(v.q, v.certs)
  OBVIOUS
<1>2. Xray!VlessInbound(v, v.certs) = Endpoint(v, v.port, XTrojan(v), t, v.q.flow, v.q.encryption)
  <2>1. PICK s : s = Xray!Stream(v.q.type, v.q.headerType, v.q.host, v.q.path, Xray!AfterInbound(v).q.serviceName,
                                 v.q.authority, v.q.mode, "empty", {"tcp"})
    OBVIOUS
  <2>2. s = XTrojan(v)
    BY <2>1, ListenerStreams DEF XTrojan
  <2>3. Xray!VlessInbound(v, v.certs) = Xray!Endpoint(v, v.port, s, t, v.q.flow, v.q.encryption)
    BY <1>1, <2>1 DEF Xray!VlessInbound
  <2> QED  BY <2>2, <2>3, EndpointSame
<1>3. Xray!TrojanInbound(v) = Endpoint(v, v.port, XTrojanIn(v), NoTLS, v.q.flow, v.q.encryption)
  <2>1. PICK s : s = Xray!Stream(v.q.type, v.q.headerType, v.q.host, v.q.path, Xray!AfterInbound(v).q.serviceName,
                                 v.q.authority, v.q.mode, "empty", {"tcp", "raw"})
    OBVIOUS
  <2>2. s = XTrojanIn(v)
    BY <2>1, ListenerStreams DEF XTrojanIn
  <2>3. Xray!TrojanInbound(v) = Xray!Endpoint(v, v.port, s, NoTLS, v.q.flow, v.q.encryption)
    BY <2>1, PlainStreams DEF Xray!TrojanInbound
  <2> QED  BY <2>2, <2>3, EndpointSame
<1>4. Xray!VmessInbound(v, v.certs) =
        IF v.port = 0 \/ v.q.mtu \in {"empty", "x"} THEN Fail
        ELSE Endpoint(v, v.port, XVmess(v), t, v.q.flow, v.q.encryption)
  <2>1. PICK s : s = Xray!VmessStream(Xray!VmessTrimmed(v))
    OBVIOUS
  <2>2. s = XVmess(v)
    BY <2>1, XVmessStream
  <2>3. Xray!VmessInbound(v, v.certs) =
          IF v.port = 0 \/ v.q.mtu \in {"empty", "x"} THEN Fail
          ELSE Xray!Endpoint(v, v.port, s, t, v.q.flow, v.q.encryption)
    BY <1>1, <2>1, PlainStreams DEF Xray!VmessInbound
  <2> QED  BY <2>2, <2>3, EndpointSame
<1> QED  BY <1>1, <1>2, <1>3, <1>4

\* The sing-box core.
LEMMA BoxInbounds ==
    ASSUME NEW v \in Object
    PROVE  /\ Box!VlessInbound(v) = Endpoint(v, v.port % 65536, BVlessIn(v), NoTLS, v.q.flow, v.q.encryption)
           /\ Box!TrojanInbound(v) = Endpoint(v, v.port % 65536, BVlessIn(v), NoTLS, v.q.flow, v.q.encryption)
           /\ Box!VmessInbound(v) = Endpoint(v, v.port % 65536, BVmessIn(v), NoTLS, v.q.flow, v.q.encryption)
<1>1. PICK s, r : /\ s = Box!Stream(v.q.type, "empty", InPath(v), Box!VlessTrimmed(v).q.serviceName)
                  /\ r = Box!Stream(v.q.type, "empty", InPath(v), Box!VmessTrimmed(v).q.path)
  OBVIOUS
<1>2. s = BVlessIn(v) /\ r = BVmessIn(v) /\ Box!TrojanTrimmed(v) = Box!VlessTrimmed(v)
  BY <1>1, BoxListenerStreams, BVlessStream
<1>3. (IF v.q.type = "ws" THEN v.q.path ELSE Box!NoPath) = InPath(v)
  BY DEF InPath, Box!NoPath, NoPath
<1>4. PICK p : p = InPath(v)
  OBVIOUS
<1>5. /\ Box!VlessInbound(v) = Box!Endpoint(v, Box!Truncated(v.port), s, NoTLS, v.q.flow, v.q.encryption)
      /\ Box!TrojanInbound(v) = Box!Endpoint(v, Box!Truncated(v.port), s, NoTLS, v.q.flow, v.q.encryption)
      /\ Box!VmessInbound(v) = Box!Endpoint(v, Box!Truncated(v.port), r, NoTLS, v.q.flow, v.q.encryption)
  BY <1>1, <1>2, <1>3, PlainStreams DEF Box!VlessInbound, Box!TrojanInbound, Box!VmessInbound
<1> QED  BY <1>2, <1>5, EndpointSame DEF Box!Truncated

\* VLESS, Trojan and VMess listeners of the xray core.
LEMMA RegularXrayIn ==
    ASSUME NEW o \in Object, o.proto \in {"vless", "trojan", "vmess"}
    PROVE  RegularIn("xray", o)
<1>1. o.port \in Nat /\ o.q.flow \in Text /\ o.q.encryption \in Text /\ NoTLS \in Securities
  BY ObjectFields, SecuredType
<1>2. PICK t : t = Xray!Certified(o.q, o.certs)
  OBVIOUS
<1>3. t \in Securities /\ \A w : Same(w, o) => Xray!Certified(w.q, w.certs) = t
  BY <1>2, CertifiedType
<1>4. CASE o.proto = "vless" \/ o.proto = "trojan"
  <2>1. PICK w : w = Box!VlessTrimmed(o)
    OBVIOUS
  <2>2. Same(w, o) /\ w.q.flow = o.q.flow /\ w = Xray!AfterInbound(o)
    BY <2>1, BoxTrimmed
  <2>3. /\ w \in Object /\ w.proto = o.proto /\ w.port = o.port /\ w.q.encryption = o.q.encryption
        /\ w = AfterInbound(o) /\ Xray!Certified(w.q, w.certs) = t
    BY <1>3, <1>4, <2>2 DEF Same, AfterInbound
  <2>4. CASE o.proto = "vless"
    <3>1. PICK s, r : s = XTrojan(o) /\ r = XTrojan(w)
      OBVIOUS
    <3>2. s \in Streams /\ r = Less(s)
      BY <2>1, <3>1, ListenerNext
    <3>3. /\ Inbound("xray", o) = Xray!VlessInbound(o, o.certs)
          /\ Inbound("xray", w) = Xray!VlessInbound(w, w.certs)
      BY <2>3, <2>4 DEF Inbound, XrayInbound
    <3>4. Inbound("xray", o) = Endpoint(o, o.port, s, t, o.q.flow, o.q.encryption)
      BY <1>2, <3>1, <3>3, XrayInbounds
    <3>5. Inbound("xray", w) = Endpoint(w, o.port, r, t, o.q.flow, o.q.encryption)
      BY <2>2, <2>3, <3>1, <3>3, XrayInbounds
    <3> QED  BY <1>1, <1>3, <2>2, <2>3, <3>2, <3>4, <3>5, RegularInBy
  <2>5. CASE o.proto = "trojan"
    <3>1. PICK s, r : s = XTrojanIn(o) /\ r = XTrojanIn(w)
      OBVIOUS
    <3>2. s \in Streams /\ r = Less(s)
      BY <2>1, <3>1, ListenerNext
    <3>3. Inbound("xray", o) = Xray!TrojanInbound(o) /\ Inbound("xray", w) = Xray!TrojanInbound(w)
      BY <2>3, <2>5 DEF Inbound, XrayInbound
    <3>4. Inbound("xray", o) = Endpoint(o, o.port, s, NoTLS, o.q.flow, o.q.encryption)
      BY <3>1, <3>3, XrayInbounds
    <3>5. Inbound("xray", w) = Endpoint(w, o.port, r, NoTLS, o.q.flow, o.q.encryption)
      BY <2>2, <2>3, <3>1, <3>3, XrayInbounds
    <3> QED  BY <1>1, <2>2, <2>3, <3>2, <3>4, <3>5, RegularInBy
  <2> QED  BY <1>4, <2>4, <2>5
<1>5. CASE o.proto = "vmess"
  <2>1. PICK w : w = Xray!VmessTrimmed(o)
    OBVIOUS
  <2>2. Same(w, o) /\ w.q.flow = o.q.flow /\ w.q.path = TrimIf(o, o.q.path)
    BY <2>1, VmessTrimmed
  <2>3. /\ w \in Object /\ w.proto = o.proto /\ w.port = o.port /\ w.q.encryption = o.q.encryption
        /\ w.q.mtu = o.q.mtu
        /\ w = AfterInbound(o) /\ Xray!Certified(w.q, w.certs) = t
    BY <1>3, <1>5, <2>1, <2>2 DEF Same, AfterInbound
  <2>4. PICK s, r : s = XVmess(o) /\ r = XVmess(w)
    OBVIOUS
  <2>5. s \in Streams /\ r = Less(s)
    BY <2>2, <2>4, XVmessNext, XVmessStream
  <2>6. Inbound("xray", o) = Xray!VmessInbound(o, o.certs) /\ Inbound("xray", w) = Xray!VmessInbound(w, w.certs)
    BY <1>5, <2>3 DEF Inbound, XrayInbound
  <2>7. Inbound("xray", o) = IF o.port = 0 \/ o.q.mtu \in {"empty", "x"} THEN Fail
                             ELSE Endpoint(o, o.port, s, t, o.q.flow, o.q.encryption)
    BY <1>2, <2>4, <2>6, XrayInbounds
  <2>8. Inbound("xray", w) = IF o.port = 0 \/ o.q.mtu \in {"empty", "x"} THEN Fail
                             ELSE Endpoint(w, o.port, r, t, o.q.flow, o.q.encryption)
    BY <2>2, <2>3, <2>4, <2>6, XrayInbounds
  <2>9. \/ /\ Inbound("xray", o) = Endpoint(o, o.port, s, t, o.q.flow, o.q.encryption)
           /\ Inbound("xray", w) = Endpoint(w, o.port, r, t, o.q.flow, o.q.encryption)
        \/ Inbound("xray", o) = Fail /\ Inbound("xray", w) = Fail
    BY <2>7, <2>8
  <2> QED  BY <1>1, <1>3, <2>2, <2>3, <2>5, <2>9, RegularInBy
<1> QED  BY <1>4, <1>5

\* VLESS, Trojan and VMess listeners of the sing-box core.
LEMMA RegularBoxIn ==
    ASSUME NEW o \in Object, o.proto \in {"vless", "trojan", "vmess"}
    PROVE  RegularIn("singbox", o)
<1>1. PICK n : n = o.port % 65536
  OBVIOUS
<1>2. n \in Nat /\ o.q.flow \in Text /\ o.q.encryption \in Text /\ NoTLS \in Securities
  <2>1. o.port \in Nat /\ o.q.flow \in Text /\ o.q.encryption \in Text /\ NoTLS \in Securities
    BY ObjectFields, SecuredType
  <2> QED  BY <1>1, <2>1
<1>3. CASE o.proto = "vless" \/ o.proto = "trojan"
  <2>1. PICK w : w = Box!VlessTrimmed(o)
    OBVIOUS
  <2>2. Same(w, o) /\ w.q.flow = o.q.flow /\ w = Xray!AfterInbound(o)
    BY <2>1, BoxTrimmed
  <2>3. /\ w \in Object /\ w.proto = o.proto /\ w.port = o.port /\ w.q.encryption = o.q.encryption
        /\ w = AfterInbound(o)
    BY <1>3, <2>2 DEF Same, AfterInbound
  <2>4. PICK s, r : s = BVlessIn(o) /\ r = BVlessIn(w)
    OBVIOUS
  <2>5. s \in Streams /\ r = Less(s)
    BY <2>1, <2>4, ListenerNext
  <2>6. \/ Inbound("singbox", o) = Box!VlessInbound(o) /\ Inbound("singbox", w) = Box!VlessInbound(w)
        \/ Inbound("singbox", o) = Box!TrojanInbound(o) /\ Inbound("singbox", w) = Box!TrojanInbound(w)
    BY <1>3, <2>3 DEF Inbound, BoxInbound
  <2>7. Inbound("singbox", o) = Endpoint(o, n, s, NoTLS, o.q.flow, o.q.encryption)
    BY <1>1, <2>4, <2>6, BoxInbounds
  <2>8. Inbound("singbox", w) = Endpoint(w, n, r, NoTLS, o.q.flow, o.q.encryption)
    BY <1>1, <2>2, <2>3, <2>4, <2>6, BoxInbounds
  <2> QED  BY <1>2, <2>2, <2>3, <2>5, <2>7, <2>8, RegularInBy
<1>4. CASE o.proto = "vmess"
  <2>1. PICK w : w = Xray!VmessTrimmed(o)
    OBVIOUS
  <2>2. Same(w, o) /\ w.q.flow = o.q.flow /\ w.q.path = TrimIf(o, o.q.path)
    BY <2>1, VmessTrimmed
  <2>3. /\ w \in Object /\ w.proto = o.proto /\ w.port = o.port /\ w.q.encryption = o.q.encryption
        /\ w = AfterInbound(o)
    BY <1>4, <2>1, <2>2 DEF Same, AfterInbound
  <2>4. PICK s, r : s = BVmessIn(o) /\ r = BVmessIn(w)
    OBVIOUS
  <2>5. s \in Streams /\ r = Less(s)
    BY <2>2, <2>4, BVmessInNext
  <2>6. Inbound("singbox", o) = Box!VmessInbound(o) /\ Inbound("singbox", w) = Box!VmessInbound(w)
    BY <1>4, <2>3 DEF Inbound, BoxInbound
  <2>7. Inbound("singbox", o) = Endpoint(o, n, s, NoTLS, o.q.flow, o.q.encryption)
    BY <1>1, <2>4, <2>6, BoxInbounds
  <2>8. Inbound("singbox", w) = Endpoint(w, n, r, NoTLS, o.q.flow, o.q.encryption)
    BY <1>1, <2>2, <2>3, <2>4, <2>6, BoxInbounds
  <2> QED  BY <1>2, <2>2, <2>3, <2>5, <2>7, <2>8, RegularInBy
<1> QED  BY <1>3, <1>4

\* The other protocols.
LEMMA RegularInPlain ==
    ASSUME NEW c, NEW o \in Object, AfterInbound(o) = o,
           NEW u, NEW port, NEW s, NEW t, NEW f, NEW e,
           u \in Object, port \in Nat, s \in Streams, s.service = NoPath,
           t \in Securities, f \in Text, e \in Text,
           Inbound(c, o) = Endpoint(u, port, s, t, f, e) \/ Inbound(c, o) = Fail
    PROVE  RegularIn(c, o)
<1>1. PICK x : x = Endpoint(u, port, s, t, f, e)
  OBVIOUS
<1>2. x \in Endpoints
  BY <1>1, EndpointType
<1>3. x.stream.service = NoPath
  BY <1>1 DEF Endpoint
<1>4. Cut(x) = x /\ Cut(Fail) = Fail
  BY <1>2, <1>3, CutNothing DEF Cut, Fail
<1>5. Inbound(c, o) = x \/ Inbound(c, o) = Fail
  BY <1>1
<1> QED  BY <1>2, <1>4, <1>5 DEF RegularIn

\* What the sing-box listener takes for users.
BoxUsers(o) == IF o.id # "empty" /\ o.pass # "empty" THEN o ELSE [o EXCEPT !.id = "empty", !.pass = "empty"]

\* The users of an object.
LEMMA BoxUsersType ==
    ASSUME NEW o \in Object
    PROVE  /\ BoxUsers(o) \in Object
           /\ BoxUsers(o).id # "empty" => BoxUsers(o) = o
<1>1. PICK u : u = [o EXCEPT !.id = "empty"]
  OBVIOUS
<1>2. u \in Object /\ u.id = "empty"
  BY <1>1, TextAssumption DEF Object
<1>3. PICK w : w = [u EXCEPT !.pass = "empty"]
  OBVIOUS
<1>4. w \in Object /\ w.id = "empty"
  BY <1>2, <1>3, TextAssumption DEF Object
<1>5. w = [o EXCEPT !.id = "empty", !.pass = "empty"]
  BY <1>1, <1>3
<1> QED  BY <1>4, <1>5 DEF BoxUsers

\* The inbounds of the other protocols.
LEMMA OtherInbounds ==
    ASSUME NEW o \in Object, NEW s, s = [NoStream EXCEPT !.network = "tcp"]
    PROVE  /\ Xray!ShadowsocksInbound(o) = Endpoint(o, o.port, NoStream, NoTLS, o.q.flow, o.q.encryption)
           /\ Xray!SocksInbound(o) = Endpoint(Xray!SocksUser(o), o.port, s, NoTLS, o.q.flow, o.q.encryption)
           /\ Xray!HttpInbound(o) = Endpoint(o, o.port, s, NoTLS, o.q.flow, o.q.encryption)
           /\ Box!SocksInbound(o) = Endpoint(BoxUsers(o), o.port % 65536, NoStream, NoTLS, o.q.flow, o.q.encryption)
           /\ Box!HttpInbound(o) = Endpoint(o, o.port % 65536, NoStream, NoTLS, o.q.flow, o.q.encryption)
<1>1. /\ Xray!NoStream = NoStream /\ Box!NoStream = NoStream /\ Xray!NoTLS = NoTLS /\ Box!NoTLS = NoTLS
      /\ Box!Truncated(o.port) = o.port % 65536
  BY PlainStreams DEF Box!Truncated
<1>2. PICK u : u = BoxUsers(o)
  OBVIOUS
<1>3. Box!SocksInbound(o) = Box!Endpoint(u, Box!Truncated(o.port), NoStream, NoTLS, o.q.flow, o.q.encryption)
  BY <1>1, <1>2 DEF Box!SocksInbound, BoxUsers
<1>4. /\ Xray!ShadowsocksInbound(o) = Xray!Endpoint(o, o.port, NoStream, NoTLS, o.q.flow, o.q.encryption)
      /\ Xray!SocksInbound(o) = Xray!Endpoint(Xray!SocksUser(o), o.port, s, NoTLS, o.q.flow, o.q.encryption)
      /\ Xray!HttpInbound(o) = Xray!Endpoint(o, o.port, s, NoTLS, o.q.flow, o.q.encryption)
      /\ Box!HttpInbound(o) = Box!Endpoint(o, Box!Truncated(o.port), NoStream, NoTLS, o.q.flow, o.q.encryption)
  BY <1>1 DEF Xray!ShadowsocksInbound, Xray!SocksInbound, Xray!HttpInbound, Box!HttpInbound
<1> QED  BY <1>1, <1>2, <1>3, <1>4, EndpointSame

\* Listeners without a stream: the build changes nothing.
LEMMA RegularInOthers ==
    ASSUME NEW c \in ProxyCores, NEW o \in Object,
           o.proto \in {"shadowsocks", "socks", "http", "hysteria2", "wireguard"}
    PROVE  RegularIn(c, o)
<1>1. AfterInbound(o) = o
  BY DEF AfterInbound
<1>2. PICK s : s = [NoStream EXCEPT !.network = "tcp"]
  OBVIOUS
<1>3. s \in Streams /\ s.service = NoPath
  BY <1>2, PlainStreams, TextAssumption
<1>4. PICK n : n = o.port % 65536
  OBVIOUS
<1>5. /\ NoStream \in Streams /\ NoStream.service = NoPath /\ NoTLS \in Securities
      /\ o.port \in Nat /\ o.q.flow \in Text /\ o.q.encryption \in Text
  BY PlainStreams, SecuredType, ObjectFields
<1>6. n \in Nat
  BY <1>4, <1>5
<1>7. PICK u, w : u = Xray!SocksUser(o) /\ w = BoxUsers(o)
  OBVIOUS
<1>8. u \in Object /\ w \in Object
  BY <1>7, SocksUserType, BoxUsersType
<1>9. \/ Inbound(c, o) = Endpoint(o, o.port, NoStream, NoTLS, o.q.flow, o.q.encryption)
      \/ Inbound(c, o) = Endpoint(u, o.port, s, NoTLS, o.q.flow, o.q.encryption)
      \/ Inbound(c, o) = Endpoint(o, o.port, s, NoTLS, o.q.flow, o.q.encryption)
      \/ Inbound(c, o) = Endpoint(w, n, NoStream, NoTLS, o.q.flow, o.q.encryption)
      \/ Inbound(c, o) = Endpoint(o, n, NoStream, NoTLS, o.q.flow, o.q.encryption)
      \/ Inbound(c, o) = Fail
  <2>1. /\ Xray!ShadowsocksInbound(o) = Endpoint(o, o.port, NoStream, NoTLS, o.q.flow, o.q.encryption)
        /\ Xray!SocksInbound(o) = Endpoint(u, o.port, s, NoTLS, o.q.flow, o.q.encryption)
        /\ Xray!HttpInbound(o) = Endpoint(o, o.port, s, NoTLS, o.q.flow, o.q.encryption)
        /\ Box!SocksInbound(o) = Endpoint(w, n, NoStream, NoTLS, o.q.flow, o.q.encryption)
        /\ Box!HttpInbound(o) = Endpoint(o, n, NoStream, NoTLS, o.q.flow, o.q.encryption)
    BY <1>2, <1>4, <1>7, OtherInbounds
  <2> QED  BY <2>1 DEF Inbound, XrayInbound, BoxInbound
<1> QED  BY <1>1, <1>3, <1>5, <1>6, <1>8, <1>9, RegularInPlain

\* Every object a listener can have.
LEMMA InboundRegular ==
    ASSUME NEW c \in ProxyCores, NEW o \in Object, o.proto \in InProtocols
    PROVE  RegularIn(c, o)
<1>1. CASE o.proto \in {"vless", "trojan", "vmess"}
  BY <1>1, RegularXrayIn, RegularBoxIn DEF ProxyCores
<1>2. CASE o.proto \in {"shadowsocks", "socks", "http", "hysteria2", "wireguard"}
  BY <1>2, RegularInOthers
<1> QED  BY <1>1, <1>2 DEF InProtocols, Protocols

\* Streams of a client and of a listener of core c that understand each other.
SameTransport(c, s, r) ==
    /\ s.network = r.network /\ s.service = r.service /\ s.authority = r.authority /\ s.mode = r.mode
    /\ (c = "xray" /\ s.network # "raw") => (s.host = r.host /\ Rooted(s.path) = Rooted(r.path))
    /\ (c # "xray" /\ s.network = "ws") => Rooted(s.path) = Rooted(r.path)

\* Transport, field by field.
Shown(n, h, p, s, a, m) ==
    [network |-> n, host |-> h, path |-> p, service |-> s, authority |-> a, mode |-> m, extra |-> "empty"]

\* A path stays one.
LEMMA RootedType == \A p \in Path : Rooted(p) \in Path /\ Root \in Path
BY TextAssumption DEF Rooted, Root, Path

\* What Transport shows of a stream.
LEMMA TransportForm ==
    ASSUME NEW s \in Streams
    PROVE  Transport(s) =
             Shown(s.network, IF core = "xray" /\ s.network # "raw" THEN s.host ELSE "empty",
                   IF (core = "xray" /\ s.network # "raw") \/ (core # "xray" /\ s.network = "ws")
                   THEN Rooted(s.path) ELSE Root, s.service, s.authority, s.mode)
<1>1. PICK p : p = Rooted(s.path)
  OBVIOUS
<1>2. p \in Path /\ Root \in Path /\ "empty" \in Text
  BY <1>1, RootedType, TextAssumption DEF Streams
<1>3. PICK x : x = [s EXCEPT !.extra = "empty", !.path = Rooted(@)]
  OBVIOUS
<1>4. x = [network |-> s.network, host |-> s.host, path |-> p, service |-> s.service,
           authority |-> s.authority, mode |-> s.mode, extra |-> "empty"]
  BY <1>1, <1>2, <1>3 DEF Streams
<1>5. CASE core = "xray" /\ s.network # "raw"
  <2>1. Transport(s) = x
    BY <1>3, <1>5 DEF Transport
  <2> QED  BY <1>1, <1>4, <1>5, <2>1 DEF Shown
<1>6. CASE core # "xray" /\ s.network = "ws"
  <2>1. Transport(s) = [x EXCEPT !.host = "empty"]
    BY <1>3, <1>6 DEF Transport
  <2>2. [x EXCEPT !.host = "empty"] = Shown(s.network, "empty", p, s.service, s.authority, s.mode)
    BY <1>4 DEF Shown
  <2> QED  BY <1>1, <1>6, <2>1, <2>2
<1>7. CASE ~(core = "xray" /\ s.network # "raw") /\ ~(core # "xray" /\ s.network = "ws")
  <2>1. Transport(s) = [x EXCEPT !.host = "empty", !.path = Root]
    BY <1>3, <1>7 DEF Transport
  <2>2. [x EXCEPT !.host = "empty", !.path = Root] = Shown(s.network, "empty", Root, s.service, s.authority, s.mode)
    <3>1. PICK y : y = [x EXCEPT !.host = "empty"]
      OBVIOUS
    <3>2. y = Shown(s.network, "empty", p, s.service, s.authority, s.mode)
      BY <1>4, <3>1 DEF Shown
    <3>3. [y EXCEPT !.path = Root] = Shown(s.network, "empty", Root, s.service, s.authority, s.mode)
      <4> HIDE DEF Root
      <4> QED  BY <3>2 DEF Shown
    <3>4. [x EXCEPT !.host = "empty", !.path = Root] = [y EXCEPT !.path = Root]
      BY <3>1
    <3> QED  BY <3>3, <3>4
  <2> QED  BY <1>7, <2>1, <2>2
<1> QED  BY <1>5, <1>6, <1>7

\* Streams that understand each other show the same, also with another service.
LEMMA TransportSame ==
    ASSUME NEW s \in Streams, NEW r \in Streams, NEW p \in Path, SameTransport(core, s, r)
    PROVE  Transport([s EXCEPT !.service = p]) = Transport([r EXCEPT !.service = p])
<1>1. PICK x, y : x = [s EXCEPT !.service = p] /\ y = [r EXCEPT !.service = p]
  OBVIOUS
<1>2. /\ x \in Streams /\ x.network = s.network /\ x.host = s.host /\ x.path = s.path /\ x.service = p
      /\ x.authority = s.authority /\ x.mode = s.mode
  BY <1>1 DEF Streams
<1>3. /\ y \in Streams /\ y.network = r.network /\ y.host = r.host /\ y.path = r.path /\ y.service = p
      /\ y.authority = r.authority /\ y.mode = r.mode
  BY <1>1 DEF Streams
<1>4. /\ Transport(x) =
           Shown(s.network, IF core = "xray" /\ s.network # "raw" THEN s.host ELSE "empty",
                 IF (core = "xray" /\ s.network # "raw") \/ (core # "xray" /\ s.network = "ws")
                 THEN Rooted(s.path) ELSE Root, p, s.authority, s.mode)
      /\ Transport(y) =
           Shown(r.network, IF core = "xray" /\ r.network # "raw" THEN r.host ELSE "empty",
                 IF (core = "xray" /\ r.network # "raw") \/ (core # "xray" /\ r.network = "ws")
                 THEN Rooted(r.path) ELSE Root, p, r.authority, r.mode)
  BY <1>2, <1>3, TransportForm
<1>5. Transport(x) = Transport(y)
  BY <1>4 DEF SameTransport
<1> QED  BY <1>1, <1>5

\* A client talks to a listener of an object with this security.
Matches(c, client, first, o) ==
    (client.ok /\ first.ok) =>
        /\ client.port = first.port
        /\ first.id # "empty" => (client.id = first.id /\ client.pass = first.pass)
        /\ SameTransport(c, client.stream, first.stream)
        /\ o.certs => client.tls.on = first.tls.on
        /\ ~o.certs => first.tls = NoTLS

\* It does when the parts of their endpoints agree.
LEMMA MatchesBy ==
    ASSUME NEW c, NEW v, NEW w, NEW n, NEW s, NEW r, NEW t, NEW u, NEW f, NEW e, NEW g, NEW h, NEW o,
           w.id # "empty" => (v.id = w.id /\ v.pass = w.pass), SameTransport(c, s, r),
           o.certs => t.on = u.on, ~o.certs => u = NoTLS
    PROVE  Matches(c, Endpoint(v, n, s, t, f, e), Endpoint(w, n, r, u, g, h), o)
<1>1. PICK a, b : a = Endpoint(v, n, s, t, f, e) /\ b = Endpoint(w, n, r, u, g, h)
  OBVIOUS
<1>2. /\ a.port = n /\ b.port = n /\ a.id = v.id /\ a.pass = v.pass /\ b.id = w.id /\ b.pass = w.pass
      /\ a.stream = s /\ b.stream = r /\ a.tls = t /\ b.tls = u
  BY <1>1 DEF Endpoint
<1>3. Matches(c, a, b, o)
  BY <1>2 DEF Matches
<1> QED  BY <1>1, <1>3

\* An endpoint that cannot be built matches everything.
LEMMA MatchesFail == \A c, e, o : Matches(c, Fail, e, o) /\ Matches(c, e, Fail, o)
BY DEF Matches, Fail

BVlessTLS(v) == Box!TLSOptions(v.q, v.q.security \in {"tls", "reality"}, AllowInsecure)

\* A VLESS client and listener of the xray core, from options that agree.
LEMMA VlessMatches ==
    ASSUME NEW x \in Object, NEW o \in Object, x.port = o.port, x.id = o.id, x.pass = o.pass,
           x.q.type = o.q.type, x.q.headerType = o.q.headerType, x.q.host = o.q.host,
           Rooted(x.q.path) = Rooted(o.q.path), x.q.serviceName = o.q.serviceName,
           x.q.authority = o.q.authority, x.q.mode = o.q.mode, x.q.security = o.q.security,
           o.certs => o.q.security = "tls"
    PROVE  Matches("xray", Xray!VlessOutbound(x, AllowInsecure), Xray!VlessInbound(o, o.certs), o)
<1>1. PICK t, u : t = Xray!Secured(x.q, AllowInsecure) /\ u = Xray!Certified(o.q, o.certs)
  OBVIOUS
<1>2. (o.certs => t.on = u.on) /\ (~o.certs => u = NoTLS)
  <2>1. u.on = (o.q.security = "tls" /\ o.certs) /\ (~o.certs => u = NoTLS)
    BY <1>1, CertifiedType
  <2>2. CASE o.certs /\ o.q.security = "tls"
    <3>1. t = Xray!TLSSettings(x.q, AllowInsecure)
      BY <1>1, <2>2 DEF Xray!Secured
    <3>2. t.on = TRUE
      BY <3>1 DEF Xray!TLSSettings
    <3> QED  BY <2>1, <2>2, <3>2
  <2>3. CASE ~o.certs
    BY <2>1, <2>3
  <2> QED  BY <2>2, <2>3
<1>3. PICK s, r : s = XVless(x) /\ r = XTrojan(o)
  OBVIOUS
<1>4. SameTransport("xray", s, r)
  <2>1. PICK p : p = TrimSlash(o.q.serviceName)
    OBVIOUS
  <2>2. s = XStream(o.q.type, o.q.headerType, o.q.host, x.q.path, p, o.q.authority, o.q.mode, x.q.extra,
                    {"tcp", "raw"})
    BY <1>3, <2>1 DEF XVless
  <2>3. r = XStream(o.q.type, o.q.headerType, o.q.host, o.q.path, p, o.q.authority, o.q.mode, "empty", {"tcp"})
    BY <1>3, <2>1 DEF XTrojan
  <2>4. /\ s.network = o.q.type /\ r.network = o.q.type /\ s.service = r.service
        /\ s.authority = r.authority /\ s.mode = r.mode
    BY <2>2, <2>3 DEF XStream
  <2>5. ASSUME o.q.type # "raw"
        PROVE  s.host = r.host /\ Rooted(s.path) = Rooted(r.path)
    <3>1. XHosted(o.q.type, o.q.headerType, {"tcp", "raw"}) <=> XHosted(o.q.type, o.q.headerType, {"tcp"})
      BY <2>5 DEF XHosted
    <3>2. CASE XHosted(o.q.type, o.q.headerType, {"tcp"})
      BY <2>2, <2>3, <3>1, <3>2 DEF XStream
    <3>3. CASE ~XHosted(o.q.type, o.q.headerType, {"tcp"})
      BY <2>2, <2>3, <3>1, <3>3 DEF XStream
    <3> QED  BY <3>2, <3>3
  <2> QED  BY <2>4, <2>5 DEF SameTransport
<1>5. PICK f, e : \/ Xray!VlessOutbound(x, AllowInsecure) = Endpoint(x, o.port, s, t, f, e)
                  \/ Xray!VlessOutbound(x, AllowInsecure) = Fail
  BY <1>1, <1>3, XrayVless
<1>6. PICK g, h : Xray!VlessInbound(o, o.certs) = Endpoint(o, o.port, r, u, g, h)
  BY <1>1, <1>3, XrayInbounds
<1>7. PICK n : n = o.port
  OBVIOUS
<1>8. Matches("xray", Endpoint(x, n, s, t, f, e), Endpoint(o, n, r, u, g, h), o)
  BY <1>2, <1>4, MatchesBy
<1> QED  BY <1>5, <1>6, <1>7, <1>8, MatchesFail

\* The object of a link matches itself.
LEMMA SameTransportSelf == \A c, s : SameTransport(c, s, s)
BY DEF SameTransport

\* Every protocol of the xray core.
LEMMA XrayMatches ==
    ASSUME NEW o \in Object, o.proto \in Protocols, o.certs = FALSE
    PROVE  Matches("xray", Outbound("xray", o), Inbound("xray", o), o)
<1>1. CASE o.proto = "vless"
  <2>1. /\ Outbound("xray", o) = Xray!VlessOutbound(o, AllowInsecure)
        /\ Inbound("xray", o) = Xray!VlessInbound(o, o.certs)
    BY <1>1 DEF Outbound, XrayOutbound, Inbound, XrayInbound
  <2>2. Matches("xray", Xray!VlessOutbound(o, AllowInsecure), Xray!VlessInbound(o, o.certs), o)
    BY VlessMatches
  <2> QED  BY <2>1, <2>2
<1>2. CASE o.proto = "vmess"
  <2>1. /\ Outbound("xray", o) = Xray!VmessOutbound(o, AllowInsecure)
        /\ Inbound("xray", o) = Xray!VmessInbound(o, o.certs)
    BY <1>2 DEF Outbound, XrayOutbound, Inbound, XrayInbound
  <2>2. PICK s, t, u : s = XVmess(o) /\ t = XVmessTLS(o) /\ u = Xray!Certified(o.q, o.certs)
    OBVIOUS
  <2>3. ~o.certs /\ u = NoTLS
    BY <2>2, CertifiedType
  <2>4. PICK n, f, e, g, h :
          /\ Outbound("xray", o) = Endpoint(o, n, s, t, f, e) \/ Outbound("xray", o) = Fail
          /\ Inbound("xray", o) = Endpoint(o, n, s, u, g, h) \/ Inbound("xray", o) = Fail
    BY <2>1, <2>2, XrayVmess, XrayInbounds
  <2>5. Matches("xray", Endpoint(o, n, s, t, f, e), Endpoint(o, n, s, u, g, h), o)
    BY <2>3, SameTransportSelf, MatchesBy
  <2> QED  BY <2>4, <2>5, MatchesFail
<1>3. CASE o.proto = "trojan"
  <2>1. /\ Outbound("xray", o) = Xray!TrojanOutbound(o, AllowInsecure)
        /\ Inbound("xray", o) = Xray!TrojanInbound(o)
    BY <1>3 DEF Outbound, XrayOutbound, Inbound, XrayInbound
  <2>2. PICK s, r, t, u : s = XTrojan(o) /\ r = XTrojanIn(o) /\ t = Xray!Secured(o.q, AllowInsecure) /\ u = NoTLS
    OBVIOUS
  <2>3. ~o.certs /\ u = NoTLS
    BY <2>2
  <2>4. SameTransport("xray", s, r)
    <3>1. /\ s.network = o.q.type /\ r.network = o.q.type /\ s.service = r.service
          /\ s.authority = r.authority /\ s.mode = r.mode
      BY <2>2 DEF XTrojan, XTrojanIn, XStream
    <3>2. ASSUME o.q.type # "raw"
          PROVE  s.host = r.host /\ s.path = r.path
      <4>1. XHosted(o.q.type, o.q.headerType, {"tcp", "raw"}) <=> XHosted(o.q.type, o.q.headerType, {"tcp"})
        BY <3>2 DEF XHosted
      <4> QED  BY <2>2, <4>1 DEF XTrojan, XTrojanIn, XStream
    <3> QED  BY <3>1, <3>2 DEF SameTransport
  <2>5. PICK n, f, e, g, h :
          /\ Outbound("xray", o) = Endpoint(o, n, s, t, f, e) \/ Outbound("xray", o) = Fail
          /\ Inbound("xray", o) = Endpoint(o, n, r, u, g, h)
    BY <2>1, <2>2, XrayTrojan, XrayInbounds
  <2>6. Matches("xray", Endpoint(o, n, s, t, f, e), Endpoint(o, n, r, u, g, h), o)
    BY <2>3, <2>4, MatchesBy
  <2> QED  BY <2>5, <2>6, MatchesFail
<1>4. CASE o.proto = "shadowsocks"
  <2>1. Outbound("xray", o) = Xray!ShadowsocksOutbound(o) /\ Inbound("xray", o) = Xray!ShadowsocksInbound(o)
    BY <1>4 DEF Outbound, XrayOutbound, Inbound, XrayInbound
  <2>2. PICK n, s, t, f, e :
          /\ t = NoTLS
          /\ Outbound("xray", o) = Endpoint(o, n, s, t, f, e) \/ Outbound("xray", o) = Fail
          /\ Inbound("xray", o) = Endpoint(o, n, s, t, f, e)
    <3>1. PICK n, s, t, f, e : n = o.port /\ s = NoStream /\ t = NoTLS /\ f = o.q.flow /\ e = o.q.encryption
      OBVIOUS
    <3>2. Xray!ShadowsocksOutbound(o) = Xray!Endpoint(o, n, s, t, f, e) \/ Xray!ShadowsocksOutbound(o) = Fail
      BY <3>1, PlainStreams DEF Xray!ShadowsocksOutbound
    <3>3. Xray!ShadowsocksInbound(o) = Endpoint(o, n, s, t, f, e)
      <4>1. PICK z : z = [NoStream EXCEPT !.network = "tcp"]
        OBVIOUS
      <4> QED  BY <3>1, <4>1, OtherInbounds
    <3> QED  BY <2>1, <3>1, <3>2, <3>3, EndpointSame
  <2>3. Matches("xray", Endpoint(o, n, s, t, f, e), Endpoint(o, n, s, t, f, e), o)
    BY <2>2, SameTransportSelf, MatchesBy
  <2> QED  BY <2>2, <2>3, MatchesFail
<1>5. CASE o.proto = "socks"
  <2>1. Outbound("xray", o) = Xray!SocksOutbound(o) /\ Inbound("xray", o) = Xray!SocksInbound(o)
    BY <1>5 DEF Outbound, XrayOutbound, Inbound, XrayInbound
  <2>2. PICK u : u = Xray!SocksUser(o)
    OBVIOUS
  <2>3. PICK n, s, t, f, e :
          /\ t = NoTLS
          /\ Outbound("xray", o) = Endpoint(u, n, s, t, f, e) \/ Outbound("xray", o) = Fail
          /\ Inbound("xray", o) = Endpoint(u, n, s, t, f, e)
    BY <2>1, <2>2, PlainStreams, EndpointSame, OtherInbounds DEF Xray!SocksOutbound
  <2>4. Matches("xray", Endpoint(u, n, s, t, f, e), Endpoint(u, n, s, t, f, e), o)
    BY <2>3, SameTransportSelf, MatchesBy
  <2> QED  BY <2>3, <2>4, MatchesFail
<1>6. CASE o.proto \in {"hysteria2", "wireguard"}
  <2>1. Inbound("xray", o) = Fail
    BY <1>6 DEF Inbound, XrayInbound
  <2> QED  BY <2>1, MatchesFail
<1> QED  BY <1>1, <1>2, <1>3, <1>4, <1>5, <1>6 DEF Protocols

\* Every protocol of the sing-box core.
LEMMA BoxMatches ==
    ASSUME NEW o \in Object, o.proto \in Protocols, o.certs = FALSE
    PROVE  Matches("singbox", Outbound("singbox", o), Inbound("singbox", o), o)
<1>1. PICK n, u : n = o.port % 65536 /\ u = NoTLS
  OBVIOUS
<1>2. u = NoTLS
  BY <1>1
<1>3. ASSUME NEW host, NEW p, NEW r, NEW s, NEW v, NEW b,
             v = BStream(o.q.type, host, o.q.path, s), b = BStream(o.q.type, "empty", InPath(o), s)
      PROVE  SameTransport("singbox", v, b)
  <2>1. /\ v.network = o.q.type /\ b.network = o.q.type /\ v.service = b.service
        /\ v.authority = b.authority /\ v.mode = b.mode
    BY <1>3 DEF BStream
  <2>2. o.q.type = "ws" => v.path = o.q.path /\ b.path = o.q.path
    BY <1>3 DEF BStream, BHosted, InPath
  <2> QED  BY <2>1, <2>2 DEF SameTransport
<1>4. CASE o.proto \in {"vless", "trojan"}
  <2>1. PICK t : t = BVlessTLS(o)
    OBVIOUS
  <2>2. PICK v, b : v = BVless(o) /\ b = BVlessIn(o)
    OBVIOUS
  <2>3. SameTransport("singbox", v, b)
    BY <1>3, <2>2 DEF BVless, BVlessIn
  <2>4. ~o.certs
    OBVIOUS
  <2>5. \/ /\ Outbound("singbox", o) = Box!VlessOutbound(o, AllowInsecure)
           /\ Inbound("singbox", o) = Box!VlessInbound(o)
        \/ /\ Outbound("singbox", o) = Box!TrojanOutbound(o, AllowInsecure)
           /\ Inbound("singbox", o) = Box!TrojanInbound(o)
    BY <1>4 DEF Outbound, BoxOutbound, Inbound, BoxInbound
  <2>6. PICK f, e : Outbound("singbox", o) = Endpoint(o, n, v, t, f, e) \/ Outbound("singbox", o) = Fail
    BY <1>1, <2>1, <2>2, <2>5, BoxVless, BoxTrojan DEF BVlessTLS
  <2>7. PICK g, h : Inbound("singbox", o) = Endpoint(o, n, b, u, g, h)
    BY <1>1, <2>2, <2>5, BoxInbounds
  <2>8. Matches("singbox", Endpoint(o, n, v, t, f, e), Endpoint(o, n, b, u, g, h), o)
    BY <1>2, <2>3, <2>4, MatchesBy
  <2> QED  BY <2>6, <2>7, <2>8, MatchesFail
<1>5. CASE o.proto = "vmess"
  <2>1. PICK t : t = BVmessTLS(o)
    OBVIOUS
  <2>2. PICK v, b : v = BVmess(o) /\ b = BVmessIn(o)
    OBVIOUS
  <2>3. SameTransport("singbox", v, b)
    BY <1>3, <2>2 DEF BVmess, BVmessIn
  <2>4. ~o.certs
    OBVIOUS
  <2>5. /\ Outbound("singbox", o) = Box!VmessOutbound(o, AllowInsecure)
        /\ Inbound("singbox", o) = Box!VmessInbound(o)
    BY <1>5 DEF Outbound, BoxOutbound, Inbound, BoxInbound
  <2>6. PICK f, e : Outbound("singbox", o) = Endpoint(o, n, v, t, f, e) \/ Outbound("singbox", o) = Fail
    BY <1>1, <2>1, <2>2, <2>5, BoxVmess
  <2>7. PICK g, h : Inbound("singbox", o) = Endpoint(o, n, b, u, g, h)
    BY <1>1, <2>2, <2>5, BoxInbounds
  <2>8. Matches("singbox", Endpoint(o, n, v, t, f, e), Endpoint(o, n, b, u, g, h), o)
    BY <1>2, <2>3, <2>4, MatchesBy
  <2> QED  BY <2>6, <2>7, <2>8, MatchesFail
<1>6. CASE o.proto = "socks"
  <2>1. Outbound("singbox", o) = Box!SocksOutbound(o) /\ Inbound("singbox", o) = Box!SocksInbound(o)
    BY <1>6 DEF Outbound, BoxOutbound, Inbound, BoxInbound
  <2>2. PICK w : w = BoxUsers(o)
    OBVIOUS
  <2>3. w.id # "empty" => (o.id = w.id /\ o.pass = w.pass)
    BY <2>2, BoxUsersType
  <2>4. PICK s, f, e :
          /\ Outbound("singbox", o) = Endpoint(o, n, s, u, f, e)
          /\ Inbound("singbox", o) = Endpoint(w, n, s, u, f, e)
    <3>1. PICK s, f, e : s = NoStream /\ f = o.q.flow /\ e = o.q.encryption
      OBVIOUS
    <3>2. Box!SocksOutbound(o) = Box!Endpoint(o, n, s, u, f, e)
      BY <1>1, <3>1, PlainStreams DEF Box!SocksOutbound, Box!Truncated
    <3>3. Box!SocksInbound(o) = Endpoint(w, n, s, u, f, e)
      <4>1. PICK z : z = [NoStream EXCEPT !.network = "tcp"]
        OBVIOUS
      <4> QED  BY <1>1, <2>2, <3>1, <4>1, OtherInbounds
    <3> QED  BY <2>1, <3>2, <3>3, EndpointSame
  <2>5. Matches("singbox", Endpoint(o, n, s, u, f, e), Endpoint(w, n, s, u, f, e), o)
    BY <1>2, <2>3, SameTransportSelf, MatchesBy
  <2> QED  BY <2>4, <2>5
<1>7. CASE o.proto \in {"shadowsocks", "hysteria2", "wireguard"}
  <2>1. Inbound("singbox", o) = Fail
    BY <1>7 DEF Inbound, BoxInbound
  <2> QED  BY <2>1, MatchesFail
<1> QED  BY <1>4, <1>5, <1>6, <1>7 DEF Protocols

\* The options of a listener made from flags, with security s.
Listening(q, s) ==
    /\ q \in Query /\ q.sni = "empty" /\ q.host \in {"empty", "h"} /\ q.type # "empty" /\ q.security = s

\* They stay that when the transport's options are filled in.
LEMMA ListeningUpdates ==
    ASSUME NEW q, NEW s, NEW p \in Path, NEW m \in Text, Listening(q, s)
    PROVE  /\ Listening([q EXCEPT !.host = "h"], s) /\ Listening([q EXCEPT !.path = p], s)
           /\ Listening([q EXCEPT !.mode = m], s) /\ Listening([q EXCEPT !.serviceName = p], s)
           /\ Listening([q EXCEPT !.authority = m], s) /\ Listening([q EXCEPT !.headerType = m], s)
           /\ Listening([q EXCEPT !.encryption = m], s)
           /\ Listening([q EXCEPT !.security = m], m)
<1> USE DEF Listening, Query
<1>1. "h" \in Text
  BY TextAssumption
<1>2. Listening([q EXCEPT !.host = "h"], s)
  BY <1>1
<1>3. Listening([q EXCEPT !.path = p], s) /\ Listening([q EXCEPT !.serviceName = p], s)
  OBVIOUS
<1>4. Listening([q EXCEPT !.mode = m], s) /\ Listening([q EXCEPT !.authority = m], s)
  OBVIOUS
<1>5. Listening([q EXCEPT !.headerType = m], s) /\ Listening([q EXCEPT !.encryption = m], s)
  OBVIOUS
<1>6. Listening([q EXCEPT !.security = m], m)
  OBVIOUS
<1> QED  BY <1>2, <1>3, <1>4, <1>5, <1>6

FlagSecurity(f) == IF f.tls = "off" THEN "empty" ELSE "tls"
FlagBase(f) == [NoQuery EXCEPT !.type = f.transport, !.security = FlagSecurity(f)]

\* The options before the transport's.
LEMMA FlagBaseType ==
    ASSUME NEW f \in Flag
    PROVE  /\ Listening(FlagBase(f), FlagSecurity(f)) /\ FlagSecurity(f) \in Text
           /\ FlagBase(f).security = FlagSecurity(f)
<1>1. /\ f.transport \in Text /\ f.transport # "empty" /\ FlagSecurity(f) \in Text
  BY TextAssumption DEF Flag, FlagSecurity
<1>2. PICK q : q = [NoQuery EXCEPT !.type = f.transport]
  OBVIOUS
<1>3. NoQuery.sni = "empty" /\ NoQuery.host = "empty"
  BY DEF NoQuery
<1>4. Listening(q, q.security)
  BY <1>1, <1>2, <1>3, NoQueryType DEF Listening, Query
<1>5. FlagBase(f) = [q EXCEPT !.security = FlagSecurity(f)]
  BY <1>2 DEF FlagBase
<1>6. Listening(FlagBase(f), FlagSecurity(f))
  <2>1. PICK r, p, m : r = q.security /\ p = NoPath /\ m = FlagSecurity(f)
    OBVIOUS
  <2>2. Listening(q, r) /\ p \in Path /\ m \in Text
    BY <1>1, <1>4, <2>1, NoPathType
  <2>3. Listening([q EXCEPT !.security = m], m)
    BY <2>2, ListeningUpdates
  <2> QED  BY <1>5, <2>1, <2>3
<1> QED  BY <1>1, <1>6 DEF Listening

\* The object made from flags, with options q.
FlagObject(f, q) ==
    [ok |-> TRUE, proto |-> f.proto, id |-> IF f.proto = "http" THEN "empty" ELSE "cred",
     pass |-> IF f.proto = "socks" THEN "cred" ELSE "empty", address |-> "listen", port |-> 443,
     padded |-> FALSE, remark |-> "Listener", q |-> q, certs |-> f.tls = "certs"]

\* createInbound makes such an object for every combination of flags.
LEMMA FlagOptions ==
    ASSUME NEW f \in Flag
    PROVE  \E q \in Query :
             /\ createXrayInbound(f) = FlagObject(f, q)
             /\ f.proto = "socks" => q = NoQuery
             /\ f.proto = "vless" => \E s \in {"empty", "none", "tls"} : Listening(q, s) /\ (f.tls = "certs" => s = "tls")
<1>1. PICK b, s : b = FlagBase(f) /\ s = FlagSecurity(f)
  OBVIOUS
<1>2. /\ Listening(b, s) /\ b.security = s /\ s \in {"empty", "tls"} /\ (f.tls = "certs" => s = "tls")
      /\ b = [NoQuery EXCEPT !.type = f.transport, !.security = IF f.tls = "off" THEN "empty" ELSE "tls"]
  BY <1>1, FlagBaseType DEF FlagSecurity, FlagBase
<1>3. f.path \in Path /\ f.mode \in Text /\ "h" \in Text /\ "none" \in Text
  BY TextAssumption DEF Flag
<1>4. \A q, r : Listening(q, r) => q \in Query
  BY DEF Listening
<1>5. CASE f.proto \in {"socks", "http"}
  <2>1. createXrayInbound(f) = FlagObject(f, NoQuery)
    BY ZenonT(60), <1>5 DEF createXrayInbound, FlagObject
  <2> QED  BY <1>5, <2>1, NoQueryType
<1>6. CASE f.proto \notin {"socks", "http"} /\ f.transport = "tcp"
  <2>1. createXrayInbound(f) = FlagObject(f, b)
    BY ZenonT(60), <1>2, <1>6 DEF createXrayInbound, FlagObject
  <2> QED  BY <1>2, <1>4, <1>6, <2>1
<1>7. CASE f.proto \notin {"socks", "http"} /\ f.transport = "ws"
  <2>1. createXrayInbound(f) = FlagObject(f, [b EXCEPT !.host = "h", !.path = f.path])
    BY ZenonT(60), <1>2, <1>7 DEF createXrayInbound, FlagObject
  <2>2. PICK q1 : q1 = [b EXCEPT !.host = "h"]
    OBVIOUS
  <2>3. PICK q : q = [q1 EXCEPT !.path = f.path]
    OBVIOUS
  <2>4. q = [b EXCEPT !.host = "h", !.path = f.path]
    BY <2>2, <2>3
  <2>5. Listening(q1, s)
    BY <1>2, <1>3, <2>2, ListeningUpdates
  <2>6. Listening(q, s)
    BY <1>3, <2>3, <2>5, ListeningUpdates
  <2> QED  BY <1>2, <1>4, <1>7, <2>1, <2>4, <2>6
<1>8. CASE f.proto = "vless" /\ f.transport = "xhttp"
  <2>1. PICK n : n = IF s = "empty" THEN "none" ELSE s
    OBVIOUS
  <2>2. PICK q1 : q1 = [b EXCEPT !.host = "h"]
    OBVIOUS
  <2>3. PICK q2 : q2 = [q1 EXCEPT !.path = f.path]
    OBVIOUS
  <2>4. PICK q3 : q3 = [q2 EXCEPT !.mode = f.mode]
    OBVIOUS
  <2>5. PICK q : q = [q3 EXCEPT !.security = n]
    OBVIOUS
  <2>6. Listening(q1, s)
    BY <1>2, <1>3, <2>2, ListeningUpdates
  <2>7. Listening(q2, s)
    BY <1>3, <2>3, <2>6, ListeningUpdates
  <2>8. Listening(q3, s)
    BY <1>3, <2>4, <2>7, ListeningUpdates
  <2>9. n \in Text /\ n \in {"empty", "none", "tls"} /\ (f.tls = "certs" => n = "tls")
    BY <1>2, <2>1, TextAssumption
  <2>10. Listening(q, n)
    BY <1>3, <2>5, <2>8, <2>9, ListeningUpdates
  <2>11. q = [b EXCEPT !.host = "h", !.path = f.path, !.mode = f.mode,
                       !.security = IF @ = "empty" THEN "none" ELSE @]
    <3>1. q = [b EXCEPT !.host = "h", !.path = f.path, !.mode = f.mode, !.security = n]
      BY <2>2, <2>3, <2>4, <2>5
    <3>2. n = IF b.security = "empty" THEN "none" ELSE b.security
      BY <1>2, <2>1
    <3> QED  BY <3>1, <3>2
  <2>12. createXrayInbound(f) = FlagObject(f, q)
    <3>1. createXrayInbound(f) =
            FlagObject(f, [b EXCEPT !.host = "h", !.path = f.path, !.mode = f.mode,
                                    !.security = IF @ = "empty" THEN "none" ELSE @])
      <4> DEFINE base == [NoQuery EXCEPT !.type = f.transport,
                                         !.security = IF f.tls = "off" THEN "empty" ELSE "tls"]
                 r == [base EXCEPT !.host = "h", !.path = f.path, !.mode = f.mode,
                                   !.security = IF @ = "empty" THEN "none" ELSE @]
      <4>1. createXrayInbound(f) = FlagObject(f, r)
        BY ZenonT(60), <1>8 DEF createXrayInbound, FlagObject
      <4>2. b = base
        BY <1>2
      <4> HIDE DEF base
      <4> QED  BY <4>1, <4>2
    <3> QED  BY <2>11, <3>1
  <2> QED  BY <1>4, <1>8, <2>9, <2>10, <2>12
<1>9. CASE f.proto = "vmess" /\ f.transport = "xhttp"
  <2>2. PICK q1 : q1 = [b EXCEPT !.host = "h"]
    OBVIOUS
  <2>3. PICK q2 : q2 = [q1 EXCEPT !.path = f.path]
    OBVIOUS
  <2>4. PICK q3 : q3 = [q2 EXCEPT !.headerType = f.mode]
    OBVIOUS
  <2>5. PICK q : q = [q3 EXCEPT !.encryption = "none"]
    OBVIOUS
  <2>6. Listening(q1, s)
    BY <1>2, <1>3, <2>2, ListeningUpdates
  <2>7. Listening(q2, s)
    BY <1>3, <2>3, <2>6, ListeningUpdates
  <2>8. Listening(q3, s)
    BY <1>3, <2>4, <2>7, ListeningUpdates
  <2>9. Listening(q, s)
    BY <1>3, <2>5, <2>8, ListeningUpdates
  <2>10. q = [b EXCEPT !.host = "h", !.path = f.path, !.headerType = f.mode, !.encryption = "none"]
    BY <2>2, <2>3, <2>4, <2>5
  <2>11. createXrayInbound(f) =
            FlagObject(f, [b EXCEPT !.host = "h", !.path = f.path, !.headerType = f.mode, !.encryption = "none"])
    BY <1>2, <1>9 DEF createXrayInbound, FlagObject
  <2> QED  BY <1>4, <1>9, <2>9, <2>10, <2>11
<1>10. CASE f.proto = "vless" /\ f.transport = "grpc"
  <2>1. createXrayInbound(f) = FlagObject(f, [b EXCEPT !.serviceName = f.path, !.authority = "h"])
    BY <1>2, <1>10 DEF createXrayInbound, FlagObject
  <2>2. PICK q1 : q1 = [b EXCEPT !.serviceName = f.path]
    OBVIOUS
  <2>3. PICK q : q = [q1 EXCEPT !.authority = "h"]
    OBVIOUS
  <2>4. q = [b EXCEPT !.serviceName = f.path, !.authority = "h"]
    BY <2>2, <2>3
  <2>5. Listening(q1, s)
    BY <1>2, <1>3, <2>2, ListeningUpdates
  <2>6. Listening(q, s)
    BY <1>3, <2>3, <2>5, ListeningUpdates
  <2> QED  BY <1>2, <1>4, <1>10, <2>1, <2>4, <2>6
<1>11. CASE f.proto = "vmess" /\ f.transport = "grpc"
  <2>1. createXrayInbound(f) = FlagObject(f, [b EXCEPT !.path = f.path, !.host = "h"])
    BY <1>2, <1>11 DEF createXrayInbound, FlagObject
  <2>2. PICK q1 : q1 = [b EXCEPT !.path = f.path]
    OBVIOUS
  <2>3. PICK q : q = [q1 EXCEPT !.host = "h"]
    OBVIOUS
  <2>4. q = [b EXCEPT !.path = f.path, !.host = "h"]
    BY <2>2, <2>3
  <2>5. Listening(q1, s)
    BY <1>2, <1>3, <2>2, ListeningUpdates
  <2>6. Listening(q, s)
    BY <1>3, <2>3, <2>5, ListeningUpdates
  <2> QED  BY <1>4, <1>11, <2>1, <2>4, <2>6
<1> QED  BY <1>5, <1>6, <1>7, <1>8, <1>9, <1>10, <1>11 DEF Flag

\* Its type.
LEMMA FlagObjectType ==
    ASSUME NEW f, NEW q, NEW o, f \in Flag, q \in Query, o = FlagObject(f, q)
    PROVE  o \in Object /\ o.proto = f.proto /\ o.proto \in InProtocols
<1>1. f.proto \in {"vless", "vmess", "socks", "http"}
  BY DEF Flag
<1>2. f.proto \in Text /\ f.proto \in InProtocols
  BY <1>1, TextAssumption DEF InProtocols, Protocols
<1> DEFINE certs == f.tls = "certs"
<1>3. certs \in BOOLEAN
  OBVIOUS
<1>4. o.proto = f.proto
  BY DEF FlagObject
<1>5. o \in Object
  <2> HIDE DEF certs
  <2>1. FlagObject(f, q) =
          [ok |-> TRUE, proto |-> f.proto, id |-> IF f.proto = "http" THEN "empty" ELSE "cred",
           pass |-> IF f.proto = "socks" THEN "cred" ELSE "empty", address |-> "listen", port |-> 443,
           padded |-> FALSE, remark |-> "Listener", q |-> q, certs |-> certs]
    BY DEF FlagObject, certs
  <2> QED  BY <1>2, <1>3, <2>1, TextAssumption DEF Object
<1> QED  BY <1>2, <1>4, <1>5

\* The fields of that object.
LEMMA FlagObjectFields ==
    ASSUME NEW f, NEW q, NEW o, o = FlagObject(f, q)
    PROVE  /\ o.proto = f.proto /\ o.port = 443 /\ o.q = q
           /\ o.id = (IF f.proto = "http" THEN "empty" ELSE "cred")
           /\ o.pass = (IF f.proto = "socks" THEN "cred" ELSE "empty")
BY DEF FlagObject

\* Its port is written without zeros.
LEMMA FlagPort ==
    ASSUME NEW f, NEW q, NEW o, o = FlagObject(f, q)
    PROVE  ~o.padded
BY DEF FlagObject

\* It has certificates only if the flags do.
LEMMA FlagCerts ==
    ASSUME NEW f, NEW q, FlagObject(f, q).certs
    PROVE  f.tls = "certs"
BY DEF FlagObject

\* A link that GetLink writes is a link with these parts.
LEMMA WrittenType ==
    ASSUME NEW o \in Object, NEW c, NEW p, NEW u, NEW q, NEW l,
           c \in Text, c # "vmess", p \in Text, u \in Text, q \in Query, l = Xray!Written(o, c, p, u, q)
    PROVE  /\ l \in Link /\ l.scheme = c /\ l.form = p /\ l.user = u /\ l.q = q /\ l.pass = o.pass
           /\ l.host = o.address /\ l.port = o.port /\ l.padded = o.padded
<1>1. /\ l.scheme = c /\ l.form = p /\ l.user = u /\ l.q = q /\ l.pass = o.pass
      /\ l.host = o.address /\ l.port = o.port /\ l.padded = o.padded
  BY DEF Xray!Written
<1>2. /\ o.pass \in Text /\ o.address \in Text /\ o.port \in Nat /\ o.padded \in BOOLEAN /\ o.remark \in Text
  BY DEF Object
<1>3. l \in Link
  BY <1>2 DEF Xray!Written, Link
<1> QED  BY <1>1, <1>3

\* What a client makes of a link.
Client(c, l) == IF Parse(c, l).ok THEN Outbound(c, Parse(c, l)) ELSE Fail

\* VLESS from flags.
LEMMA VlessFlagMatches ==
    ASSUME NEW f \in Flag, f.proto = "vless", NEW o, o = createXrayInbound(f),
           NEW l, l = Xray!VlessGetLink(o)
    PROVE  l \in Link /\ Client("xray", l).ok /\ Matches("xray", Client("xray", l), Inbound("xray", o), o)
<1>1. PICK q \in Query :
        /\ createXrayInbound(f) = FlagObject(f, q)
        /\ f.proto = "vless" => \E s \in {"empty", "none", "tls"} : Listening(q, s) /\ (f.tls = "certs" => s = "tls")
  BY FlagOptions
<1>2. PICK s \in {"empty", "none", "tls"} : Listening(q, s) /\ (f.tls = "certs" => s = "tls")
  BY <1>1
<1>3. /\ o \in Object /\ o.proto = "vless" /\ o.port = 443 /\ o.q = q
      /\ (o.certs => f.tls = "certs") /\ o.id = "cred" /\ o.pass = "empty"
  <2>1. q \in Query /\ o = FlagObject(f, q) /\ f \in Flag
    BY <1>1
  <2>2. o \in Object
    BY <2>1, FlagObjectType
  <2>3. o.certs => f.tls = "certs"
    BY <2>1, FlagCerts
  <2>4. o.proto = "vless" /\ o.port = 443 /\ o.q = q /\ o.id = "cred" /\ o.pass = "empty"
    BY <2>1, FlagObjectFields
  <2> QED  BY <2>2, <2>3, <2>4
<1>4. PICK r : r = [q EXCEPT !.extra = "empty"]
  OBVIOUS
<1>5. /\ r \in Query /\ SameOptions(r, q) /\ r.type = q.type /\ r.path = q.path /\ r.security = q.security
      /\ r.authority = q.authority
  BY <1>4, TextAssumption DEF Query, SameOptions
<1>6. /\ l \in Link /\ l.scheme = "vless" /\ l.user = "cred" /\ l.q = r /\ l.pass = "empty" /\ l.port = 443
      /\ l \in Record
  <2>1. l = Xray!Written(o, "vless", "plain", "cred", r)
    BY <1>3, <1>4 DEF Xray!VlessGetLink
  <2>2. "vless" \in Text /\ "plain" \in Text /\ "cred" \in Text /\ "vless" # "vmess"
    BY TextAssumption
  <2> QED  BY <1>3, <1>5, <2>1, <2>2, WrittenType, LinkType
<1>7. PICK x : x = Xray!VlessParse(l)
  OBVIOUS
<1>8. x.ok
  <2>1. q.sni = "empty" /\ q.host \in {"empty", "h"}
    BY <1>2 DEF Listening
  <2>2. r.sni = "empty" /\ r.host \in {"empty", "h"}
    BY <1>5, <2>1 DEF SameOptions
  <2>3. Xray!HasPort(l) /\ Xray!isValidHostName(l.q.sni) /\ Xray!isValidHostName(l.q.host)
    BY <1>6, <2>2 DEF Xray!HasPort, Xray!isValidHostName
  <2>4. \A m, p, v : Xray!Parsed(m, p, v).ok
    BY DEF Xray!Parsed
  <2> QED  BY <1>7, <2>3, <2>4 DEF Xray!VlessParse
<1>9. PICK v \in Query :
        /\ x = Parsed(l, "vless", v) /\ SameOptions(v, r)
        /\ v.path = DefaultPath(r.headerType = "http" \/ r.type \in {"ws", "h2", "xhttp"}, r)
        /\ v.type = IF r.security \in {"tls", "reality", "empty"} THEN Or(r.type, "tcp") ELSE r.type
        /\ v.security = r.security /\ v.authority = r.authority
  BY <1>6, <1>7, <1>8, XrayVlessParsed
<1>10. x \in Object /\ x.proto = "vless" /\ x.q = v /\ x.port = 443 /\ x.id = "cred" /\ x.pass = "empty"
  <2>1. l \in Record /\ "vless" \in Text /\ v \in Query
    BY <1>6, TextAssumption
  <2>2. Parsed(l, "vless", v) \in Object
    BY <2>1, ParsedType
  <2> QED  BY <1>6, <1>9, <2>2 DEF Parsed
<1>11. /\ v.type = q.type /\ Rooted(v.path) = Rooted(q.path) /\ v.security = q.security
       /\ v.authority = q.authority /\ SameOptions(v, q)
  <2>1. q.type # "empty"
    BY <1>2 DEF Listening
  <2>2. v.type = q.type
    BY <1>5, <1>9, <2>1 DEF Or
  <2>3. Rooted(v.path) = Rooted(q.path)
    BY <1>5, <1>9, DefaultPathType
  <2> QED  BY <1>5, <1>9, <2>2, <2>3 DEF SameOptions
<1>12. o.certs => o.q.security = "tls"
  BY <1>2, <1>3 DEF Listening
<1>13. Client("xray", l) = Xray!VlessOutbound(x, AllowInsecure)
  <2>1. Parse("xray", l) = x
    BY <1>6, <1>7 DEF Parse, selectCoreForLink, XrayParse
  <2>2. Outbound("xray", x) = Xray!VlessOutbound(x, AllowInsecure)
    BY <1>10 DEF Outbound, XrayOutbound
  <2> QED  BY <1>8, <2>1, <2>2 DEF Client
<1>14. Inbound("xray", o) = Xray!VlessInbound(o, o.certs)
  BY <1>3 DEF Inbound, XrayInbound
<1>15. Matches("xray", Xray!VlessOutbound(x, AllowInsecure), Xray!VlessInbound(o, o.certs), o)
  <2>1. /\ x \in Object /\ o \in Object /\ x.port = o.port /\ x.id = o.id /\ x.pass = o.pass
        /\ x.q.type = o.q.type /\ x.q.headerType = o.q.headerType /\ x.q.host = o.q.host
        /\ Rooted(x.q.path) = Rooted(o.q.path) /\ x.q.serviceName = o.q.serviceName
        /\ x.q.authority = o.q.authority /\ x.q.mode = o.q.mode /\ x.q.security = o.q.security
    BY <1>3, <1>10, <1>11 DEF SameOptions
  <2> QED  BY <1>12, <2>1, VlessMatches
<1>16. Xray!VlessOutbound(x, AllowInsecure).ok
  <2>1. Port16(x.port)
    BY <1>10 DEF Port16
  <2>2. PICK s1, t1, f1, e1 : Xray!VlessOutbound(x, AllowInsecure) = Endpoint(x, x.port, s1, t1, f1, e1)
    BY <1>10, <2>1, XrayVless
  <2> QED  BY <2>2 DEF Endpoint
<1> QED  BY <1>6, <1>13, <1>14, <1>15, <1>16

\* SOCKS from flags.
LEMMA SocksFlagMatches ==
    ASSUME NEW f \in Flag, f.proto = "socks", NEW o, o = createXrayInbound(f),
           NEW l, l = Xray!SocksGetLink(o)
    PROVE  l \in Link /\ Client("xray", l).ok /\ Matches("xray", Client("xray", l), Inbound("xray", o), o)
<1>1. PICK q \in Query : o = FlagObject(f, q) /\ q = NoQuery
  BY FlagOptions
<1>2. /\ o \in Object /\ o.proto = "socks" /\ o.port = 443 /\ o.q = NoQuery
      /\ o.id = "cred" /\ o.pass = "cred"
  <2>1. q \in Query /\ o = FlagObject(f, q) /\ f \in Flag
    BY <1>1
  <2>2. o \in Object
    BY <2>1, FlagObjectType
  <2>3. o.proto = "socks" /\ o.port = 443 /\ o.q = q /\ o.id = "cred" /\ o.pass = "cred"
    BY <2>1, FlagObjectFields
  <2> QED  BY <1>1, <2>2, <2>3
<1>3. /\ l \in Link /\ l.scheme = "socks" /\ l.form = "b64" /\ l.user = "cred" /\ l.pass = "cred" /\ l.port = 443
  <2>1. l = Xray!Written(o, "socks", "b64", "cred", NoQuery)
    BY <1>2 DEF Xray!SocksGetLink, Xray!NoQuery, NoQuery, Xray!NoPath, NoPath
  <2>2. "socks" \in Text /\ "b64" \in Text /\ "cred" \in Text /\ "socks" # "vmess"
    BY TextAssumption
  <2> QED  BY <1>2, <2>1, <2>2, NoQueryType, WrittenType
<1>4. PICK m : m = SocksLink(l)
  OBVIOUS
<1>5. ~l.padded
  <2>1. ~o.padded
    BY <1>1, FlagPort
  <2>2. l = Xray!Written(o, "socks", "b64", "cred", NoQuery)
    BY <1>2 DEF Xray!SocksGetLink, Xray!NoQuery, NoQuery, Xray!NoPath, NoPath
  <2> QED  BY <2>1, <2>2 DEF Xray!Written
<1>6. ~m.padded
  BY <1>3, <1>4, <1>5 DEF SocksLink, Link
<1>7. m \in Record /\ m.user = "cred" /\ m.pass = "cred" /\ m.port = 443
  BY <1>3, <1>4, OtherTypes
<1>8. PICK x : x = Parsed(m, "socks", NoQuery)
  OBVIOUS
<1>9. /\ x \in Object /\ x.ok /\ x.proto = "socks" /\ x.id = "cred" /\ x.pass = "cred" /\ x.port = 443
      /\ x.q = NoQuery
  <2>1. "socks" \in Text /\ NoQuery \in Query
    BY TextAssumption, NoQueryType
  <2>2. Parsed(m, "socks", NoQuery) \in Object
    BY ZenonT(60), <1>7, <2>1, ParsedType
  <2> QED  BY <1>7, <1>8, <2>2 DEF Parsed
<1>10. ~x.padded
  BY <1>8, <1>6 DEF Parsed
<1>11. Parse("xray", l) = x
  <2>1. HasPort(l)
    BY <1>3 DEF HasPort
  <2>2. Xray!SocksParse(l) = x
    BY <1>3, <1>4, <1>8, <2>1, OthersByOptions
  <2> QED  BY <1>3, <2>2 DEF Parse, selectCoreForLink, XrayParse
<1>12. PICK s : s = [NoStream EXCEPT !.network = "tcp"]
  OBVIOUS
<1>13. PICK u, w : u = Xray!SocksUser(x) /\ w = Xray!SocksUser(o)
  OBVIOUS
<1>14. u.id = w.id /\ u.pass = w.pass
  BY <1>2, <1>9, <1>13, SocksUserType
<1>15. PICK g, e : g = NoQuery.flow /\ e = NoQuery.encryption
  OBVIOUS
<1>16. Client("xray", l) = Endpoint(u, 443, s, NoTLS, g, e)
  <2>1. Xray!SocksOutbound(x) = Xray!Endpoint(u, 443, s, NoTLS, g, e)
    BY <1>9, <1>12, <1>13, <1>15, <1>10, PlainStreams DEF Xray!SocksOutbound, Xray!Port16
  <2>2. Outbound("xray", x) = Xray!SocksOutbound(x)
    BY <1>9 DEF Outbound, XrayOutbound
  <2> QED  BY <1>9, <1>11, <2>1, <2>2, EndpointSame DEF Client
<1>17. Inbound("xray", o) = Endpoint(w, 443, s, NoTLS, g, e)
  <2>1. Xray!SocksInbound(o) = Endpoint(w, 443, s, NoTLS, g, e)
    BY <1>2, <1>12, <1>13, <1>15, OtherInbounds
  <2> QED  BY <1>2, <2>1 DEF Inbound, XrayInbound
<1>18. Matches("xray", Endpoint(u, 443, s, NoTLS, g, e), Endpoint(w, 443, s, NoTLS, g, e), o)
  BY <1>14, SameTransportSelf, MatchesBy
<1>19. Endpoint(u, 443, s, NoTLS, g, e).ok
  BY DEF Endpoint
<1> QED  BY <1>3, <1>16, <1>17, <1>18, <1>19

\* A listener: the link l of it that was printed or given, its object o and the
\* inbounds b built from it so far. Each is the first one less a slash for every
\* build since, so is the object's next inbound, and the first one is what a
\* client of l talks to.
Listener(c, l, o, b) ==
    /\ c \in ProxyCores /\ o \in Object /\ o.proto \in InProtocols
    /\ b \in Seq(Endpoints \cup {Fail})
    /\ (l # NoLink /\ l.scheme # "http") =>
         /\ l \notin LinkSet => Client(c, l).ok
         /\ Client(c, l) \in Endpoints \cup {Fail}
         /\ \E first \in Endpoints \cup {Fail} :
              /\ Matches(c, Client(c, l), first, o)
              /\ \A i \in 1..Len(b) : b[i] = Rebuilt(first, i - 1)
              /\ Inbound(c, o) = Rebuilt(first, Len(b))

ListenInv == Idle /\ (task = "listen" => Listener(core, link, obj, builds))

\* A listener before its first build.
LEMMA ListenerStart ==
    ASSUME NEW c, NEW l, NEW o, c \in ProxyCores, o \in Object, o.proto \in InProtocols,
           (l # NoLink /\ l.scheme # "http") =>
              /\ l \in Link /\ (l \notin LinkSet => Client(c, l).ok)
              /\ Matches(c, Client(c, l), Inbound(c, o), o)
    PROVE  Listener(c, l, o, <<>>)
<1>1. <<>> \in Seq(Endpoints \cup {Fail}) /\ Len(<<>>) = 0
  OBVIOUS
<1>2. PICK e : e = Inbound(c, o)
  OBVIOUS
<1>3. e \in Endpoints \cup {Fail}
  BY <1>2, InboundRegular DEF RegularIn
<1>4. Rebuilt(e, 0) = e
  BY <1>3, RebuiltNext
<1>5. l \in Link => Client(c, l) \in Endpoints \cup {Fail}
  <2> SUFFICES ASSUME l \in Link
               PROVE  Client(c, l) \in Endpoints \cup {Fail}
    OBVIOUS
  <2>1. PICK x : x = Parse(c, l)
    OBVIOUS
  <2>2. c \in Cores
    BY DEF Cores, ProxyCores
  <2>3. Good(x, l)
    BY <2>1, <2>2, ParseType
  <2>4. CASE x = Fail
    BY <2>1, <2>4 DEF Client, Fail
  <2>5. CASE x \in Object /\ x.ok /\ x.proto \in Protocols
    <3>1. Outbound(c, x) \in Endpoints \cup {Fail}
      BY <2>5, OutboundRegular DEF Regular
    <3> QED  BY <2>1, <2>5, <3>1 DEF Client
  <2> QED  BY <2>3, <2>4, <2>5 DEF Good, ParsedAs
<1>6. (l # NoLink /\ l.scheme # "http") =>
        /\ l \notin LinkSet => Client(c, l).ok
        /\ Client(c, l) \in Endpoints \cup {Fail}
        /\ e \in Endpoints \cup {Fail}
        /\ Matches(c, Client(c, l), e, o)
        /\ \A i \in 1..Len(<<>>) : <<>>[i] = Rebuilt(e, i - 1)
        /\ Inbound(c, o) = Rebuilt(e, Len(<<>>))
  BY <1>1, <1>2, <1>3, <1>4, <1>5
<1> QED  BY <1>1, <1>6 DEF Listener

\* From flags.
LEMMA ListenInvFlags ==
    ASSUME ListenInv, NEW c \in ProxyCores, NEW f \in Flags, Listen(c, f)
    PROVE  ListenInv'
<1>1. f \in Flag
  BY LinksAssumption
<1>2. PICK o, l : o = createXrayInbound(f) /\ l = GetLink(c, o)
  OBVIOUS
<1>3. o \in Object /\ o.proto = f.proto /\ o.proto \in InProtocols
  <2>1. PICK q \in Query : o = FlagObject(f, q)
    BY <1>1, <1>2, FlagOptions
  <2>2. f \in Flag /\ q \in Query /\ o = FlagObject(f, q)
    BY <1>1, <2>1
  <2> QED  BY <2>2, FlagObjectType
<1>4. (l # NoLink /\ l.scheme # "http") =>
        l \in Link /\ Client(c, l).ok /\ Matches(c, Client(c, l), Inbound(c, o), o)
  <2>1. CASE f.proto = "http"
    <3>1. l = Xray!HttpGetLink(o)
      BY <1>2, <1>3, <2>1 DEF GetLink
    <3>2. l.scheme = "http"
      BY <3>1 DEF Xray!HttpGetLink, Xray!Written
    <3> QED  BY <3>2
  <2>2. CASE c = "xray" /\ f.proto = "vless"
    <3>1. l = Xray!VlessGetLink(o)
      BY <1>2, <1>3, <2>2 DEF GetLink
    <3> QED  BY <1>1, <1>2, <2>2, <3>1, VlessFlagMatches
  <2>3. CASE c = "xray" /\ f.proto = "socks"
    <3>1. l = Xray!SocksGetLink(o)
      BY <1>2, <1>3, <2>3 DEF GetLink
    <3> QED  BY <1>1, <1>2, <2>3, <3>1, SocksFlagMatches
  <2>4. CASE f.proto # "http" /\ ~(c = "xray" /\ f.proto \in {"vless", "socks"})
    <3>1. l = NoLink
      BY <1>2, <1>3, <2>4 DEF GetLink
    <3> QED  BY <3>1
  <2> QED  BY <2>1, <2>2, <2>3, <2>4
<1>5. Listener(c, l, o, <<>>)
  BY <1>3, <1>4, ListenerStart
<1>6. task' = "listen" /\ core' = c /\ link' = l /\ obj' = o /\ builds' = <<>>
  BY <1>2 DEF ListenInv, Idle, Listen
<1> QED  BY <1>5, <1>6 DEF ListenInv, Idle

\* From a link.
LEMMA ListenInvLink ==
    ASSUME ListenInv, NEW c \in ProxyCores, NEW l \in LinkSet, ListenLink(c, l)
    PROVE  ListenInv'
<1>1. l \in Link /\ c \in Cores
  BY LinksAssumption DEF Cores, ProxyCores
<1>2. PICK o : o = Parse(c, l)
  OBVIOUS
<1>3. /\ task' = "listen" /\ core' = c /\ link' = l /\ obj' = o /\ builds' = <<>> /\ o.ok
  BY <1>2 DEF ListenInv, Idle, ListenLink
<1>4. o \in Object /\ o.proto \in Protocols /\ o.certs = FALSE
  <2>1. Good(o, l)
    BY <1>1, <1>2, ParseType
  <2>2. o # Fail
    BY <1>3 DEF Fail
  <2> QED  BY <2>1, <2>2 DEF Good, ParsedAs
<1>5. Client(c, l) = Outbound(c, o)
  BY <1>2, <1>3 DEF Client
<1>6. Matches(c, Outbound(c, o), Inbound(c, o), o)
  BY <1>4, XrayMatches, BoxMatches DEF ProxyCores
<1>7. Listener(c, l, o, <<>>)
  <2>1. o.proto \in InProtocols
    BY <1>4 DEF InProtocols
  <2>2. Matches(c, Client(c, l), Inbound(c, o), o)
    BY <1>5, <1>6
  <2> QED  BY <1>1, <1>4, <2>1, <2>2, ListenerStart
<1> QED  BY <1>3, <1>7 DEF ListenInv, Idle

\* One more inbound.
LEMMA ListenerBuild ==
    ASSUME NEW c, NEW l, NEW o, NEW b, NEW d, Listener(c, l, o, b), d = Append(b, Inbound(c, o))
    PROVE  Listener(c, l, AfterInbound(o), d)
<1>1. PICK e, w, n : e = Inbound(c, o) /\ w = AfterInbound(o) /\ n = Len(b)
  OBVIOUS
<1>2. c \in ProxyCores /\ o \in Object /\ o.proto \in InProtocols /\ b \in Seq(Endpoints \cup {Fail})
  BY DEF Listener
<1>3. /\ e \in Endpoints \cup {Fail} /\ w \in Object /\ w.proto = o.proto /\ w.certs = o.certs
      /\ w.q.security = o.q.security /\ Inbound(c, w) = Cut(e)
  BY <1>1, <1>2, InboundRegular DEF RegularIn
<1>4. /\ n \in Nat /\ d = Append(b, e) /\ Len(d) = n + 1 /\ d \in Seq(Endpoints \cup {Fail})
      /\ d[n + 1] = e /\ \A i \in 1..n : d[i] = b[i]
  BY <1>1, <1>2, <1>3
<1>5. ASSUME l # NoLink, l.scheme # "http"
      PROVE  /\ l \notin LinkSet => Client(c, l).ok
             /\ Client(c, l) \in Endpoints \cup {Fail}
             /\ \E first \in Endpoints \cup {Fail} :
                  /\ Matches(c, Client(c, l), first, w)
                  /\ \A i \in 1..Len(d) : d[i] = Rebuilt(first, i - 1)
                  /\ Inbound(c, w) = Rebuilt(first, Len(d))
  <2>1. /\ l \notin LinkSet => Client(c, l).ok
        /\ Client(c, l) \in Endpoints \cup {Fail}
        /\ \E first \in Endpoints \cup {Fail} :
              /\ Matches(c, Client(c, l), first, o)
              /\ \A i \in 1..Len(b) : b[i] = Rebuilt(first, i - 1)
              /\ Inbound(c, o) = Rebuilt(first, Len(b))
    BY <1>5 DEF Listener
  <2>2. PICK first \in Endpoints \cup {Fail} :
              /\ Matches(c, Client(c, l), first, o)
              /\ \A i \in 1..n : b[i] = Rebuilt(first, i - 1)
              /\ e = Rebuilt(first, n)
    BY <1>1, <2>1
  <2>3. Matches(c, Client(c, l), first, w)
    BY <1>3, <2>2 DEF Matches
  <2>4. \A i \in 1..(n + 1) : d[i] = Rebuilt(first, i - 1)
    <3>1. \A i \in 1..n : d[i] = Rebuilt(first, i - 1)
      BY <1>4, <2>2
    <3> QED  BY <1>4, <2>2, <3>1
  <2>5. Inbound(c, w) = Rebuilt(first, n + 1)
    <3>1. Cut(Rebuilt(first, n)) = Rebuilt(first, n + 1)
      BY <1>4, RebuiltNext
    <3>2. Inbound(c, w) = Cut(e) /\ e = Rebuilt(first, n)
      BY <1>3, <2>2
    <3> QED  BY <3>1, <3>2
  <2> QED  BY <1>4, <2>1, <2>3, <2>4, <2>5
<1> QED  BY <1>1, <1>2, <1>3, <1>4, <1>5 DEF Listener

\* What a client and a listener that is rebuilt have in common.
LEMMA ListenerReached ==
    ASSUME ListenInv, task = "listen", link # NoLink, link.scheme # "http",
           NEW client, client = Client(core, link), NEW i \in DOMAIN builds, client.ok, builds[i].ok
    PROVE  /\ client.port = builds[i].port
           /\ builds[i].id # "empty" => <<client.id, client.pass>> = <<builds[i].id, builds[i].pass>>
           /\ Transport([client.stream EXCEPT !.service = Lost(@, i - 1)]) = Transport(builds[i].stream)
           /\ obj.certs => client.tls.on = builds[i].tls.on
           /\ ~obj.certs => builds[i].tls = NoTLS
<1>1. /\ builds \in Seq(Endpoints \cup {Fail}) /\ client \in Endpoints \cup {Fail}
      /\ \E first \in Endpoints \cup {Fail} :
           /\ Matches(core, client, first, obj)
           /\ \A j \in 1..Len(builds) : builds[j] = Rebuilt(first, j - 1)
  BY DEF ListenInv, Listener
<1>2. PICK first \in Endpoints \cup {Fail} :
        Matches(core, client, first, obj) /\ \A j \in 1..Len(builds) : builds[j] = Rebuilt(first, j - 1)
  BY <1>1
<1>3. i \in 1..Len(builds) /\ i - 1 \in Nat
  BY <1>1
<1>4. PICK x, n : x = builds[i] /\ n = i - 1
  OBVIOUS
<1>5. x = Rebuilt(first, n) /\ n \in Nat /\ x.ok
  BY <1>2, <1>3, <1>4
<1>6. first \in Endpoints /\ first.ok /\ client \in Endpoints
  <2>1. first.ok
    BY <1>5 DEF Rebuilt, Fail
  <2>2. first # Fail /\ client # Fail
    BY <2>1 DEF Fail
  <2>3. first \in Endpoints \cup {Fail} /\ client \in Endpoints \cup {Fail}
    BY <1>1, <1>2
  <2> QED  BY <2>1, <2>2, <2>3
<1>7. first.stream \in Streams /\ client.stream \in Streams /\ first.stream.service \in Path
  BY <1>6 DEF Endpoints, Streams
<1>8. PICK p : p = Lost(first.stream.service, n)
  OBVIOUS
<1>9. p \in Path
  BY <1>5, <1>7, <1>8, LostNext
<1>10. x = [first EXCEPT !.stream.service = p]
  BY <1>5, <1>6, <1>8 DEF Rebuilt
<1>11. /\ x.stream = [first.stream EXCEPT !.service = p]
       /\ x.port = first.port /\ x.id = first.id /\ x.pass = first.pass /\ x.tls = first.tls
  BY <1>6, <1>9, <1>10, RebuiltFields
<1>12. /\ client.port = first.port
       /\ first.id # "empty" => (client.id = first.id /\ client.pass = first.pass)
       /\ SameTransport(core, client.stream, first.stream)
       /\ obj.certs => client.tls.on = first.tls.on
       /\ ~obj.certs => first.tls = NoTLS
  BY <1>2, <1>6 DEF Matches
<1>13. client.stream.service = first.stream.service
  BY <1>12 DEF SameTransport
<1>14. [client.stream EXCEPT !.service = Lost(@, n)] = [client.stream EXCEPT !.service = p]
  BY <1>7, <1>8, <1>13 DEF Streams
<1>15. Transport([client.stream EXCEPT !.service = p]) = Transport([first.stream EXCEPT !.service = p])
  BY <1>7, <1>9, <1>12, TransportSame
<1>16. Transport([client.stream EXCEPT !.service = Lost(@, n)]) = Transport(x.stream)
  BY <1>11, <1>14, <1>15
<1>17. x.id # "empty" => <<client.id, client.pass>> = <<x.id, x.pass>>
  BY <1>11, <1>12
<1>18. (obj.certs => client.tls.on = x.tls.on) /\ (~obj.certs => x.tls = NoTLS)
  BY <1>11, <1>12
<1>19. client.port = x.port
  BY <1>11, <1>12
<1> QED  BY <1>4, <1>16, <1>17, <1>18, <1>19

\* A client that reads the link of a listener finds every inbound that is built
\* for it with its credentials and transport, with the link's use of TLS when there
\* are certificate files, and plain when there are none (createInbound, GetLink and
\* the inbound builders of both cores).
THEOREM ListenersReached == Spec => []ListenerLink
<1>1. Init => ListenInv
  BY DEF Init, ListenInv, Idle
<1>2. ListenInv /\ [Next]_vars => ListenInv'
  <2> SUFFICES ASSUME ListenInv, [Next]_vars
               PROVE  ListenInv'
    OBVIOUS
  <2>1. CASE UNCHANGED vars
    BY <2>1 DEF vars, ListenInv, Idle
  <2>2. CASE \E c \in Cores, l \in LinkSet : Create(c, l)
    BY <2>2 DEF Create, ListenInv, Idle
  <2>3. CASE Build
    BY <2>3 DEF Build, ListenInv, Idle
  <2>4. CASE \E c \in Cores, n \in 1..DedupLen : \E list \in [1..n -> DedupLinks] : Deduplicate(c, list)
    BY <2>4 DEF Deduplicate, ListenInv, Idle
  <2>5. CASE DedupNext
    BY <2>5 DEF DedupNext, ListenInv, Idle
  <2>6. CASE \E c \in ProxyCores, f \in Flags : Listen(c, f)
    BY <2>6, ListenInvFlags
  <2>7. CASE \E c \in ProxyCores, l \in LinkSet : ListenLink(c, l)
    BY <2>7, ListenInvLink
  <2>8. CASE BuildInbound
    <3>1. /\ task = "listen" /\ task' = "listen" /\ core' = core /\ link' = link
          /\ builds' = Append(builds, Inbound(core, obj)) /\ obj' = AfterInbound(obj)
      BY <2>8 DEF BuildInbound, Inbound
    <3>2. PICK d : d = Append(builds, Inbound(core, obj))
      OBVIOUS
    <3>3. Listener(core, link, obj, builds)
      BY <3>1 DEF ListenInv
    <3>4. Listener(core, link, AfterInbound(obj), d)
      BY <3>2, <3>3, ListenerBuild
    <3> QED  BY <3>1, <3>2, <3>4 DEF ListenInv, Idle
  <2>9. CASE \E c \in ProxyCores, n \in 2..3 : \E hops \in [1..n -> ChainLinks] : MakeChainedInstance(c, hops)
    BY <2>9 DEF MakeChainedInstance, ListenInv, Idle
  <2>10. CASE Done
    BY <2>10 DEF Done, vars, ListenInv, Idle
  <2> QED  BY <2>1, <2>2, <2>3, <2>4, <2>5, <2>6, <2>7, <2>8, <2>9, <2>10 DEF Next
<1>3. ListenInv => ListenerLink
  <2> SUFFICES ASSUME ListenInv, task = "listen", link # NoLink, link.scheme # "http"
               PROVE  ListenerLink
    BY DEF ListenerLink
  <2>1. PICK client : client = Client(core, link)
    OBVIOUS
  <2>2. link \notin LinkSet => client.ok
    BY <2>1 DEF ListenInv, Listener
  <2>3. \A i \in DOMAIN builds : (client.ok /\ builds[i].ok) =>
          /\ client.port = builds[i].port
          /\ builds[i].id # "empty" => <<client.id, client.pass>> = <<builds[i].id, builds[i].pass>>
          /\ Transport([client.stream EXCEPT !.service = Lost(@, i - 1)]) = Transport(builds[i].stream)
          /\ obj.certs => client.tls.on = builds[i].tls.on
          /\ ~obj.certs => builds[i].tls = NoTLS
    BY <2>1, ListenerReached
  <2>4. client = ListenerClient
    BY <2>1 DEF Client, ListenerClient
  <2> QED  BY <2>2, <2>3, <2>4 DEF ListenerLink
<1> QED  BY <1>1, <1>2, <1>3, PTL DEF Spec
=============================================================================
