--------------------------- MODULE MCSessionSetup ---------------------------
(* SessionSetup for two threads.  The sessions differ in what can be refused *)
(* and in where their proxy's credentials belong; the requests in what can   *)
(* be refused, in their bodies and in how their headers meet the session's.  *)
EXTENDS SessionSetup

H(name, value) == [name |-> name, shown |-> name, value |-> value]
Lone(scheme) == [NoRule EXCEPT !.scheme = scheme]
Listed(scheme, others) == [Lone(scheme) EXCEPT !.others = others]
Mapped(scheme, others) == [Listed(scheme, others) EXCEPT !.mapped = TRUE]
NoTls == [version |-> "", alpn |-> {}, order |-> <<>>, permute |-> ""]

Plain ==
    [headers |-> <<H("accept", "s1"), H("x", "s2"), H("accept", "s3")>>,
     proxy |-> NoRule, user |-> "", require |-> FALSE, http3 |-> TRUE,
     cache |-> "off", storage |-> FALSE, tls |-> NoTls, experimental |-> <<>>,
     hints |-> <<>>, cookie |-> "", limit |-> 20]

MCSettings ==
    {Plain,
     [Plain EXCEPT !.proxy = Lone("http"), !.user = "u",
                   !.tls = [NoTls EXCEPT !.order = <<0, 16>>],
                   !.hints = <<[host |-> "h", bare |-> TRUE, port |-> 0]>>],
     [Plain EXCEPT !.proxy = Lone("socks5"), !.user = "u",
                   !.require = TRUE, !.cookie = "c", !.headers = <<>>],
     [Plain EXCEPT !.proxy = Listed("socks5", {"direct"}), !.user = "u"],
     [Plain EXCEPT !.proxy = Listed("http", {"socks5"}), !.user = "u"],
     [Plain EXCEPT !.proxy = Mapped("socks5", {"https"}), !.user = "u"],
     [Plain EXCEPT !.proxy = Mapped("socks5", {}), !.require = TRUE],
     [Plain EXCEPT !.proxy = [Lone("socks5") EXCEPT !.userinfo = "v"],
                   !.user = "u"],
     [Plain EXCEPT !.proxy = Lone("socks4"), !.user = "u"],
     [Plain EXCEPT !.proxy = Lone("direct"), !.user = "u"],
     [Plain EXCEPT !.cache = "disk"],
     [Plain EXCEPT !.proxy = [Lone("http") EXCEPT !.parses = FALSE]],
     [Plain EXCEPT !.tls = [NoTls EXCEPT !.order = <<21>>]]}

Simple ==
    [unknown |-> FALSE, headers |-> <<>>, query |-> <<>>,
     url |-> [scheme |-> "https", host |-> TRUE, query |-> <<"a">>],
     given |-> {}, fields |-> <<"f">>,
     files |-> <<[field |-> "file", filename |-> "note.txt", type |-> ""]>>,
     auth |-> {}, priority |-> "", maxRedirects |-> -1]

MCRequests ==
    {[Simple EXCEPT !.headers = h] :
        h \in {<<H("accept", "r1")>>, <<H("x", "r1"), H("y", "r2"), H("x", "r3")>>,
               <<H("y", "r1"), H("accept", "r2"), H("accept", "r3")>>,
               <<H("host", "r1")>>, <<H("y", "non-latin")>>}}
    \cup {[Simple EXCEPT !.given = g, !.query = <<"b">>, !.auth = {"basic"},
                         !.headers = <<H("content-type", "r1")>>] :
            g \in {{"json"}, {"body", "files"}}}
    \cup {[Simple EXCEPT !.given = {"form", "files"}, !.auth = a, !.maxRedirects = 0] :
            a \in {{"bearer"}, {"basic", "bearer"}}}
    \cup {[Simple EXCEPT !.url.scheme = "ftp"], [Simple EXCEPT !.unknown = TRUE],
          [Simple EXCEPT !.priority = "urgent"]}
=============================================================================
