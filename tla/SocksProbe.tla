----------------------------- MODULE SocksProbe -----------------------------
(***************************************************************************)
(* scripts/probe_socks5_udp.py: one run of the probe against a proxy that  *)
(* may answer anything, in chunks of any size, fall silent or hang up, and *)
(* a relay that may lose, delay or garble datagrams.  What the control     *)
(* connection carries is chosen when the last byte of it has arrived.      *)
(***************************************************************************)
EXTENDS Integers, FiniteSets

CONSTANTS
    Attempts,    \* ATTEMPTS
    Urls,        \* "good", "scheme" (not socks5) or "port" (no host or port)
    Users,       \* userinfo of the URL: "none", "short", or "long" (> 255)
    Garbage,     \* what may come back that is no answer of the target
    NameLength   \* bytes of a domain name in a message of the proxy

ASSUME ProbeAssumption ==
    /\ Attempts \in Nat \ {0} /\ NameLength \in 0..255
    /\ Urls \subseteq {"good", "scheme", "port"}
    /\ Users \subseteq {"none", "short", "long"}

AuthNone == 0
AuthUsernamePassword == 2
AuthUnacceptable == 255
Version == 5
IPv4 == 1
Domain == 3
IPv6 == 4

\* A datagram from the relay: its size, the bytes in the places of an address
\* type and of a name's length, the offsets of the bytes with QUIC's long
\* header bit and of four zero bytes in a row, and the attempt that the target
\* answers with it, 0 where it is nothing of the target's.
Datagram == [size : Nat, type : 0..255, name : 0..255, long : SUBSET Nat,
             zeros : SUBSET Nat, id : Nat]

\* Any datagram may come back, a Version Negotiation packet made up by the
\* relay too.
ASSUME GarbageAssumption == \A d \in Garbage : d \in Datagram /\ d.id = 0

\* Where what is wrapped begins: behind 4 bytes, the address and its port, as
\* encapsulate writes them and RFC 1928 has them for a name.
Wrapped(type, name) ==
    4 + (CASE type = IPv4 -> 4 [] type = IPv6 -> 16 [] type = Domain -> 1 + name)
      + 2

\* What the relay makes of the target's answer to a probe: a Version
\* Negotiation packet of 31 bytes behind an address of any type.
AnswersTo(n) ==
    {[size |-> Wrapped(type, NameLength) + 31, type |-> type,
      name |-> NameLength, long |-> {Wrapped(type, NameLength)},
      zeros |-> {Wrapped(type, NameLength) + 1}, id |-> n] :
        type \in {IPv4, IPv6, Domain}}

\* answer = b""
NoAnswer == [size |-> 0, type |-> 0, name |-> 0, long |-> {}, zeros |-> {},
             id |-> 0]

VARIABLES
    pc,          \* where the probe stands
    url, user,   \* its argument
    need,        \* bytes receive_exactly still waits for
    control,     \* whether the proxy keeps the control connection open
    method,      \* the method the proxy chose, -1 before
    accepted,    \* the proxy has accepted the credentials
    relay,       \* address type of the relay granted, 0 before
    honours,     \* whether the relay forwards what it is sent
    attempt,     \* datagrams sent
    outbound,    \* attempts whose probe is on its way
    inbound,     \* answers on their way: [to, datagram]
    reached,     \* attempts the target has answered
    trouble,     \* attempts whose probe or answer was lost or late
    answer,      \* the datagram received
    exit,        \* exit code, -1 before
    reason       \* what is reported

conversation == <<control, method, accepted, relay, need>>
network == <<outbound, inbound, reached, trouble>>
argument == <<url, user, honours>>
vars == <<pc, argument, conversation, attempt, network, answer, exit, reason>>

Init ==
    /\ pc = "start" /\ url \in Urls /\ user \in Users /\ honours \in BOOLEAN
    /\ need = 0 /\ control = "closed" /\ method = -1 /\ accepted = FALSE
    /\ relay = 0 /\ attempt = 0 /\ outbound = {} /\ inbound = {}
    /\ reached = {} /\ trouble = {} /\ answer = NoAnswer
    /\ exit = -1 /\ reason = ""

Goto(where, bytes) == pc' = where /\ need' = bytes
Exit(code, why) ==
    /\ pc' = "over" /\ exit' = code /\ reason' = why
    /\ control' = "closed"
NoExit == UNCHANGED <<exit, reason>>

\* ProbeFailed and OSError are caught by probe(); anything else ends the
\* interpreter with status 1 too.
ProbeFailed(why) == Exit(1, why)
OSErrorRaised == Exit(1, "could not reach the proxy")
Uncaught == Exit(1, "traceback")

-----------------------------------------------------------------------------
(* The control connection.                                                 *)

Start ==
    /\ pc = "start"
    /\ \/ /\ url # "good"
          /\ Exit(2, url) /\ UNCHANGED need
       \/ /\ url = "good"
          /\ OSErrorRaised /\ UNCHANGED need
       \/ /\ url = "good"
          /\ Goto("greet", 2) /\ control' = "open" /\ NoExit
    /\ UNCHANGED <<argument, method, accepted, relay, attempt, network, answer>>

\* The proxy hangs up; its association, if any, goes with the connection.
ProxyCloses ==
    /\ control = "open"
    /\ control' = "closed"
    /\ UNCHANGED <<pc, argument, method, accepted, relay, need, attempt,
                   network, answer, exit, reason>>

Reading == {"greet", "authenticate", "associate", "address", "length", "port"}

\* receive_exactly: a chunk of any size.
ReceiveChunk ==
    /\ pc \in Reading /\ control = "open"
    /\ \E n \in 1..need : need' = need - n
    /\ UNCHANGED <<pc, argument, control, method, accepted, relay, attempt,
                   network, answer, exit, reason>>

\* Slip: an empty chunk is taken for one that has yet to come.
ReceiveNothing ==
    /\ pc \in Reading /\ need > 0 /\ control = "closed"
    /\ UNCHANGED vars

\* receive_exactly: an empty chunk, the proxy having closed.
ReceiveEnd ==
    /\ pc \in Reading /\ need > 0 /\ control = "closed"
    /\ ProbeFailed("the proxy closed the connection")
    /\ UNCHANGED <<argument, method, accepted, relay, need, attempt, network,
                   answer>>

\* recv runs into the socket's timeout, or the connection is reset.
ReceiveTimeout ==
    /\ pc \in Reading /\ need > 0 /\ control = "open"
    /\ OSErrorRaised
    /\ UNCHANGED <<argument, method, accepted, relay, need, attempt, network,
                   answer>>

\* Sending the credentials; bytes([len(name)]) raises ValueError past 255.
SendCredentials ==
    IF user = "long" THEN Uncaught /\ UNCHANGED need
    ELSE Goto("authenticate", 2) /\ NoExit /\ UNCHANGED control

\* The rest of greet, and probe() as far as the next message.
Greet ==
    /\ pc = "greet" /\ need = 0
    /\ \E version \in {Version, 4},
          chosen \in {AuthNone, 1, AuthUsernamePassword, AuthUnacceptable} :
         /\ method' = chosen
         /\ CASE version # Version -> ProbeFailed("expected SOCKS5") /\ UNCHANGED need
              [] version = Version /\ chosen = AuthUnacceptable ->
                   ProbeFailed("no method") /\ UNCHANGED need
              [] version = Version /\ chosen = AuthUsernamePassword ->
                   IF user = "none"
                   THEN ProbeFailed("credentials demanded") /\ UNCHANGED need
                   ELSE SendCredentials
              [] OTHER -> Goto("associate", 4) /\ NoExit /\ UNCHANGED control
    /\ UNCHANGED <<argument, accepted, relay, attempt, network, answer>>

\* Slip: the status of the credentials is not looked at.
AuthenticateUnchecked ==
    /\ pc = "authenticate" /\ need = 0
    /\ accepted' \in BOOLEAN
    /\ Goto("associate", 4) /\ NoExit
    /\ UNCHANGED <<argument, control, method, relay, attempt, network, answer>>

Authenticate ==
    /\ pc = "authenticate" /\ need = 0
    /\ accepted' \in BOOLEAN
    /\ IF accepted' THEN Goto("associate", 4) /\ NoExit /\ UNCHANGED control
       ELSE ProbeFailed("credentials rejected") /\ UNCHANGED need
    /\ UNCHANGED <<argument, method, relay, attempt, network, answer>>

\* The head of the reply to UDP ASSOCIATE.
Associate ==
    /\ pc = "associate" /\ need = 0
    /\ \/ /\ ProbeFailed("refused UDP ASSOCIATE") /\ UNCHANGED <<relay, need>>
       \/ /\ \E type \in {IPv4, IPv6} :
               relay' = type /\ Goto("address", IF type = IPv4 THEN 4 ELSE 16)
          /\ NoExit /\ UNCHANGED control
       \/ /\ relay' = Domain /\ Goto("length", 1)
          /\ NoExit /\ UNCHANGED control
       \/ /\ ProbeFailed("unreadable address") /\ UNCHANGED <<relay, need>>
    /\ UNCHANGED <<argument, method, accepted, attempt, network, answer>>

\* The length of a relay's name; a name of no bytes is read at once.
Length ==
    /\ pc = "length" /\ need = 0
    /\ \E n \in {0, NameLength} : Goto("address", n)
    /\ UNCHANGED <<argument, control, method, accepted, relay, attempt,
                   network, answer, exit, reason>>

\* A name that is not UTF-8 makes decode() raise.
Address ==
    /\ pc = "address" /\ need = 0
    /\ \/ Goto("port", 2) /\ NoExit /\ UNCHANGED control
       \/ relay = Domain /\ Uncaught /\ UNCHANGED need
    /\ UNCHANGED <<argument, method, accepted, relay, attempt, network, answer>>

\* The port, and the target's name resolved or not.
Port ==
    /\ pc = "port" /\ need = 0
    /\ \/ pc' = "send" /\ NoExit /\ UNCHANGED control
       \/ OSErrorRaised
    /\ UNCHANGED <<argument, method, accepted, relay, need, attempt, network,
                   answer>>

-----------------------------------------------------------------------------
(* The relay.                                                              *)

\* A new probe from a new IPv4 socket.  sendto may raise, and always does for
\* a relay at an IPv6 address.
Send ==
    /\ pc = "send"
    /\ \/ /\ relay # IPv6
          /\ attempt' = attempt + 1
          /\ outbound' = outbound \cup {attempt + 1}
          /\ pc' = "await" /\ NoExit /\ UNCHANGED control
       \/ /\ OSErrorRaised /\ UNCHANGED <<attempt, outbound>>
    /\ UNCHANGED <<argument, method, accepted, relay, need, inbound, reached,
                   trouble, answer>>

\* The relay passes a probe on, the target answers it, and the answer goes
\* back to where the probe came from or to where the relay last heard from.
Forward ==
    /\ control = "open" /\ honours
    /\ \E n \in outbound :
         /\ outbound' = outbound \ {n}
         /\ reached' = reached \cup {n}
         /\ \E to \in {n, attempt}, d \in AnswersTo(n) :
              inbound' = inbound \cup {[to |-> to, datagram |-> d]}
    /\ UNCHANGED <<pc, argument, conversation, attempt, trouble, answer, exit,
                   reason>>

\* Something else comes back for the probe that is waited for.
Garble ==
    /\ pc = "await" /\ attempt \in outbound
    /\ \E d \in Garbage :
         inbound' = inbound \cup {[to |-> attempt, datagram |-> d]}
    /\ outbound' = outbound \ {attempt}
    /\ UNCHANGED <<pc, argument, conversation, attempt, reached, trouble, answer,
                   exit, reason>>

\* The probe or its answer is lost, or will be late.
LoseOrDelay ==
    /\ pc = "await" /\ attempt \notin trouble
    /\ trouble' = trouble \cup {attempt}
    /\ \/ /\ outbound' = outbound \ {attempt}
          /\ inbound' = {a \in inbound : a.to # attempt}
       \/ UNCHANGED <<outbound, inbound>>
    /\ UNCHANGED <<pc, argument, conversation, attempt, reached, answer, exit,
                   reason>>

\* recvfrom: only what was sent to this attempt's own socket.
Receive ==
    /\ pc = "await"
    /\ \E a \in inbound :
         /\ a.to = attempt
         /\ answer' = a.datagram
         /\ inbound' = inbound \ {a}
    /\ pc' = "check"
    /\ UNCHANGED <<argument, conversation, attempt, outbound, reached, trouble,
                   exit, reason>>

\* Slip: the last attempt is never made.
NextToLast(n) == n >= Attempts - 1
LastAttempt(n) == n = Attempts

\* The wait is over, for a reason: a relay that forwards is in time unless
\* the network is at fault.
AwaitTimeout ==
    /\ pc = "await"
    /\ attempt \in trouble \/ ~honours \/ control = "closed"
    /\ IF LastAttempt(attempt) THEN ProbeFailed("no answer")
       ELSE pc' = "send" /\ NoExit /\ UNCHANGED control
    /\ UNCHANGED <<argument, method, accepted, relay, need, attempt, network,
                   answer>>

\* Slip: the port behind a name is forgotten.
HeaderSizeNoPort(d) == CASE d.type = IPv4 -> 10
                         [] d.type = IPv6 -> 22
                         [] d.type = Domain -> 5 + d.name

\* strip_header: where the payload begins, and what is left of it.
HeaderSize(d) == CASE d.type = IPv4 -> 10
                   [] d.type = IPv6 -> 22
                   [] d.type = Domain -> 5 + d.name + 2
PayloadSize(d) == d.size - HeaderSize(d)

Stripped(d) == d.size >= 10 /\ d.type \in {IPv4, IPv6, Domain}

\* The answer is long enough, has QUIC's long header bit and version 0.  Its
\* id is not compared with the probe's.
IsVersionNegotiation(d) ==
    /\ Stripped(d) /\ PayloadSize(d) >= 5
    /\ HeaderSize(d) \in d.long /\ HeaderSize(d) + 1 \in d.zeros

Check ==
    /\ pc = "check"
    /\ IF IsVersionNegotiation(answer) THEN Exit(0, "relays UDP")
       ELSE ProbeFailed("not a QUIC answer")
    /\ UNCHANGED <<argument, method, accepted, relay, need, attempt, network,
                   answer>>

Over == pc = "over" /\ UNCHANGED vars

Probe ==
    \/ Start \/ ReceiveChunk \/ ReceiveEnd \/ ReceiveTimeout \/ Greet
    \/ Authenticate \/ Associate \/ Length \/ Address \/ Port \/ Send
    \/ Receive \/ AwaitTimeout \/ Check

Next ==
    \/ Probe \/ ProxyCloses \/ Forward \/ Garble \/ LoseOrDelay \/ Over

\* The probe runs on: every socket it waits on has a timeout.  A relay that
\* forwards does so unless the probe is lost first.
Spec == Init /\ [][Next]_vars /\ WF_vars(Probe) /\ WF_vars(Forward)

-----------------------------------------------------------------------------
(* Properties.                                                             *)

\* An answer of the target that is received, to this probe or to an earlier
\* one, however the relay has wrapped it, makes the script say that the proxy
\* relays UDP, and of the probe it answers that is true.  A datagram too short for its own header, or with fewer
\* than the five bytes behind it, never does.  (Not every yes is such an
\* answer: quic_probe's "the id its answer must echo" is never compared, so a
\* Version Negotiation packet of anyone's is taken for one.)
VerdictFollowsTheAnswer ==
    /\ pc = "over" /\ answer.id # 0 =>
         exit = 0 /\ honours /\ answer.id \in reached
    /\ exit = 0 =>
         /\ relay # 0 /\ answer.type \in {IPv4, IPv6, Domain}
         /\ answer.size >= Wrapped(answer.type, answer.name) + 5
         /\ Wrapped(answer.type, answer.name) \in answer.long

\* A relay that forwards, on a connection the proxy kept open, is called
\* unresponsive only after all ATTEMPTS probes or their answers were lost or
\* late: no fewer will do, and a late answer to one probe costs no other.
LossTolerated ==
    [][(reason' = "no answer" /\ reason = "" /\ honours /\ control = "open")
          => trouble = 1..Attempts]_vars

\* UDP ASSOCIATE is asked for only once the proxy has let the probe in: after
\* a greeting that was answered and, where it demanded credentials, after
\* accepting them.
AssociateOnceLetIn ==
    pc \in {"associate", "address", "length", "port", "send", "await", "check"}
        => method # -1 /\ (method = AuthUsernamePassword => accepted)

\* The probe comes to a verdict whatever the proxy and the network do.
ProbeEnds == <>(pc = "over")
=============================================================================
