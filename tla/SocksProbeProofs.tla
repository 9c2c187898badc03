-------------------------- MODULE SocksProbeProofs --------------------------
(***************************************************************************)
(* Proofs about SocksProbe for any number of attempts, any length of a     *)
(* relay's name and any datagrams that come back.                          *)
(***************************************************************************)
EXTENDS SocksProbe, TLAPS

-----------------------------------------------------------------------------
(* The inductive invariant.                                                *)

\* Before the relay is granted, while its address is read, and after.
Asking == {"start", "greet", "authenticate", "associate"}
Granted == {"address", "length", "port"}
Probing == {"send", "await", "check"}

Shape ==
    /\ pc \in Asking \cup Granted \cup Probing \cup {"over"}
    /\ url \in Urls /\ honours \in BOOLEAN /\ accepted \in BOOLEAN
    /\ attempt \in 0..Attempts
    /\ exit \in {-1, 0, 1, 2} /\ (pc # "over" => exit = -1)
    /\ control \in {"open", "closed"} /\ (pc = "over" => control = "closed")

\* A relay has been granted before its address is read.
RelayInv == pc \in Granted \cup Probing => relay # 0

\* Credentials are sent only when the proxy has asked for them.
LetInInv ==
    /\ pc = "authenticate" => method = AuthUsernamePassword
    /\ AssociateOnceLetIn

\* What is on its way back, or has come back: an answer of the target is to a
\* probe that got there, and will be taken for one.
Genuine(d) ==
    /\ d \in Datagram
    /\ d.id # 0 => d.id \in reached /\ honours /\ IsVersionNegotiation(d)

AnswerInv ==
    /\ \A a \in inbound : Genuine(a.datagram)
    /\ Genuine(answer)
    /\ answer.id # 0 => pc \in {"check", "over"}

\* The probes on their way are numbered.
SentInv == outbound \subseteq Nat

\* With a relay that forwards over an open connection, every attempt that has
\* been given up had the network against it.
LossInv ==
    /\ pc \in Asking \cup Granted => attempt = 0
    /\ pc = "send" => attempt < Attempts
    /\ pc \in {"await", "check"} => attempt >= 1
    /\ trouble \subseteq 1..attempt
    /\ honours /\ control = "open" =>
         /\ pc = "send" => 1..attempt \subseteq trouble
         /\ pc = "await" => 1..(attempt - 1) \subseteq trouble

IInv == Shape /\ RelayInv /\ LetInInv /\ SentInv /\ AnswerInv
            /\ LossInv
            /\ VerdictFollowsTheAnswer

-----------------------------------------------------------------------------
(* Every step preserves the invariant.                                     *)

\* Counting the attempts: what is below n and n itself make up 1..n.
LEMMA Upto ==
  ASSUME NEW n \in Nat \ {0}, NEW S, 1..(n - 1) \subseteq S, n \in S
  PROVE  1..n \subseteq S
<1> SUFFICES ASSUME NEW i \in 1..n PROVE i \in S
  OBVIOUS
<1>1. i = n \/ i \in 1..(n - 1)
  OBVIOUS
<1> QED
  BY <1>1

\* A counter below its bound has room for one more.
LEMMA Room ==
  ASSUME NEW n \in Nat \ {0}, NEW k \in 0..n, k < n
  PROVE  /\ k + 1 \in 0..n /\ k + 1 >= 1 /\ (k + 1) - 1 = k
         /\ 1..k \subseteq 1..(k + 1)
OBVIOUS

USE DEF conversation, network, argument, Asking, Granted, Probing, Reading,
        AuthNone, AuthUsernamePassword, AuthUnacceptable, Version, IPv4,
        Domain, IPv6
USE DEF Goto, Exit, NoExit, ProbeFailed, OSErrorRaised, Uncaught

\* Before anything has been sent.
LEMMA InitInv == Init => IInv
<1> SUFFICES ASSUME Init PROVE IInv
  OBVIOUS
<1>1. accepted \in BOOLEAN
  BY Zenon DEF Init
<1>2. Shape
  <2>1. pc = "start" /\ control = "closed" /\ attempt = 0 /\ exit = -1
    BY DEF Init
  <2>2. url \in Urls /\ honours \in BOOLEAN
    BY Zenon DEF Init
  <2>3. attempt \in 0..Attempts
    BY <2>1, ProbeAssumption
  <2>4. exit \in {-1, 0, 1, 2}
    BY <2>1
  <2> QED
    BY <1>1, <2>1, <2>2, <2>3, <2>4, Zenon DEF Shape
<1>3. RelayInv /\ LetInInv /\ AnswerInv
  <2>1. NoAnswer \in Datagram /\ NoAnswer.id = 0
    BY DEF NoAnswer, Datagram
  <2> QED
    BY <2>1 DEF Init, RelayInv, LetInInv, AssociateOnceLetIn, AnswerInv,
                Genuine
<1>4. LossInv
  BY ProbeAssumption DEF Init, LossInv
<1>5. VerdictFollowsTheAnswer
  <2>1. exit = -1 /\ pc = "start"
    BY DEF Init
  <2>2. exit # 0 /\ pc # "over"
    BY <2>1
  <2> QED
    BY <2>2 DEF VerdictFollowsTheAnswer
<1>6. SentInv
  BY DEF Init, SentInv
<1> QED
  BY <1>2, <1>3, <1>4, <1>5, <1>6 DEF IInv

\* The probe stays where its code can be, and its counter within its bound.
LEMMA NextShape == IInv /\ [Next]_vars => Shape'
<1> SUFFICES ASSUME IInv, [Next]_vars PROVE Shape'
  OBVIOUS
<1> USE ProbeAssumption DEF IInv
<1>1. CASE Start
  BY <1>1 DEF Start, Shape, LossInv
<1>2. CASE ReceiveChunk
  BY <1>2 DEF ReceiveChunk, Shape, LossInv
<1>3. CASE ReceiveEnd
  BY <1>3 DEF ReceiveEnd, Shape, LossInv
<1>4. CASE ReceiveTimeout
  BY <1>4 DEF ReceiveTimeout, Shape, LossInv
<1>5. CASE Greet
  BY <1>5 DEF Greet, SendCredentials, Shape, LossInv
<1>6. CASE Authenticate
  BY <1>6 DEF Authenticate, Shape, LossInv
<1>7. CASE Associate
  BY <1>7 DEF Associate, Shape, LossInv
<1>8. CASE Length
  BY <1>8 DEF Length, Shape, LossInv
<1>9. CASE Address
  BY <1>9 DEF Address, Shape, LossInv
<1>10. CASE Port
  BY <1>10 DEF Port, Shape, LossInv
<1>11. CASE Send
  <2>1. attempt' \in 0..Attempts
    <3>1. attempt \in 0..Attempts
      BY DEF Shape
    <3>2. attempt < Attempts
      BY <1>11 DEF Send, LossInv
    <3>3. attempt + 1 \in 0..Attempts
      BY <3>1, <3>2, Room
    <3>4. attempt' = attempt \/ attempt' = attempt + 1
      BY <1>11 DEF Send
    <3> QED
      BY <3>1, <3>3, <3>4, Zenon
  <2>2. UNCHANGED <<url, honours, accepted>>
    BY <1>11 DEF Send
  <2>3. \/ pc' = "await" /\ exit' = exit /\ control' = control
        \/ pc' = "over" /\ exit' = 1 /\ control' = "closed"
    BY <1>11 DEF Send
  <2>4. exit = -1
    BY <1>11 DEF Send, Shape
  <2>5. exit' \in {-1, 0, 1, 2} /\ (pc' # "over" => exit' = -1)
    BY <2>3, <2>4
  <2>6. control' \in {"open", "closed"} /\ (pc' = "over" => control' = "closed")
    BY <2>3 DEF Shape
  <2>7. pc' \in Probing \cup {"over"}
    BY <2>3
  <2>8. url' \in Urls /\ honours' \in BOOLEAN /\ accepted' \in BOOLEAN
    BY <2>2, Zenon DEF Shape
  <2> QED
    BY <2>1, <2>5, <2>6, <2>7, <2>8, Zenon DEF Shape
<1>12. CASE Receive
  BY <1>12 DEF Receive, Shape, LossInv
<1>13. CASE AwaitTimeout
  BY <1>13 DEF AwaitTimeout, LastAttempt, Shape, LossInv
<1>14. CASE Check
  BY <1>14 DEF Check, Shape, LossInv
<1>15. CASE ProxyCloses
  BY <1>15 DEF ProxyCloses, Shape, LossInv
<1>16. CASE Forward
  BY <1>16 DEF Forward, Shape, LossInv
<1>17. CASE Garble
  BY <1>17 DEF Garble, Shape, LossInv
<1>18. CASE LoseOrDelay
  BY <1>18 DEF LoseOrDelay, Shape, LossInv
<1>19. CASE UNCHANGED vars
  BY <1>19 DEF vars, Shape, LossInv
<1> QED
  BY <1>1, <1>2, <1>3, <1>4, <1>5, <1>6, <1>7, <1>8, <1>9, <1>10, <1>11,
     <1>12, <1>13, <1>14, <1>15, <1>16, <1>17, <1>18, <1>19 DEF Next, Probe,
     Over

\* The relay is granted by the reply to UDP ASSOCIATE and never withdrawn.
LEMMA NextRelay == IInv /\ [Next]_vars => RelayInv'
<1> SUFFICES ASSUME IInv, [Next]_vars PROVE RelayInv'
  OBVIOUS
<1> USE ProbeAssumption DEF IInv
<1>1. CASE Start
  BY <1>1 DEF Start, Shape, RelayInv
<1>2. CASE ReceiveChunk
  BY <1>2 DEF ReceiveChunk, Shape, RelayInv
<1>3. CASE ReceiveEnd
  BY <1>3 DEF ReceiveEnd, Shape, RelayInv
<1>4. CASE ReceiveTimeout
  BY <1>4 DEF ReceiveTimeout, Shape, RelayInv
<1>5. CASE Greet
  BY <1>5 DEF Greet, SendCredentials, Shape, RelayInv
<1>6. CASE Authenticate
  BY <1>6 DEF Authenticate, Shape, RelayInv
<1>7. CASE Associate
  <2>1. \/ pc' = "over"
        \/ relay' = 1 \/ relay' = 4 \/ relay' = 3
    BY <1>7 DEF Associate
  <2> QED
    BY <2>1 DEF RelayInv
<1>8. CASE Length
  BY <1>8 DEF Length, Shape, RelayInv
<1>9. CASE Address
  BY <1>9 DEF Address, Shape, RelayInv
<1>10. CASE Port
  BY <1>10 DEF Port, Shape, RelayInv
<1>11. CASE Send
  BY <1>11 DEF Send, Shape, RelayInv
<1>12. CASE Receive
  BY <1>12 DEF Receive, Shape, RelayInv
<1>13. CASE AwaitTimeout
  BY <1>13 DEF AwaitTimeout, LastAttempt, Shape, RelayInv
<1>14. CASE Check
  BY <1>14 DEF Check, Shape, RelayInv
<1>15. CASE ProxyCloses
  BY <1>15 DEF ProxyCloses, Shape, RelayInv
<1>16. CASE Forward
  BY <1>16 DEF Forward, Shape, RelayInv
<1>17. CASE Garble
  BY <1>17 DEF Garble, Shape, RelayInv
<1>18. CASE LoseOrDelay
  BY <1>18 DEF LoseOrDelay, Shape, RelayInv
<1>19. CASE UNCHANGED vars
  BY <1>19 DEF vars, Shape, RelayInv
<1> QED
  BY <1>1, <1>2, <1>3, <1>4, <1>5, <1>6, <1>7, <1>8, <1>9, <1>10, <1>11,
     <1>12, <1>13, <1>14, <1>15, <1>16, <1>17, <1>18, <1>19 DEF Next, Probe,
     Over

\* The greeting and the subnegotiation come before UDP ASSOCIATE.
LEMMA NextLetIn == IInv /\ [Next]_vars => LetInInv'
<1> SUFFICES ASSUME IInv, [Next]_vars PROVE LetInInv'
  OBVIOUS
<1> USE ProbeAssumption DEF IInv
<1>1. CASE Start
  BY <1>1 DEF Start, Shape, LetInInv, AssociateOnceLetIn
<1>2. CASE ReceiveChunk
  BY <1>2 DEF ReceiveChunk, Shape, LetInInv, AssociateOnceLetIn
<1>3. CASE ReceiveEnd
  BY <1>3 DEF ReceiveEnd, Shape, LetInInv, AssociateOnceLetIn
<1>4. CASE ReceiveTimeout
  BY <1>4 DEF ReceiveTimeout, Shape, LetInInv, AssociateOnceLetIn
<1>5. CASE Greet
  <2>1. \/ pc' = "over"
        \/ pc' = "authenticate" /\ method' = 2
        \/ pc' = "associate" /\ method' \in {0, 1}
    BY <1>5 DEF Greet, SendCredentials
  <2> QED
    BY <2>1 DEF LetInInv, AssociateOnceLetIn
<1>6. CASE Authenticate
  <2>1. method' = 2
    BY <1>6 DEF Authenticate, LetInInv
  <2>2. pc' = "over" \/ (pc' = "associate" /\ accepted')
    <3>1. CASE accepted'
      BY <1>6, <3>1 DEF Authenticate
    <3>2. CASE ~accepted'
      BY <1>6, <3>2, Zenon DEF Authenticate
    <3> QED
      BY <3>1, <3>2
  <2>3. method' # -1
    BY <2>1
  <2> QED
    BY <2>1, <2>2, <2>3, Zenon DEF LetInInv, AssociateOnceLetIn
<1>7. CASE Associate
  BY <1>7 DEF Associate, Shape, LetInInv, AssociateOnceLetIn
<1>8. CASE Length
  BY <1>8 DEF Length, Shape, LetInInv, AssociateOnceLetIn
<1>9. CASE Address
  BY <1>9 DEF Address, Shape, LetInInv, AssociateOnceLetIn
<1>10. CASE Port
  BY <1>10 DEF Port, Shape, LetInInv, AssociateOnceLetIn
<1>11. CASE Send
  BY <1>11 DEF Send, Shape, LetInInv, AssociateOnceLetIn
<1>12. CASE Receive
  BY <1>12 DEF Receive, Shape, LetInInv, AssociateOnceLetIn
<1>13. CASE AwaitTimeout
  BY <1>13 DEF AwaitTimeout, LastAttempt, Shape, LetInInv, AssociateOnceLetIn
<1>14. CASE Check
  BY <1>14 DEF Check, Shape, LetInInv, AssociateOnceLetIn
<1>15. CASE ProxyCloses
  BY <1>15 DEF ProxyCloses, Shape, LetInInv, AssociateOnceLetIn
<1>16. CASE Forward
  BY <1>16 DEF Forward, Shape, LetInInv, AssociateOnceLetIn
<1>17. CASE Garble
  BY <1>17 DEF Garble, Shape, LetInInv, AssociateOnceLetIn
<1>18. CASE LoseOrDelay
  BY <1>18 DEF LoseOrDelay, Shape, LetInInv, AssociateOnceLetIn
<1>19. CASE UNCHANGED vars
  BY <1>19 DEF vars, Shape, LetInInv, AssociateOnceLetIn
<1> QED
  BY <1>1, <1>2, <1>3, <1>4, <1>5, <1>6, <1>7, <1>8, <1>9, <1>10, <1>11,
     <1>12, <1>13, <1>14, <1>15, <1>16, <1>17, <1>18, <1>19 DEF Next, Probe,
     Over

\* What is sent is the next attempt.
LEMMA NextSent == IInv /\ [Next]_vars => SentInv'
<1> SUFFICES ASSUME IInv, [Next]_vars PROVE SentInv'
  OBVIOUS
<1>1. \/ outbound' \subseteq outbound
      \/ outbound' = outbound \cup {attempt + 1}
  BY DEF Next, Probe, Over, vars, Start, ReceiveChunk, ReceiveEnd,
     ReceiveTimeout, Greet, Authenticate, Associate, Length, Address, Port,
     Send, Receive, AwaitTimeout, Check, ProxyCloses, Forward, Garble,
     LoseOrDelay
<1>2. attempt + 1 \in Nat
  BY ProbeAssumption DEF IInv, Shape
<1> QED
  BY <1>1, <1>2 DEF IInv, SentInv

\* strip_header finds the payload where a header of its address type ends.
LEMMA HeaderFacts ==
    ASSUME NEW d \in Datagram, d.type \in {IPv4, IPv6, Domain}
    PROVE  HeaderSize(d) = Wrapped(d.type, d.name) /\ HeaderSize(d) \in Nat
<1>1. d.name \in Nat
  BY DEF Datagram
<1>2. CASE d.type = IPv4
  <2>1. HeaderSize(d) = 10 /\ Wrapped(d.type, d.name) = 4 + 4 + 2
    BY <1>2 DEF HeaderSize, Wrapped
  <2> QED
    BY <2>1
<1>3. CASE d.type = IPv6
  <2>1. HeaderSize(d) = 22 /\ Wrapped(d.type, d.name) = 4 + 16 + 2
    BY <1>3 DEF HeaderSize, Wrapped
  <2> QED
    BY <2>1
<1>4. CASE d.type = Domain
  <2>1. /\ HeaderSize(d) = 5 + d.name + 2
        /\ Wrapped(d.type, d.name) = 4 + (1 + d.name) + 2
    BY <1>4 DEF HeaderSize, Wrapped
  <2> QED
    BY <1>1, <2>1
<1> QED
  BY <1>2, <1>3, <1>4

\* The target's answer is taken for one, whatever the relay wraps it in.
LEMMA AnswerFacts ==
    ASSUME NEW n \in Nat, NEW d \in AnswersTo(n)
    PROVE  d \in Datagram /\ d.id = n /\ IsVersionNegotiation(d)
<1>1. PICK type \in {IPv4, IPv6, Domain} :
        d = [size |-> Wrapped(type, NameLength) + 31, type |-> type,
             name |-> NameLength, long |-> {Wrapped(type, NameLength)},
             zeros |-> {Wrapped(type, NameLength) + 1}, id |-> n]
  BY Zenon DEF AnswersTo
<1> DEFINE at == Wrapped(type, NameLength)
<1>2. at \in Nat /\ at >= 7
  BY ProbeAssumption DEF Wrapped
<1> HIDE DEF at
<1>3. /\ d.size = at + 31 /\ d.type = type /\ d.name = NameLength
      /\ d.long = {at} /\ d.zeros = {at + 1} /\ d.id = n
  BY <1>1 DEF at
<1>4. d \in Datagram
  <2>1. /\ at + 31 \in Nat /\ type \in 0..255 /\ NameLength \in 0..255
        /\ {at} \in SUBSET Nat /\ {at + 1} \in SUBSET Nat
    BY <1>2, ProbeAssumption
  <2> QED
    BY <1>1, <2>1 DEF Datagram, at
<1>5. HeaderSize(d) = at
  BY <1>3, <1>4, HeaderFacts DEF at
<1>6. Stripped(d) /\ PayloadSize(d) >= 5
  BY <1>2, <1>3, <1>5 DEF Stripped, PayloadSize
<1> QED
  BY <1>3, <1>4, <1>5, <1>6 DEF IsVersionNegotiation

\* Only a probe that reached the target brings its answer, and the probe stops
\* at the first datagram it receives.
LEMMA NextAnswer == IInv /\ [Next]_vars => AnswerInv'
<1> SUFFICES ASSUME IInv, [Next]_vars PROVE AnswerInv'
  OBVIOUS
<1> USE ProbeAssumption DEF IInv
<1>1. CASE Start
  BY <1>1 DEF Start, Shape, AnswerInv, Genuine
<1>2. CASE ReceiveChunk
  BY <1>2 DEF ReceiveChunk, Shape, AnswerInv, Genuine
<1>3. CASE ReceiveEnd
  BY <1>3 DEF ReceiveEnd, Shape, AnswerInv, Genuine
<1>4. CASE ReceiveTimeout
  BY <1>4 DEF ReceiveTimeout, Shape, AnswerInv, Genuine
<1>5. CASE Greet
  BY <1>5 DEF Greet, SendCredentials, Shape, AnswerInv, Genuine
<1>6. CASE Authenticate
  BY <1>6 DEF Authenticate, Shape, AnswerInv, Genuine
<1>7. CASE Associate
  BY <1>7 DEF Associate, Shape, AnswerInv, Genuine
<1>8. CASE Length
  BY <1>8 DEF Length, Shape, AnswerInv, Genuine
<1>9. CASE Address
  BY <1>9 DEF Address, Shape, AnswerInv, Genuine
<1>10. CASE Port
  BY <1>10 DEF Port, Shape, AnswerInv, Genuine
<1>11. CASE Send
  BY <1>11 DEF Send, Shape, AnswerInv, Genuine
<1>12. CASE Receive
  BY <1>12 DEF Receive, Shape, AnswerInv, Genuine
<1>13. CASE AwaitTimeout
  BY <1>13 DEF AwaitTimeout, LastAttempt, Shape, AnswerInv, Genuine
<1>14. CASE Check
  BY <1>14 DEF Check, Shape, AnswerInv, Genuine
<1>15. CASE ProxyCloses
  BY <1>15 DEF ProxyCloses, Shape, AnswerInv, Genuine
<1>16. CASE Forward
  <2>0. PICK n \in outbound :
          /\ reached' = reached \cup {n}
          /\ \E to \in {n, attempt}, d \in AnswersTo(n) :
               inbound' = inbound \cup {[to |-> to, datagram |-> d]}
    BY <1>16, Zenon DEF Forward
  <2>1. PICK to \in {n, attempt}, d \in AnswersTo(n) :
          inbound' = inbound \cup {[to |-> to, datagram |-> d]}
    BY <2>0
  <2>2. honours /\ UNCHANGED <<honours, answer, pc>>
    BY <1>16 DEF Forward
  <2>3. n \in Nat
    BY DEF SentInv
  <2>4. d \in Datagram /\ d.id = n /\ IsVersionNegotiation(d)
    BY <2>3, AnswerFacts
  <2> QED
    BY <2>0, <2>1, <2>2, <2>4 DEF AnswerInv, Genuine
<1>17. CASE Garble
  BY <1>17, GarbageAssumption DEF Garble, Shape, AnswerInv, Genuine
<1>18. CASE LoseOrDelay
  BY <1>18 DEF LoseOrDelay, Shape, AnswerInv, Genuine
<1>19. CASE UNCHANGED vars
  BY <1>19 DEF vars, Shape, AnswerInv, Genuine
<1> QED
  BY <1>1, <1>2, <1>3, <1>4, <1>5, <1>6, <1>7, <1>8, <1>9, <1>10, <1>11,
     <1>12, <1>13, <1>14, <1>15, <1>16, <1>17, <1>18, <1>19 DEF Next, Probe,
     Over

\* An attempt is given up only for a reason, and the next one counts on.
LEMMA NextLoss == IInv /\ [Next]_vars => LossInv'
<1> SUFFICES ASSUME IInv, [Next]_vars PROVE LossInv'
  OBVIOUS
<1> USE ProbeAssumption DEF IInv
<1>1. CASE Start
  BY <1>1 DEF Start, Shape, LossInv
<1>2. CASE ReceiveChunk
  BY <1>2 DEF ReceiveChunk, Shape, LossInv
<1>3. CASE ReceiveEnd
  BY <1>3 DEF ReceiveEnd, Shape, LossInv
<1>4. CASE ReceiveTimeout
  BY <1>4 DEF ReceiveTimeout, Shape, LossInv
<1>5. CASE Greet
  BY <1>5 DEF Greet, SendCredentials, Shape, LossInv
<1>6. CASE Authenticate
  BY <1>6 DEF Authenticate, Shape, LossInv
<1>7. CASE Associate
  BY <1>7 DEF Associate, Shape, LossInv
<1>8. CASE Length
  BY <1>8 DEF Length, Shape, LossInv
<1>9. CASE Address
  BY <1>9 DEF Address, Shape, LossInv
<1>10. CASE Port
  <2>1. attempt' = 0 /\ UNCHANGED trouble /\ trouble = {}
    <3>1. UNCHANGED <<attempt, trouble>> /\ pc = "port"
      BY <1>10 DEF Port
    <3>2. attempt = 0 /\ trouble \subseteq 1..0
      BY <3>1 DEF LossInv
    <3> QED
      BY <3>1, <3>2
  <2>2. pc' = "send" \/ pc' = "over"
    BY <1>10 DEF Port
  <2> QED
    BY <2>1, <2>2 DEF LossInv
<1>11. CASE Send
  <2>1. UNCHANGED <<trouble, honours>> /\ trouble \subseteq 1..attempt
    BY <1>11 DEF Send, LossInv
  <2>2. CASE pc' = "over"
    <3>1. attempt' = attempt /\ control' = "closed"
      BY <1>11, <2>2 DEF Send
    <3> QED
      BY <2>1, <2>2, <3>1 DEF LossInv
  <2>3. CASE pc' # "over"
    <3>1. attempt' = attempt + 1 /\ pc' = "await" /\ control' = control
      BY <1>11, <2>3 DEF Send
    <3>2. attempt < Attempts
      BY <1>11 DEF Send, LossInv
    <3>3. /\ attempt' - 1 = attempt /\ attempt' >= 1
          /\ 1..attempt \subseteq 1..attempt'
      BY <3>1, <3>2, Room DEF Shape
    <3>4. honours /\ control = "open" => 1..attempt \subseteq trouble
      BY <1>11 DEF Send, LossInv
    <3>5. trouble' \subseteq 1..attempt'
      BY <2>1, <3>3
    <3>6. honours' /\ control' = "open" => 1..(attempt' - 1) \subseteq trouble'
      BY <2>1, <3>1, <3>3, <3>4
    <3> QED
      BY <3>1, <3>3, <3>5, <3>6 DEF LossInv
  <2> QED
    BY <2>2, <2>3
<1>12. CASE Receive
  BY <1>12 DEF Receive, Shape, LossInv
<1>13. CASE AwaitTimeout
  <2>1. UNCHANGED <<trouble, honours, attempt>> /\ trouble \subseteq 1..attempt
    BY <1>13 DEF AwaitTimeout, LossInv
  <2>2. CASE attempt = Attempts
    BY <1>13, <2>1, <2>2 DEF AwaitTimeout, LastAttempt, LossInv
  <2>3. CASE attempt # Attempts
    <3>1. pc' = "send" /\ control' = control /\ attempt < Attempts
      BY <1>13, <2>3 DEF AwaitTimeout, LastAttempt, Shape
    <3>2. ASSUME honours, control = "open" PROVE 1..attempt \subseteq trouble
      <4>1. attempt \in trouble
        BY <1>13, <3>2 DEF AwaitTimeout
      <4>2. 1..(attempt - 1) \subseteq trouble
        BY <1>13, <3>2 DEF AwaitTimeout, LossInv
      <4> QED
        BY <4>1, <4>2 DEF Shape
    <3> QED
      BY <2>1, <3>1, <3>2 DEF LossInv
  <2> QED
    BY <2>2, <2>3
<1>14. CASE Check
  BY <1>14 DEF Check, Shape, LossInv
<1>15. CASE ProxyCloses
  BY <1>15 DEF ProxyCloses, Shape, LossInv
<1>16. CASE Forward
  BY <1>16 DEF Forward, Shape, LossInv
<1>17. CASE Garble
  BY <1>17 DEF Garble, Shape, LossInv
<1>18. CASE LoseOrDelay
  <2>1. /\ UNCHANGED <<pc, honours, control, attempt>> /\ pc = "await"
        /\ trouble' = trouble \cup {attempt}
    BY <1>18 DEF LoseOrDelay
  <2>2. attempt >= 1
    BY <1>18 DEF LoseOrDelay, LossInv, Shape
  <2>3. trouble' \subseteq 1..attempt
    BY <2>1, <2>2 DEF LossInv, Shape
  <2> QED
    BY <2>1, <2>3 DEF LossInv
<1>19. CASE UNCHANGED vars
  BY <1>19 DEF vars, Shape, LossInv
<1> QED
  BY <1>1, <1>2, <1>3, <1>4, <1>5, <1>6, <1>7, <1>8, <1>9, <1>10, <1>11,
     <1>12, <1>13, <1>14, <1>15, <1>16, <1>17, <1>18, <1>19 DEF Next, Probe,
     Over

\* A verdict that is not the one on an answer is a failure, and is come to
\* before anything has been received.
LEMMA NextVerdict == IInv /\ [Next]_vars => VerdictFollowsTheAnswer'
<1> SUFFICES ASSUME IInv, [Next]_vars PROVE VerdictFollowsTheAnswer'
  OBVIOUS
<1>1. CASE Check
  <2>1. /\ UNCHANGED <<relay, honours, reached, answer>> /\ relay # 0
        /\ Genuine(answer) /\ pc' = "over"
    BY <1>1 DEF Check, IInv, RelayInv, AnswerInv
  <2>2. CASE IsVersionNegotiation(answer)
    <3>1. exit' = 0
      BY <1>1, <2>2 DEF Check
    <3>2. answer \in Datagram /\ answer.type \in {IPv4, IPv6, Domain}
      BY <2>1, <2>2 DEF Genuine, IsVersionNegotiation, Stripped
    <3>3. /\ HeaderSize(answer) = Wrapped(answer.type, answer.name)
          /\ HeaderSize(answer) \in Nat
      BY <3>2, HeaderFacts
    <3>4. /\ answer.size >= HeaderSize(answer) + 5
          /\ HeaderSize(answer) \in answer.long
      BY <2>2, <3>2, <3>3 DEF IsVersionNegotiation, PayloadSize, Datagram
    <3> QED
      BY <2>1, <3>1, <3>2, <3>3, <3>4 DEF VerdictFollowsTheAnswer, Genuine
  <2>3. CASE ~IsVersionNegotiation(answer)
    <3>1. exit' = 1
      BY <1>1, <2>3, Zenon DEF Check
    <3>2. answer.id = 0
      BY <2>1, <2>3 DEF Genuine
    <3> QED
      BY <2>1, <3>1, <3>2 DEF VerdictFollowsTheAnswer
  <2> QED
    BY <2>2, <2>3
<1>2. CASE UNCHANGED vars
  BY <1>2 DEF vars, IInv, VerdictFollowsTheAnswer
<1> DEFINE Early == \/ pc' # "over"
                    \/ /\ exit' \in {1, 2} /\ answer' = answer
                       /\ pc \notin {"check", "over"}
<1>3. ASSUME Next, ~Check, ~Over PROVE Early
  <2> USE DEF IInv, Shape
  <2>1. CASE Start
    BY <2>1 DEF Start
  <2>2. CASE ReceiveChunk
    BY <2>2 DEF ReceiveChunk
  <2>3. CASE ReceiveEnd
    BY <2>3 DEF ReceiveEnd
  <2>4. CASE ReceiveTimeout
    BY <2>4 DEF ReceiveTimeout
  <2>5. CASE Greet
    BY <2>5 DEF Greet, SendCredentials
  <2>6. CASE Authenticate
    BY <2>6 DEF Authenticate
  <2>7. CASE Associate
    BY <2>7 DEF Associate
  <2>8. CASE Length
    BY <2>8 DEF Length
  <2>9. CASE Address
    BY <2>9 DEF Address
  <2>10. CASE Port
    BY <2>10 DEF Port
  <2>11. CASE Send
    BY <2>11 DEF Send
  <2>12. CASE Receive
    BY <2>12 DEF Receive
  <2>13. CASE AwaitTimeout
    BY <2>13 DEF AwaitTimeout, LastAttempt
  <2>14. CASE ProxyCloses
    BY <2>14 DEF ProxyCloses
  <2>15. CASE Forward
    BY <2>15 DEF Forward
  <2>16. CASE Garble
    BY <2>16 DEF Garble
  <2>17. CASE LoseOrDelay
    BY <2>17 DEF LoseOrDelay
  <2> QED
    BY <1>3, <2>1, <2>2, <2>3, <2>4, <2>5, <2>6, <2>7, <2>8, <2>9,
       <2>10, <2>11, <2>12, <2>13, <2>14, <2>15, <2>16, <2>17
       DEF Next, Probe
<1>4. ASSUME Early PROVE VerdictFollowsTheAnswer'
  <2>1. pc' # "over" => exit' = -1
    BY NextShape DEF Shape
  <2>2. CASE pc' # "over"
    BY <2>1, <2>2 DEF VerdictFollowsTheAnswer
  <2>3. CASE pc' = "over"
    <3>1. exit' \in {1, 2} /\ answer'.id = 0
      BY <1>4, <2>3 DEF IInv, AnswerInv
    <3> QED
      BY <3>1 DEF VerdictFollowsTheAnswer
  <2> QED
    BY <2>2, <2>3
<1> QED
  BY <1>1, <1>2, <1>3, <1>4 DEF Over

-----------------------------------------------------------------------------
(* The theorems.                                                           *)

\* The parts above are together an invariant of the specification.
THEOREM Inductive == Spec => []IInv
<1>1. IInv /\ [Next]_vars => IInv'
  BY NextShape, NextRelay, NextLetIn, NextSent, NextAnswer, NextLoss,
     NextVerdict DEF IInv
<1> QED
  BY InitInv, <1>1, PTL DEF Spec

\* For any number of attempts, whatever comes back and however it is wrapped:
\* an answer of the target makes the script say yes, rightly, and a datagram
\* that has no QUIC packet behind its header never does.
THEOREM AnswerDecides == Spec => []VerdictFollowsTheAnswer
<1>1. IInv => VerdictFollowsTheAnswer
  BY DEF IInv
<1> QED
  BY Inductive, <1>1, PTL

\* UDP ASSOCIATE is never asked of a proxy that has not let the probe in.
THEOREM LetInFirst == Spec => []AssociateOnceLetIn
<1>1. IInv => AssociateOnceLetIn
  BY DEF IInv, LetInInv
<1> QED
  BY Inductive, <1>1, PTL

\* For any number of attempts, a relay that forwards over an open connection
\* is given up only after the network has failed every one of them.
THEOREM EveryAttemptUsed == Spec => LossTolerated
<1>1. ASSUME IInv, [Next]_vars
      PROVE  [(reason' = "no answer" /\ reason = "" /\ honours
                /\ control = "open") => trouble = 1..Attempts]_vars
  <2> SUFFICES ASSUME Next, reason' = "no answer", reason = "", honours,
                      control = "open"
               PROVE  trouble = 1..Attempts
    BY <1>1
  <2>1. AwaitTimeout
    BY <1>1, ProbeAssumption DEF IInv, Shape, Next, Probe, Over, vars, Start,
       ReceiveChunk, ReceiveEnd, ReceiveTimeout, Greet, SendCredentials, Authenticate,
       Associate, Length, Address, Port, Send, Receive, Check, ProxyCloses,
       Forward, Garble, LoseOrDelay
  <2>2. pc = "await" /\ attempt \in trouble /\ attempt = Attempts
    BY <2>1 DEF AwaitTimeout, LastAttempt
  <2>3. 1..(Attempts - 1) \subseteq trouble /\ trouble \subseteq 1..Attempts
    BY <1>1, <2>2 DEF IInv, LossInv
  <2>4. 1..Attempts \subseteq trouble
    BY <2>2, <2>3, ProbeAssumption, Upto
  <2> QED
    BY <2>3, <2>4
<1> QED
  BY Inductive, <1>1, PTL DEF Spec, LossTolerated
=============================================================================
