------------------------ MODULE RedirectChainProofs ------------------------
(***************************************************************************)
(* Proofs about RedirectChain for any number of requests sharing the jar,  *)
(* any origins, any requests and any redirect limits, negative ones too.   *)
(***************************************************************************)
EXTENDS RedirectChain, TLAPS

-----------------------------------------------------------------------------
(* The inductive invariant.                                                *)

Verdicts == {"none", "response", "too many redirects", "error"}
Wires == [method : Methods, url : Origins, body : BOOLEAN,
          auth : {"none", "session", "request"},
          cookie : {"none", "jar", "request"}]

NativeWalks == [hops : Nat, verdict : Verdicts]

TypeInv ==
    /\ jar \subseteq Origins
    /\ defaults \in BOOLEAN
    /\ asked \in [Walkers -> Hops] /\ pending \in [Walkers -> Hops]
    /\ limit \in [Walkers -> Int] /\ history \in [Walkers -> Nat]
    /\ phase \in [Walkers -> {"send", "await", "done"}]
    /\ wire \in [Walkers -> Wires]
    /\ verdict \in [Walkers -> Verdicts]
    /\ native \in [Walkers -> NativeWalks] /\ strayed \in [Walkers -> BOOLEAN]
    /\ roamed \in [Walkers -> BOOLEAN]
    /\ learned \in [Walkers -> SUBSET Origins]

\* The options carry something the caller gave for one origin.
Secret(options) == options.option \/ options.header \/ options.cookie

\* The next hop carries it only while the walk has not left that origin.
SecretInv ==
    \A w \in Walkers :
        Secret(pending[w].options) => pending[w].url = asked[w].url /\ ~roamed[w]

\* The next hop has a body only while its method is the one it was given for.
BodyInv ==
    \A w \in Walkers :
        pending[w].options.body =>
            asked[w].options.body /\ pending[w].method = asked[w].method

\* The jar keeps what a walk has learned until somebody clears it.
JarInv == \A w \in Walkers : learned[w] \subseteq jar

\* A walk under way has no verdict and has not gone past its limit.
WalkInv ==
    \A w \in Walkers :
        phase[w] # "done" =>
            verdict[w] = "none" /\ (limit[w] >= 0 => history[w] <= limit[w])

IInv == TypeInv /\ SecretInv /\ BodyInv /\ JarInv /\ WalkInv
            /\ CredentialsStayHome /\ BodyKeepsItsMethod
            /\ CookiesReachTheNextHop /\ AgreesWithNative

-----------------------------------------------------------------------------
(* What the operators return.                                              *)

USE DEF Methods, Options, Hops, Verdicts, Wires, NativeWalks, chainVars, given,
        told

\* build_call: the message is well formed, sends what the caller gave only
\* where the options still carry it, and leaves no known cookie behind.
LEMMA BuildCallFacts ==
    ASSUME TypeInv, NEW hop \in Hops
    PROVE  /\ BuildCall(hop) \in Wires
           /\ BuildCall(hop).url = hop.url
           /\ BuildCall(hop).method = hop.method
           /\ BuildCall(hop).body = hop.options.body
           /\ BuildCall(hop).auth = "request" \/ BuildCall(hop).cookie = "request"
                => Secret(hop.options)
           /\ hop.url \in jar => BuildCall(hop).cookie # "none"
  BY DEF BuildCall, Authorization, CookieHeader, Secret, TypeInv

\* next_hop: a change of origin strips what was given for the old one.
LEMMA CarriedFacts ==
    ASSUME NEW options \in Options, NEW url, NEW target
    PROVE  /\ Carried(options, url, target) \in Options
           /\ Carried(options, url, target).body = options.body
           /\ Secret(Carried(options, url, target)) =>
                url = target /\ Secret(options)
  BY DEF Carried, Secret

\* next_hop: the body survives only if the method does.
LEMMA NextHopFacts ==
    ASSUME NEW hop \in Hops, NEW status, NEW target \in Origins
    PROVE  /\ NextHop(hop, status, target) \in Hops
           /\ NextHop(hop, status, target).url = target
           /\ Secret(NextHop(hop, status, target).options) =>
                hop.url = target /\ Secret(hop.options)
           /\ NextHop(hop, status, target).options.body =>
                /\ hop.options.body
                /\ NextHop(hop, status, target).method = hop.method
<1> DEFINE get == BecomesGet(hop.method, status)
           carried == Carried(hop.options, hop.url, target)
           next == [carried EXCEPT !.body = @ /\ ~get]
<1>1. /\ carried \in Options
      /\ carried.body = hop.options.body
      /\ Secret(carried) => hop.url = target /\ Secret(hop.options)
  BY CarriedFacts
<1>2. get \in BOOLEAN
  BY DEF BecomesGet
<1>3. /\ NextHop(hop, status, target).url = target
      /\ NextHop(hop, status, target).options = next
      /\ NextHop(hop, status, target).method =
           IF get THEN "GET" ELSE hop.method
      /\ NextHop(hop, status, target) =
           [method |-> IF get THEN "GET" ELSE hop.method, url |-> target,
            options |-> next]
  BY DEF NextHop
<1> HIDE DEF get, carried
<1>4. next \in Options /\ (next.body => carried.body /\ ~get)
      /\ (Secret(next) => Secret(carried))
  BY <1>1, <1>2 DEF Secret
<1> HIDE DEF next
<1>5. NextHop(hop, status, target) \in Hops
  BY <1>3, <1>4
<1> QED
  BY <1>1, <1>3, <1>4, <1>5

\* RequestObserver's decision keeps the walk's type, for any limit.
LEMMA NativeType ==
    ASSUME NEW walk \in NativeWalks, NEW redirect \in BOOLEAN, NEW max \in Int
    PROVE  NativeWalk(walk, redirect, max) \in NativeWalks
<1>0. walk.hops \in Nat
  OBVIOUS
<1>1. walk.hops + 1 \in Nat
  <2> HIDE DEF NativeWalks
  <2>1. \A n \in Nat : n + 1 \in Nat
    OBVIOUS
  <2> QED
    BY <1>0, <2>1, Zenon
<1>2. ASSUME NEW how \in Verdicts
      PROVE  [walk EXCEPT !.verdict = how] \in NativeWalks
  BY <1>2
<1>3. [walk EXCEPT !.hops = walk.hops + 1] \in NativeWalks
  BY <1>1
<1>4. (IF max = 0 THEN "response" ELSE "too many redirects") \in Verdicts
  OBVIOUS
<1>5. "response" \in Verdicts
  OBVIOUS
<1> HIDE DEF NativeWalks, Verdicts
<1> QED
  BY <1>2, <1>3, <1>4, <1>5, Zenon DEF NativeWalk

\* RequestObserver's decision, for a walk that has not ended.
LEMMA NativeFacts ==
    ASSUME NEW hops \in Nat, NEW max \in Nat, NEW redirect \in BOOLEAN,
           NEW walk, walk = [hops |-> hops, verdict |-> "none"]
    PROVE  /\ ~redirect \/ max = 0 => NativeWalk(walk, redirect, max) =
                [hops |-> hops, verdict |-> "response"]
           /\ redirect /\ max # 0 /\ hops >= max =>
                NativeWalk(walk, redirect, max) =
                  [hops |-> hops, verdict |-> "too many redirects"]
           /\ redirect /\ hops < max => NativeWalk(walk, redirect, max) =
                [hops |-> hops + 1, verdict |-> "none"]
<1>1. walk.hops = hops /\ ~(walk.verdict # "none")
  OBVIOUS
<1>2. ASSUME NEW how
      PROVE  [walk EXCEPT !.verdict = how] = [hops |-> hops, verdict |-> how]
  OBVIOUS
<1>3. [walk EXCEPT !.hops = walk.hops + 1] =
        [hops |-> hops + 1, verdict |-> "none"]
  OBVIOUS
<1>7. EffectiveLimit(max) = max
  BY DEF EffectiveLimit
<1>4. CASE ~redirect
  BY <1>1, <1>2, <1>4, Zenon DEF NativeWalk
<1>5. CASE redirect /\ hops < max
  <2>1. max # 0 /\ ~(hops >= max)
    BY <1>5
  <2> QED
    BY <1>1, <1>3, <1>5, <1>7, <2>1, Zenon DEF NativeWalk
<1>6. CASE redirect /\ ~(hops < max)
  <2>1. NativeWalk(walk, redirect, max) =
          [hops |-> hops,
           verdict |-> IF max = 0 THEN "response" ELSE "too many redirects"]
    BY <1>1, <1>2, <1>6, <1>7, Zenon DEF NativeWalk
  <2> QED
    BY <1>6, <2>1, Zenon
<1> QED
  BY <1>4, <1>5, <1>6

-----------------------------------------------------------------------------
(* Every step preserves the invariant.                                     *)

\* _perform: one hop goes out, as build_call makes it.
LEMMA SendStep ==
    ASSUME IInv, NEW w \in Walkers, Send(w)
    PROVE  IInv'
<1> DEFINE call == BuildCall(pending[w])
<1>1. /\ pending[w] \in Hops /\ call \in Wires
      /\ call.url = pending[w].url /\ call.method = pending[w].method
      /\ call.body = pending[w].options.body
      /\ call.auth = "request" \/ call.cookie = "request" =>
           Secret(pending[w].options)
      /\ pending[w].url \in jar => call.cookie # "none"
  <2>1. TypeInv /\ pending[w] \in Hops
    BY DEF IInv, TypeInv
  <2> QED
    BY <2>1, BuildCallFacts
<1>2. wire' = [wire EXCEPT ![w] = call]
  BY DEF Send
<1> HIDE DEF call
<1>3. /\ phase[w] = "send" /\ phase' = [phase EXCEPT ![w] = "await"]
      /\ roamed' = [roamed EXCEPT ![w] =
                      roamed[w] \/ pending[w].url # asked[w].url]
      /\ UNCHANGED <<jar, pending, history, verdict, given, told, learned>>
  BY DEF Send
<1>4. TypeInv'
  BY <1>1, <1>2, <1>3 DEF IInv, TypeInv
<1>5. SecretInv' /\ BodyInv' /\ JarInv' /\ WalkInv' /\ AgreesWithNative'
  BY <1>3, ZenonT(60) DEF IInv, TypeInv, SecretInv, BodyInv, JarInv, WalkInv,
                          Secret, AgreesWithNative
<1>6. CredentialsStayHome'
  <2> SUFFICES ASSUME NEW u \in Walkers,
                      (wire[u].auth = "request" \/ wire[u].cookie = "request")'
               PROVE  (wire[u].url = asked[u].url /\ ~roamed[u])'
    BY DEF CredentialsStayHome
  <2>1. CASE u = w
    BY <1>1, <1>2, <1>3, <2>1 DEF IInv, TypeInv, SecretInv
  <2>2. CASE u # w
    BY <1>2, <1>3, <2>2 DEF IInv, TypeInv, CredentialsStayHome
  <2> QED
    BY <2>1, <2>2
<1>7. BodyKeepsItsMethod'
  <2> SUFFICES ASSUME NEW u \in Walkers, wire'[u].body
               PROVE  (/\ asked[u].options.body
                       /\ wire[u].method = asked[u].method)'
    BY DEF BodyKeepsItsMethod
  <2>1. CASE u = w
    BY <1>1, <1>2, <1>3, <2>1, ZenonT(60) DEF IInv, TypeInv, BodyInv
  <2>2. CASE u # w
    BY <1>2, <1>3, <2>2 DEF IInv, TypeInv, BodyKeepsItsMethod
  <2> QED
    BY <2>1, <2>2
<1>8. CookiesReachTheNextHop'
  BY <1>1, <1>2, <1>3, ZenonT(60)
     DEF IInv, TypeInv, JarInv, CookiesReachTheNextHop
<1> QED
  BY <1>4, <1>5, <1>6, <1>7, <1>8 DEF IInv

\* The agreement of all walks follows from that of the one that moved.
LEMMA Agreement ==
    ASSUME TypeInv, AgreesWithNative, NEW w \in Walkers, NEW walk, NEW hops,
           NEW how, NEW strays,
           limit' = limit,
           native' = [native EXCEPT ![w] = walk],
           strayed' = [strayed EXCEPT ![w] = strays],
           history' = [history EXCEPT ![w] = hops],
           verdict' = [verdict EXCEPT ![w] = how],
           limit[w] >= 0 /\ ~strayed'[w] =>
             walk = [hops |-> hops, verdict |-> how],
           limit[w] < 0 => hops = 0
    PROVE  AgreesWithNative'
<1> SUFFICES ASSUME NEW u \in Walkers
             PROVE  (/\ verdict[u] # "error" /\ limit[u] >= 0 /\ ~strayed[u] =>
                          native[u] = [hops |-> history[u], verdict |-> verdict[u]]
                     /\ limit[u] < 0 => history[u] = 0)'
  BY DEF AgreesWithNative
<1>1. CASE u = w
  BY <1>1 DEF TypeInv
<1>2. CASE u # w
  BY <1>2 DEF TypeInv, AgreesWithNative
<1> QED
  BY <1>1, <1>2

\* receive: cookies first, then the decision, which is the native one.
LEMMA ReceiveStep ==
    ASSUME IInv, NEW w \in Walkers, Receive(w)
    PROVE  IInv'
<1>1. PICK status \in Statuses, location \in Origins \cup {NoLocation},
           setCookie \in BOOLEAN :
        LET redirect == IsRedirect(status, location)
            followed == FollowedNatively(status, location)
        IN /\ Store(w, setCookie, ~redirect)
           /\ native' = [native EXCEPT ![w] =
                           NativeWalk(@, followed, limit[w])]
           /\ strayed' = [strayed EXCEPT ![w] = @ \/ redirect # followed]
           /\ learned' = [learned EXCEPT ![w] =
                            IF setCookie THEN @ \cup {pending[w].url} ELSE @]
           /\ IF ~redirect \/ limit[w] = 0 THEN Finish(w, "response")
              ELSE IF AtTheLimit(w) THEN Finish(w, "too many redirects")
              ELSE Follow(w, NextHop(pending[w], status, location))
  BY DEF Receive
<1> DEFINE redirect == IsRedirect(status, location)
           followed == FollowedNatively(status, location)
           hop == NextHop(pending[w], status, location)
           walk == NativeWalk(native[w], followed, limit[w])
           \* where the two walks are compared, after this response
           Compared == limit[w] >= 0 /\ ~strayed'[w]
<1>2. /\ phase[w] = "await" /\ pending[w] \in Hops
      /\ UNCHANGED <<wire, given, roamed>>
  BY DEF Receive, IInv, TypeInv
<1>3. /\ jar' = IF setCookie THEN jar \cup {pending[w].url} ELSE jar
      /\ learned' = [learned EXCEPT ![w] =
            IF setCookie THEN learned[w] \cup {pending[w].url} ELSE learned[w]]
  BY <1>1 DEF Store
<1>4. /\ jar' \subseteq Origins /\ learned' \in [Walkers -> SUBSET Origins]
      /\ JarInv'
  BY <1>2, <1>3 DEF IInv, TypeInv, JarInv
<1>5. /\ redirect \in BOOLEAN /\ (redirect => location \in Origins)
      /\ followed \in BOOLEAN
  BY DEF IsRedirect, FollowedNatively
<1>6. /\ native' = [native EXCEPT ![w] = walk]
      /\ strayed' = [strayed EXCEPT ![w] = strayed[w] \/ redirect # followed]
  BY <1>1
<1>7. /\ history[w] \in Nat /\ limit[w] \in Int
      /\ limit[w] >= 0 => history[w] <= limit[w]
      /\ limit[w] < 0 => history[w] = 0
  BY <1>2 DEF IInv, TypeInv, WalkInv, AgreesWithNative
<1>16. verdict[w] = "none"
  BY <1>2 DEF IInv, WalkInv
<1>15. /\ native[w] \in NativeWalks
       /\ limit[w] >= 0 /\ ~strayed[w] =>
            native[w] = [hops |-> history[w], verdict |-> "none"]
  BY <1>2 DEF IInv, TypeInv, WalkInv, AgreesWithNative
<1> HIDE DEF redirect, followed, hop
<1>13. walk \in NativeWalks /\ strayed' \in [Walkers -> BOOLEAN]
  <2>1. walk \in NativeWalks
    BY <1>5, <1>7, <1>15, NativeType
  <2> QED
    BY <1>6, <2>1, Zenon DEF IInv, TypeInv
<1>14. ASSUME Compared
       PROVE  /\ limit[w] \in Nat /\ followed = redirect
              /\ native[w] = [hops |-> history[w], verdict |-> "none"]
  <2>1. ~strayed[w] /\ redirect = followed
    <3>1. strayed'[w] = (strayed[w] \/ redirect # followed)
      BY <1>6 DEF IInv, TypeInv
    <3> QED
      BY <1>14, <3>1, Zenon
  <2>2. limit[w] >= 0
    BY <1>14
  <2>3. limit[w] \in Nat
    BY <1>7, <2>2
  <2> QED
    BY <1>15, <2>1, <2>2, <2>3, Zenon
<1>0. ASSUME Compared
      PROVE  /\ ~redirect \/ limit[w] = 0 =>
                  walk = [hops |-> history[w], verdict |-> "response"]
             /\ redirect /\ limit[w] # 0 /\ history[w] >= limit[w] =>
                  walk = [hops |-> history[w], verdict |-> "too many redirects"]
             /\ redirect /\ history[w] < limit[w] =>
                  walk = [hops |-> history[w] + 1, verdict |-> "none"]
  BY <1>0, <1>5, <1>7, <1>14, NativeFacts, ZenonT(60)
<1> HIDE DEF walk
<1>8. ASSUME NEW how \in {"response", "too many redirects"}, Finish(w, how),
             Compared => walk = [hops |-> history[w], verdict |-> how]
      PROVE  IInv'
  <2>1. /\ verdict' = [verdict EXCEPT ![w] = how]
        /\ phase' = [phase EXCEPT ![w] = "done"]
        /\ UNCHANGED <<pending, history>>
    BY <1>8 DEF Finish
  <2>3. TypeInv'
    BY <1>2, <1>4, <1>6, <1>13, <2>1 DEF IInv, TypeInv
  <2>4. SecretInv' /\ BodyInv' /\ WalkInv'
    BY <1>2, <2>1, ZenonT(60)
       DEF IInv, TypeInv, SecretInv, BodyInv, WalkInv, Secret
  <2>5. CredentialsStayHome' /\ BodyKeepsItsMethod' /\ CookiesReachTheNextHop'
    BY <1>2, <1>3, <2>1, ZenonT(60) DEF IInv, TypeInv, CredentialsStayHome,
       BodyKeepsItsMethod, CookiesReachTheNextHop
  <2>6. AgreesWithNative'
    <3>1. /\ TypeInv /\ AgreesWithNative /\ limit' = limit
          /\ history' = [history EXCEPT ![w] = history[w]]
      BY <1>2, <2>1 DEF IInv, TypeInv
    <3>2. limit[w] < 0 => history[w] = 0
      BY <1>7
    <3> HIDE DEF TypeInv, AgreesWithNative
    <3> QED
      BY <1>6, <1>8, <2>1, <3>1, <3>2, Agreement, ZenonT(60)
  <2> QED
    BY <1>4, <2>3, <2>4, <2>5, <2>6 DEF IInv
<1>9. ASSUME redirect, history[w] < limit[w], Follow(w, hop)
      PROVE  IInv'
  <2>0. history[w] < limit[w] /\ ~(history[w] >= limit[w])
    <3>1. history[w] < limit[w]
      BY <1>9, Zenon
    <3> QED
      BY <1>7, <3>1
  <2>1. /\ hop \in Hops /\ hop.url = location
        /\ Secret(hop.options) =>
             pending[w].url = location /\ Secret(pending[w].options)
        /\ hop.options.body => /\ pending[w].options.body
                               /\ hop.method = pending[w].method
    BY <1>2, <1>5, <1>9, NextHopFacts DEF hop
  <2>2. Compared => walk = [hops |-> history[w] + 1, verdict |-> "none"]
    BY <1>0, <1>9, Zenon
  <2>3. /\ pending' = [pending EXCEPT ![w] = hop]
        /\ history' = [history EXCEPT ![w] = history[w] + 1]
        /\ phase' = [phase EXCEPT ![w] = "send"]
        /\ UNCHANGED verdict
    BY <1>9 DEF Follow
  <2>5. TypeInv'
    <3>1. history[w] + 1 \in Nat
      BY <1>7
    <3>2. history' \in [Walkers -> Nat]
      BY <2>3, <3>1 DEF IInv, TypeInv
    <3>3. native' \in [Walkers -> NativeWalks]
      BY <1>6, <1>13 DEF IInv, TypeInv
    <3>4. pending' \in [Walkers -> Hops]
      BY <2>1, <2>3 DEF IInv, TypeInv
    <3> QED
      BY <1>2, <1>4, <1>13, <2>3, <3>2, <3>3, <3>4 DEF IInv, TypeInv
  <2>6. SecretInv'
    BY <1>2, <2>1, <2>3, ZenonT(60) DEF IInv, TypeInv, SecretInv, Secret
  <2>7. BodyInv'
    BY <1>2, <2>1, <2>3, ZenonT(60) DEF IInv, TypeInv, BodyInv
  <2>8. WalkInv'
    <3> SUFFICES ASSUME NEW u \in Walkers, phase'[u] # "done"
                 PROVE  (/\ verdict[u] = "none"
                         /\ limit[u] >= 0 => history[u] <= limit[u])'
      BY DEF WalkInv
    <3>1. limit' = limit /\ verdict' = verdict
      BY <1>2, <2>3
    <3>2. CASE u = w
      <4>1. history'[u] = history[w] + 1
        BY <2>3, <3>2 DEF IInv, TypeInv
      <4> QED
        BY <1>7, <1>16, <2>0, <3>1, <3>2, <4>1
    <3>3. CASE u # w
      BY <2>3, <3>1, <3>3 DEF IInv, TypeInv, WalkInv
    <3> QED
      BY <3>2, <3>3
  <2>9. CredentialsStayHome' /\ BodyKeepsItsMethod' /\ CookiesReachTheNextHop'
    BY <1>2, <1>3, <2>3, ZenonT(60) DEF IInv, TypeInv, CredentialsStayHome,
       BodyKeepsItsMethod, CookiesReachTheNextHop
  <2>10. AgreesWithNative'
    <3>0. TypeInv /\ AgreesWithNative /\ limit' = limit
      BY <1>2 DEF IInv
    <3>1. verdict' = [verdict EXCEPT ![w] = "none"]
      BY <1>16, <2>3, <3>0 DEF TypeInv
    <3>2. limit[w] < 0 => history[w] + 1 = 0
      BY <1>7, <2>0
    <3> HIDE DEF TypeInv, AgreesWithNative
    <3> QED
      BY <1>6, <2>2, <2>3, <3>0, <3>1, <3>2, Agreement, ZenonT(60)
  <2> QED
    BY <1>4, <2>5, <2>6, <2>7, <2>8, <2>9, <2>10 DEF IInv
<1>10. CASE ~redirect \/ limit[w] = 0
  <2>1. Compared => walk = [hops |-> history[w], verdict |-> "response"]
    BY <1>0, <1>10, Zenon
  <2> QED
    BY <1>1, <1>8, <1>10, <2>1 DEF redirect
<1>11. CASE redirect /\ limit[w] # 0 /\ AtTheLimit(w)
  <2>1. Compared =>
          walk = [hops |-> history[w], verdict |-> "too many redirects"]
    BY <1>0, <1>11, Zenon DEF AtTheLimit
  <2> QED
    BY <1>1, <1>8, <1>11, <2>1 DEF redirect
<1>12. CASE redirect /\ limit[w] # 0 /\ ~AtTheLimit(w)
  <2>1. history[w] < limit[w]
    BY <1>7, <1>12 DEF AtTheLimit
  <2>2. Follow(w, hop)
    BY <1>1, <1>12, Zenon DEF redirect, hop
  <2> QED
    BY <1>9, <1>12, <2>1, <2>2
<1> QED
  BY <1>10, <1>11, <1>12

\* An error ends the walk and touches nothing else.
LEMMA FailStep ==
    ASSUME IInv, NEW w \in Walkers, Fail(w)
    PROVE  IInv'
<1>1. TypeInv' /\ SecretInv' /\ BodyInv' /\ JarInv' /\ WalkInv'
  BY DEF Fail, Finish, IInv, TypeInv, SecretInv, BodyInv, JarInv, WalkInv,
         Secret
<1>2. /\ UNCHANGED <<wire, asked, limit, roamed, learned, told, history>>
      /\ \A v \in Walkers : phase'[v] = "await" => phase[v] = "await"
      /\ \A v \in Walkers : v # w => verdict'[v] = verdict[v]
      /\ verdict'[w] = "error"
  BY DEF Fail, Finish, IInv, TypeInv
<1>3. CredentialsStayHome' /\ BodyKeepsItsMethod'
  BY <1>2 DEF IInv, CredentialsStayHome, BodyKeepsItsMethod
<1>4. CookiesReachTheNextHop' /\ AgreesWithNative'
  BY <1>2 DEF IInv, CookiesReachTheNextHop, AgreesWithNative
<1> QED
  BY <1>1, <1>3, <1>4 DEF IInv

\* Clearing the jar forgets for every walk at once.
LEMMA ClearStep == ASSUME IInv, Clear PROVE IInv'
<1>1. TypeInv' /\ SecretInv' /\ BodyInv' /\ JarInv' /\ WalkInv'
  BY DEF Clear, IInv, TypeInv, SecretInv, BodyInv, JarInv, WalkInv, Secret
<1>2. CredentialsStayHome' /\ BodyKeepsItsMethod' /\ CookiesReachTheNextHop'
      /\ AgreesWithNative'
  BY DEF Clear, IInv, TypeInv, CredentialsStayHome, BodyKeepsItsMethod,
         CookiesReachTheNextHop, AgreesWithNative
<1> QED
  BY <1>1, <1>2 DEF IInv

-----------------------------------------------------------------------------
(* The theorems.                                                           *)

\* The parts above are together an invariant of the specification.
THEOREM Inductive == Spec => []IInv
<1>1. ASSUME Init PROVE IInv
  <2>1. asked \in [Walkers -> Hops] /\ limit \in [Walkers -> Int]
    BY <1>1, ChainConstants DEF Init
  <2>2. TypeInv
    BY <1>1, <2>1 DEF Init, TypeInv
  <2>3. SecretInv /\ BodyInv /\ JarInv /\ WalkInv
    BY <1>1, <2>1 DEF Init, SecretInv, BodyInv, JarInv, WalkInv
  <2>4. CredentialsStayHome /\ BodyKeepsItsMethod /\ CookiesReachTheNextHop
        /\ AgreesWithNative
    BY <1>1 DEF Init, CredentialsStayHome, BodyKeepsItsMethod,
                CookiesReachTheNextHop, AgreesWithNative
  <2> QED
    BY <2>2, <2>3, <2>4 DEF IInv
<1>2. ASSUME IInv, UNCHANGED vars PROVE IInv'
  <2>1. TypeInv' /\ SecretInv' /\ BodyInv' /\ JarInv' /\ WalkInv'
    BY <1>2 DEF vars, IInv, TypeInv, SecretInv, BodyInv, JarInv, WalkInv, Secret
  <2>2. CredentialsStayHome' /\ BodyKeepsItsMethod' /\ CookiesReachTheNextHop'
        /\ AgreesWithNative'
    BY <1>2 DEF vars, IInv, CredentialsStayHome, BodyKeepsItsMethod,
                CookiesReachTheNextHop, AgreesWithNative
  <2> QED
    BY <2>1, <2>2 DEF IInv
<1>3. IInv /\ [Next]_vars => IInv'
  BY <1>2, SendStep, ReceiveStep, FailStep, ClearStep DEF Next, Done
<1> QED
  BY <1>1, <1>3, PTL DEF Spec

\* What the caller gave for one origin is sent to that origin only, and not
\* even there again once the walk has been elsewhere, however long it is.
THEOREM StayHome == Spec => []CredentialsStayHome
<1>1. IInv => CredentialsStayHome
  BY DEF IInv
<1> QED
  BY Inductive, <1>1, PTL

\* No hop sends the body with a method it was not given for.
THEOREM BodyMethod == Spec => []BodyKeepsItsMethod
<1>1. IInv => BodyKeepsItsMethod
  BY DEF IInv
<1> QED
  BY Inductive, <1>1, PTL

\* A cookie set part-way along goes out with the next request to its origin,
\* whatever the other requests sharing the jar do meanwhile.
THEOREM CookiesReach == Spec => []CookiesReachTheNextHop
<1>1. IInv => CookiesReachTheNextHop
  BY DEF IInv
<1> QED
  BY Inductive, <1>1, PTL

\* For every limit that is not negative, a walk with a jar that meets only the
\* redirects Chromium follows ends as Chromium's own would and after as many
\* hops; under a negative limit it follows no redirect at all.
THEOREM SameAsNative == Spec => []AgreesWithNative
<1>1. IInv => AgreesWithNative
  BY DEF IInv
<1> QED
  BY Inductive, <1>1, PTL
=============================================================================
