---------------------------- MODULE RedirectChain ----------------------------
(***************************************************************************)
(* Requests made through a session that holds a cookie jar: each is walked *)
(* one hop at a time by RedirectChain of request.py, and all of them share *)
(* the jar of cookies.py with one another and with whoever clears it.      *)
(*                                                                         *)
(* A URL is its origin: nothing here depends on the rest of it.  A message *)
(* is the fields the rules of next_hop and build_call tell apart.  Which   *)
(* cookies apply to a URL is http.cookiejar's business, outside this       *)
(* repository; a cookie is taken to apply to the origin that set it.       *)
(***************************************************************************)
EXTENDS Integers

CONSTANTS
    Walkers,        \* requests in flight at the same time
    Origins,        \* scheme, host and port
    NoLocation,     \* a response without a Location header
    Calls           \* what the callers of all walks may ask for together

Methods == {"GET", "HEAD", "POST", "PUT"}
Statuses == {200, 300, 301, 302, 303, 304, 305, 307, 308}

\* A body; bearer_auth or basic_auth; an authorization and a cookie header set
\* by hand.
Options == [body : BOOLEAN, option : BOOLEAN, header : BOOLEAN,
            cookie : BOOLEAN]
Hops == [method : Methods, url : Origins, options : Options]

ASSUME ChainConstants ==
    /\ NoLocation \notin Origins
    /\ Calls \subseteq [Walkers -> [hop : Hops, max_redirects : Int]]

VARIABLES
    jar,        \* origins whose cookies are in the jar
    defaults,   \* whether the session's own headers name an authorization
    pending,    \* chain._pending: the next hop's method, URL and options
    history,    \* len(chain._history)
    limit,      \* chain._limit
    phase,      \* send, await (the hop is with the network) or done
    wire,       \* the CallSettings of the hop last sent
    verdict,    \* how the request ended
    \* what the properties compare with
    asked,      \* the first hop, as the caller gave it
    native,     \* the same walk as RequestObserver would make it, with no jar
    strayed,    \* the walk met a redirect that Chromium does not follow
    roamed,     \* the walk has been to an origin other than the first
    learned     \* origins that have set this walk a cookie since the last clear

chainVars == <<pending, history, phase, wire, verdict>>
given == <<defaults, limit, asked>>
told == <<native, strayed>>
vars == <<jar, chainVars, given, told, roamed, learned>>

Init ==
    /\ jar = {}
    /\ \E calls \in Calls :
         /\ asked = [w \in Walkers |-> calls[w].hop]
         /\ limit = [w \in Walkers |-> calls[w].max_redirects]
    /\ defaults \in BOOLEAN
    /\ pending = asked
    /\ history = [w \in Walkers |-> 0]
    /\ phase = [w \in Walkers |-> "send"]
    /\ wire = [w \in Walkers |->
                 [method |-> "GET", url |-> asked[w].url, body |-> FALSE,
                  auth |-> "none", cookie |-> "none"]]
    /\ verdict = [w \in Walkers |-> "none"]
    /\ native = [w \in Walkers |-> [hops |-> 0, verdict |-> "none"]]
    /\ strayed = [w \in Walkers |-> FALSE]
    /\ roamed = [w \in Walkers |-> FALSE]
    /\ learned = [w \in Walkers |-> {}]

-----------------------------------------------------------------------------
(* build_call.                                                             *)

\* A header by hand takes the session's place, and credentials given as an
\* option are added only where neither has spoken for the name.
Authorization(options) ==
    IF options.header THEN "request"
    ELSE IF defaults THEN "session"
    ELSE IF options.option THEN "request"
    ELSE "none"

\* CookieJar.header_for, asked only when no cookie was given by hand.
CookieHeader(options, url) ==
    IF options.cookie THEN "request"
    ELSE IF url \in jar THEN "jar" ELSE "none"

BuildCall(hop) ==
    [method |-> hop.method, url |-> hop.url, body |-> hop.options.body,
     auth |-> Authorization(hop.options),
     cookie |-> CookieHeader(hop.options, hop.url)]

-----------------------------------------------------------------------------
(* next_hop.                                                               *)

IsRedirect(status, location) == location # NoLocation /\ status \in 300..399

\* A 303 becomes a GET unless it was a HEAD, 301 and 302 only for a POST.
BecomesGet(method, status) ==
    \/ status = 303 /\ method # "HEAD"
    \/ status \in {301, 302} /\ method = "POST"

\* Slip: a header set by hand outlives the change of origin.
KeepHandHeaders(options, url, target) ==
    IF url = target THEN options ELSE [options EXCEPT !.option = FALSE]

\* Credentials stay with the origin they were given for.
Carried(options, url, target) ==
    IF url = target THEN options
    ELSE [options EXCEPT !.option = FALSE, !.header = FALSE, !.cookie = FALSE]

\* Slip: the method changes and the body goes along.
NextHopWithBody(hop, status, target) ==
    [method |-> IF BecomesGet(hop.method, status) THEN "GET" ELSE hop.method,
     url |-> target,
     options |-> Carried(hop.options, hop.url, target)]

NextHop(hop, status, target) ==
    LET get == BecomesGet(hop.method, status)
    IN [method |-> IF get THEN "GET" ELSE hop.method,
        url |-> target,
        options |-> [Carried(hop.options, hop.url, target)
                       EXCEPT !.body = @ /\ ~get]]

-----------------------------------------------------------------------------
(* What a session without a jar does with the same responses:              *)
(* RequestObserver::OnReceivedRedirect and OnResponseStarted.              *)

\* Which responses Chromium hands to OnReceivedRedirect; any other status
\* comes as OnResponseStarted, Location or not.
FollowedNatively(status, location) ==
    location # NoLocation /\ status \in {301, 302, 303, 307, 308}

\* StartCall: a negative limit asks for the default.
DefaultRedirects == 20
EffectiveLimit(max) == IF max < 0 THEN DefaultRedirects ELSE max

NativeWalk(walk, redirect, max) ==
    IF walk.verdict # "none" THEN walk
    ELSE IF ~redirect THEN [walk EXCEPT !.verdict = "response"]
    ELSE IF walk.hops < EffectiveLimit(max) THEN [walk EXCEPT !.hops = @ + 1]
    ELSE [walk EXCEPT !.verdict =
            IF max = 0 THEN "response" ELSE "too many redirects"]

-----------------------------------------------------------------------------
(* The walk: Session.request and AsyncSession.request.                     *)

\* _perform starts the pending hop, following no redirect natively.
Send(w) ==
    /\ phase[w] = "send"
    /\ wire' = [wire EXCEPT ![w] = BuildCall(pending[w])]
    /\ phase' = [phase EXCEPT ![w] = "await"]
    /\ roamed' = [roamed EXCEPT ![w] = @ \/ pending[w].url # asked[w].url]
    /\ UNCHANGED <<jar, pending, history, verdict, given, told, learned>>

\* Slip: cookies are taken in from the last response only.
StoreAtTheEnd(w, setCookie, last) ==
    jar' = IF setCookie /\ last THEN jar \cup {pending[w].url} ELSE jar

\* CookieJar.store: each hop's cookies, before anything is decided.
Store(w, setCookie, last) ==
    jar' = IF setCookie THEN jar \cup {pending[w].url} ELSE jar

Finish(w, how) ==
    /\ verdict' = [verdict EXCEPT ![w] = how]
    /\ phase' = [phase EXCEPT ![w] = "done"]
    /\ UNCHANGED <<pending, history>>

\* Slip: off by one at the limit.
OneTooMany(w) == history[w] > limit[w]

\* len(self._history) >= self._limit
AtTheLimit(w) == history[w] >= limit[w]

\* Slip: a hop that has been followed is not recorded.
FollowUnrecorded(w, hop) ==
    /\ pending' = [pending EXCEPT ![w] = hop]
    /\ phase' = [phase EXCEPT ![w] = "send"]
    /\ UNCHANGED <<history, verdict>>

Follow(w, hop) ==
    /\ pending' = [pending EXCEPT ![w] = hop]
    /\ history' = [history EXCEPT ![w] = @ + 1]
    /\ phase' = [phase EXCEPT ![w] = "send"]
    /\ UNCHANGED verdict

\* receive: the response to the pending hop.
Receive(w) ==
    /\ phase[w] = "await"
    /\ \E status \in Statuses, location \in Origins \cup {NoLocation},
          setCookie \in BOOLEAN :
         LET redirect == IsRedirect(status, location)
             followed == FollowedNatively(status, location)
         IN /\ Store(w, setCookie, ~redirect)
            /\ native' = [native EXCEPT ![w] =
                            NativeWalk(@, followed, limit[w])]
            /\ strayed' = [strayed EXCEPT ![w] = @ \/ redirect # followed]
            /\ learned' = [learned EXCEPT ![w] =
                             IF setCookie THEN @ \cup {pending[w].url} ELSE @]
            /\ IF ~redirect \/ limit[w] = 0 THEN Finish(w, "response")
               ELSE IF AtTheLimit(w) THEN Finish(w, "too many redirects")
               ELSE Follow(w, NextHop(pending[w], status, location))
    /\ UNCHANGED <<wire, given, roamed>>

\* The hop fails or times out; the exception ends the walk.
Fail(w) ==
    /\ phase[w] = "await"
    /\ Finish(w, "error")
    /\ UNCHANGED <<jar, wire, given, told, roamed, learned>>

\* CookieJar.clear, by any thread.
Clear ==
    /\ jar # {}
    /\ jar' = {}
    /\ learned' = [w \in Walkers |-> {}]
    /\ UNCHANGED <<chainVars, given, told, roamed>>

Done ==
    /\ \A w \in Walkers : phase[w] = "done"
    /\ UNCHANGED vars

Next == (\E w \in Walkers : Send(w) \/ Receive(w) \/ Fail(w)) \/ Clear \/ Done

\* Each hop is performed and ends: CallState's CallEnds.
Fairness == \A w \in Walkers : WF_vars(Send(w) \/ Receive(w) \/ Fail(w))

Spec == Init /\ [][Next]_vars /\ Fairness

-----------------------------------------------------------------------------
(* Properties.                                                             *)

\* What the caller gave for one origin is sent to that origin only, and not
\* even there again once the walk has been elsewhere.
CredentialsStayHome ==
    \A w \in Walkers :
        wire[w].auth = "request" \/ wire[w].cookie = "request" =>
            wire[w].url = asked[w].url /\ ~roamed[w]

\* A body is only ever sent with the method it was given for.
BodyKeepsItsMethod ==
    \A w \in Walkers :
        wire[w].body => asked[w].options.body /\ wire[w].method = asked[w].method

\* README: "a cookie set part-way along is stored before the next request
\* goes out", whatever other requests add to the jar meanwhile and unless
\* somebody clears it (a response that expires a cookie is not modelled).
CookiesReachTheNextHop ==
    \A w \in Walkers :
        phase[w] = "await" /\ wire[w].url \in learned[w] =>
            wire[w].cookie # "none"

\* receive's "exactly as it does when Chromium is the one following": with a
\* jar a request ends the way it would end without one, after as many hops.
\* The two part in two cases.  A negative limit is Chromium's default of 20
\* without a jar and no redirect at all with one, which is what the second
\* conjunct says.  A 300, 304 or 305 with a Location is followed with a jar
\* only, and of a walk that met one nothing is said.
AgreesWithNative ==
    \A w \in Walkers :
        /\ verdict[w] # "error" /\ limit[w] >= 0 /\ ~strayed[w] =>
             native[w] = [hops |-> history[w], verdict |-> verdict[w]]
        /\ limit[w] < 0 => history[w] = 0

\* Every walk ends, however the servers redirect it.
WalksEnd == \A w \in Walkers : <>(phase[w] = "done")
=============================================================================
