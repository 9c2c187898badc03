------------------------------ MODULE Deadline ------------------------------
(***************************************************************************)
(* How long a request may take: the drivers Session._perform,              *)
(* Session.stream and AsyncSession._perform against a clock, from the      *)
(* first hop to the exception or the response they end with.               *)
(*                                                                         *)
(* The clock ticks U times a millisecond, so that what int() cuts off      *)
(* shows, and only while the owner is blocked or a streaming consumer is   *)
(* busy: the code's own steps take no time, and a timed wait returns when  *)
(* it is due.  `elapsed` counts from the start of the current countdown.   *)
(* The native call is reduced to what its owner can see of it; CallState   *)
(* has its threads.                                                        *)
(***************************************************************************)
EXTENDS Integers, FiniteSets

CONSTANTS
    U,           \* clock ticks in a millisecond
    Limits,      \* timeout= of the request, in ticks, or NoLimit
    NoLimit,     \* timeout=None
    Owners,      \* the drivers: a subset of {"perform", "stream", "async"}
    NetErrors,   \* Chromium error codes a call may end with
    PieceBound,  \* pieces of body a server sends at most (bounds the model)
    HopBound     \* redirects a walk with a jar meets at most (bounds the model)

ASSUME ClockAssumption ==
    /\ U \in Nat \ {0} /\ Limits \subseteq Int \cup {NoLimit}
    /\ Owners \subseteq {"perform", "stream", "async"}
    /\ PieceBound \in Nat /\ HopBound \in Nat
    /\ NetErrors \subseteq {n \in -400..-1 : n # -3}

VARIABLES
    owner, limit, jar, require,   \* the request and its session
    pc,          \* where the owner stands
    hop,         \* hops finished
    elapsed,     \* ticks since the running countdown (asyncio.timeout) began
    remaining,   \* what _countdown last yielded, in milliseconds
    wake,        \* `elapsed` at which the poll in progress gives up
    waited,      \* ticks this request has spent blocked on the network
    expired,     \* a deadline of the driver's own has run out
    report,      \* what the caller gets
    callState,   \* cronet_call_state_of
    code,        \* error_code of the result
    version,     \* http_version of the response
    buffered,    \* pieces to be read
    sent,        \* pieces the server has sent
    owed,        \* the network thread has yet to signal what it stored
    readable,    \* the descriptor is readable
    asked        \* who has asked for the call to be cancelled

request == <<owner, limit, jar, require>>
clock == <<elapsed, remaining, wake, waited>>
native == <<callState, code, version, buffered, sent, owed, readable>>
vars == <<request, pc, hop, clock, expired, report, native, asked>>

Aborted == -3
OK == 0
Forever == -1
Suspended == {"pollHeaders", "pollBody", "wokenHeaders", "wokenBody"}
Blocking == {"perform", "stream"}

-----------------------------------------------------------------------------
(* errors.py: the exception that fits a network error.                     *)

TimeoutErrors == {-7, -118}
ProxyErrors == {-115, -127, -130, -131, -136, -144, -336}
SslErrors == {-107, -113, -117, -122, -126, -141, -164}
RedirectLimit == -31

ErrorFor(n) ==
    CASE n \in TimeoutErrors -> "Timeout"
      [] n = Aborted -> "Cancelled"
      [] n = RedirectLimit -> "TooManyRedirects"
      [] n \in ProxyErrors -> "ProxyFailed"
      [] n \in SslErrors \cup (-299..-200) -> "CertificateError"
      [] n \in (-199..-100) \ (ProxyErrors \cup SslErrors \cup TimeoutErrors)
           -> "ConnectionFailed"
      [] OTHER -> "RequestError"

-----------------------------------------------------------------------------
(* Counting down.                                                          *)

\* _timeout_ms: whole milliseconds, and -1 for "no limit".
TimeoutMs ==
    IF limit = NoLimit THEN Forever
    ELSE IF limit < U THEN 0 ELSE limit \div U

\* What the next round of _countdown yields; zero or less ends it.
Countdown ==
    IF TimeoutMs = Forever THEN Forever
    ELSE (TimeoutMs * U - elapsed) \div U

RunOut == limit # NoLimit /\ Countdown <= 0

\* A _countdown, or the asyncio.timeout block, starts now.
StartCountdown == elapsed' = 0 /\ UNCHANGED waited

\* Slip: every round of waiting is given the whole timeout again.
RoundsStartAnew ==
    /\ ~RunOut
    /\ elapsed' = 0
    /\ remaining' = TimeoutMs
    /\ UNCHANGED <<wake, waited>>

NextRound ==
    /\ ~RunOut
    /\ remaining' = Countdown
    /\ UNCHANGED <<elapsed, wake, waited>>

\* poll(remaining), remaining having been worked out when the round began.
StartPoll ==
    wake' = IF remaining = Forever THEN Forever ELSE elapsed + remaining * U

-----------------------------------------------------------------------------
Init ==
    /\ owner \in Owners /\ limit \in Limits
    /\ jar \in BOOLEAN /\ require \in BOOLEAN
    /\ pc = "headers" /\ hop = 0 /\ elapsed = 0 /\ remaining = Forever
    /\ wake = Forever /\ waited = 0 /\ expired = FALSE /\ report = "none"
    /\ callState = "STARTED" /\ code = OK /\ version = "h3" /\ buffered = 0
    /\ sent = 0 /\ owed = FALSE /\ readable = FALSE /\ asked = {}

-----------------------------------------------------------------------------
(* The network thread and other threads.                                   *)

InFlight == pc # "over"

HeadersArrive ==
    /\ InFlight /\ callState = "STARTED" /\ ~owed
    /\ callState' = "HEADERS"
    /\ version' \in {"h2", "h3"}
    /\ owed' = TRUE
    /\ UNCHANGED <<request, pc, hop, clock, expired, report, code, buffered,
                   sent, readable, asked>>

PieceArrives ==
    /\ InFlight /\ callState = "HEADERS" /\ ~owed /\ sent < PieceBound
    /\ sent' = sent + 1
    /\ buffered' = buffered + 1
    /\ owed' = TRUE
    /\ UNCHANGED <<request, pc, hop, clock, expired, report, callState, code,
                   version, readable, asked>>

\* Finish(), with the first outcome to be claimed.
Finish ==
    /\ InFlight /\ callState # "DONE" /\ ~owed
    /\ code' \in NetErrors \cup (IF callState = "HEADERS" THEN {OK} ELSE {})
                           \cup (IF asked # {} THEN {Aborted} ELSE {})
    /\ callState' = "DONE"
    /\ owed' = TRUE
    /\ UNCHANGED <<request, pc, hop, clock, expired, report, version,
                   buffered, sent, readable, asked>>

SignalProgress ==
    /\ InFlight /\ owed
    /\ owed' = FALSE
    /\ readable' = TRUE
    /\ UNCHANGED <<request, pc, hop, clock, expired, report, callState, code,
                   version, buffered, sent, asked>>

\* Engine.close() on another thread.
OthersCancel ==
    /\ InFlight /\ "other" \notin asked
    /\ asked' = asked \cup {"other"}
    /\ UNCHANGED <<request, pc, hop, clock, expired, report, native>>

-----------------------------------------------------------------------------
(* Waiting for the headers.                                                *)

Drain == readable' = FALSE

KeepCall == UNCHANGED <<callState, code, version, buffered, sent, owed>>

LookAtState ==
    /\ pc = "headers"
    /\ Drain /\ KeepCall
    /\ pc' = IF callState = "STARTED" THEN "askPoll" ELSE "result"
    /\ UNCHANGED <<request, hop, expired, report, asked>>

\* A round of Call.wait_for_headers.
HeadersRound == owner \in Blocking /\ NextRound /\ LookAtState

\* A round of _wait_for_headers: its limit is that of asyncio.timeout.
AsyncHeadersRound == owner = "async" /\ LookAtState /\ UNCHANGED clock

PollHeaders ==
    /\ pc = "askPoll"
    /\ pc' = "pollHeaders"
    /\ StartPoll
    /\ UNCHANGED <<request, hop, elapsed, remaining, waited, expired, report,
                   native, asked>>

\* Slip: a countdown that has run out is a timeout, whatever came meanwhile.
HeadersRunOutUnchecked ==
    /\ pc = "headers" /\ owner \in Blocking /\ RunOut
    /\ pc' = "expired"
    /\ expired' = TRUE
    /\ UNCHANGED <<request, hop, clock, report, native, asked>>

\* The countdown is over: wait_for_headers looks at the state once more.
HeadersRunOut ==
    /\ pc = "headers" /\ owner \in Blocking /\ RunOut
    /\ pc' = IF callState = "STARTED" THEN "expired" ELSE "result"
    /\ expired' = (callState = "STARTED")
    /\ UNCHANGED <<request, hop, clock, report, native, asked>>

\* call.result() raises before the body is asked for.
ResultRaises ==
    /\ pc = "result" /\ code # OK
    /\ pc' = "cleanup"
    /\ report' = ErrorFor(code)
    /\ UNCHANGED <<request, hop, clock, expired, native, asked>>

\* _checked: the response, or ProtocolDowngraded.
Checked(whole) ==
    IF require /\ version # "h3" THEN "ProtocolDowngraded" ELSE whole

\* Session.stream hands the response over.
HandOver ==
    /\ pc = "result" /\ code = OK /\ owner = "stream"
    /\ report' = Checked("none")
    /\ pc' = IF report' = "none" THEN "handed" ELSE "cleanup"
    /\ UNCHANGED <<request, hop, clock, expired, native, asked>>

\* _perform goes on to the body.  The blocking one starts a countdown anew;
\* asyncio.timeout runs on.
StartBody ==
    /\ pc = "result" /\ code = OK /\ owner # "stream"
    /\ pc' = "body"
    /\ IF owner = "perform" THEN StartCountdown ELSE UNCHANGED <<elapsed, waited>>
    /\ UNCHANGED <<request, hop, remaining, wake, expired, report, native,
                   asked>>

-----------------------------------------------------------------------------
(* Waiting for the body.                                                   *)

DrainThenRead ==
    /\ pc = "body"
    /\ Drain /\ KeepCall
    /\ pc' = "read"
    /\ UNCHANGED <<request, hop, expired, report, asked>>

\* A round of Call.iter_body begins.
BodyRound == owner \in Blocking /\ NextRound /\ DrainThenRead

\* A round of AsyncSession._read_body begins.
AsyncBodyRound == owner = "async" /\ DrainThenRead /\ UNCHANGED clock

\* A piece: joined at once, or yielded to a streaming consumer.
ReadPiece ==
    /\ pc = "read" /\ buffered > 0
    /\ buffered' = buffered - 1
    /\ pc' = IF owner = "stream" THEN "yielded" ELSE "read"
    /\ UNCHANGED <<request, hop, clock, expired, report, callState, code,
                   version, sent, owed, readable, asked>>

\* None: the body is complete.
ReadEnd ==
    /\ pc = "read" /\ buffered = 0 /\ callState = "DONE"
    /\ pc' = IF owner = "stream" THEN "exhausted" ELSE "final"
    /\ UNCHANGED <<request, hop, clock, expired, report, native, asked>>

\* b"": wait, for as long as the round was given when it began.
ReadNothing ==
    /\ pc = "read" /\ buffered = 0 /\ callState # "DONE"
    /\ pc' = "pollBody"
    /\ StartPoll
    /\ UNCHANGED <<request, hop, elapsed, remaining, waited, expired, report,
                   native, asked>>

\* iter_body raises TimeoutError, which a streaming consumer gets as it is.
BodyExpires ==
    /\ expired' = TRUE
    /\ pc' = IF owner = "stream" THEN "exhausted" ELSE "expired"
    /\ report' = IF owner = "stream" THEN "TimeoutError" ELSE report

BodyRunOut ==
    /\ pc = "body" /\ owner \in Blocking /\ RunOut
    /\ BodyExpires
    /\ UNCHANGED <<request, hop, clock, native, asked>>

\* call.result() again, then _checked.
Final ==
    /\ pc = "final"
    /\ pc' = "cleanup"
    /\ report' = IF code # OK THEN ErrorFor(code) ELSE Checked("response")
    /\ UNCHANGED <<request, hop, clock, expired, native, asked>>

-----------------------------------------------------------------------------
(* Being blocked.                                                          *)

\* wait_for_progress, or a reader of the event loop, finds the descriptor
\* readable.  A woken task runs only in the loop's next turn.
Wake ==
    /\ pc \in {"pollHeaders", "pollBody"} /\ readable
    /\ pc' = CASE owner = "async" /\ pc = "pollHeaders" -> "wokenHeaders"
               [] owner = "async" /\ pc = "pollBody" -> "wokenBody"
               [] owner # "async" /\ pc = "pollHeaders" -> "headers"
               [] owner # "async" /\ pc = "pollBody" -> "body"
    /\ UNCHANGED <<request, hop, clock, expired, report, native, asked>>

TaskRuns ==
    /\ pc \in {"wokenHeaders", "wokenBody"}
    /\ pc' = IF pc = "wokenHeaders" THEN "headers" ELSE "body"
    /\ UNCHANGED <<request, hop, clock, expired, report, native, asked>>

\* Slip: a poll that comes back empty early is taken for one that timed out.
PollInterrupted == wake # Forever

PollTimedOut == wake # Forever /\ elapsed >= wake

PollExpires ==
    /\ pc \in {"pollHeaders", "pollBody"} /\ owner \in Blocking
    /\ ~readable /\ PollTimedOut
    /\ IF pc = "pollBody" THEN BodyExpires
       ELSE pc' = "expired" /\ expired' = TRUE /\ UNCHANGED report
    /\ UNCHANGED <<request, hop, clock, native, asked>>

\* asyncio.timeout cancels the task where it is suspended, woken or not.
AsyncioExpires ==
    /\ pc \in Suspended /\ owner = "async"
    /\ limit # NoLimit /\ elapsed >= limit
    /\ pc' = "expired"
    /\ expired' = TRUE
    /\ UNCHANGED <<request, hop, clock, report, native, asked>>

\* The awaiting task is cancelled from outside.
TaskCancelled ==
    /\ pc \in Suspended /\ owner = "async"
    /\ pc' = "cleanup"
    /\ report' = "CancelledError"
    /\ UNCHANGED <<request, hop, clock, expired, native, asked>>

\* Time passes: for a blocked owner until its wait is due, for a streaming
\* consumer for as long as it likes (two ticks past its deadline at most).
Due == IF owner = "async" THEN limit ELSE wake

Tick ==
    /\ limit # NoLimit
    /\ \/ /\ pc \in {"pollHeaders", "pollBody"} /\ elapsed < Due
          /\ waited' = waited + 1
       \/ /\ pc = "yielded" /\ elapsed <= limit + 1
          /\ UNCHANGED waited
    /\ elapsed' = elapsed + 1
    /\ UNCHANGED <<request, pc, hop, remaining, wake, expired, report, native,
                   asked>>

-----------------------------------------------------------------------------
(* A streaming consumer.                                                   *)

\* The first next() on response.stream (iter_bytes or read): the generator's
\* countdown starts only now.
FirstNext ==
    /\ pc = "handed"
    /\ pc' = "body"
    /\ StartCountdown
    /\ UNCHANGED <<request, hop, remaining, wake, expired, report, native,
                   asked>>

\* Another next(): the generator goes on where it yielded.
NextPiece ==
    /\ pc = "yielded"
    /\ pc' = "read"
    /\ UNCHANGED <<request, hop, clock, expired, report, native, asked>>

\* The block ends: by itself, or by an exception the consumer lets through.
Leave ==
    /\ pc \in {"handed", "yielded", "exhausted"}
    /\ pc' = "cleanup"
    /\ report' = IF report = "none" THEN "streamed" ELSE report
    /\ UNCHANGED <<request, hop, clock, expired, native, asked>>

-----------------------------------------------------------------------------
(* Running out of time, and letting go.                                    *)

\* Session._perform cancels and waits for the outcome; the others leave the
\* cancelling to their finally clause.
Expired ==
    /\ pc = "expired"
    /\ IF owner = "perform"
       THEN pc' = "waitDone" /\ asked' = asked \cup {"owner"}
       ELSE pc' = "raise" /\ UNCHANGED asked
    /\ UNCHANGED <<request, hop, clock, expired, report, native>>

WaitDone ==
    /\ pc = "waitDone" /\ callState = "DONE"
    /\ pc' = "raise"
    /\ UNCHANGED <<request, hop, clock, expired, report, native, asked>>

\* Slip: the call's own outcome is reported, now that it has one.
RaiseOutcome ==
    /\ pc = "raise"
    /\ pc' = "cleanup"
    /\ report' = IF code # OK THEN ErrorFor(code) ELSE "Timeout"
    /\ UNCHANGED <<request, hop, clock, expired, native, asked>>

RaiseTimeout ==
    /\ pc = "raise"
    /\ pc' = "cleanup"
    /\ report' = "Timeout"
    /\ UNCHANGED <<request, hop, clock, expired, native, asked>>

\* finally: cancel what has not finished, here or in cronet_call_free.
Cleanup ==
    /\ pc = "cleanup"
    /\ pc' = "close"
    /\ asked' = IF callState = "DONE" THEN asked ELSE asked \cup {"owner"}
    /\ UNCHANGED <<request, hop, clock, expired, report, native>>

CallReleased == pc = "close" /\ callState = "DONE" /\ ~owed

\* call.close() returns, and the request is over.
Close ==
    /\ CallReleased
    /\ pc' = "over"
    /\ UNCHANGED <<request, hop, clock, expired, report, native, asked>>

\* call.close() returns; the response redirects, and with a jar that makes
\* another call, with the same options.
FollowHop ==
    /\ CallReleased
    /\ jar /\ owner # "stream" /\ report = "response" /\ hop < HopBound
    /\ pc' = "headers" /\ hop' = hop + 1 /\ report' = "none"
    /\ StartCountdown /\ remaining' = Forever /\ wake' = Forever
    /\ callState' = "STARTED" /\ code' = OK /\ version' = "h3"
    /\ buffered' = 0 /\ sent' = 0 /\ readable' = FALSE /\ asked' = {}
    /\ UNCHANGED <<request, expired, owed>>

Ended == pc = "over" /\ UNCHANGED vars

Next ==
    \/ HeadersArrive \/ PieceArrives \/ Finish \/ SignalProgress
    \/ OthersCancel
    \/ HeadersRound \/ AsyncHeadersRound \/ PollHeaders \/ HeadersRunOut
    \/ ResultRaises \/ HandOver \/ StartBody
    \/ BodyRound \/ AsyncBodyRound \/ ReadPiece \/ ReadEnd \/ ReadNothing
    \/ BodyRunOut \/ Final
    \/ Wake \/ TaskRuns \/ PollExpires \/ AsyncioExpires \/ TaskCancelled
    \/ Tick
    \/ FirstNext \/ NextPiece \/ Leave
    \/ Expired \/ WaitDone \/ RaiseTimeout \/ Cleanup
    \/ Close \/ FollowHop \/ Ended

Spec == Init /\ [][Next]_vars

-----------------------------------------------------------------------------
(* Properties.                                                             *)

\* How many times over one hop counts the timeout.
Countdowns == IF owner = "async" THEN 1 ELSE 2

\* Whatever the peer does and however the rounds fall, a request with a
\* timeout keeps its caller blocked on the network for no longer than that
\* timeout for each countdown it has begun: one per hop with asyncio, one for
\* the headers and one for the body otherwise.  A streaming consumer's own
\* time, which makes the `remaining` it polls with stale, adds nothing.
WithinBudget ==
    limit # NoLimit =>
        waited <= (hop + 1) * Countdowns * (IF limit < 0 THEN 0 ELSE limit)

\* The driver's own timeouts come less than two milliseconds before the time
\* asked for: less than one is lost to int() in _timeout_ms, less than one to
\* int() in _countdown, however many rounds of waiting there were.
NotEarly ==
    [][~expired /\ expired' => elapsed >= limit - 2 * (U - 1)]_vars

\* A blocking request is not reported as timed out while waiting for headers
\* if the network thread had signalled them (or the call's end) by then, even
\* when less than a millisecond was left.
HeadersBeatTheDeadline ==
    [][(pc \in {"headers", "pollHeaders"} /\ pc' = "expired"
        /\ owner \in Blocking)
         => callState = "STARTED" \/ owed]_vars

\* A request read whole that gives up reports Timeout and not the cancellation
\* it asked for itself.  Whoever drives the call, Cancelled means that somebody
\* else cancelled, and Timeout that a deadline or the network timed out.  The
\* consumer of a stream whose body runs out of time is left out: it gets the
\* built-in TimeoutError, which is no CronetError, although README.md's Errors
\* and errors.py say that everything raised is one.
OwnTimeoutIsNoCancel ==
    pc = "over" =>
        /\ expired /\ owner # "stream" => report = "Timeout"
        /\ report = "Cancelled" => "other" \in asked
        /\ report = "Timeout" => expired \/ code \in TimeoutErrors

\* What the documentation of timeout= says: "Seconds this request may take".
\* Here for one call, without a jar.
TotalIsTheTimeout ==
    limit # NoLimit /\ limit >= 0 /\ hop = 0 => waited <= limit
=============================================================================
