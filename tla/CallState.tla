----------------------------- MODULE CallState -----------------------------
(***************************************************************************)
(* One native call: the CallState of native/call.cc, shared by             *)
(*   - the network thread, which runs the tasks posted to the request and  *)
(*     the RequestObserver's callbacks;                                    *)
(*   - the owner, a Python thread inside Session._perform, Session.stream  *)
(*     or AsyncSession._perform, driving the call through _bridge.Call;    *)
(*   - other threads, which may cancel the call (Engine.close).            *)
(*                                                                         *)
(* A step is one critical section, one atomic access or one system call.   *)
(* The network thread's position inside a callback is `net`, the owner's   *)
(* position inside its request is `own`.  Bytes are counted, not stored.   *)
(***************************************************************************)
EXTENDS Integers, Sequences

CONSTANTS
    HighWater,       \* kHighWaterBytes
    LowWater,        \* kLowWaterBytes
    ReadBufferSize,  \* kReadBufferSize, the most one network read delivers
    ChunkSize,       \* Call.CHUNK_SIZE, the most one cronet_call_read takes
    Limits,          \* values of cronet_request.max_redirects
    Owners,          \* the ways a call is driven, a subset of OwnerKinds
    TimedChoices,    \* whether a request may have a timeout
    BareEngine,      \* TRUE: the C ABI alone, without _bridge.Engine's guard
    BodyBound,       \* bytes the server sends at most (bounds the model)
    HopBound         \* redirects the server sends at most (bounds the model)

OwnerKinds == {"perform", "stream", "async"}

ASSUME WaterMarks ==
    /\ HighWater \in Nat /\ LowWater \in Nat /\ LowWater < HighWater
    /\ ReadBufferSize \in Nat \ {0} /\ ChunkSize \in Nat \ {0}

ASSUME Choices ==
    /\ Limits \subseteq Int /\ Owners \subseteq OwnerKinds
    /\ TimedChoices \subseteq BOOLEAN /\ BareEngine \in BOOLEAN
    /\ BodyBound \in Nat /\ HopBound \in Nat

VARIABLES
    \* --- CallState's members -------------------------------------------
    callState,         \* state_
    claimed,           \* outcome_claimed_
    published,         \* headers_published_: the view points at its storage
    errorCode,         \* response_.view.error_code ("OK" is 0)
    redirectCount,     \* response_.view.redirect_count
    metrics,           \* response_.view.metrics has been filled in
    finished,          \* the WaitableEvent finished_
    released,          \* the WaitableEvent released_
    attached,          \* request_ # nullptr
    destroyRequested,  \* destroy_requested_
    bodySize,          \* body_.size()
    bodyOffset,        \* body_offset_
    bodyComplete,      \* body_complete_
    readPaused,        \* read_paused_
    readable,          \* the eventfd completion_fd_ has a non-zero counter
    registered,        \* the call is in Engine::live_calls_
    \* --- the network thread --------------------------------------------
    tasks,             \* tasks posted with the request's pointer, in order
    req,               \* the CronetURLRequest
    net,               \* where the network thread stands in a callback
    verdict,           \* the outcome Finish() was first called with
    hops,              \* RequestObserver::redirect_count_
    maxRedirects,      \* RequestObserver::max_redirects_
    reported,          \* OnMetricsCollected has run
    sent,              \* body bytes the network has delivered
    \* --- the owner ------------------------------------------------------
    owner,             \* which of OwnerKinds drives the call
    timed,             \* whether its request has a timeout
    own,               \* where the owner stands
    got,               \* body bytes handed to the owner
    seenRedirects,     \* redirect_count of the response the owner was given
    report             \* how the request ended for the owner

flags == <<claimed, published, metrics, finished, released, registered>>
result == <<errorCode, redirectCount>>
lockVars == <<attached, destroyRequested>>
bodyVars == <<bodySize, bodyOffset, bodyComplete, readPaused>>
netVars == <<verdict, hops, reported, sent>>
config == <<maxRedirects, owner, timed>>
ownerVars == <<own, got, seenRedirects, report>>

vars == <<callState, readable, tasks, req, net, flags, result, lockVars,
          bodyVars, netVars, config, ownerVars>>

\* Everything only the owner's thread or another Python thread leaves alone.
sharedResult == <<callState, flags, result>>

CallStates == {"STARTED", "HEADERS", "DONE"}
Codes == {"OK", "ABORTED", "TOO_MANY_REDIRECTS", "NET_ERROR"}
Destroys == {"Destroy", "Cancel"}   \* Destroy(false) and Destroy(true)
Tasks == {"Start", "Follow", "Read"} \cup Destroys
Requests == {"none", "idle", "loading", "redirected", "open", "reading",
             "ended", "tearing", "gone"}
Finishing == {"result", "done", "event", "signalDone"}
NetSteps == {"idle", "follow", "headers", "signalHeaders", "count", "read",
             "signalKeep", "signalFull", "finish", "destroy", "onCanceled",
             "onDestroyed", "unregister", "detach", "release", "delete"}
            \cup Finishing
Waiting == {"pollHeaders", "pollBody"}
InFlight == {"drainHeaders", "checkHeaders", "lastCheck", "result",
             "drainBody", "read", "resume", "final", "expired", "waitDone",
             "cleanup", "cancel", "close"} \cup Waiting
OwnSteps == {"new", "attach", "post", "release", "freed"} \cup InFlight
Reports == {"none", "response", "streamed", "error", "timeout", "abandoned"}

Available == bodySize - bodyOffset
\* Slip: the copy is not clamped to what is buffered.
UnclampedLeast(a, b) == a
Least(a, b) == IF a < b THEN a ELSE b

\* spec.max_redirects < 0 ? 20 : spec.max_redirects
DefaultRedirects == 20
EffectiveLimit(n) == IF n < 0 THEN DefaultRedirects ELSE n

Init ==
    /\ callState = "STARTED" /\ errorCode = "OK" /\ redirectCount = 0
    /\ claimed = FALSE /\ published = FALSE /\ metrics = FALSE
    /\ finished = FALSE /\ released = FALSE /\ registered = FALSE
    /\ attached = FALSE /\ destroyRequested = FALSE
    /\ bodySize = 0 /\ bodyOffset = 0
    /\ bodyComplete = FALSE /\ readPaused = FALSE
    /\ readable = FALSE
    /\ tasks = <<>> /\ req = "none" /\ net = "idle"
    /\ verdict = "OK" /\ hops = 0 /\ reported = FALSE /\ sent = 0
    /\ maxRedirects \in {EffectiveLimit(n) : n \in Limits}
    /\ owner \in Owners /\ timed \in TimedChoices
    /\ own = "new" /\ got = 0 /\ seenRedirects = 0 /\ report = "none"

-----------------------------------------------------------------------------
(* Posting to the request, always under lock_.                             *)

\* Slip: the post does not ask whether teardown has begun.
PostUnlessDetached(task) ==
    tasks' = IF ~attached THEN tasks ELSE Append(tasks, task)

\* ReadData and FollowRedirect: refused once teardown has been asked for.
PostUnlessDestroyed(task) ==
    tasks' = IF destroyRequested \/ ~attached THEN tasks
             ELSE Append(tasks, task)

\* DestroyRequest(send_on_canceled)
DestroyRequest(task) ==
    /\ PostUnlessDestroyed(task)
    /\ destroyRequested' = (destroyRequested \/ attached)
    /\ UNCHANGED attached

-----------------------------------------------------------------------------
(* The network thread: tasks.                                              *)

\* A posted Start, Follow or Read reaches the request.
RunTask ==
    /\ net = "idle" /\ tasks # <<>> /\ Head(tasks) \notin Destroys
    /\ req' = IF Head(tasks) = "Read" THEN "reading" ELSE "loading"
    /\ tasks' = Tail(tasks)
    /\ UNCHANGED <<sharedResult, readable, net, lockVars, bodyVars, netVars,
                   config, ownerVars>>

\* Slip: a cancellation is torn down without OnCanceled.
RunDestroySilently ==
    /\ net = "idle" /\ tasks # <<>> /\ Head(tasks) \in Destroys
    /\ tasks' = Tail(tasks)
    /\ req' = "tearing"
    /\ metrics' = (metrics \/ (~reported /\ callState # "DONE"))
    /\ reported' = TRUE
    /\ net' = "onDestroyed"
    /\ UNCHANGED <<callState, claimed, published, finished, released,
                   registered, result, readable, lockVars, bodyVars, verdict,
                   hops, sent, config, ownerVars>>

\* A posted Destroy: no callback of the transfer can follow.  Metrics that no
\* terminal callback has reported are collected here (OnMetricsCollected and
\* set_metrics, which keeps quiet once the result is out).
RunDestroy ==
    /\ net = "idle" /\ tasks # <<>> /\ Head(tasks) \in Destroys
    /\ tasks' = Tail(tasks)
    /\ req' = "tearing"
    /\ metrics' = (metrics \/ (~reported /\ callState # "DONE"))
    /\ reported' = TRUE
    /\ net' = IF Head(tasks) = "Cancel" THEN "onCanceled" ELSE "onDestroyed"
    /\ UNCHANGED <<callState, claimed, published, finished, released,
                   registered, result, readable, lockVars, bodyVars, verdict,
                   hops, sent, config, ownerVars>>

-----------------------------------------------------------------------------
(* The network thread: callbacks that move the transfer on.                *)

\* OnReceivedRedirect below the limit: ++redirect_count_, then FollowRedirect.
OnReceivedRedirect ==
    /\ net = "idle" /\ req = "loading" /\ hops < HopBound
    /\ hops < maxRedirects
    /\ hops' = hops + 1
    /\ req' = "redirected"
    /\ net' = "follow"
    /\ UNCHANGED <<sharedResult, readable, tasks, lockVars, bodyVars, verdict,
                   reported, sent, config, ownerVars>>

FollowRedirect ==
    /\ net = "follow"
    /\ PostUnlessDestroyed("Follow")
    /\ net' = "idle"
    /\ UNCHANGED <<sharedResult, readable, req, lockVars, bodyVars, netVars,
                   config, ownerVars>>

\* OnReceivedRedirect at the limit and OnResponseStarted both begin with
\* OnResponse, which publishes the view and only then moves the state.
OnResponse(ends) ==
    /\ net = "idle" /\ req = "loading"
    /\ req' = ends
    /\ published' = TRUE
    /\ net' = "headers"
    /\ UNCHANGED <<callState, claimed, metrics, finished, released, registered,
                   result, readable, tasks, lockVars, bodyVars, netVars,
                   config, ownerVars>>

OnRedirectLimit ==
    /\ hops < HopBound /\ hops >= maxRedirects
    /\ OnResponse("redirected")

OnResponseStarted == OnResponse("open")

StoreHeaders ==
    /\ net = "headers"
    /\ callState' = "HEADERS"
    /\ net' = "signalHeaders"
    /\ UNCHANGED <<flags, result, readable, tasks, req, lockVars, bodyVars,
                   netVars, config, ownerVars>>

\* SignalProgress, and where each of its callers goes on.
SignalProgress ==
    /\ net \in {"signalHeaders", "signalKeep", "signalFull", "signalDone"}
    /\ readable' = TRUE
    /\ net' = CASE net = "signalHeaders" -> "count"
                [] net = "signalKeep" -> "read"
                [] net = "signalFull" -> "idle"
                [] net = "signalDone" ->
                     IF req = "tearing" THEN "onDestroyed" ELSE "destroy"
    /\ UNCHANGED <<sharedResult, tasks, req, lockVars, bodyVars, netVars,
                   config, ownerVars>>

\* Slip: only the redirect-limit path records the count.
SetRedirectCountAtLimit ==
    /\ net = "count"
    /\ redirectCount' = IF req = "open" THEN redirectCount ELSE hops
    /\ net' = IF req = "open" THEN "read" ELSE "finish"
    /\ UNCHANGED <<callState, flags, errorCode, readable, tasks, req, lockVars,
                   bodyVars, netVars, config, ownerVars>>

\* set_redirect_count, after OnResponse has already moved the state.
SetRedirectCount ==
    /\ net = "count"
    /\ redirectCount' = hops
    /\ net' = IF req = "open" THEN "read" ELSE "finish"
    /\ UNCHANGED <<callState, flags, errorCode, readable, tasks, req, lockVars,
                   bodyVars, netVars, config, ownerVars>>

ReadData ==
    /\ net = "read"
    /\ PostUnlessDestroyed("Read")
    /\ net' = "idle"
    /\ UNCHANGED <<sharedResult, readable, req, lockVars, bodyVars, netVars,
                   config, ownerVars>>

\* Slip: off by one at the high-water mark.
OnDataLate(n) ==
    /\ bodySize' = bodySize + n
    /\ readPaused' = (bodySize + n - bodyOffset > HighWater)
    /\ UNCHANGED <<bodyOffset, bodyComplete>>

\* OnData's critical section: append, and pause at the high-water mark.
OnData(n) ==
    /\ bodySize' = bodySize + n
    /\ readPaused' = (bodySize + n - bodyOffset >= HighWater)
    /\ UNCHANGED <<bodyOffset, bodyComplete>>

\* Slip: the read is issued again whatever OnData answered.
OnReadCompletedAlwaysReads ==
    /\ net = "idle" /\ req = "reading"
    /\ \E n \in 1..ReadBufferSize :
         /\ sent + n <= BodyBound
         /\ sent' = sent + n
         /\ OnData(n)
    /\ req' = "open"
    /\ net' = "signalKeep"
    /\ UNCHANGED <<sharedResult, readable, tasks, lockVars, verdict, hops,
                   reported, config, ownerVars>>

OnReadCompleted ==
    /\ net = "idle" /\ req = "reading"
    /\ \E n \in 1..ReadBufferSize :
         /\ sent + n <= BodyBound
         /\ sent' = sent + n
         /\ OnData(n)
    /\ req' = "open"
    /\ net' = IF readPaused' THEN "signalFull" ELSE "signalKeep"
    /\ UNCHANGED <<sharedResult, readable, tasks, lockVars, verdict, hops,
                   reported, config, ownerVars>>

-----------------------------------------------------------------------------
(* The network thread: callbacks that end the call, and Finish().          *)

\* Slip: a later outcome rewrites the first.
FinishAgain(code, after) ==
    /\ net' = "result"
    /\ claimed' = TRUE
    /\ verdict' = code
    /\ bodyComplete' = TRUE
    /\ readPaused' = FALSE
    /\ UNCHANGED <<bodySize, bodyOffset>>

\* Slip: a reader paused at the high-water mark stays paused.
FinishStillPaused(code, after) ==
    IF claimed
    THEN /\ net' = after
         /\ UNCHANGED <<claimed, verdict, bodyVars>>
    ELSE /\ net' = "result"
         /\ claimed' = TRUE
         /\ verdict' = code
         /\ bodyComplete' = TRUE
         /\ UNCHANGED <<bodySize, bodyOffset, readPaused>>

\* Finish up to the end of its critical section; `after` is where a call of
\* Finish that was not the first returns to.
Finish(code, after) ==
    IF claimed
    THEN /\ net' = after
         /\ UNCHANGED <<claimed, verdict, bodyVars>>
    ELSE /\ net' = "result"
         /\ claimed' = TRUE
         /\ verdict' = code
         /\ bodyComplete' = TRUE
         /\ readPaused' = FALSE
         /\ UNCHANGED <<bodySize, bodyOffset>>

unfinishing == <<callState, published, finished, released, registered, result,
                 readable, tasks, lockVars, hops, sent, config, ownerVars>>

\* The end of OnReceivedRedirect at the limit.
FinishAtLimit ==
    /\ net = "finish"
    /\ Finish(IF maxRedirects = 0 THEN "OK" ELSE "TOO_MANY_REDIRECTS",
              "destroy")
    /\ UNCHANGED <<unfinishing, req, metrics, reported>>

\* A terminal callback of the request, its metrics collected just before.
Terminal(code) ==
    /\ net = "idle"
    /\ req' = "ended"
    /\ metrics' = TRUE
    /\ reported' = TRUE
    /\ Finish(code, "destroy")
    /\ UNCHANGED unfinishing

OnSucceeded == req = "reading" /\ Terminal("OK")

OnError == req \in {"loading", "reading"} /\ Terminal("NET_ERROR")

OnCanceled ==
    /\ net = "onCanceled"
    /\ Finish("ABORTED", "onDestroyed")
    /\ UNCHANGED <<unfinishing, req, metrics, reported>>

\* Slip: nothing is left to do where the call has its outcome already.
OnDestroyedReturnsEarly ==
    /\ net = "onDestroyed"
    /\ IF claimed THEN net' = "idle" /\ UNCHANGED <<claimed, verdict, bodyVars>>
       ELSE Finish("ABORTED", "unregister")
    /\ UNCHANGED <<unfinishing, req, metrics, reported>>

\* OnDestroyed's own Finish is the last resort, then the call is unregistered.
OnDestroyed ==
    /\ net = "onDestroyed"
    /\ Finish("ABORTED", "unregister")
    /\ UNCHANGED <<unfinishing, req, metrics, reported>>

\* The rest of Finish: the result, the state, the event, the descriptor.
WriteResult ==
    /\ net = "result"
    /\ published' = TRUE
    /\ errorCode' = verdict
    /\ net' = "done"
    /\ UNCHANGED <<callState, claimed, metrics, finished, released, registered,
                   redirectCount, readable, tasks, req, lockVars, bodyVars,
                   netVars, config, ownerVars>>

StoreDone ==
    /\ net = "done"
    /\ callState' = "DONE"
    /\ net' = "event"
    /\ UNCHANGED <<flags, result, readable, tasks, req, lockVars, bodyVars,
                   netVars, config, ownerVars>>

SignalFinished ==
    /\ net = "event"
    /\ finished' = TRUE
    /\ net' = "signalDone"
    /\ UNCHANGED <<callState, claimed, published, metrics, released,
                   registered, result, readable, tasks, req, lockVars,
                   bodyVars, netVars, config, ownerVars>>

DestroyWithoutCancel ==
    /\ net = "destroy"
    /\ DestroyRequest("Destroy")
    /\ net' = "idle"
    /\ UNCHANGED <<sharedResult, readable, req, bodyVars, netVars, config,
                   ownerVars>>

\* engine_->UnregisterCall, which OnDestroyed makes before it releases.
UnregisterCall ==
    /\ net = "unregister"
    /\ registered' = FALSE
    /\ net' = "detach"
    /\ UNCHANGED <<callState, claimed, published, metrics, finished, released,
                   result, readable, tasks, req, lockVars, bodyVars, netVars,
                   config, ownerVars>>

\* OnReleased: request_ = nullptr under the lock, then released_.Signal().
Detach ==
    /\ net = "detach"
    /\ attached' = FALSE
    /\ net' = "release"
    /\ UNCHANGED <<sharedResult, readable, tasks, req, destroyRequested,
                   bodyVars, netVars, config, ownerVars>>

SignalReleased ==
    /\ net = "release"
    /\ released' = TRUE
    /\ net' = "delete"
    /\ UNCHANGED <<callState, claimed, published, metrics, finished,
                   registered, result, readable, tasks, req, lockVars,
                   bodyVars, netVars, config, ownerVars>>

\* Back in Cronet's Destroy task: the request deletes itself.
DeleteRequest ==
    /\ net = "delete"
    /\ req' = "gone"
    /\ net' = "idle"
    /\ UNCHANGED <<sharedResult, readable, tasks, lockVars, bodyVars, netVars,
                   config, ownerVars>>

-----------------------------------------------------------------------------
(* The owner: starting the call, up to the end of StartCall.               *)

\* RegisterCall, and the request constructed and configured.
RegisterCall ==
    /\ own = "new"
    /\ registered' = TRUE
    /\ req' = "idle"
    /\ own' = "attach"
    /\ UNCHANGED <<callState, claimed, published, metrics, finished, released,
                   result, readable, tasks, net, lockVars, bodyVars, netVars,
                   config, got, seenRedirects, report>>

AttachRequest ==
    /\ own = "attach"
    /\ attached' = TRUE
    /\ own' = "post"
    /\ UNCHANGED <<sharedResult, readable, tasks, req, net, destroyRequested,
                   bodyVars, netVars, config, got, seenRedirects, report>>

\* request->Start() posts, and it does so without lock_.
PostStart ==
    /\ own = "post"
    /\ tasks' = Append(tasks, "Start")
    /\ own' = "drainHeaders"
    /\ UNCHANGED <<sharedResult, readable, req, net, lockVars, bodyVars,
                   netVars, config, got, seenRedirects, report>>

-----------------------------------------------------------------------------
(* The owner: _bridge.Call and the three ways sessions drive it.           *)

\* What a step of the owner that touches neither the call's locks nor its
\* body leaves alone.
onlyOwner == <<sharedResult, tasks, req, net, lockVars, bodyVars, netVars,
               config>>

\* Slip: the body's loop drains the descriptor between its read and its wait.
DrainAfterReading ==
    /\ \/ own = "drainHeaders" /\ own' = "checkHeaders"
       \/ own = "drainBody" /\ own' = "read"
       \/ own = "pollBody" /\ UNCHANGED own
    /\ readable' = FALSE
    /\ UNCHANGED <<onlyOwner, got, seenRedirects, report>>

\* Call.drain: an 8-byte read empties the eventfd.
Drain ==
    /\ \/ own = "drainHeaders" /\ own' = "checkHeaders"
       \/ own = "drainBody" /\ own' = "read"
    /\ readable' = FALSE
    /\ UNCHANGED <<onlyOwner, got, seenRedirects, report>>

\* The state test of wait_for_headers; lastCheck is the one after the loop.
CheckHeaders ==
    /\ own \in {"checkHeaders", "lastCheck"}
    /\ own' = IF callState # "STARTED" THEN "result"
              ELSE IF own = "checkHeaders" THEN "pollHeaders" ELSE "expired"
    /\ UNCHANGED <<onlyOwner, readable, got, seenRedirects, report>>

\* wait_for_progress and _progress: the descriptor is level-triggered.
Poll ==
    /\ readable
    /\ \/ own = "pollHeaders" /\ own' = "drainHeaders"
       \/ own = "pollBody" /\ own' = "drainBody"
    /\ UNCHANGED <<onlyOwner, readable, got, seenRedirects, report>>

\* The deadline passes: in poll or at an await, or, for the two that use
\* _countdown, at the head of the loop.
Expire ==
    /\ timed
    /\ \/ own \in Waiting /\ own' = "expired"
       \/ own = "drainHeaders" /\ owner # "async" /\ own' = "lastCheck"
       \/ own = "drainBody" /\ owner # "async" /\ own' = "expired"
    /\ UNCHANGED <<onlyOwner, readable, got, seenRedirects, report>>

\* Where an exception raised inside the request goes: `finally`.
Unwind == IF owner = "perform" THEN "close" ELSE "cleanup"

\* The first call.result(): raises the call's error or hands the metadata on.
ReadResult ==
    /\ own = "result"
    /\ IF errorCode = "OK"
       THEN own' = "drainBody" /\ seenRedirects' = redirectCount
            /\ UNCHANGED report
       ELSE own' = Unwind /\ report' = "error" /\ UNCHANGED seenRedirects
    /\ UNCHANGED <<onlyOwner, readable, got>>

\* Call.read when bytes are buffered: CallState::Read's critical section.
Read ==
    /\ own = "read" /\ Available > 0
    /\ LET copied == Least(ChunkSize, Available)
           erase == bodyOffset + copied > Available - copied
           resume == readPaused /\ Available - copied <= LowWater
       IN /\ got' = got + copied
          /\ bodySize' = IF erase THEN Available - copied ELSE bodySize
          /\ bodyOffset' = IF erase THEN 0 ELSE bodyOffset + copied
          /\ readPaused' = (readPaused /\ ~resume)
          /\ own' = IF resume THEN "resume" ELSE "read"
    /\ UNCHANGED <<sharedResult, readable, tasks, req, net, lockVars,
                   bodyComplete, netVars, config, seenRedirects, report>>

\* Slip: draining below the low-water mark restarts nothing.
ResumeForgotten ==
    /\ own = "resume"
    /\ own' = "read"
    /\ UNCHANGED <<onlyOwner, readable, got, seenRedirects, report>>

\* The end of CallState::Read: ReadData, outside body_lock_.
Resume ==
    /\ own = "resume"
    /\ PostUnlessDestroyed("Read")
    /\ own' = "read"
    /\ UNCHANGED <<sharedResult, readable, req, net, lockVars, bodyVars,
                   netVars, config, got, seenRedirects, report>>

\* Slip: completion is reported ahead of the bytes still buffered.
ReadNothingOnceComplete ==
    /\ own = "read" /\ (Available = 0 \/ bodyComplete)
    /\ IF ~bodyComplete THEN own' = "pollBody" /\ UNCHANGED report
       ELSE IF owner = "stream" THEN own' = "cleanup" /\ report' = "streamed"
       ELSE own' = "final" /\ UNCHANGED report
    /\ UNCHANGED <<onlyOwner, readable, got, seenRedirects>>

\* Call.read when nothing is buffered: the end of the body, or wait for more.
ReadNothing ==
    /\ own = "read" /\ Available = 0
    /\ IF ~bodyComplete THEN own' = "pollBody" /\ UNCHANGED report
       ELSE IF owner = "stream" THEN own' = "cleanup" /\ report' = "streamed"
       ELSE own' = "final" /\ UNCHANGED report
    /\ UNCHANGED <<onlyOwner, readable, got, seenRedirects>>

\* The second call.result(), which makes the Response that is returned.
FinalResult ==
    /\ own = "final"
    /\ IF errorCode = "OK"
       THEN report' = "response" /\ seenRedirects' = redirectCount
       ELSE report' = "error" /\ UNCHANGED seenRedirects
    /\ own' = Unwind
    /\ UNCHANGED <<onlyOwner, readable, got>>

\* A streaming consumer leaves its block, or an awaiting task is cancelled.
Abandon ==
    /\ \/ owner = "stream" /\ own \in {"drainBody", "read"}
       \/ owner = "async" /\ own \in Waiting
    /\ own' = "cleanup"
    /\ report' = "abandoned"
    /\ UNCHANGED <<onlyOwner, readable, got, seenRedirects>>

\* Call.cancel, by the owner: _perform's `except TimeoutError`, the `finally`
\* of the other two, and cronet_call_free, which cancels before it waits.
OwnerCancel ==
    /\ \/ own = "expired" /\ owner = "perform" /\ own' = "waitDone"
       \/ own = "cancel" /\ own' = "close"
       \/ own = "close" /\ own' = "release"
    /\ DestroyRequest("Cancel")
    /\ report' = IF own = "expired" THEN "timeout" ELSE report
    /\ UNCHANGED <<sharedResult, readable, req, net, bodyVars, netVars, config,
                   got, seenRedirects>>

\* A timeout in the other two unwinds to `finally` without cancelling first.
RaiseTimeout ==
    /\ own = "expired" /\ owner # "perform"
    /\ own' = "cleanup"
    /\ report' = "timeout"
    /\ UNCHANGED <<onlyOwner, readable, got, seenRedirects>>

\* _perform's call.wait(-1) after a timeout.
WaitDone ==
    /\ own = "waitDone" /\ (finished \/ callState = "DONE")
    /\ own' = "close"
    /\ UNCHANGED <<onlyOwner, readable, got, seenRedirects, report>>

\* `if not call.wait(0)` in the `finally` of stream and AsyncSession._perform.
Cleanup ==
    /\ own = "cleanup"
    /\ own' = IF callState = "DONE" THEN "close" ELSE "cancel"
    /\ UNCHANGED <<onlyOwner, readable, got, seenRedirects, report>>

\* Slip: freeing waits for the outcome instead of for the release.
WaitForFinished ==
    /\ own = "release" /\ finished
    /\ own' = "freed"
    /\ UNCHANGED <<onlyOwner, readable, got, seenRedirects, report>>

\* cronet_call_free: WaitForRelease, then the handle is deleted.
WaitForRelease ==
    /\ own = "release" /\ released
    /\ own' = "freed"
    /\ UNCHANGED <<onlyOwner, readable, got, seenRedirects, report>>

-----------------------------------------------------------------------------
(* Another thread cancels.  Python's Engine only reaches calls between the *)
(* end of start() and close(); the native Engine::Destroy reaches every    *)
(* registered one.  A second cancel changes nothing and is left out.       *)
EngineCancel ==
    /\ own \in InFlight \/ (BareEngine /\ registered)
    /\ ~destroyRequested
    /\ DestroyRequest("Cancel")
    /\ UNCHANGED <<sharedResult, readable, req, net, bodyVars, netVars, config,
                   ownerVars>>

-----------------------------------------------------------------------------

\* What the peer decides: how a started request answers.
Server ==
    \/ OnReceivedRedirect \/ OnRedirectLimit \/ OnResponseStarted
    \/ OnReadCompleted \/ OnSucceeded \/ OnError

\* What the network thread does by itself: its tasks, and its callbacks to
\* their end.
Network ==
    \/ RunTask \/ RunDestroy \/ FollowRedirect \/ StoreHeaders
    \/ SignalProgress \/ SetRedirectCount \/ ReadData \/ FinishAtLimit
    \/ OnCanceled \/ OnDestroyed \/ WriteResult \/ StoreDone \/ SignalFinished
    \/ DestroyWithoutCancel \/ UnregisterCall \/ Detach \/ SignalReleased
    \/ DeleteRequest

Owner ==
    \/ RegisterCall \/ AttachRequest \/ PostStart \/ Drain \/ CheckHeaders
    \/ Poll \/ ReadResult \/ Read \/ Resume \/ ReadNothing
    \/ FinalResult \/ OwnerCancel \/ RaiseTimeout \/ WaitDone \/ Cleanup
    \/ WaitForRelease

\* The call is over on both sides.
Terminated ==
    /\ own = "freed" /\ req = "gone" /\ net = "idle" /\ tasks = <<>>
    /\ UNCHANGED vars

Next == Server \/ Network \/ Owner \/ Expire \/ Abandon \/ EngineCancel
        \/ Terminated

\* Both threads are scheduled; a deadline passes.  Only a request that has no
\* timeout needs its peer to keep answering.
Fairness ==
    /\ WF_vars(Network) /\ WF_vars(Owner) /\ WF_vars(Expire)
    /\ WF_vars(~timed /\ Server)

Spec == Init /\ [][Next]_vars /\ Fairness
-----------------------------------------------------------------------------
(* Properties.                                                             *)

FlagsOK ==
    /\ claimed \in BOOLEAN /\ published \in BOOLEAN /\ metrics \in BOOLEAN
    /\ finished \in BOOLEAN /\ released \in BOOLEAN /\ registered \in BOOLEAN
    /\ attached \in BOOLEAN /\ destroyRequested \in BOOLEAN
    /\ bodyComplete \in BOOLEAN /\ readPaused \in BOOLEAN
    /\ readable \in BOOLEAN /\ reported \in BOOLEAN /\ timed \in BOOLEAN

ValuesOK ==
    /\ callState \in CallStates /\ errorCode \in Codes /\ verdict \in Codes
    /\ redirectCount \in Nat /\ hops \in Nat /\ seenRedirects \in Nat
    /\ bodySize \in Nat /\ bodyOffset \in 0..bodySize
    /\ sent \in Nat /\ got \in Nat /\ maxRedirects \in Nat
    /\ tasks \in Seq(Tasks) /\ req \in Requests /\ net \in NetSteps
    /\ own \in OwnSteps /\ owner \in OwnerKinds /\ report \in Reports

\* Every member keeps its type; body_offset_ never passes the end of body_.
TypeOK == FlagsOK /\ ValuesOK

\* The rule of call.h's comment on ReadData: Destroy is the last task ever
\* posted with the request's pointer, so no queue [Destroy, Read] exists and
\* no task runs on a freed request.
NothingPostedAfterDestroy ==
    /\ \A i \in 1..Len(tasks) : tasks[i] \in Destroys => i = Len(tasks)
    /\ req \in {"tearing", "gone"} => tasks = <<>>

\* CronetURLRequest takes one operation at a time: Start on a new request,
\* Follow on a held redirect, Read on an open response with no read in
\* flight.  The read is handed between the network thread (OnReadCompleted)
\* and the owner (Read, which resumes it), and neither issues it twice.
Expects(task) == CASE task = "Start" -> "idle"
                   [] task = "Follow" -> "redirected"
                   [] task = "Read" -> "open"
OneOperationAtATime ==
    \A i \in 1..Len(tasks) :
        tasks[i] \notin Destroys => i = 1 /\ req = Expects(tasks[i])

\* cronet_call_read's promise that a bounded amount is buffered: what is
\* unread stays below the high-water mark plus one network read, and what has
\* been handed out but not yet erased never exceeds what is unread.
BoundedBuffer ==
    /\ Available < HighWater + ReadBufferSize
    /\ bodyOffset <= Available

\* A transfer is only ever paused on the owner: there is more to read than
\* the low-water mark, so reading on does reach the point that resumes it.
PausedOnTheOwner == readPaused => Available > LowWater /\ ~bodyComplete

\* SignalProgress's "a wakeup is never lost": an owner in poll for whom the
\* headers, bytes or the end are there already is about to be woken.
WakeupNeverLost ==
    /\ own = "pollHeaders" /\ callState # "STARTED" =>
         readable \/ net \in {"signalHeaders", "event", "signalDone"}
    /\ own = "pollBody" /\ (Available > 0 \/ bodyComplete) =>
         readable \/ net \in {"signalKeep", "signalFull"} \cup Finishing

\* CRONET_EOF means the whole body has been handed over, even when the call
\* was cancelled or failed while bytes were still buffered.
EofIsTheWholeBody ==
    own = "final" \/ report \in {"response", "streamed"} => got = sent

\* After cronet_call_free no callback is in flight, nothing is queued for the
\* request and the engine's live_calls_ no longer points at the call.
FreedIsQuiet ==
    own = "freed" =>
        /\ ~registered /\ ~attached /\ tasks = <<>>
        /\ net \in {"delete", "idle"} /\ req \in {"tearing", "gone"}

\* OnDestroyed's comment: no path reaches it without a terminal callback.
LastResortUnused == net = "onDestroyed" => claimed

\* The Response a request returns counts every redirect that was followed:
\* the second call.result() comes after set_redirect_count.
ReturnedRedirectCount == report = "response" => seenRedirects = hops

\* Finish's "only the first outcome counts", set_metrics's "the last word
\* goes to whoever published": once DONE is visible nothing that the owner may
\* be reading changes, and the state never moves back.
OutcomeFixed ==
    /\ callState = "DONE" =>
         UNCHANGED <<callState, result, metrics, published, sent>>
    /\ callState = "HEADERS" => callState' # "STARTED"
OutcomeIsFinal == [][OutcomeFixed]_vars

\* Every request ends: the owner gets an answer, an error or its timeout, and
\* the call is freed.  Backpressure and the descriptor cannot leave the owner
\* and the network thread waiting for one another.
CallEnds == <>(own = "freed")

\* A cancelled call lets go whatever the peer does.
CancelReleases == destroyRequested ~> released

\* session.py on the second call.result(): "This also surfaces a failure that
\* arrived mid-body."
FailureSurfaces == report = "response" => verdict = "OK"

\* call.h on state_: the owner reads no part of the response before the state
\* that publishes it, so a streamed response's redirect_count is the number
\* of redirects followed.
StreamedRedirectCount ==
    owner = "stream" /\ own = "drainBody" => seenRedirects = hops
=============================================================================
