------------------------------- MODULE Engine -------------------------------
(***************************************************************************)
(* The life of an engine: the bookkeeping of _bridge.Engine (claims, live  *)
(* calls, close) over the native Engine of native/engine.cc (live_calls_,  *)
(* Destroy), with any number of Python threads starting requests, freeing  *)
(* them and closing the session.                                           *)
(*                                                                         *)
(* Each `with self._lock` block is one step.  A call is what CallLife says *)
(* of it: once cancelled, or once its transfer ends, the network thread    *)
(* unregisters it and then releases it; only then may it be freed.         *)
(* A call's handle is an address, which the allocator may hand out again   *)
(* as soon as it has been freed.  A Call that is dropped without close()   *)
(* is lost: nobody frees it, and its claim is never released.              *)
(***************************************************************************)
EXTENDS Integers, FiniteSets

CONSTANTS
    Threads,      \* Python threads sharing the session
    Handles,      \* addresses of native calls
    NoHandle,     \* None
    OpBound,      \* operations one thread makes (bounds the model)
    NestedClose   \* TRUE: close() may be called inside the caller's own stream

ASSUME EngineConstants ==
    /\ IsFiniteSet(Threads) /\ NoHandle \notin Handles
    /\ OpBound \in Nat /\ NestedClose \in BOOLEAN

VARIABLES
    \* _bridge.Engine
    open,         \* self._handle is not None
    liveCalls,    \* self._live_calls
    inFlight,     \* self._calls_in_flight
    waiters,      \* threads blocked in self._idle.wait()
    dropped,      \* the session was dropped without being closed
    lost,         \* the calls dropped without being closed
    \* native Engine
    engine,       \* alive, shutting (is_shutting_down_) or gone (deleted)
    registered,   \* live_calls_
    call,         \* what each handle's call is doing
    \* the threads
    pc,           \* where each thread stands
    mine,         \* the call each thread owns
    ops           \* operations each thread has left

pyVars == <<open, liveCalls, inFlight, waiters, dropped, lost>>
nativeVars == <<engine, registered, call>>
vars == <<pyVars, nativeVars, pc, mine, ops>>

\* Between _claim and _release.
Claimed == {"start", "failed", "add", "run", "free", "freeWait", "release"}
Closing == {"closing", "destroy", "destroyWait"}
Steps == {"idle"} \cup Claimed \cup Closing

Init ==
    /\ open = TRUE /\ liveCalls = {} /\ inFlight = 0 /\ waiters = {}
    /\ dropped = FALSE /\ lost = {}
    /\ engine = "alive" /\ registered = {}
    /\ call = [h \in Handles |-> "free"]
    /\ pc = [t \in Threads |-> "idle"]
    /\ mine = [t \in Threads |-> NoHandle]
    /\ ops = [t \in Threads |-> OpBound]

Goto(t, step) == pc' = [pc EXCEPT ![t] = step]

\* cronet_call_cancel on each of `handles`; a call that has let go ignores it.
Cancel(handles) ==
    [h \in Handles |-> IF h \in handles /\ call[h] = "live" THEN "cancelled"
                       ELSE call[h]]

-----------------------------------------------------------------------------
(* Engine.start.                                                           *)

\* _claim: refused with SessionClosed once close() has begun.
Claim(t) ==
    /\ pc[t] = "idle" /\ ops[t] > 0 /\ ~dropped
    /\ ops' = [ops EXCEPT ![t] = @ - 1]
    /\ IF open THEN Goto(t, "start") /\ inFlight' = inFlight + 1
               ELSE UNCHANGED <<pc, inFlight>>
    /\ UNCHANGED <<open, liveCalls, waiters, dropped, lost, nativeVars, mine>>

\* cronet_call_start: RegisterCall may be refused, the URL may be invalid.
\* The failing branch also stands for start_net_log and stop_net_log, which
\* claim the engine, make one native call and release it.
StartCall(t) ==
    /\ pc[t] = "start"
    /\ \/ /\ Goto(t, "failed")
          /\ UNCHANGED <<registered, call, mine>>
       \/ /\ engine = "alive"
          /\ \E h \in Handles :
               /\ call[h] = "free"
               /\ call' = [call EXCEPT ![h] = "live"]
               /\ registered' = registered \cup {h}
               /\ mine' = [mine EXCEPT ![t] = h]
          /\ Goto(t, "add")
    /\ UNCHANGED <<pyVars, engine, ops>>

\* Slip: the call is added without asking whether close() has begun.
AddCallOnly(t) ==
    /\ pc[t] = "add"
    /\ liveCalls' = liveCalls \cup {mine[t]}
    /\ Goto(t, "run")
    /\ UNCHANGED <<open, inFlight, waiters, dropped, lost, nativeVars, mine, ops>>

\* The end of start(): a close() that has begun already passed this call by.
AddCall(t) ==
    /\ pc[t] = "add"
    /\ liveCalls' = liveCalls \cup {mine[t]}
    /\ call' = IF open THEN call ELSE Cancel({mine[t]})
    /\ Goto(t, "run")
    /\ UNCHANGED <<open, inFlight, waiters, dropped, lost, engine, registered,
                   mine, ops>>

-----------------------------------------------------------------------------
(* Engine._free_call and _release.                                         *)

\* Slip: the handle is still listed while its call is freed.
KeepListed(t) ==
    /\ pc[t] = "run"
    /\ Goto(t, "free")
    /\ UNCHANGED <<pyVars, nativeVars, mine, ops>>

\* The owner is done with its call, for whatever reason.
Discard(t) ==
    /\ pc[t] = "run"
    /\ liveCalls' = liveCalls \ {mine[t]}
    /\ Goto(t, "free")
    /\ UNCHANGED <<open, inFlight, waiters, dropped, lost, nativeVars, mine, ops>>

\* Session.stream works out the timeout between start() and its try block; a
\* timeout int() refuses raises there, and the Call is dropped unclosed.
Forget(t) ==
    /\ pc[t] = "run"
    /\ lost' = lost \cup {mine[t]}
    /\ mine' = [mine EXCEPT ![t] = NoHandle]
    /\ Goto(t, "idle")
    /\ UNCHANGED <<open, liveCalls, inFlight, waiters, dropped, nativeVars, ops>>

\* Slip: freeing waits for a call it has not cancelled.
FreeWithoutCancel(t) ==
    /\ pc[t] = "free"
    /\ Goto(t, "freeWait")
    /\ UNCHANGED <<pyVars, nativeVars, mine, ops>>

\* cronet_call_free: Cancel, WaitForRelease, delete.
FreeCancel(t) ==
    /\ pc[t] = "free"
    /\ call' = Cancel({mine[t]})
    /\ Goto(t, "freeWait")
    /\ UNCHANGED <<pyVars, engine, registered, mine, ops>>

FreeWait(t) ==
    /\ pc[t] = "freeWait" /\ call[mine[t]] = "released"
    /\ call' = [call EXCEPT ![mine[t]] = "free"]
    /\ mine' = [mine EXCEPT ![t] = NoHandle]
    /\ Goto(t, "release")
    /\ UNCHANGED <<pyVars, engine, registered, ops>>

\* _release: notify_all wakes every waiter, who then tests the count again.
Release(t) ==
    /\ pc[t] \in {"release", "failed"}
    /\ inFlight' = inFlight - 1
    /\ waiters' = {}
    /\ Goto(t, "idle")
    /\ UNCHANGED <<open, liveCalls, dropped, lost, nativeVars, mine, ops>>

-----------------------------------------------------------------------------
(* The network thread: a call's request is torn down, because it ended or  *)
(* because it was cancelled.  RequestObserver::OnDestroyed first takes the *)
(* call off the engine's list and then, no longer under the engine's lock, *)
(* lets it go.                                                             *)

UnregisterCall(h) ==
    /\ call[h] \in {"live", "cancelled"}
    /\ call' = [call EXCEPT ![h] = "leaving"]
    /\ registered' = registered \ {h}
    /\ UNCHANGED <<pyVars, engine, pc, mine, ops>>

\* CallState::OnReleased.
OnReleased(h) ==
    /\ call[h] = "leaving"
    /\ call' = [call EXCEPT ![h] = "released"]
    /\ UNCHANGED <<pyVars, engine, registered, pc, mine, ops>>

-----------------------------------------------------------------------------
(* Engine.close and the native Engine::Destroy.                            *)

\* `while self._calls_in_flight: self._idle.wait()`
WaitIdle(t) ==
    IF inFlight = 0 THEN Goto(t, "destroy") /\ UNCHANGED waiters
                    ELSE Goto(t, "closing") /\ waiters' = waiters \cup {t}

\* Slip: close() destroys the engine without waiting for the count.
CloseAtOnce(t) ==
    /\ pc[t] = "idle" \/ (NestedClose /\ pc[t] = "run")
    /\ ops[t] > 0 /\ ~dropped
    /\ ops' = [ops EXCEPT ![t] = @ - 1]
    /\ IF ~open
       THEN UNCHANGED <<open, call, pc, waiters>>
       ELSE /\ open' = FALSE
            /\ call' = Cancel(liveCalls)
            /\ Goto(t, "destroy")
            /\ UNCHANGED waiters
    /\ UNCHANGED <<liveCalls, inFlight, dropped, lost, engine, registered, mine>>

\* close(), up to its first wait.  A second close() returns at once.
Close(t) ==
    /\ pc[t] = "idle" \/ (NestedClose /\ pc[t] = "run")
    /\ ops[t] > 0 /\ ~dropped
    /\ ops' = [ops EXCEPT ![t] = @ - 1]
    /\ IF ~open
       THEN UNCHANGED <<open, call, pc, waiters>>
       ELSE /\ open' = FALSE
            /\ call' = Cancel(liveCalls)
            /\ WaitIdle(t)
    /\ UNCHANGED <<liveCalls, inFlight, dropped, lost, engine, registered, mine>>

\* Woken by a _release.
CloseWoken(t) ==
    /\ pc[t] = "closing" /\ t \notin waiters
    /\ WaitIdle(t)
    /\ UNCHANGED <<open, liveCalls, inFlight, dropped, lost, nativeVars, mine, ops>>

\* Slip: the calls are waited for without being cancelled.
ShutdownOnly ==
    /\ engine' = "shutting"
    /\ UNCHANGED call

\* self._finalizer(): Engine::Destroy cancels what is registered and waits.
Shutdown ==
    /\ engine' = "shutting"
    /\ call' = Cancel(registered)

DestroyBegin(t) ==
    /\ pc[t] = "destroy"
    /\ Shutdown
    /\ Goto(t, "destroyWait")
    /\ UNCHANGED <<pyVars, registered, mine, ops>>

\* ... then deletes the context; close() returns.
DestroyEnd(t) ==
    /\ pc[t] = "destroyWait" /\ registered = {}
    /\ engine' = "gone"
    /\ Goto(t, IF mine[t] = NoHandle THEN "idle" ELSE "run")
    /\ UNCHANGED <<pyVars, registered, call, mine, ops>>

\* The session is dropped unclosed: weakref.finalize runs the destructor.  A
\* thread's Call refers to the engine, so an engine in use is not garbage; the
\* calls it finds in flight are the lost ones, cancelled and never collected.
Finalize ==
    /\ open /\ ~dropped /\ \A t \in Threads : pc[t] = "idle"
    /\ dropped' = TRUE
    /\ Shutdown
    /\ UNCHANGED <<open, liveCalls, inFlight, waiters, lost, registered, pc,
                   mine, ops>>

FinalizeEnd ==
    /\ dropped /\ engine = "shutting" /\ registered = {}
    /\ engine' = "gone"
    /\ UNCHANGED <<pyVars, registered, call, pc, mine, ops>>

-----------------------------------------------------------------------------

\* What a thread that has begun an operation does without waiting for a peer.
\* It leaves "run" at some time once its call has ended.
Progress(t) ==
    \/ StartCall(t) \/ AddCall(t) \/ FreeCancel(t) \/ FreeWait(t) \/ Release(t)
    \/ CloseWoken(t) \/ DestroyBegin(t) \/ DestroyEnd(t)

\* The end: the engine is gone, or a lost call keeps close() waiting.
Idle ==
    /\ \/ engine = "gone" /\ \A t \in Threads : pc[t] = "idle"
       \/ lost # {} /\ \A t \in Threads : pc[t] = "idle" \/ t \in waiters
    /\ UNCHANGED vars

Next ==
    \/ \E t \in Threads :
         Claim(t) \/ Close(t) \/ Discard(t) \/ Forget(t) \/ Progress(t)
    \/ \E h \in Handles : UnregisterCall(h) \/ OnReleased(h)
    \/ Finalize \/ FinalizeEnd \/ Idle

\* Threads run; a cancelled call is released whatever its peer does
\* (CallState's CancelReleases); its owner sees it end and frees it.
Fairness ==
    /\ \A t \in Threads :
         /\ WF_vars(Progress(t))
         /\ WF_vars(Discard(t) /\ call[mine[t]] # "live")
    /\ \A h \in Handles :
         /\ WF_vars(UnregisterCall(h) /\ call[h] = "cancelled")
         /\ WF_vars(OnReleased(h))
    /\ WF_vars(FinalizeEnd)

Spec == Init /\ [][Next]_vars /\ Fairness

-----------------------------------------------------------------------------
(* Properties.                                                             *)

\* Every member keeps its type; no more calls are counted than there are
\* threads to have claimed the engine and calls lost with their claim.
TypeOK ==
    /\ open \in BOOLEAN /\ dropped \in BOOLEAN
    /\ liveCalls \subseteq Handles /\ registered \subseteq Handles
    /\ lost \subseteq Handles /\ IsFiniteSet(lost)
    /\ inFlight \in 0..(Cardinality(Threads) + Cardinality(lost))
    /\ waiters \subseteq Threads
    /\ engine \in {"alive", "shutting", "gone"}
    /\ call \in [Handles -> {"free", "live", "cancelled", "leaving",
                              "released"}]
    /\ pc \in [Threads -> Steps]
    /\ mine \in [Threads -> Handles \cup {NoHandle}]
    /\ ops \in [Threads -> 0..OpBound]

\* _claim's purpose: while any thread is between _claim and _release, the
\* native engine it may be calling into has not begun to be destroyed.
EngineOutlivesItsUse ==
    (\E t \in Threads : pc[t] \in Claimed) => engine = "alive"

\* close() only ever cancels handles of calls that have not been freed, even
\* when the allocator reuses an address: each listed handle is the call of a
\* thread that still owns it, or was lost and will never be freed.
ListedCallsAreOwned ==
    \A h \in liveCalls :
        /\ call[h] # "free"
        /\ h \in lost \/ \E t \in Threads : mine[t] = h /\ pc[t] = "run"

\* Whether it was listed when close() cancelled or was still starting, no
\* call is left running after close() has begun.
NothingEscapesClose ==
    ~open => \A h \in liveCalls : call[h] # "live"

\* Run by close(), Engine::Destroy meets no registered call, so its loop that
\* cancels calls which may still be starting finds none.  Run by the
\* finalizer it meets only calls that were lost, never one a thread still
\* uses, and it leaves none of them running.
DestroyMeetsOnlyTheLost ==
    /\ (\E t \in Threads : pc[t] \in {"destroy", "destroyWait"}) =>
         registered = {}
    /\ dropped => \A h \in registered : h \in lost /\ call[h] = "cancelled"

\* "Cancel everything in flight, wait for it, then destroy the engine": every
\* close() that waits returns, although the network may never answer, unless
\* a call was lost: its claim is never released, and close() waits for ever.
CloseReturns ==
    \A t \in Threads :
        pc[t] = "closing" ~> pc[t] \in {"idle", "run"} \/ lost # {}

\* A session that has been closed destroys its engine, unless a call was
\* lost; one that is dropped does so even then.
ClosedIsDestroyed ==
    /\ ~open ~> engine = "gone" \/ lost # {}
    /\ dropped ~> engine = "gone"
=============================================================================
