-------------------------- MODULE CallStateProofs --------------------------
(***************************************************************************)
(* Proofs about CallState for every choice of its constants: every pair of *)
(* water marks, every buffer and chunk size, every redirect limit and a    *)
(* body of any length.                                                     *)
(***************************************************************************)
EXTENDS CallState, TLAPS

-----------------------------------------------------------------------------
(* The inductive invariant, one conjunct per protocol.                     *)

\* The task the network thread takes next.
Queued == IF tasks = <<>> THEN "none" ELSE Head(tasks)

\* No operation of the transfer is queued (a Destroy may be).
NoOp == Queued \in Destroys \cup {"none"}

\* The read is with the owner: paused, or about to be resumed.
Parked == readPaused \/ own = "resume"

\* Which callback the network thread may be in, by the state of the request.
NetInv ==
    /\ net \in {"follow", "finish"} => req = "redirected"
    /\ net \in {"headers", "signalHeaders", "count"} =>
         req \in {"open", "redirected"}
    /\ net \in {"read", "signalKeep", "signalFull"} => req = "open"
    /\ net \in Finishing => req \in {"ended", "redirected", "tearing"}
    /\ net = "destroy" => req \in {"ended", "redirected"}
    /\ net \in {"onCanceled", "onDestroyed", "unregister", "detach", "release",
                "delete"} => req = "tearing"
    /\ req = "tearing" => net # "idle"
    /\ req \in {"none", "idle", "loading", "reading", "gone"} => net = "idle"
    /\ req \in {"none", "idle"} /\ own \in {"new", "attach", "post"} =>
         tasks = <<>>
    /\ own = "new" => req = "none" /\ ~attached
    /\ own = "attach" => req = "idle" /\ ~attached
    /\ own = "post" => req = "idle" /\ attached

\* The posting rule, with what the destroy_requested_ flag records.
PostInv ==
    /\ NothingPostedAfterDestroy
    /\ destroyRequested <=>
         \/ \E i \in 1..Len(tasks) : tasks[i] \in Destroys
         \/ req \in {"tearing", "gone"}
    /\ own \in {"new", "attach", "post"} => ~destroyRequested

\* An operation is queued only for a request that is waiting for it, and by
\* the only party that may issue it.
QueueInv ==
    /\ \A i \in 2..Len(tasks) : tasks[i] \in Destroys
    /\ Queued = "Start" => req = "idle" /\ net = "idle"
    /\ Queued = "Follow" => req = "redirected" /\ net = "idle"
    /\ Queued = "Read" => /\ req = "open" /\ net \in {"idle", "signalFull"}
                          /\ ~Parked

\* While the read is with the owner the network thread does not issue one.
ParkInv ==
    /\ Parked => \/ req = "open" /\ net \in {"idle", "signalFull"}
                 \/ req \in {"tearing", "gone"}
    /\ own = "resume" => ~readPaused

\* Whoever may issue the read has room for what it brings.
RoomInv ==
    /\ BoundedBuffer
    /\ Available < HighWater \/ readPaused \/ req \in {"tearing", "gone"}
    /\ readPaused => Available > LowWater

\* Every byte the network delivered is buffered or handed out; none arrives
\* after the outcome was claimed.
BodyInv ==
    /\ sent = got + Available
    /\ bodyComplete = claimed
    /\ claimed => /\ req \in {"redirected", "ended", "tearing", "gone"}
                  /\ NoOp
    /\ readPaused => ~bodyComplete
    /\ own = "final" \/ report \in {"response", "streamed"} =>
         bodyComplete /\ Available = 0

\* One outcome: claimed before it is written, written before DONE is stored,
\* and a Destroy without a cancellation is posted only for a claimed one.
OutcomeInv ==
    /\ net \in Finishing \cup {"destroy", "onDestroyed", "unregister",
                              "detach", "release", "delete"} => claimed
    /\ net \in {"follow", "headers", "signalHeaders", "count", "read",
                "signalKeep", "signalFull", "finish"} => ~claimed
    /\ callState = "DONE" => claimed /\ net \notin {"result", "done"}
    /\ \A i \in 1..Len(tasks) : tasks[i] = "Destroy" => claimed

\* OnDestroyed lets go in order: the engine, then the lock, then the owner.
ReleaseInv ==
    /\ net \in {"detach", "release"} => ~registered
    /\ net = "release" => ~attached
    /\ net = "delete" => released
    /\ released => /\ ~registered /\ ~attached
                   /\ req \in {"tearing", "gone"} /\ net \in {"delete", "idle"}
    /\ own = "freed" => released

IInv == /\ TypeOK /\ NetInv /\ PostInv /\ QueueInv /\ ParkInv /\ RoomInv
        /\ BodyInv /\ OutcomeInv /\ ReleaseInv /\ WakeupNeverLost

-----------------------------------------------------------------------------
(* Type correctness.  The flags and the other values are taken apart: the  *)
(* first is a matter of logic, the second of arithmetic and sequences.     *)

USE DEF CallStates, Codes, Destroys, Tasks, Requests, Finishing, NetSteps,
        Waiting, InFlight, OwnSteps, Reports, OwnerKinds
USE DEF flags, result, lockVars, bodyVars, netVars, config, ownerVars,
        sharedResult, unfinishing, onlyOwner

\* Before RegisterCall every member has its declared initial value.
LEMMA InitType == Init => TypeOK
<1>1. Init => FlagsOK
  BY Choices DEF Init, FlagsOK
<1>2. Init => ValuesOK
  BY Choices DEF Init, ValuesOK, EffectiveLimit, DefaultRedirects
<1> QED
  BY <1>1, <1>2 DEF TypeOK

\* The flags stay Boolean, whichever thread sets them.
LEMMA NextFlags == FlagsOK /\ [Next]_vars => FlagsOK'
<1> SUFFICES ASSUME FlagsOK, [Next]_vars PROVE FlagsOK'
  OBVIOUS
<1>1. CASE OnReceivedRedirect
      BY <1>1 DEF OnReceivedRedirect, FlagsOK
<1>2. CASE OnRedirectLimit
      BY <1>2 DEF OnRedirectLimit, OnResponse, FlagsOK
<1>3. CASE OnResponseStarted
      BY <1>3 DEF OnResponseStarted, OnResponse, FlagsOK
<1>4. CASE OnReadCompleted
      BY <1>4 DEF OnReadCompleted, OnData, FlagsOK
<1>5. CASE OnSucceeded
      BY <1>5 DEF OnSucceeded, Terminal, Finish, FlagsOK
<1>6. CASE OnError
      BY <1>6 DEF OnError, Terminal, Finish, FlagsOK
<1>7. CASE RunTask
      BY <1>7 DEF RunTask, FlagsOK
<1>8. CASE RunDestroy
      BY <1>8 DEF RunDestroy, FlagsOK
<1>9. CASE FollowRedirect
      BY <1>9 DEF FollowRedirect, PostUnlessDestroyed, FlagsOK
<1>10. CASE StoreHeaders
      BY <1>10 DEF StoreHeaders, FlagsOK
<1>11. CASE SignalProgress
      BY <1>11 DEF SignalProgress, FlagsOK
<1>12. CASE SetRedirectCount
      BY <1>12 DEF SetRedirectCount, FlagsOK
<1>13. CASE ReadData
      BY <1>13 DEF ReadData, PostUnlessDestroyed, FlagsOK
<1>14. CASE FinishAtLimit
      BY <1>14, ZenonT(30) DEF FinishAtLimit, Finish, FlagsOK
<1>15. CASE OnCanceled
      BY <1>15, ZenonT(30) DEF OnCanceled, Finish, FlagsOK
<1>16. CASE OnDestroyed
      BY <1>16, ZenonT(30) DEF OnDestroyed, Finish, FlagsOK
<1>17. CASE WriteResult
      BY <1>17 DEF WriteResult, FlagsOK
<1>18. CASE StoreDone
      BY <1>18 DEF StoreDone, FlagsOK
<1>19. CASE SignalFinished
      BY <1>19 DEF SignalFinished, FlagsOK
<1>20. CASE DestroyWithoutCancel
      BY <1>20 DEF DestroyWithoutCancel, DestroyRequest, PostUnlessDestroyed,
         FlagsOK
<1>21. CASE UnregisterCall
      BY <1>21, ZenonT(30) DEF UnregisterCall, FlagsOK
<1>22. CASE Detach
      BY <1>22, ZenonT(30) DEF Detach, FlagsOK
<1>23. CASE SignalReleased
      BY <1>23 DEF SignalReleased, FlagsOK
<1>24. CASE DeleteRequest
      BY <1>24 DEF DeleteRequest, FlagsOK
<1>25. CASE RegisterCall
      BY <1>25 DEF RegisterCall, FlagsOK
<1>26. CASE AttachRequest
      BY <1>26 DEF AttachRequest, FlagsOK
<1>27. CASE PostStart
      BY <1>27 DEF PostStart, FlagsOK
<1>28. CASE Drain
      BY <1>28, ZenonT(30) DEF Drain, FlagsOK
<1>29. CASE CheckHeaders
      BY <1>29 DEF CheckHeaders, FlagsOK
<1>30. CASE Poll
      BY <1>30 DEF Poll, FlagsOK
<1>31. CASE ReadResult
      BY <1>31 DEF ReadResult, Unwind, FlagsOK
<1>32. CASE Read
      BY <1>32 DEF Read, Least, Available, FlagsOK
<1>33. CASE Resume
      BY <1>33 DEF Resume, PostUnlessDestroyed, FlagsOK
<1>34. CASE ReadNothing
      BY <1>34 DEF ReadNothing, FlagsOK
<1>35. CASE FinalResult
      BY <1>35 DEF FinalResult, Unwind, FlagsOK
<1>36. CASE OwnerCancel
      BY <1>36 DEF OwnerCancel, DestroyRequest, PostUnlessDestroyed, FlagsOK
<1>37. CASE RaiseTimeout
      BY <1>37 DEF RaiseTimeout, FlagsOK
<1>38. CASE WaitDone
      BY <1>38 DEF WaitDone, FlagsOK
<1>39. CASE Cleanup
      BY <1>39 DEF Cleanup, FlagsOK
<1>40. CASE WaitForRelease
      BY <1>40 DEF WaitForRelease, FlagsOK
<1>41. CASE Expire
      BY <1>41 DEF Expire, FlagsOK
<1>42. CASE Abandon
      BY <1>42 DEF Abandon, FlagsOK
<1>43. CASE EngineCancel
      BY <1>43 DEF EngineCancel, DestroyRequest, PostUnlessDestroyed, FlagsOK
<1>44. CASE Terminated
      BY <1>44 DEF Terminated, vars, FlagsOK
<1>45. CASE UNCHANGED vars
      BY <1>45 DEF vars, FlagsOK
<1> QED
      BY <1>1, <1>2, <1>3, <1>4, <1>5, <1>6, <1>7, <1>8, <1>9, <1>10, <1>11,
         <1>12, <1>13, <1>14, <1>15, <1>16, <1>17, <1>18, <1>19, <1>20, <1>21,
         <1>22, <1>23, <1>24, <1>25, <1>26, <1>27, <1>28, <1>29, <1>30, <1>31,
         <1>32, <1>33, <1>34, <1>35, <1>36, <1>37, <1>38, <1>39, <1>40, <1>41,
         <1>42, <1>43, <1>44, <1>45
      DEF Next, Server, Network, Owner

\* Sizes, counters, the queue and both positions keep their ranges.
LEMMA NextValues == ValuesOK /\ [Next]_vars => ValuesOK'
<1> SUFFICES ASSUME ValuesOK, [Next]_vars PROVE ValuesOK'
  OBVIOUS
<1> USE WaterMarks, Choices
<1>1. CASE OnReceivedRedirect
      BY <1>1 DEF OnReceivedRedirect, ValuesOK
<1>2. CASE OnRedirectLimit
      BY <1>2 DEF OnRedirectLimit, OnResponse, ValuesOK
<1>3. CASE OnResponseStarted
      BY <1>3 DEF OnResponseStarted, OnResponse, ValuesOK
<1>4. CASE OnReadCompleted
      BY <1>4 DEF OnReadCompleted, OnData, ValuesOK
<1>5. CASE OnSucceeded
      BY <1>5 DEF OnSucceeded, Terminal, Finish, ValuesOK
<1>6. CASE OnError
      BY <1>6 DEF OnError, Terminal, Finish, ValuesOK
<1>7. CASE RunTask
      BY <1>7 DEF RunTask, ValuesOK
<1>8. CASE RunDestroy
      BY <1>8 DEF RunDestroy, ValuesOK
<1>9. CASE FollowRedirect
      BY <1>9 DEF FollowRedirect, PostUnlessDestroyed, ValuesOK
<1>10. CASE StoreHeaders
      BY <1>10 DEF StoreHeaders, ValuesOK
<1>11. CASE SignalProgress
      BY <1>11 DEF SignalProgress, ValuesOK
<1>12. CASE SetRedirectCount
      BY <1>12 DEF SetRedirectCount, ValuesOK
<1>13. CASE ReadData
      BY <1>13 DEF ReadData, PostUnlessDestroyed, ValuesOK
<1>14. CASE FinishAtLimit
      BY <1>14 DEF FinishAtLimit, Finish, ValuesOK
<1>15. CASE OnCanceled
      BY <1>15 DEF OnCanceled, Finish, ValuesOK
<1>16. CASE OnDestroyed
      BY <1>16 DEF OnDestroyed, Finish, ValuesOK
<1>17. CASE WriteResult
      BY <1>17 DEF WriteResult, ValuesOK
<1>18. CASE StoreDone
      BY <1>18 DEF StoreDone, ValuesOK
<1>19. CASE SignalFinished
      BY <1>19 DEF SignalFinished, ValuesOK
<1>20. CASE DestroyWithoutCancel
      BY <1>20 DEF DestroyWithoutCancel, DestroyRequest, PostUnlessDestroyed,
         ValuesOK
<1>21. CASE UnregisterCall
      BY <1>21 DEF UnregisterCall, ValuesOK
<1>22. CASE Detach
      BY <1>22 DEF Detach, ValuesOK
<1>23. CASE SignalReleased
      BY <1>23 DEF SignalReleased, ValuesOK
<1>24. CASE DeleteRequest
      BY <1>24 DEF DeleteRequest, ValuesOK
<1>25. CASE RegisterCall
      BY <1>25 DEF RegisterCall, ValuesOK
<1>26. CASE AttachRequest
      BY <1>26 DEF AttachRequest, ValuesOK
<1>27. CASE PostStart
      BY <1>27 DEF PostStart, ValuesOK
<1>28. CASE Drain
      BY <1>28 DEF Drain, ValuesOK
<1>29. CASE CheckHeaders
      BY <1>29 DEF CheckHeaders, ValuesOK
<1>30. CASE Poll
      BY <1>30 DEF Poll, ValuesOK
<1>31. CASE ReadResult
      BY <1>31 DEF ReadResult, Unwind, ValuesOK
<1>32. CASE Read
      BY <1>32 DEF Read, Least, Available, ValuesOK
<1>33. CASE Resume
      BY <1>33 DEF Resume, PostUnlessDestroyed, ValuesOK
<1>34. CASE ReadNothing
      BY <1>34 DEF ReadNothing, ValuesOK
<1>35. CASE FinalResult
      BY <1>35 DEF FinalResult, Unwind, ValuesOK
<1>36. CASE OwnerCancel
      BY <1>36 DEF OwnerCancel, DestroyRequest, PostUnlessDestroyed, ValuesOK
<1>37. CASE RaiseTimeout
      BY <1>37 DEF RaiseTimeout, ValuesOK
<1>38. CASE WaitDone
      BY <1>38 DEF WaitDone, ValuesOK
<1>39. CASE Cleanup
      BY <1>39 DEF Cleanup, ValuesOK
<1>40. CASE WaitForRelease
      BY <1>40 DEF WaitForRelease, ValuesOK
<1>41. CASE Expire
      BY <1>41 DEF Expire, ValuesOK
<1>42. CASE Abandon
      BY <1>42 DEF Abandon, ValuesOK
<1>43. CASE EngineCancel
      BY <1>43 DEF EngineCancel, DestroyRequest, PostUnlessDestroyed,
         ValuesOK
<1>44. CASE Terminated
      BY <1>44 DEF Terminated, vars, ValuesOK
<1>45. CASE UNCHANGED vars
      BY <1>45 DEF vars, ValuesOK
<1> QED
      BY <1>1, <1>2, <1>3, <1>4, <1>5, <1>6, <1>7, <1>8, <1>9, <1>10, <1>11,
         <1>12, <1>13, <1>14, <1>15, <1>16, <1>17, <1>18, <1>19, <1>20, <1>21,
         <1>22, <1>23, <1>24, <1>25, <1>26, <1>27, <1>28, <1>29, <1>30, <1>31,
         <1>32, <1>33, <1>34, <1>35, <1>36, <1>37, <1>38, <1>39, <1>40, <1>41,
         <1>42, <1>43, <1>44, <1>45
      DEF Next, Server, Network, Owner

\* Type correctness: each member of CallState, the request, and the positions
\* of both threads stay what native/call.h and _bridge.py declare.  In
\* particular body_offset_ never passes the end of body_.
THEOREM TypeCorrect == Spec => []TypeOK
<1>1. Init => TypeOK
  BY InitType
<1>2. TypeOK /\ [Next]_vars => TypeOK'
  BY NextFlags, NextValues DEF TypeOK
<1> QED
  BY <1>1, <1>2, PTL DEF Spec

-----------------------------------------------------------------------------
(* The posting rule.  NetInv places the network thread; PostInv ties the   *)
(* destroy_requested_ flag to the queue.                                   *)

\* What taking the first task leaves in the queue.
LEMMA TailTask ==
  ASSUME NEW q \in Seq(Tasks), q # <<>>
  PROVE  /\ Len(q) \in Nat \ {0} /\ Len(Tail(q)) = Len(q) - 1
         /\ \A i \in 1..Len(Tail(q)) : Tail(q)[i] = q[i + 1]
         /\ Head(q) = q[1]
         /\ Len(q) = 1 => Tail(q) = <<>>
<1> DEFINE rest == Tail(q)
<1>1. /\ Len(q) \in Nat \ {0} /\ rest \in Seq(Tasks)
      /\ Len(rest) = Len(q) - 1 /\ Head(q) = q[1]
  OBVIOUS
<1>2. \A i \in 1..Len(rest) : rest[i] = q[i + 1]
  OBVIOUS
<1> HIDE DEF rest
<1>3. Len(q) = 1 => rest = <<>>
  BY <1>1
<1> QED
  BY <1>1, <1>2, <1>3 DEF rest

\* The position of the network thread is determined by its own callbacks.
LEMMA NextNet ==
  ASSUME BareEngine = FALSE, TypeOK, NetInv, PostInv, [Next]_vars
  PROVE  NetInv'
<1> USE DEF TypeOK, FlagsOK, ValuesOK
<1>1. CASE OnReceivedRedirect
      BY <1>1 DEF OnReceivedRedirect, NetInv, PostInv,
         NothingPostedAfterDestroy
<1>2. CASE OnRedirectLimit
      BY <1>2 DEF OnRedirectLimit, OnResponse, NetInv, PostInv,
         NothingPostedAfterDestroy
<1>3. CASE OnResponseStarted
      BY <1>3 DEF OnResponseStarted, OnResponse, NetInv, PostInv,
         NothingPostedAfterDestroy
<1>4. CASE OnReadCompleted
      BY <1>4 DEF OnReadCompleted, OnData, NetInv, PostInv,
         NothingPostedAfterDestroy
<1>5. CASE OnSucceeded
      BY <1>5 DEF OnSucceeded, Terminal, Finish, NetInv, PostInv,
         NothingPostedAfterDestroy
<1>6. CASE OnError
      BY <1>6 DEF OnError, Terminal, Finish, NetInv, PostInv,
         NothingPostedAfterDestroy
<1>7. CASE RunTask
      BY <1>7 DEF RunTask, NetInv, PostInv, NothingPostedAfterDestroy
<1>8. CASE RunDestroy
      BY <1>8 DEF RunDestroy, NetInv, PostInv, NothingPostedAfterDestroy
<1>9. CASE FollowRedirect
      BY <1>9 DEF FollowRedirect, PostUnlessDestroyed, NetInv, PostInv,
         NothingPostedAfterDestroy
<1>10. CASE StoreHeaders
      BY <1>10 DEF StoreHeaders, NetInv, PostInv, NothingPostedAfterDestroy
<1>11. CASE SignalProgress
      BY <1>11 DEF SignalProgress, NetInv, PostInv, NothingPostedAfterDestroy
<1>12. CASE SetRedirectCount
      BY <1>12 DEF SetRedirectCount, NetInv, PostInv,
         NothingPostedAfterDestroy
<1>13. CASE ReadData
      BY <1>13 DEF ReadData, PostUnlessDestroyed, NetInv, PostInv,
         NothingPostedAfterDestroy
<1>14. CASE FinishAtLimit
      BY <1>14 DEF FinishAtLimit, Finish, NetInv, PostInv,
         NothingPostedAfterDestroy
<1>15. CASE OnCanceled
      BY <1>15 DEF OnCanceled, Finish, NetInv, PostInv,
         NothingPostedAfterDestroy
<1>16. CASE OnDestroyed
      BY <1>16 DEF OnDestroyed, Finish, NetInv, PostInv,
         NothingPostedAfterDestroy
<1>17. CASE WriteResult
      BY <1>17 DEF WriteResult, NetInv, PostInv, NothingPostedAfterDestroy
<1>18. CASE StoreDone
      BY <1>18 DEF StoreDone, NetInv, PostInv, NothingPostedAfterDestroy
<1>19. CASE SignalFinished
      BY <1>19 DEF SignalFinished, NetInv, PostInv, NothingPostedAfterDestroy
<1>20. CASE DestroyWithoutCancel
      BY <1>20 DEF DestroyWithoutCancel, DestroyRequest, PostUnlessDestroyed,
         NetInv, PostInv, NothingPostedAfterDestroy
<1>21. CASE UnregisterCall
      BY <1>21 DEF UnregisterCall, NetInv, PostInv, NothingPostedAfterDestroy
<1>22. CASE Detach
      BY <1>22 DEF Detach, NetInv, PostInv, NothingPostedAfterDestroy
<1>23. CASE SignalReleased
      BY <1>23 DEF SignalReleased, NetInv, PostInv, NothingPostedAfterDestroy
<1>24. CASE DeleteRequest
      BY <1>24 DEF DeleteRequest, NetInv, PostInv, NothingPostedAfterDestroy
<1>25. CASE RegisterCall
      BY <1>25 DEF RegisterCall, NetInv, PostInv, NothingPostedAfterDestroy
<1>26. CASE AttachRequest
      BY <1>26 DEF AttachRequest, NetInv, PostInv, NothingPostedAfterDestroy
<1>27. CASE PostStart
      BY <1>27 DEF PostStart, NetInv, PostInv, NothingPostedAfterDestroy
<1>28. CASE Drain
      BY <1>28 DEF Drain, NetInv, PostInv, NothingPostedAfterDestroy
<1>29. CASE CheckHeaders
      BY <1>29 DEF CheckHeaders, NetInv, PostInv, NothingPostedAfterDestroy
<1>30. CASE Poll
      BY <1>30 DEF Poll, NetInv, PostInv, NothingPostedAfterDestroy
<1>31. CASE ReadResult
      BY <1>31 DEF ReadResult, Unwind, NetInv, PostInv,
         NothingPostedAfterDestroy
<1>32. CASE Read
      BY <1>32 DEF Read, Least, Available, NetInv, PostInv,
         NothingPostedAfterDestroy
<1>33. CASE Resume
      BY <1>33 DEF Resume, PostUnlessDestroyed, NetInv, PostInv,
         NothingPostedAfterDestroy
<1>34. CASE ReadNothing
      BY <1>34 DEF ReadNothing, NetInv, PostInv, NothingPostedAfterDestroy
<1>35. CASE FinalResult
      BY <1>35 DEF FinalResult, Unwind, NetInv, PostInv,
         NothingPostedAfterDestroy
<1>36. CASE OwnerCancel
      BY <1>36 DEF OwnerCancel, DestroyRequest, PostUnlessDestroyed, NetInv,
         PostInv, NothingPostedAfterDestroy
<1>37. CASE RaiseTimeout
      BY <1>37 DEF RaiseTimeout, NetInv, PostInv, NothingPostedAfterDestroy
<1>38. CASE WaitDone
      BY <1>38 DEF WaitDone, NetInv, PostInv, NothingPostedAfterDestroy
<1>39. CASE Cleanup
      BY <1>39 DEF Cleanup, NetInv, PostInv, NothingPostedAfterDestroy
<1>40. CASE WaitForRelease
      BY <1>40 DEF WaitForRelease, NetInv, PostInv, NothingPostedAfterDestroy
<1>41. CASE Expire
      BY <1>41 DEF Expire, NetInv, PostInv, NothingPostedAfterDestroy
<1>42. CASE Abandon
      BY <1>42 DEF Abandon, NetInv, PostInv, NothingPostedAfterDestroy
<1>43. CASE EngineCancel
      BY <1>43 DEF EngineCancel, DestroyRequest, PostUnlessDestroyed, NetInv,
         PostInv, NothingPostedAfterDestroy
<1>44. CASE Terminated
      BY <1>44 DEF Terminated, vars, NetInv, PostInv,
         NothingPostedAfterDestroy
<1>45. CASE UNCHANGED vars
      BY <1>45 DEF vars, NetInv, PostInv, NothingPostedAfterDestroy
<1> QED
      BY <1>1, <1>2, <1>3, <1>4, <1>5, <1>6, <1>7, <1>8, <1>9, <1>10, <1>11,
         <1>12, <1>13, <1>14, <1>15, <1>16, <1>17, <1>18, <1>19, <1>20, <1>21,
         <1>22, <1>23, <1>24, <1>25, <1>26, <1>27, <1>28, <1>29, <1>30, <1>31,
         <1>32, <1>33, <1>34, <1>35, <1>36, <1>37, <1>38, <1>39, <1>40, <1>41,
         <1>42, <1>43, <1>44, <1>45
      DEF Next, Server, Network, Owner

\* Under lock_ nothing is queued behind a Destroy.
LEMMA NextPost ==
  ASSUME BareEngine = FALSE, TypeOK, NetInv, PostInv, [Next]_vars
  PROVE  PostInv'
<1> USE DEF TypeOK, FlagsOK, ValuesOK, NetInv
<1>1. CASE OnReceivedRedirect
      BY <1>1 DEF OnReceivedRedirect, PostInv, NothingPostedAfterDestroy
<1>2. CASE OnRedirectLimit
      BY <1>2 DEF OnRedirectLimit, OnResponse, PostInv,
         NothingPostedAfterDestroy
<1>3. CASE OnResponseStarted
      BY <1>3 DEF OnResponseStarted, OnResponse, PostInv,
         NothingPostedAfterDestroy
<1>4. CASE OnReadCompleted
      BY <1>4 DEF OnReadCompleted, OnData, PostInv, NothingPostedAfterDestroy
<1>5. CASE OnSucceeded
      BY <1>5 DEF OnSucceeded, Terminal, Finish, PostInv,
         NothingPostedAfterDestroy
<1>6. CASE OnError
      BY <1>6 DEF OnError, Terminal, Finish, PostInv,
         NothingPostedAfterDestroy
<1>7. CASE RunTask
      BY <1>7, TailTask DEF RunTask, PostInv, NothingPostedAfterDestroy
<1>8. CASE RunDestroy
      BY <1>8, TailTask DEF RunDestroy, PostInv, NothingPostedAfterDestroy
<1>9. CASE FollowRedirect
      BY <1>9 DEF FollowRedirect, PostUnlessDestroyed, PostInv,
         NothingPostedAfterDestroy
<1>10. CASE StoreHeaders
      BY <1>10 DEF StoreHeaders, PostInv, NothingPostedAfterDestroy
<1>11. CASE SignalProgress
      BY <1>11 DEF SignalProgress, PostInv, NothingPostedAfterDestroy
<1>12. CASE SetRedirectCount
      BY <1>12 DEF SetRedirectCount, PostInv, NothingPostedAfterDestroy
<1>13. CASE ReadData
      BY <1>13 DEF ReadData, PostUnlessDestroyed, PostInv,
         NothingPostedAfterDestroy
<1>14. CASE FinishAtLimit
      BY <1>14 DEF FinishAtLimit, Finish, PostInv, NothingPostedAfterDestroy
<1>15. CASE OnCanceled
      BY <1>15 DEF OnCanceled, Finish, PostInv, NothingPostedAfterDestroy
<1>16. CASE OnDestroyed
      BY <1>16 DEF OnDestroyed, Finish, PostInv, NothingPostedAfterDestroy
<1>17. CASE WriteResult
      BY <1>17 DEF WriteResult, PostInv, NothingPostedAfterDestroy
<1>18. CASE StoreDone
      BY <1>18 DEF StoreDone, PostInv, NothingPostedAfterDestroy
<1>19. CASE SignalFinished
      BY <1>19 DEF SignalFinished, PostInv, NothingPostedAfterDestroy
<1>20. CASE DestroyWithoutCancel
      BY <1>20 DEF DestroyWithoutCancel, DestroyRequest, PostUnlessDestroyed,
         PostInv, NothingPostedAfterDestroy
<1>21. CASE UnregisterCall
      BY <1>21 DEF UnregisterCall, PostInv, NothingPostedAfterDestroy
<1>22. CASE Detach
      BY <1>22 DEF Detach, PostInv, NothingPostedAfterDestroy
<1>23. CASE SignalReleased
      BY <1>23 DEF SignalReleased, PostInv, NothingPostedAfterDestroy
<1>24. CASE DeleteRequest
      BY <1>24 DEF DeleteRequest, PostInv, NothingPostedAfterDestroy
<1>25. CASE RegisterCall
      BY <1>25 DEF RegisterCall, PostInv, NothingPostedAfterDestroy
<1>26. CASE AttachRequest
      BY <1>26 DEF AttachRequest, PostInv, NothingPostedAfterDestroy
<1>27. CASE PostStart
      BY <1>27 DEF PostStart, PostInv, NothingPostedAfterDestroy
<1>28. CASE Drain
      BY <1>28 DEF Drain, PostInv, NothingPostedAfterDestroy
<1>29. CASE CheckHeaders
      BY <1>29 DEF CheckHeaders, PostInv, NothingPostedAfterDestroy
<1>30. CASE Poll
      BY <1>30 DEF Poll, PostInv, NothingPostedAfterDestroy
<1>31. CASE ReadResult
      BY <1>31 DEF ReadResult, Unwind, PostInv, NothingPostedAfterDestroy
<1>32. CASE Read
      BY <1>32 DEF Read, Least, Available, PostInv, NothingPostedAfterDestroy
<1>33. CASE Resume
      BY <1>33 DEF Resume, PostUnlessDestroyed, PostInv,
         NothingPostedAfterDestroy
<1>34. CASE ReadNothing
      BY <1>34 DEF ReadNothing, PostInv, NothingPostedAfterDestroy
<1>35. CASE FinalResult
      BY <1>35 DEF FinalResult, Unwind, PostInv, NothingPostedAfterDestroy
<1>36. CASE OwnerCancel
      BY <1>36 DEF OwnerCancel, DestroyRequest, PostUnlessDestroyed, PostInv,
         NothingPostedAfterDestroy
<1>37. CASE RaiseTimeout
      BY <1>37 DEF RaiseTimeout, PostInv, NothingPostedAfterDestroy
<1>38. CASE WaitDone
      BY <1>38 DEF WaitDone, PostInv, NothingPostedAfterDestroy
<1>39. CASE Cleanup
      BY <1>39 DEF Cleanup, PostInv, NothingPostedAfterDestroy
<1>40. CASE WaitForRelease
      BY <1>40 DEF WaitForRelease, PostInv, NothingPostedAfterDestroy
<1>41. CASE Expire
      BY <1>41 DEF Expire, PostInv, NothingPostedAfterDestroy
<1>42. CASE Abandon
      BY <1>42 DEF Abandon, PostInv, NothingPostedAfterDestroy
<1>43. CASE EngineCancel
      BY <1>43 DEF EngineCancel, DestroyRequest, PostUnlessDestroyed,
         PostInv, NothingPostedAfterDestroy
<1>44. CASE Terminated
      BY <1>44 DEF Terminated, vars, PostInv, NothingPostedAfterDestroy
<1>45. CASE UNCHANGED vars
      BY <1>45 DEF vars, PostInv, NothingPostedAfterDestroy
<1> QED
      BY <1>1, <1>2, <1>3, <1>4, <1>5, <1>6, <1>7, <1>8, <1>9, <1>10, <1>11,
         <1>12, <1>13, <1>14, <1>15, <1>16, <1>17, <1>18, <1>19, <1>20, <1>21,
         <1>22, <1>23, <1>24, <1>25, <1>26, <1>27, <1>28, <1>29, <1>30, <1>31,
         <1>32, <1>33, <1>34, <1>35, <1>36, <1>37, <1>38, <1>39, <1>40, <1>41,
         <1>42, <1>43, <1>44, <1>45
      DEF Next, Server, Network, Owner

-----------------------------------------------------------------------------
(* The single outstanding read, and the bound on the buffer.               *)

\* The next task is one of the five, or there is none.
LEMMA QueuedRange == ValuesOK => Queued \in Tasks \cup {"none"}
  BY DEF ValuesOK, Queued

\* Without an operation or a Destroy the queue is empty.
LEMMA EmptyQueue ==
  ASSUME ValuesOK, PostInv, NoOp, ~destroyRequested
  PROVE  tasks = <<>>
  BY DEF ValuesOK, PostInv, NoOp, Queued

\* The queue keeps its shape: each operation is posted once, when its request
\* is ready for it.
LEMMA NextQueue ==
  ASSUME BareEngine = FALSE, TypeOK, NetInv, PostInv, QueueInv, ParkInv,
         [Next]_vars
  PROVE  QueueInv'
<1> USE DEF TypeOK, FlagsOK, ValuesOK, NetInv, ParkInv, Parked
<1>1. CASE OnReceivedRedirect
      BY <1>1 DEF OnReceivedRedirect, QueueInv, Queued
<1>2. CASE OnRedirectLimit
      BY <1>2 DEF OnRedirectLimit, OnResponse, QueueInv, Queued
<1>3. CASE OnResponseStarted
      BY <1>3 DEF OnResponseStarted, OnResponse, QueueInv, Queued
<1>4. CASE OnReadCompleted
      BY <1>4 DEF OnReadCompleted, OnData, QueueInv, Queued
<1>5. CASE OnSucceeded
      BY <1>5 DEF OnSucceeded, Terminal, Finish, QueueInv, Queued
<1>6. CASE OnError
      BY <1>6 DEF OnError, Terminal, Finish, QueueInv, Queued
<1>7. CASE RunTask
      BY <1>7 DEF RunTask, QueueInv, Queued
<1>8. CASE RunDestroy
      BY <1>8 DEF RunDestroy, QueueInv, Queued
<1>9. CASE FollowRedirect
  <2>1. NoOp
    BY <1>9, QueuedRange DEF FollowRedirect, QueueInv, NoOp
  <2>2. CASE destroyRequested \/ ~attached
    BY <1>9, <2>2 DEF FollowRedirect, PostUnlessDestroyed, QueueInv, Queued
  <2>3. CASE ~destroyRequested /\ attached
    <3>1. tasks = <<>>
      BY <2>1, <2>3, EmptyQueue
    <3>2. tasks' = <<"Follow">> /\ Queued' = "Follow" /\ Len(tasks') = 1
      BY <1>9, <2>3, <3>1 DEF FollowRedirect, PostUnlessDestroyed, Queued
    <3> QED
      BY <1>9, <2>3, <3>2 DEF FollowRedirect, QueueInv, PostInv
  <2> QED
    BY <2>2, <2>3
<1>10. CASE StoreHeaders
      BY <1>10 DEF StoreHeaders, QueueInv, Queued
<1>11. CASE SignalProgress
      BY <1>11 DEF SignalProgress, QueueInv, Queued
<1>12. CASE SetRedirectCount
      BY <1>12 DEF SetRedirectCount, QueueInv, Queued
<1>13. CASE ReadData
  <2>1. NoOp
    BY <1>13, QueuedRange DEF ReadData, QueueInv, NoOp
  <2>2. CASE destroyRequested \/ ~attached
    BY <1>13, <2>2 DEF ReadData, PostUnlessDestroyed, QueueInv, Queued
  <2>3. CASE ~destroyRequested /\ attached
    <3>1. tasks = <<>>
      BY <2>1, <2>3, EmptyQueue
    <3>2. tasks' = <<"Read">> /\ Queued' = "Read" /\ Len(tasks') = 1
      BY <1>13, <2>3, <3>1 DEF ReadData, PostUnlessDestroyed, Queued
    <3> QED
      BY <1>13, <2>3, <3>2 DEF ReadData, QueueInv, PostInv
  <2> QED
    BY <2>2, <2>3
<1>14. CASE FinishAtLimit
      BY <1>14 DEF FinishAtLimit, Finish, QueueInv, Queued
<1>15. CASE OnCanceled
      BY <1>15 DEF OnCanceled, Finish, QueueInv, Queued
<1>16. CASE OnDestroyed
      BY <1>16 DEF OnDestroyed, Finish, QueueInv, Queued
<1>17. CASE WriteResult
      BY <1>17 DEF WriteResult, QueueInv, Queued
<1>18. CASE StoreDone
      BY <1>18 DEF StoreDone, QueueInv, Queued
<1>19. CASE SignalFinished
      BY <1>19 DEF SignalFinished, QueueInv, Queued
<1>20. CASE DestroyWithoutCancel
      BY <1>20 DEF DestroyWithoutCancel, DestroyRequest, PostUnlessDestroyed,
         QueueInv, Queued
<1>21. CASE UnregisterCall
      BY <1>21 DEF UnregisterCall, QueueInv, Queued
<1>22. CASE Detach
      BY <1>22 DEF Detach, QueueInv, Queued
<1>23. CASE SignalReleased
      BY <1>23 DEF SignalReleased, QueueInv, Queued
<1>24. CASE DeleteRequest
      BY <1>24 DEF DeleteRequest, QueueInv, Queued
<1>25. CASE RegisterCall
      BY <1>25 DEF RegisterCall, QueueInv, Queued
<1>26. CASE AttachRequest
      BY <1>26 DEF AttachRequest, QueueInv, Queued
<1>27. CASE PostStart
      BY <1>27 DEF PostStart, QueueInv, Queued
<1>28. CASE Drain
      BY <1>28 DEF Drain, QueueInv, Queued
<1>29. CASE CheckHeaders
      BY <1>29 DEF CheckHeaders, QueueInv, Queued
<1>30. CASE Poll
      BY <1>30 DEF Poll, QueueInv, Queued
<1>31. CASE ReadResult
      BY <1>31 DEF ReadResult, Unwind, QueueInv, Queued
<1>32. CASE Read
      BY <1>32 DEF Read, Least, Available, QueueInv, Queued
<1>33. CASE Resume
  <2>1. NoOp
    BY <1>33, QueuedRange DEF Resume, QueueInv, NoOp
  <2>2. CASE destroyRequested \/ ~attached
    BY <1>33, <2>2 DEF Resume, PostUnlessDestroyed, QueueInv, Queued
  <2>3. CASE ~destroyRequested /\ attached
    <3>1. tasks = <<>>
      BY <2>1, <2>3, EmptyQueue
    <3>2. tasks' = <<"Read">> /\ Queued' = "Read" /\ Len(tasks') = 1
      BY <1>33, <2>3, <3>1 DEF Resume, PostUnlessDestroyed, Queued
    <3> QED
      BY <1>33, <2>3, <3>2 DEF Resume, QueueInv, PostInv
  <2> QED
    BY <2>2, <2>3
<1>34. CASE ReadNothing
      BY <1>34 DEF ReadNothing, QueueInv, Queued
<1>35. CASE FinalResult
      BY <1>35 DEF FinalResult, Unwind, QueueInv, Queued
<1>36. CASE OwnerCancel
      BY <1>36 DEF OwnerCancel, DestroyRequest, PostUnlessDestroyed,
         QueueInv, Queued
<1>37. CASE RaiseTimeout
      BY <1>37 DEF RaiseTimeout, QueueInv, Queued
<1>38. CASE WaitDone
      BY <1>38 DEF WaitDone, QueueInv, Queued
<1>39. CASE Cleanup
      BY <1>39 DEF Cleanup, QueueInv, Queued
<1>40. CASE WaitForRelease
      BY <1>40 DEF WaitForRelease, QueueInv, Queued
<1>41. CASE Expire
      BY <1>41 DEF Expire, QueueInv, Queued
<1>42. CASE Abandon
      BY <1>42 DEF Abandon, QueueInv, Queued
<1>43. CASE EngineCancel
      BY <1>43 DEF EngineCancel, DestroyRequest, PostUnlessDestroyed,
         QueueInv, Queued
<1>44. CASE Terminated
      BY <1>44 DEF Terminated, vars, QueueInv, Queued
<1>45. CASE UNCHANGED vars
      BY <1>45 DEF vars, QueueInv, Queued
<1> QED
      BY <1>1, <1>2, <1>3, <1>4, <1>5, <1>6, <1>7, <1>8, <1>9, <1>10, <1>11,
         <1>12, <1>13, <1>14, <1>15, <1>16, <1>17, <1>18, <1>19, <1>20, <1>21,
         <1>22, <1>23, <1>24, <1>25, <1>26, <1>27, <1>28, <1>29, <1>30, <1>31,
         <1>32, <1>33, <1>34, <1>35, <1>36, <1>37, <1>38, <1>39, <1>40, <1>41,
         <1>42, <1>43, <1>44, <1>45
      DEF Next, Server, Network, Owner

\* The read passes from hand to hand and is never issued twice.
LEMMA NextPark ==
  ASSUME BareEngine = FALSE, TypeOK, NetInv, PostInv, QueueInv, ParkInv,
         [Next]_vars
  PROVE  ParkInv'
<1> USE DEF TypeOK, FlagsOK, ValuesOK, NetInv, Parked
<1>1. CASE OnReceivedRedirect
      BY <1>1 DEF OnReceivedRedirect, ParkInv
<1>2. CASE OnRedirectLimit
      BY <1>2 DEF OnRedirectLimit, OnResponse, ParkInv
<1>3. CASE OnResponseStarted
      BY <1>3 DEF OnResponseStarted, OnResponse, ParkInv
<1>4. CASE OnReadCompleted
      BY <1>4 DEF OnReadCompleted, OnData, ParkInv
<1>5. CASE OnSucceeded
      BY <1>5 DEF OnSucceeded, Terminal, Finish, ParkInv
<1>6. CASE OnError
      BY <1>6 DEF OnError, Terminal, Finish, ParkInv
<1>7. CASE RunTask
  <2>1. Parked => req \in {"tearing", "gone"}
    BY <1>7 DEF RunTask, ParkInv, QueueInv, Queued
  <2>2. ~Parked
    BY <1>7, <2>1 DEF RunTask, PostInv, NothingPostedAfterDestroy
  <2> QED
    BY <1>7, <2>2 DEF RunTask, ParkInv
<1>8. CASE RunDestroy
      BY <1>8 DEF RunDestroy, ParkInv
<1>9. CASE FollowRedirect
      BY <1>9 DEF FollowRedirect, PostUnlessDestroyed, ParkInv
<1>10. CASE StoreHeaders
      BY <1>10 DEF StoreHeaders, ParkInv
<1>11. CASE SignalProgress
      BY <1>11 DEF SignalProgress, ParkInv
<1>12. CASE SetRedirectCount
      BY <1>12 DEF SetRedirectCount, ParkInv
<1>13. CASE ReadData
      BY <1>13 DEF ReadData, PostUnlessDestroyed, ParkInv
<1>14. CASE FinishAtLimit
      BY <1>14 DEF FinishAtLimit, Finish, ParkInv
<1>15. CASE OnCanceled
      BY <1>15 DEF OnCanceled, Finish, ParkInv
<1>16. CASE OnDestroyed
      BY <1>16 DEF OnDestroyed, Finish, ParkInv
<1>17. CASE WriteResult
      BY <1>17 DEF WriteResult, ParkInv
<1>18. CASE StoreDone
      BY <1>18 DEF StoreDone, ParkInv
<1>19. CASE SignalFinished
      BY <1>19 DEF SignalFinished, ParkInv
<1>20. CASE DestroyWithoutCancel
      BY <1>20 DEF DestroyWithoutCancel, DestroyRequest, PostUnlessDestroyed,
         ParkInv
<1>21. CASE UnregisterCall
      BY <1>21 DEF UnregisterCall, ParkInv
<1>22. CASE Detach
      BY <1>22 DEF Detach, ParkInv
<1>23. CASE SignalReleased
      BY <1>23 DEF SignalReleased, ParkInv
<1>24. CASE DeleteRequest
      BY <1>24 DEF DeleteRequest, ParkInv
<1>25. CASE RegisterCall
      BY <1>25 DEF RegisterCall, ParkInv
<1>26. CASE AttachRequest
      BY <1>26 DEF AttachRequest, ParkInv
<1>27. CASE PostStart
      BY <1>27 DEF PostStart, ParkInv
<1>28. CASE Drain
      BY <1>28 DEF Drain, ParkInv
<1>29. CASE CheckHeaders
      BY <1>29 DEF CheckHeaders, ParkInv
<1>30. CASE Poll
      BY <1>30 DEF Poll, ParkInv
<1>31. CASE ReadResult
      BY <1>31 DEF ReadResult, Unwind, ParkInv
<1>32. CASE Read
      BY <1>32 DEF Read, Least, Available, ParkInv
<1>33. CASE Resume
      BY <1>33 DEF Resume, PostUnlessDestroyed, ParkInv
<1>34. CASE ReadNothing
      BY <1>34 DEF ReadNothing, ParkInv
<1>35. CASE FinalResult
      BY <1>35 DEF FinalResult, Unwind, ParkInv
<1>36. CASE OwnerCancel
      BY <1>36 DEF OwnerCancel, DestroyRequest, PostUnlessDestroyed, ParkInv
<1>37. CASE RaiseTimeout
      BY <1>37 DEF RaiseTimeout, ParkInv
<1>38. CASE WaitDone
      BY <1>38 DEF WaitDone, ParkInv
<1>39. CASE Cleanup
      BY <1>39 DEF Cleanup, ParkInv
<1>40. CASE WaitForRelease
      BY <1>40 DEF WaitForRelease, ParkInv
<1>41. CASE Expire
      BY <1>41 DEF Expire, ParkInv
<1>42. CASE Abandon
      BY <1>42 DEF Abandon, ParkInv
<1>43. CASE EngineCancel
      BY <1>43 DEF EngineCancel, DestroyRequest, PostUnlessDestroyed, ParkInv
<1>44. CASE Terminated
      BY <1>44 DEF Terminated, vars, ParkInv
<1>45. CASE UNCHANGED vars
      BY <1>45 DEF vars, ParkInv
<1> QED
      BY <1>1, <1>2, <1>3, <1>4, <1>5, <1>6, <1>7, <1>8, <1>9, <1>10, <1>11,
         <1>12, <1>13, <1>14, <1>15, <1>16, <1>17, <1>18, <1>19, <1>20, <1>21,
         <1>22, <1>23, <1>24, <1>25, <1>26, <1>27, <1>28, <1>29, <1>30, <1>31,
         <1>32, <1>33, <1>34, <1>35, <1>36, <1>37, <1>38, <1>39, <1>40, <1>41,
         <1>42, <1>43, <1>44, <1>45
      DEF Next, Server, Network, Owner

\* The buffer: appended to only when there is room, erased as it is read.
LEMMA NextRoom ==
  ASSUME BareEngine = FALSE, TypeOK, NetInv, PostInv, ParkInv, RoomInv,
         [Next]_vars
  PROVE  RoomInv'
<1> USE WaterMarks DEF TypeOK, FlagsOK, ValuesOK, NetInv, ParkInv, Parked,
        BoundedBuffer, Available
<1>1. CASE OnReceivedRedirect
      BY <1>1 DEF OnReceivedRedirect, RoomInv
<1>2. CASE OnRedirectLimit
      BY <1>2 DEF OnRedirectLimit, OnResponse, RoomInv
<1>3. CASE OnResponseStarted
      BY <1>3 DEF OnResponseStarted, OnResponse, RoomInv
<1>4. CASE OnReadCompleted
  <2>1. ~readPaused /\ Available < HighWater
    BY <1>4 DEF OnReadCompleted, RoomInv
  <2>2. PICK n \in 1..ReadBufferSize : OnData(n)
    BY <1>4 DEF OnReadCompleted
  <2>3. bodyOffset' = bodyOffset /\ Available' = Available + n
    BY <2>2 DEF OnData
  <2>4. readPaused' <=> bodySize + n - bodyOffset >= HighWater
    BY <2>2, Zenon DEF OnData
  <2>5. readPaused' <=> Available + n >= HighWater
    BY <2>4
  <2> QED
    BY <2>1, <2>3, <2>5 DEF RoomInv
<1>5. CASE OnSucceeded
      BY <1>5 DEF OnSucceeded, Terminal, Finish, RoomInv
<1>6. CASE OnError
      BY <1>6 DEF OnError, Terminal, Finish, RoomInv
<1>7. CASE RunTask
  <2>1. req \notin {"tearing", "gone"}
    BY <1>7 DEF RunTask, PostInv, NothingPostedAfterDestroy
  <2> QED
    BY <1>7, <2>1 DEF RunTask, RoomInv
<1>8. CASE RunDestroy
      BY <1>8 DEF RunDestroy, RoomInv
<1>9. CASE FollowRedirect
      BY <1>9 DEF FollowRedirect, PostUnlessDestroyed, RoomInv
<1>10. CASE StoreHeaders
      BY <1>10 DEF StoreHeaders, RoomInv
<1>11. CASE SignalProgress
      BY <1>11 DEF SignalProgress, RoomInv
<1>12. CASE SetRedirectCount
      BY <1>12 DEF SetRedirectCount, RoomInv
<1>13. CASE ReadData
      BY <1>13 DEF ReadData, PostUnlessDestroyed, RoomInv
<1>14. CASE FinishAtLimit
      BY <1>14 DEF FinishAtLimit, Finish, RoomInv
<1>15. CASE OnCanceled
      BY <1>15 DEF OnCanceled, Finish, RoomInv
<1>16. CASE OnDestroyed
      BY <1>16 DEF OnDestroyed, Finish, RoomInv
<1>17. CASE WriteResult
      BY <1>17 DEF WriteResult, RoomInv
<1>18. CASE StoreDone
      BY <1>18 DEF StoreDone, RoomInv
<1>19. CASE SignalFinished
      BY <1>19 DEF SignalFinished, RoomInv
<1>20. CASE DestroyWithoutCancel
      BY <1>20 DEF DestroyWithoutCancel, DestroyRequest, PostUnlessDestroyed,
         RoomInv
<1>21. CASE UnregisterCall
      BY <1>21 DEF UnregisterCall, RoomInv
<1>22. CASE Detach
      BY <1>22 DEF Detach, RoomInv
<1>23. CASE SignalReleased
      BY <1>23 DEF SignalReleased, RoomInv
<1>24. CASE DeleteRequest
      BY <1>24 DEF DeleteRequest, RoomInv
<1>25. CASE RegisterCall
      BY <1>25 DEF RegisterCall, RoomInv
<1>26. CASE AttachRequest
      BY <1>26 DEF AttachRequest, RoomInv
<1>27. CASE PostStart
      BY <1>27 DEF PostStart, RoomInv
<1>28. CASE Drain
      BY <1>28 DEF Drain, RoomInv
<1>29. CASE CheckHeaders
      BY <1>29 DEF CheckHeaders, RoomInv
<1>30. CASE Poll
      BY <1>30 DEF Poll, RoomInv
<1>31. CASE ReadResult
      BY <1>31 DEF ReadResult, Unwind, RoomInv
<1>32. CASE Read
  <2> DEFINE copied == Least(ChunkSize, Available)
             left == Available - copied
  <2>1. copied \in Nat /\ copied <= Available
    BY <1>32 DEF Read, Least
  <2>2. Available' = left /\ bodyOffset' <= left /\ left <= Available
       /\ left \in Nat
    BY <1>32, <2>1, SMTT(20) DEF Read, RoomInv
  <2>3. readPaused' => readPaused /\ ~(readPaused /\ left <= LowWater)
    BY <1>32, Zenon DEF Read
  <2>4. readPaused => left <= LowWater \/ readPaused'
    BY <1>32, Zenon DEF Read
  <2>5. UNCHANGED req
    BY <1>32 DEF Read
  <2> HIDE DEF left
  <2> QED
    BY <2>2, <2>3, <2>4, <2>5 DEF RoomInv
<1>33. CASE Resume
      BY <1>33 DEF Resume, PostUnlessDestroyed, RoomInv
<1>34. CASE ReadNothing
      BY <1>34 DEF ReadNothing, RoomInv
<1>35. CASE FinalResult
      BY <1>35 DEF FinalResult, Unwind, RoomInv
<1>36. CASE OwnerCancel
      BY <1>36 DEF OwnerCancel, DestroyRequest, PostUnlessDestroyed, RoomInv
<1>37. CASE RaiseTimeout
      BY <1>37 DEF RaiseTimeout, RoomInv
<1>38. CASE WaitDone
      BY <1>38 DEF WaitDone, RoomInv
<1>39. CASE Cleanup
      BY <1>39 DEF Cleanup, RoomInv
<1>40. CASE WaitForRelease
      BY <1>40 DEF WaitForRelease, RoomInv
<1>41. CASE Expire
      BY <1>41 DEF Expire, RoomInv
<1>42. CASE Abandon
      BY <1>42 DEF Abandon, RoomInv
<1>43. CASE EngineCancel
      BY <1>43 DEF EngineCancel, DestroyRequest, PostUnlessDestroyed, RoomInv
<1>44. CASE Terminated
      BY <1>44 DEF Terminated, vars, RoomInv
<1>45. CASE UNCHANGED vars
      BY <1>45 DEF vars, RoomInv
<1> QED
      BY <1>1, <1>2, <1>3, <1>4, <1>5, <1>6, <1>7, <1>8, <1>9, <1>10, <1>11,
         <1>12, <1>13, <1>14, <1>15, <1>16, <1>17, <1>18, <1>19, <1>20, <1>21,
         <1>22, <1>23, <1>24, <1>25, <1>26, <1>27, <1>28, <1>29, <1>30, <1>31,
         <1>32, <1>33, <1>34, <1>35, <1>36, <1>37, <1>38, <1>39, <1>40, <1>41,
         <1>42, <1>43, <1>44, <1>45
      DEF Next, Server, Network, Owner

\* No byte is lost or counted twice, and none arrives after the outcome.
LEMMA NextBody ==
  ASSUME BareEngine = FALSE, TypeOK, NetInv, PostInv, QueueInv, ParkInv,
         BodyInv, OutcomeInv, [Next]_vars
  PROVE  BodyInv'
<1> USE DEF TypeOK, FlagsOK, ValuesOK, NetInv, Available, NoOp, OutcomeInv
<1>1. CASE OnReceivedRedirect
      BY <1>1 DEF OnReceivedRedirect, BodyInv, Queued
<1>2. CASE OnRedirectLimit
      BY <1>2 DEF OnRedirectLimit, OnResponse, BodyInv, Queued
<1>3. CASE OnResponseStarted
      BY <1>3 DEF OnResponseStarted, OnResponse, BodyInv, Queued
<1>4. CASE OnReadCompleted
      BY <1>4 DEF OnReadCompleted, OnData, BodyInv, Queued
<1>5. CASE OnSucceeded
  <2>1. NoOp /\ UNCHANGED Queued /\ ~claimed
    BY <1>5, QueuedRange DEF OnSucceeded, Terminal, QueueInv, BodyInv, Queued
  <2> QED
    BY <1>5, <2>1 DEF OnSucceeded, Terminal, Finish, BodyInv
<1>6. CASE OnError
  <2>1. NoOp /\ UNCHANGED Queued /\ ~claimed
    BY <1>6, QueuedRange DEF OnError, Terminal, QueueInv, BodyInv, Queued
  <2> QED
    BY <1>6, <2>1 DEF OnError, Terminal, Finish, BodyInv
<1>7. CASE RunTask
      BY <1>7 DEF RunTask, BodyInv, Queued
<1>8. CASE RunDestroy
  <2>1. tasks' = <<>>
    BY <1>8, TailTask DEF RunDestroy, PostInv, NothingPostedAfterDestroy
  <2> QED
    BY <1>8, <2>1 DEF RunDestroy, BodyInv, Queued
<1>9. CASE FollowRedirect
      BY <1>9 DEF FollowRedirect, PostUnlessDestroyed, BodyInv, Queued
<1>10. CASE StoreHeaders
      BY <1>10 DEF StoreHeaders, BodyInv, Queued
<1>11. CASE SignalProgress
      BY <1>11 DEF SignalProgress, BodyInv, Queued
<1>12. CASE SetRedirectCount
      BY <1>12 DEF SetRedirectCount, BodyInv, Queued
<1>13. CASE ReadData
      BY <1>13 DEF ReadData, PostUnlessDestroyed, BodyInv, Queued
<1>14. CASE FinishAtLimit
  <2>1. NoOp /\ UNCHANGED Queued
    BY <1>14, QueuedRange DEF FinishAtLimit, QueueInv, Queued
  <2> QED
    BY <1>14, <2>1 DEF FinishAtLimit, Finish, BodyInv
<1>15. CASE OnCanceled
  <2>1. NoOp /\ UNCHANGED Queued
    BY <1>15 DEF OnCanceled, PostInv, NothingPostedAfterDestroy, Queued
  <2> QED
    BY <1>15, <2>1 DEF OnCanceled, Finish, BodyInv
<1>16. CASE OnDestroyed
      BY <1>16 DEF OnDestroyed, Finish, BodyInv, Queued
<1>17. CASE WriteResult
      BY <1>17 DEF WriteResult, BodyInv, Queued
<1>18. CASE StoreDone
      BY <1>18 DEF StoreDone, BodyInv, Queued
<1>19. CASE SignalFinished
      BY <1>19 DEF SignalFinished, BodyInv, Queued
<1>20. CASE DestroyWithoutCancel
      BY <1>20 DEF DestroyWithoutCancel, DestroyRequest, PostUnlessDestroyed,
         BodyInv, Queued
<1>21. CASE UnregisterCall
      BY <1>21 DEF UnregisterCall, BodyInv, Queued
<1>22. CASE Detach
      BY <1>22 DEF Detach, BodyInv, Queued
<1>23. CASE SignalReleased
      BY <1>23 DEF SignalReleased, BodyInv, Queued
<1>24. CASE DeleteRequest
      BY <1>24 DEF DeleteRequest, BodyInv, Queued
<1>25. CASE RegisterCall
      BY <1>25 DEF RegisterCall, BodyInv, Queued
<1>26. CASE AttachRequest
      BY <1>26 DEF AttachRequest, BodyInv, Queued
<1>27. CASE PostStart
      BY <1>27 DEF PostStart, BodyInv, Queued
<1>28. CASE Drain
      BY <1>28 DEF Drain, BodyInv, Queued
<1>29. CASE CheckHeaders
      BY <1>29 DEF CheckHeaders, BodyInv, Queued
<1>30. CASE Poll
      BY <1>30 DEF Poll, BodyInv, Queued
<1>31. CASE ReadResult
      BY <1>31 DEF ReadResult, Unwind, BodyInv, Queued
<1>32. CASE Read
  <2> DEFINE copied == Least(ChunkSize, Available)
  <2>1. copied \in Nat /\ copied <= Available
    BY WaterMarks, <1>32 DEF Read, Least
  <2>2. got' = got + copied /\ Available' = Available - copied
    BY <1>32, <2>1 DEF Read
  <2>3. /\ UNCHANGED <<sent, claimed, bodyComplete, req, tasks, report>>
       /\ own' \in {"read", "resume"} /\ (readPaused' => readPaused)
    BY <1>32 DEF Read
  <2>4. report \notin {"response", "streamed"}
    BY <1>32 DEF Read, BodyInv
  <2> HIDE DEF copied
  <2> QED
    BY <2>1, <2>2, <2>3, <2>4 DEF BodyInv, Queued
<1>33. CASE Resume
  <2>1. CASE destroyRequested \/ ~attached
    BY <1>33, <2>1 DEF Resume, PostUnlessDestroyed, BodyInv, Queued
  <2>2. CASE ~destroyRequested
    <3>1. req = "open"
      BY <1>33, <2>2 DEF Resume, ParkInv, Parked, PostInv
    <3> QED
      BY <1>33, <3>1 DEF Resume, BodyInv
  <2> QED
    BY <2>1, <2>2
<1>34. CASE ReadNothing
      BY <1>34 DEF ReadNothing, BodyInv, Queued
<1>35. CASE FinalResult
      BY <1>35 DEF FinalResult, Unwind, BodyInv, Queued
<1>36. CASE OwnerCancel
      BY <1>36 DEF OwnerCancel, DestroyRequest, PostUnlessDestroyed, BodyInv,
         Queued
<1>37. CASE RaiseTimeout
      BY <1>37 DEF RaiseTimeout, BodyInv, Queued
<1>38. CASE WaitDone
      BY <1>38 DEF WaitDone, BodyInv, Queued
<1>39. CASE Cleanup
      BY <1>39 DEF Cleanup, BodyInv, Queued
<1>40. CASE WaitForRelease
      BY <1>40 DEF WaitForRelease, BodyInv, Queued
<1>41. CASE Expire
      BY <1>41 DEF Expire, BodyInv, Queued
<1>42. CASE Abandon
      BY <1>42 DEF Abandon, BodyInv, Queued
<1>43. CASE EngineCancel
      BY <1>43 DEF EngineCancel, DestroyRequest, PostUnlessDestroyed,
         BodyInv, Queued
<1>44. CASE Terminated
      BY <1>44 DEF Terminated, vars, BodyInv, Queued
<1>45. CASE UNCHANGED vars
      BY <1>45 DEF vars, BodyInv, Queued
<1> QED
      BY <1>1, <1>2, <1>3, <1>4, <1>5, <1>6, <1>7, <1>8, <1>9, <1>10, <1>11,
         <1>12, <1>13, <1>14, <1>15, <1>16, <1>17, <1>18, <1>19, <1>20, <1>21,
         <1>22, <1>23, <1>24, <1>25, <1>26, <1>27, <1>28, <1>29, <1>30, <1>31,
         <1>32, <1>33, <1>34, <1>35, <1>36, <1>37, <1>38, <1>39, <1>40, <1>41,
         <1>42, <1>43, <1>44, <1>45
      DEF Next, Server, Network, Owner

\* The first outcome is the only one.
LEMMA NextOutcome ==
  ASSUME BareEngine = FALSE, TypeOK, NetInv, PostInv, BodyInv, OutcomeInv,
         [Next]_vars
  PROVE  OutcomeInv'
<1> USE DEF TypeOK, FlagsOK, ValuesOK, NetInv, BodyInv
<1>1. CASE OnReceivedRedirect
      BY <1>1 DEF OnReceivedRedirect, OutcomeInv
<1>2. CASE OnRedirectLimit
      BY <1>2 DEF OnRedirectLimit, OnResponse, OutcomeInv
<1>3. CASE OnResponseStarted
      BY <1>3 DEF OnResponseStarted, OnResponse, OutcomeInv
<1>4. CASE OnReadCompleted
      BY <1>4 DEF OnReadCompleted, OnData, OutcomeInv
<1>5. CASE OnSucceeded
      BY <1>5 DEF OnSucceeded, Terminal, Finish, OutcomeInv
<1>6. CASE OnError
      BY <1>6 DEF OnError, Terminal, Finish, OutcomeInv
<1>7. CASE RunTask
      BY <1>7 DEF RunTask, OutcomeInv
<1>8. CASE RunDestroy
      BY <1>8 DEF RunDestroy, OutcomeInv
<1>9. CASE FollowRedirect
      BY <1>9 DEF FollowRedirect, PostUnlessDestroyed, OutcomeInv
<1>10. CASE StoreHeaders
      BY <1>10 DEF StoreHeaders, OutcomeInv
<1>11. CASE SignalProgress
      BY <1>11 DEF SignalProgress, OutcomeInv
<1>12. CASE SetRedirectCount
      BY <1>12 DEF SetRedirectCount, OutcomeInv
<1>13. CASE ReadData
      BY <1>13 DEF ReadData, PostUnlessDestroyed, OutcomeInv
<1>14. CASE FinishAtLimit
      BY <1>14 DEF FinishAtLimit, Finish, OutcomeInv
<1>15. CASE OnCanceled
      BY <1>15 DEF OnCanceled, Finish, OutcomeInv
<1>16. CASE OnDestroyed
      BY <1>16 DEF OnDestroyed, Finish, OutcomeInv
<1>17. CASE WriteResult
      BY <1>17 DEF WriteResult, OutcomeInv
<1>18. CASE StoreDone
      BY <1>18 DEF StoreDone, OutcomeInv
<1>19. CASE SignalFinished
      BY <1>19 DEF SignalFinished, OutcomeInv
<1>20. CASE DestroyWithoutCancel
      BY <1>20 DEF DestroyWithoutCancel, DestroyRequest, PostUnlessDestroyed,
         OutcomeInv
<1>21. CASE UnregisterCall
      BY <1>21 DEF UnregisterCall, OutcomeInv
<1>22. CASE Detach
      BY <1>22 DEF Detach, OutcomeInv
<1>23. CASE SignalReleased
      BY <1>23 DEF SignalReleased, OutcomeInv
<1>24. CASE DeleteRequest
      BY <1>24 DEF DeleteRequest, OutcomeInv
<1>25. CASE RegisterCall
      BY <1>25 DEF RegisterCall, OutcomeInv
<1>26. CASE AttachRequest
      BY <1>26 DEF AttachRequest, OutcomeInv
<1>27. CASE PostStart
      BY <1>27 DEF PostStart, OutcomeInv
<1>28. CASE Drain
      BY <1>28 DEF Drain, OutcomeInv
<1>29. CASE CheckHeaders
      BY <1>29 DEF CheckHeaders, OutcomeInv
<1>30. CASE Poll
      BY <1>30 DEF Poll, OutcomeInv
<1>31. CASE ReadResult
      BY <1>31 DEF ReadResult, Unwind, OutcomeInv
<1>32. CASE Read
      BY <1>32 DEF Read, Least, Available, OutcomeInv
<1>33. CASE Resume
      BY <1>33 DEF Resume, PostUnlessDestroyed, OutcomeInv
<1>34. CASE ReadNothing
      BY <1>34 DEF ReadNothing, OutcomeInv
<1>35. CASE FinalResult
      BY <1>35 DEF FinalResult, Unwind, OutcomeInv
<1>36. CASE OwnerCancel
      BY <1>36 DEF OwnerCancel, DestroyRequest, PostUnlessDestroyed,
         OutcomeInv
<1>37. CASE RaiseTimeout
      BY <1>37 DEF RaiseTimeout, OutcomeInv
<1>38. CASE WaitDone
      BY <1>38 DEF WaitDone, OutcomeInv
<1>39. CASE Cleanup
      BY <1>39 DEF Cleanup, OutcomeInv
<1>40. CASE WaitForRelease
      BY <1>40 DEF WaitForRelease, OutcomeInv
<1>41. CASE Expire
      BY <1>41 DEF Expire, OutcomeInv
<1>42. CASE Abandon
      BY <1>42 DEF Abandon, OutcomeInv
<1>43. CASE EngineCancel
      BY <1>43 DEF EngineCancel, DestroyRequest, PostUnlessDestroyed,
         OutcomeInv
<1>44. CASE Terminated
      BY <1>44 DEF Terminated, vars, OutcomeInv
<1>45. CASE UNCHANGED vars
      BY <1>45 DEF vars, OutcomeInv
<1> QED
      BY <1>1, <1>2, <1>3, <1>4, <1>5, <1>6, <1>7, <1>8, <1>9, <1>10, <1>11,
         <1>12, <1>13, <1>14, <1>15, <1>16, <1>17, <1>18, <1>19, <1>20, <1>21,
         <1>22, <1>23, <1>24, <1>25, <1>26, <1>27, <1>28, <1>29, <1>30, <1>31,
         <1>32, <1>33, <1>34, <1>35, <1>36, <1>37, <1>38, <1>39, <1>40, <1>41,
         <1>42, <1>43, <1>44, <1>45
      DEF Next, Server, Network, Owner

\* The last callback lets go of the call before the owner may free it.
LEMMA NextRelease ==
  ASSUME BareEngine = FALSE, TypeOK, NetInv, PostInv, ReleaseInv, [Next]_vars
  PROVE  ReleaseInv'
<1> USE DEF TypeOK, FlagsOK, ValuesOK, NetInv, PostInv,
        NothingPostedAfterDestroy
<1>1. CASE OnReceivedRedirect
      BY <1>1 DEF OnReceivedRedirect, ReleaseInv
<1>2. CASE OnRedirectLimit
      BY <1>2 DEF OnRedirectLimit, OnResponse, ReleaseInv
<1>3. CASE OnResponseStarted
      BY <1>3 DEF OnResponseStarted, OnResponse, ReleaseInv
<1>4. CASE OnReadCompleted
      BY <1>4 DEF OnReadCompleted, OnData, ReleaseInv
<1>5. CASE OnSucceeded
      BY <1>5 DEF OnSucceeded, Terminal, Finish, ReleaseInv
<1>6. CASE OnError
      BY <1>6 DEF OnError, Terminal, Finish, ReleaseInv
<1>7. CASE RunTask
      BY <1>7 DEF RunTask, ReleaseInv
<1>8. CASE RunDestroy
      BY <1>8 DEF RunDestroy, ReleaseInv
<1>9. CASE FollowRedirect
      BY <1>9 DEF FollowRedirect, PostUnlessDestroyed, ReleaseInv
<1>10. CASE StoreHeaders
      BY <1>10 DEF StoreHeaders, ReleaseInv
<1>11. CASE SignalProgress
      BY <1>11 DEF SignalProgress, ReleaseInv
<1>12. CASE SetRedirectCount
      BY <1>12 DEF SetRedirectCount, ReleaseInv
<1>13. CASE ReadData
      BY <1>13 DEF ReadData, PostUnlessDestroyed, ReleaseInv
<1>14. CASE FinishAtLimit
      BY <1>14 DEF FinishAtLimit, Finish, ReleaseInv
<1>15. CASE OnCanceled
      BY <1>15 DEF OnCanceled, Finish, ReleaseInv
<1>16. CASE OnDestroyed
      BY <1>16 DEF OnDestroyed, Finish, ReleaseInv
<1>17. CASE WriteResult
      BY <1>17 DEF WriteResult, ReleaseInv
<1>18. CASE StoreDone
      BY <1>18 DEF StoreDone, ReleaseInv
<1>19. CASE SignalFinished
      BY <1>19 DEF SignalFinished, ReleaseInv
<1>20. CASE DestroyWithoutCancel
      BY <1>20 DEF DestroyWithoutCancel, DestroyRequest, PostUnlessDestroyed,
         ReleaseInv
<1>21. CASE UnregisterCall
      BY <1>21 DEF UnregisterCall, ReleaseInv
<1>22. CASE Detach
      BY <1>22 DEF Detach, ReleaseInv
<1>23. CASE SignalReleased
      BY <1>23 DEF SignalReleased, ReleaseInv
<1>24. CASE DeleteRequest
      BY <1>24 DEF DeleteRequest, ReleaseInv
<1>25. CASE RegisterCall
      BY <1>25 DEF RegisterCall, ReleaseInv
<1>26. CASE AttachRequest
      BY <1>26 DEF AttachRequest, ReleaseInv
<1>27. CASE PostStart
      BY <1>27 DEF PostStart, ReleaseInv
<1>28. CASE Drain
      BY <1>28 DEF Drain, ReleaseInv
<1>29. CASE CheckHeaders
      BY <1>29 DEF CheckHeaders, ReleaseInv
<1>30. CASE Poll
      BY <1>30 DEF Poll, ReleaseInv
<1>31. CASE ReadResult
      BY <1>31 DEF ReadResult, Unwind, ReleaseInv
<1>32. CASE Read
      BY <1>32 DEF Read, Least, Available, ReleaseInv
<1>33. CASE Resume
      BY <1>33 DEF Resume, PostUnlessDestroyed, ReleaseInv
<1>34. CASE ReadNothing
      BY <1>34 DEF ReadNothing, ReleaseInv
<1>35. CASE FinalResult
      BY <1>35 DEF FinalResult, Unwind, ReleaseInv
<1>36. CASE OwnerCancel
      BY <1>36 DEF OwnerCancel, DestroyRequest, PostUnlessDestroyed,
         ReleaseInv
<1>37. CASE RaiseTimeout
      BY <1>37 DEF RaiseTimeout, ReleaseInv
<1>38. CASE WaitDone
      BY <1>38 DEF WaitDone, ReleaseInv
<1>39. CASE Cleanup
      BY <1>39 DEF Cleanup, ReleaseInv
<1>40. CASE WaitForRelease
      BY <1>40 DEF WaitForRelease, ReleaseInv
<1>41. CASE Expire
      BY <1>41 DEF Expire, ReleaseInv
<1>42. CASE Abandon
      BY <1>42 DEF Abandon, ReleaseInv
<1>43. CASE EngineCancel
      BY <1>43 DEF EngineCancel, DestroyRequest, PostUnlessDestroyed,
         ReleaseInv
<1>44. CASE Terminated
      BY <1>44 DEF Terminated, vars, ReleaseInv
<1>45. CASE UNCHANGED vars
      BY <1>45 DEF vars, ReleaseInv
<1> QED
      BY <1>1, <1>2, <1>3, <1>4, <1>5, <1>6, <1>7, <1>8, <1>9, <1>10, <1>11,
         <1>12, <1>13, <1>14, <1>15, <1>16, <1>17, <1>18, <1>19, <1>20, <1>21,
         <1>22, <1>23, <1>24, <1>25, <1>26, <1>27, <1>28, <1>29, <1>30, <1>31,
         <1>32, <1>33, <1>34, <1>35, <1>36, <1>37, <1>38, <1>39, <1>40, <1>41,
         <1>42, <1>43, <1>44, <1>45
      DEF Next, Server, Network, Owner

\* Draining before reading, and signalling after writing, loses no wakeup.
LEMMA NextWakeup ==
  ASSUME TypeOK, WakeupNeverLost, [Next]_vars
  PROVE  WakeupNeverLost'
<1> USE DEF TypeOK, FlagsOK, ValuesOK, Available
<1>1. CASE OnReceivedRedirect
      BY <1>1 DEF OnReceivedRedirect, WakeupNeverLost
<1>2. CASE OnRedirectLimit
      BY <1>2 DEF OnRedirectLimit, OnResponse, WakeupNeverLost
<1>3. CASE OnResponseStarted
      BY <1>3 DEF OnResponseStarted, OnResponse, WakeupNeverLost
<1>4. CASE OnReadCompleted
      BY <1>4 DEF OnReadCompleted, OnData, WakeupNeverLost
<1>5. CASE OnSucceeded
      BY <1>5 DEF OnSucceeded, Terminal, Finish, WakeupNeverLost
<1>6. CASE OnError
      BY <1>6 DEF OnError, Terminal, Finish, WakeupNeverLost
<1>7. CASE RunTask
      BY <1>7 DEF RunTask, WakeupNeverLost
<1>8. CASE RunDestroy
      BY <1>8 DEF RunDestroy, WakeupNeverLost
<1>9. CASE FollowRedirect
      BY <1>9 DEF FollowRedirect, PostUnlessDestroyed, WakeupNeverLost
<1>10. CASE StoreHeaders
      BY <1>10 DEF StoreHeaders, WakeupNeverLost
<1>11. CASE SignalProgress
      BY <1>11 DEF SignalProgress, WakeupNeverLost
<1>12. CASE SetRedirectCount
      BY <1>12 DEF SetRedirectCount, WakeupNeverLost
<1>13. CASE ReadData
      BY <1>13 DEF ReadData, PostUnlessDestroyed, WakeupNeverLost
<1>14. CASE FinishAtLimit
      BY <1>14 DEF FinishAtLimit, Finish, WakeupNeverLost
<1>15. CASE OnCanceled
      BY <1>15 DEF OnCanceled, Finish, WakeupNeverLost
<1>16. CASE OnDestroyed
      BY <1>16 DEF OnDestroyed, Finish, WakeupNeverLost
<1>17. CASE WriteResult
      BY <1>17 DEF WriteResult, WakeupNeverLost
<1>18. CASE StoreDone
      BY <1>18 DEF StoreDone, WakeupNeverLost
<1>19. CASE SignalFinished
      BY <1>19 DEF SignalFinished, WakeupNeverLost
<1>20. CASE DestroyWithoutCancel
      BY <1>20 DEF DestroyWithoutCancel, DestroyRequest, PostUnlessDestroyed,
         WakeupNeverLost
<1>21. CASE UnregisterCall
      BY <1>21 DEF UnregisterCall, WakeupNeverLost
<1>22. CASE Detach
      BY <1>22 DEF Detach, WakeupNeverLost
<1>23. CASE SignalReleased
      BY <1>23 DEF SignalReleased, WakeupNeverLost
<1>24. CASE DeleteRequest
      BY <1>24 DEF DeleteRequest, WakeupNeverLost
<1>25. CASE RegisterCall
      BY <1>25 DEF RegisterCall, WakeupNeverLost
<1>26. CASE AttachRequest
      BY <1>26 DEF AttachRequest, WakeupNeverLost
<1>27. CASE PostStart
      BY <1>27 DEF PostStart, WakeupNeverLost
<1>28. CASE Drain
      BY <1>28 DEF Drain, WakeupNeverLost
<1>29. CASE CheckHeaders
  <2>1. own' = "pollHeaders" => callState = "STARTED"
    BY <1>29 DEF CheckHeaders
  <2>2. own' # "pollBody"
    BY <1>29 DEF CheckHeaders
  <2> QED
    BY <1>29, <2>1, <2>2 DEF CheckHeaders, WakeupNeverLost
<1>30. CASE Poll
      BY <1>30 DEF Poll, WakeupNeverLost
<1>31. CASE ReadResult
      BY <1>31 DEF ReadResult, Unwind, WakeupNeverLost
<1>32. CASE Read
      BY <1>32 DEF Read, Least, Available, WakeupNeverLost
<1>33. CASE Resume
      BY <1>33 DEF Resume, PostUnlessDestroyed, WakeupNeverLost
<1>34. CASE ReadNothing
      BY <1>34 DEF ReadNothing, WakeupNeverLost
<1>35. CASE FinalResult
      BY <1>35 DEF FinalResult, Unwind, WakeupNeverLost
<1>36. CASE OwnerCancel
      BY <1>36 DEF OwnerCancel, DestroyRequest, PostUnlessDestroyed,
         WakeupNeverLost
<1>37. CASE RaiseTimeout
      BY <1>37 DEF RaiseTimeout, WakeupNeverLost
<1>38. CASE WaitDone
      BY <1>38 DEF WaitDone, WakeupNeverLost
<1>39. CASE Cleanup
      BY <1>39 DEF Cleanup, WakeupNeverLost
<1>40. CASE WaitForRelease
      BY <1>40 DEF WaitForRelease, WakeupNeverLost
<1>41. CASE Expire
      BY <1>41 DEF Expire, WakeupNeverLost
<1>42. CASE Abandon
      BY <1>42 DEF Abandon, WakeupNeverLost
<1>43. CASE EngineCancel
      BY <1>43 DEF EngineCancel, DestroyRequest, PostUnlessDestroyed,
         WakeupNeverLost
<1>44. CASE Terminated
      BY <1>44 DEF Terminated, vars, WakeupNeverLost
<1>45. CASE UNCHANGED vars
      BY <1>45 DEF vars, WakeupNeverLost
<1> QED
      BY <1>1, <1>2, <1>3, <1>4, <1>5, <1>6, <1>7, <1>8, <1>9, <1>10, <1>11,
         <1>12, <1>13, <1>14, <1>15, <1>16, <1>17, <1>18, <1>19, <1>20, <1>21,
         <1>22, <1>23, <1>24, <1>25, <1>26, <1>27, <1>28, <1>29, <1>30, <1>31,
         <1>32, <1>33, <1>34, <1>35, <1>36, <1>37, <1>38, <1>39, <1>40, <1>41,
         <1>42, <1>43, <1>44, <1>45
      DEF Next, Server, Network, Owner

-----------------------------------------------------------------------------
(* The theorems.                                                           *)

\* The invariant holds before the call is registered.
LEMMA InitIInv == Init => IInv
<1> SUFFICES ASSUME Init PROVE IInv
  OBVIOUS
<1>1. TypeOK
  BY InitType
<1>2. NetInv /\ PostInv
  BY DEF Init, NetInv, PostInv, NothingPostedAfterDestroy
<1>3. QueueInv /\ ParkInv
  BY DEF Init, QueueInv, ParkInv, Queued, Parked
<1>4. RoomInv
  BY WaterMarks DEF Init, RoomInv, BoundedBuffer, Available
<1>5. BodyInv
  <2>1. bodyComplete = claimed /\ ~claimed /\ ~readPaused
    BY Zenon DEF Init
  <2>2. sent = got + Available /\ own # "final" /\ report = "none"
    BY DEF Init, Available
  <2> QED
    BY <2>1, <2>2 DEF BodyInv
<1>6. OutcomeInv /\ ReleaseInv /\ WakeupNeverLost
  BY DEF Init, OutcomeInv, ReleaseInv, WakeupNeverLost
<1> QED
  BY <1>1, <1>2, <1>3, <1>4, <1>5, <1>6 DEF IInv

\* Every step of any thread preserves it.
LEMMA NextIInv ==
  ASSUME BareEngine = FALSE, IInv, [Next]_vars
  PROVE  IInv'
<1>1. TypeOK'
  BY NextFlags, NextValues DEF IInv, TypeOK
<1>2. NetInv' /\ PostInv'
  BY NextNet, NextPost DEF IInv
<1>3. QueueInv' /\ ParkInv'
  BY NextQueue, NextPark DEF IInv
<1>4. RoomInv' /\ BodyInv'
  BY NextRoom, NextBody DEF IInv
<1>5. OutcomeInv' /\ ReleaseInv' /\ WakeupNeverLost'
  BY NextOutcome, NextRelease, NextWakeup DEF IInv
<1> QED
  BY <1>1, <1>2, <1>3, <1>4, <1>5 DEF IInv

\* The call.cc protocol as a whole, for an engine that is only closed through
\* _bridge.Engine.
THEOREM Invariance == ASSUME BareEngine = FALSE PROVE Spec => []IInv
<1>1. Init => IInv
  BY InitIInv
<1>2. IInv /\ [Next]_vars => IInv'
  BY NextIInv
<1> QED
  BY <1>1, <1>2, PTL DEF Spec

\* call.h's rule for posting: Destroy is the last task ever queued for a
\* request, so no ReadData or FollowRedirect runs on a freed one.
THEOREM PostingRule ==
  ASSUME BareEngine = FALSE PROVE Spec => []NothingPostedAfterDestroy
<1>1. IInv => NothingPostedAfterDestroy
  BY DEF IInv, PostInv
<1> QED
  BY <1>1, Invariance, PTL

\* The transfer's read is issued by the network thread or resumed by the owner
\* but never by both, and only on an open response.
THEOREM SingleOperation ==
  ASSUME BareEngine = FALSE PROVE Spec => []OneOperationAtATime
<1>1. IInv => OneOperationAtATime
  <2> SUFFICES ASSUME IInv, NEW i \in 1..Len(tasks), tasks[i] \notin Destroys
               PROVE  i = 1 /\ req = Expects(tasks[i])
    BY DEF OneOperationAtATime
  <2>1. Len(tasks) \in Nat /\ tasks # <<>> /\ tasks[i] \in Tasks
    BY DEF IInv, TypeOK, ValuesOK
  <2>2. i = 1
    BY <2>1 DEF IInv, QueueInv
  <2>3. Queued = tasks[1]
    BY <2>1 DEF Queued
  <2> QED
    BY <2>1, <2>2, <2>3 DEF IInv, QueueInv, Expects
<1> QED
  BY <1>1, Invariance, PTL

\* Backpressure: whatever the water marks and however slow the consumer, the
\* library holds less than HighWater + ReadBufferSize unread bytes.
THEOREM BufferIsBounded ==
  ASSUME BareEngine = FALSE PROVE Spec => []BoundedBuffer
<1>1. IInv => BoundedBuffer
  BY DEF IInv, RoomInv
<1> QED
  BY <1>1, Invariance, PTL

\* A paused transfer always leaves the owner something to read.
THEOREM PauseIsTheOwners ==
  ASSUME BareEngine = FALSE PROVE Spec => []PausedOnTheOwner
<1>1. IInv => PausedOnTheOwner
  BY DEF IInv, RoomInv, BodyInv, PausedOnTheOwner
<1> QED
  BY <1>1, Invariance, PTL

\* The descriptor protocol of SignalProgress and Call.drain.
THEOREM NoWakeupLost ==
  ASSUME BareEngine = FALSE PROVE Spec => []WakeupNeverLost
<1>1. IInv => WakeupNeverLost
  BY DEF IInv
<1> QED
  BY <1>1, Invariance, PTL

\* CRONET_EOF is reported only after every delivered byte was handed over.
THEOREM EofTheorem ==
  ASSUME BareEngine = FALSE PROVE Spec => []EofIsTheWholeBody
<1>1. IInv => EofIsTheWholeBody
  BY DEF IInv, BodyInv, TypeOK, ValuesOK, Available,
     EofIsTheWholeBody
<1> QED
  BY <1>1, Invariance, PTL

\* cronet_call_free returns to a call no other thread refers to.
THEOREM FreeIsSafe ==
  ASSUME BareEngine = FALSE PROVE Spec => []FreedIsQuiet
<1>1. IInv => FreedIsQuiet
  BY DEF IInv, PostInv, ReleaseInv, NothingPostedAfterDestroy,
     FreedIsQuiet
<1> QED
  BY <1>1, Invariance, PTL

\* OnDestroyed never has to invent an outcome.
THEOREM LastResort ==
  ASSUME BareEngine = FALSE PROVE Spec => []LastResortUnused
<1>1. IInv => LastResortUnused
  BY DEF IInv, OutcomeInv, LastResortUnused
<1> QED
  BY <1>1, Invariance, PTL

\* Only the first outcome counts: from DONE on, the result, the metrics and
\* the body the owner may be reading are fixed.
THEOREM FirstOutcomeIsFinal ==
  ASSUME BareEngine = FALSE PROVE Spec => OutcomeIsFinal
<1>1. IInv /\ [Next]_vars => [OutcomeFixed]_vars
  <2> SUFFICES ASSUME IInv, Next PROVE OutcomeFixed
    OBVIOUS
  <2> USE DEF IInv, TypeOK, FlagsOK, ValuesOK, NetInv, OutcomeInv, BodyInv
<2>1. CASE OnReceivedRedirect
      BY <2>1 DEF OnReceivedRedirect, OutcomeFixed
<2>2. CASE OnRedirectLimit
      BY <2>2 DEF OnRedirectLimit, OnResponse, OutcomeFixed
<2>3. CASE OnResponseStarted
      BY <2>3 DEF OnResponseStarted, OnResponse, OutcomeFixed
<2>4. CASE OnReadCompleted
      BY <2>4 DEF OnReadCompleted, OnData, OutcomeFixed
<2>5. CASE OnSucceeded
      BY <2>5 DEF OnSucceeded, Terminal, Finish, OutcomeFixed
<2>6. CASE OnError
      BY <2>6 DEF OnError, Terminal, Finish, OutcomeFixed
<2>7. CASE RunTask
      BY <2>7 DEF RunTask, OutcomeFixed
<2>8. CASE RunDestroy
      BY <2>8 DEF RunDestroy, OutcomeFixed
<2>9. CASE FollowRedirect
      BY <2>9 DEF FollowRedirect, PostUnlessDestroyed, OutcomeFixed
<2>10. CASE StoreHeaders
      BY <2>10 DEF StoreHeaders, OutcomeFixed
<2>11. CASE SignalProgress
      BY <2>11 DEF SignalProgress, OutcomeFixed
<2>12. CASE SetRedirectCount
      BY <2>12 DEF SetRedirectCount, OutcomeFixed
<2>13. CASE ReadData
      BY <2>13 DEF ReadData, PostUnlessDestroyed, OutcomeFixed
<2>14. CASE FinishAtLimit
      BY <2>14 DEF FinishAtLimit, Finish, OutcomeFixed
<2>15. CASE OnCanceled
      BY <2>15 DEF OnCanceled, Finish, OutcomeFixed
<2>16. CASE OnDestroyed
      BY <2>16 DEF OnDestroyed, Finish, OutcomeFixed
<2>17. CASE WriteResult
      BY <2>17 DEF WriteResult, OutcomeFixed
<2>18. CASE StoreDone
      BY <2>18 DEF StoreDone, OutcomeFixed
<2>19. CASE SignalFinished
      BY <2>19 DEF SignalFinished, OutcomeFixed
<2>20. CASE DestroyWithoutCancel
      BY <2>20 DEF DestroyWithoutCancel, DestroyRequest, PostUnlessDestroyed,
         OutcomeFixed
<2>21. CASE UnregisterCall
      BY <2>21 DEF UnregisterCall, OutcomeFixed
<2>22. CASE Detach
      BY <2>22 DEF Detach, OutcomeFixed
<2>23. CASE SignalReleased
      BY <2>23 DEF SignalReleased, OutcomeFixed
<2>24. CASE DeleteRequest
      BY <2>24 DEF DeleteRequest, OutcomeFixed
<2>25. CASE RegisterCall
      BY <2>25 DEF RegisterCall, OutcomeFixed
<2>26. CASE AttachRequest
      BY <2>26 DEF AttachRequest, OutcomeFixed
<2>27. CASE PostStart
      BY <2>27 DEF PostStart, OutcomeFixed
<2>28. CASE Drain
      BY <2>28 DEF Drain, OutcomeFixed
<2>29. CASE CheckHeaders
      BY <2>29 DEF CheckHeaders, OutcomeFixed
<2>30. CASE Poll
      BY <2>30 DEF Poll, OutcomeFixed
<2>31. CASE ReadResult
      BY <2>31 DEF ReadResult, Unwind, OutcomeFixed
<2>32. CASE Read
      BY <2>32 DEF Read, Least, Available, OutcomeFixed
<2>33. CASE Resume
      BY <2>33 DEF Resume, PostUnlessDestroyed, OutcomeFixed
<2>34. CASE ReadNothing
      BY <2>34 DEF ReadNothing, OutcomeFixed
<2>35. CASE FinalResult
      BY <2>35 DEF FinalResult, Unwind, OutcomeFixed
<2>36. CASE OwnerCancel
      BY <2>36 DEF OwnerCancel, DestroyRequest, PostUnlessDestroyed,
         OutcomeFixed
<2>37. CASE RaiseTimeout
      BY <2>37 DEF RaiseTimeout, OutcomeFixed
<2>38. CASE WaitDone
      BY <2>38 DEF WaitDone, OutcomeFixed
<2>39. CASE Cleanup
      BY <2>39 DEF Cleanup, OutcomeFixed
<2>40. CASE WaitForRelease
      BY <2>40 DEF WaitForRelease, OutcomeFixed
<2>41. CASE Expire
      BY <2>41 DEF Expire, OutcomeFixed
<2>42. CASE Abandon
      BY <2>42 DEF Abandon, OutcomeFixed
<2>43. CASE EngineCancel
      BY <2>43 DEF EngineCancel, DestroyRequest, PostUnlessDestroyed,
         OutcomeFixed
<2>44. CASE Terminated
      BY <2>44 DEF Terminated, vars, OutcomeFixed
<2>45. CASE UNCHANGED vars
      BY <2>45 DEF vars, OutcomeFixed
<2> QED
      BY <2>1, <2>2, <2>3, <2>4, <2>5, <2>6, <2>7, <2>8, <2>9, <2>10, <2>11,
         <2>12, <2>13, <2>14, <2>15, <2>16, <2>17, <2>18, <2>19, <2>20, <2>21,
         <2>22, <2>23, <2>24, <2>25, <2>26, <2>27, <2>28, <2>29, <2>30, <2>31,
         <2>32, <2>33, <2>34, <2>35, <2>36, <2>37, <2>38, <2>39, <2>40, <2>41,
         <2>42, <2>43, <2>44, <2>45
      DEF Next, Server, Network, Owner
<1> QED
  BY <1>1, Invariance, PTL DEF Spec, OutcomeIsFinal
=============================================================================
