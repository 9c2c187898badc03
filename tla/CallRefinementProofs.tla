------------------------ MODULE CallRefinementProofs ------------------------
(***************************************************************************)
(* What the owner of a call is told, for every choice of the constants:    *)
(* that CallState implements AbstractCall, and that the response returned  *)
(* has counted every redirect.  Rests on the invariant of CallStateProofs. *)
(***************************************************************************)
EXTENDS CallRefinement, CallStateProofs

-----------------------------------------------------------------------------
(* Two more inductive invariants, on top of IInv.                          *)

\* The owner has an answer once it unwinds and none before; what it may have
\* been told, or waits for, has an outcome behind it.
Undecided == {"new", "attach", "post", "drainHeaders", "checkHeaders",
              "lastCheck", "pollHeaders", "result", "drainBody", "read",
              "resume", "pollBody", "final", "expired"}

AnswerInv ==
    /\ own \in Undecided <=> report = "none"
    /\ released => claimed
    /\ errorCode # "OK" => claimed

\* Until the response is published no state says so; from set_redirect_count
\* on, the count is that of the redirects followed and none follows.
CountInv ==
    /\ req \in {"none", "idle", "loading"} => callState = "STARTED"
    /\ req = "redirected" /\ ~claimed /\ net \in {"idle", "follow"} =>
         callState = "STARTED"
    /\ net = "headers" => callState = "STARTED"
    /\ req \in {"open", "reading"} /\ net # "headers" => callState = "HEADERS"
    /\ net \in {"signalHeaders", "count", "finish"} => callState = "HEADERS"
    /\ callState = "HEADERS" /\ net \notin {"signalHeaders", "count"} =>
         redirectCount = hops
    /\ claimed /\ verdict = "OK" => callState # "STARTED"
    /\ net \in {"done", "event", "signalDone"} => errorCode = verdict
    /\ callState = "DONE" => errorCode = verdict
    /\ callState = "DONE" /\ verdict = "OK" => redirectCount = hops
    /\ own \in {"result", "drainBody", "read", "resume", "pollBody", "final"} =>
         callState # "STARTED"

ToldInv == AnswerInv /\ CountInv /\ ReturnedRedirectCount

USE DEF CallStates, Codes, Destroys, Tasks, Requests, Finishing, NetSteps,
        Waiting, InFlight, OwnSteps, Reports, OwnerKinds
USE DEF flags, result, lockVars, bodyVars, netVars, config, ownerVars,
        sharedResult, unfinishing, onlyOwner

-----------------------------------------------------------------------------
(* Every step preserves them.                                              *)

\* An answer is given where the owner unwinds.
LEMMA NextAnswer ==
  ASSUME BareEngine = FALSE, IInv, AnswerInv, [Next]_vars
  PROVE  AnswerInv'
<1> USE DEF IInv, TypeOK, FlagsOK, ValuesOK, OutcomeInv, Undecided
<1>1. CASE OnReceivedRedirect
  BY <1>1 DEF OnReceivedRedirect, AnswerInv
<1>2. CASE OnRedirectLimit
  BY <1>2 DEF OnRedirectLimit, OnResponse, AnswerInv
<1>3. CASE OnResponseStarted
  BY <1>3 DEF OnResponseStarted, OnResponse, AnswerInv
<1>4. CASE OnReadCompleted
  BY <1>4 DEF OnReadCompleted, OnData, AnswerInv
<1>5. CASE OnSucceeded
  BY <1>5 DEF OnSucceeded, Terminal, Finish, AnswerInv
<1>6. CASE OnError
  BY <1>6 DEF OnError, Terminal, Finish, AnswerInv
<1>7. CASE RunTask
  BY <1>7 DEF RunTask, AnswerInv
<1>8. CASE RunDestroy
  BY <1>8 DEF RunDestroy, AnswerInv
<1>9. CASE FollowRedirect
  BY <1>9 DEF FollowRedirect, PostUnlessDestroyed, AnswerInv
<1>10. CASE StoreHeaders
  BY <1>10 DEF StoreHeaders, AnswerInv
<1>11. CASE SignalProgress
  BY <1>11 DEF SignalProgress, AnswerInv
<1>12. CASE SetRedirectCount
  BY <1>12 DEF SetRedirectCount, AnswerInv
<1>13. CASE ReadData
  BY <1>13 DEF ReadData, PostUnlessDestroyed, AnswerInv
<1>14. CASE FinishAtLimit
  BY <1>14 DEF FinishAtLimit, Finish, AnswerInv
<1>15. CASE OnCanceled
  BY <1>15 DEF OnCanceled, Finish, AnswerInv
<1>16. CASE OnDestroyed
  BY <1>16 DEF OnDestroyed, Finish, AnswerInv
<1>17. CASE WriteResult
  BY <1>17 DEF WriteResult, AnswerInv
<1>18. CASE StoreDone
  BY <1>18 DEF StoreDone, AnswerInv
<1>19. CASE SignalFinished
  BY <1>19 DEF SignalFinished, AnswerInv
<1>20. CASE DestroyWithoutCancel
  BY <1>20 DEF DestroyWithoutCancel, DestroyRequest, PostUnlessDestroyed,
     AnswerInv
<1>21. CASE UnregisterCall
  BY <1>21 DEF UnregisterCall, AnswerInv
<1>22. CASE Detach
  BY <1>22 DEF Detach, AnswerInv
<1>23. CASE SignalReleased
  BY <1>23 DEF SignalReleased, AnswerInv
<1>24. CASE DeleteRequest
  BY <1>24 DEF DeleteRequest, AnswerInv
<1>25. CASE RegisterCall
  BY <1>25 DEF RegisterCall, AnswerInv
<1>26. CASE AttachRequest
  BY <1>26 DEF AttachRequest, AnswerInv
<1>27. CASE PostStart
  BY <1>27 DEF PostStart, AnswerInv
<1>28. CASE Drain
  BY <1>28 DEF Drain, AnswerInv
<1>29. CASE CheckHeaders
  BY <1>29 DEF CheckHeaders, AnswerInv
<1>30. CASE Poll
  BY <1>30 DEF Poll, AnswerInv
<1>31. CASE ReadResult
  BY <1>31 DEF ReadResult, Unwind, AnswerInv
<1>32. CASE Read
  BY <1>32 DEF Read, Least, Available, AnswerInv
<1>33. CASE Resume
  BY <1>33 DEF Resume, PostUnlessDestroyed, AnswerInv
<1>34. CASE ReadNothing
  BY <1>34 DEF ReadNothing, AnswerInv
<1>35. CASE FinalResult
  BY <1>35 DEF FinalResult, Unwind, AnswerInv
<1>36. CASE OwnerCancel
  BY <1>36 DEF OwnerCancel, DestroyRequest, PostUnlessDestroyed, AnswerInv
<1>37. CASE RaiseTimeout
  BY <1>37 DEF RaiseTimeout, AnswerInv
<1>38. CASE WaitDone
  BY <1>38 DEF WaitDone, AnswerInv
<1>39. CASE Cleanup
  BY <1>39 DEF Cleanup, AnswerInv
<1>40. CASE WaitForRelease
  BY <1>40 DEF WaitForRelease, AnswerInv
<1>41. CASE Expire
  BY <1>41 DEF Expire, AnswerInv
<1>42. CASE Abandon
  BY <1>42 DEF Abandon, AnswerInv
<1>43. CASE EngineCancel
  BY <1>43 DEF EngineCancel, DestroyRequest, PostUnlessDestroyed, AnswerInv
<1>44. CASE Terminated
  BY <1>44 DEF Terminated, vars, AnswerInv
<1>45. CASE UNCHANGED vars
  BY <1>45 DEF vars, AnswerInv
<1> QED
  BY <1>1, <1>2, <1>3, <1>4, <1>5, <1>6, <1>7, <1>8, <1>9, <1>10, <1>11,
     <1>12, <1>13, <1>14, <1>15, <1>16, <1>17, <1>18, <1>19, <1>20, <1>21,
     <1>22, <1>23, <1>24, <1>25, <1>26, <1>27, <1>28, <1>29, <1>30, <1>31,
     <1>32, <1>33, <1>34, <1>35, <1>36, <1>37, <1>38, <1>39, <1>40, <1>41,
     <1>42, <1>43, <1>44, <1>45 DEF Next, Server, Network, Owner

\* The count is recorded before the transfer goes on, and the state that
\* publishes it is stored before that.
LEMMA NextCount ==
  ASSUME BareEngine = FALSE, IInv, AnswerInv, CountInv, [Next]_vars
  PROVE  CountInv'
<1> USE DEF IInv, TypeOK, FlagsOK, ValuesOK, NetInv, OutcomeInv
<1>1. CASE OnReceivedRedirect
  BY <1>1 DEF OnReceivedRedirect, CountInv
<1>2. CASE OnRedirectLimit
  BY <1>2 DEF OnRedirectLimit, OnResponse, CountInv
<1>3. CASE OnResponseStarted
  BY <1>3 DEF OnResponseStarted, OnResponse, CountInv
<1>4. CASE OnReadCompleted
  BY <1>4 DEF OnReadCompleted, OnData, CountInv
<1>5. CASE OnSucceeded
  BY <1>5 DEF OnSucceeded, Terminal, Finish, CountInv
<1>6. CASE OnError
  BY <1>6 DEF OnError, Terminal, Finish, CountInv
<1>7. CASE RunTask
  <2>1. /\ Queued = Head(tasks) /\ Queued \in {"Start", "Follow", "Read"}
        /\ net = "idle"
    BY <1>7, QueuedRange DEF RunTask, Queued
  <2>2. ~claimed
    BY <2>1 DEF BodyInv, NoOp
  <2>3. /\ UNCHANGED <<callState, claimed, net, errorCode, verdict,
                      redirectCount, hops, own>>
        /\ req' = IF Queued = "Read" THEN "reading" ELSE "loading"
    BY <1>7, <2>1 DEF RunTask
  <2>4. /\ Queued = "Start" => req = "idle"
        /\ Queued = "Follow" => req = "redirected"
        /\ Queued = "Read" => req = "open"
    BY DEF QueueInv
  <2> QED
    BY <2>1, <2>2, <2>3, <2>4 DEF CountInv
<1>8. CASE RunDestroy
  BY <1>8 DEF RunDestroy, CountInv
<1>9. CASE FollowRedirect
  BY <1>9 DEF FollowRedirect, PostUnlessDestroyed, CountInv
<1>10. CASE StoreHeaders
  BY <1>10 DEF StoreHeaders, CountInv
<1>11. CASE SignalProgress
  BY <1>11 DEF SignalProgress, CountInv
<1>12. CASE SetRedirectCount
  BY <1>12 DEF SetRedirectCount, CountInv
<1>13. CASE ReadData
  BY <1>13 DEF ReadData, PostUnlessDestroyed, CountInv
<1>14. CASE FinishAtLimit
  BY <1>14 DEF FinishAtLimit, Finish, CountInv
<1>15. CASE OnCanceled
  BY <1>15 DEF OnCanceled, Finish, CountInv
<1>16. CASE OnDestroyed
  BY <1>16 DEF OnDestroyed, Finish, CountInv
<1>17. CASE WriteResult
  BY <1>17 DEF WriteResult, CountInv
<1>18. CASE StoreDone
  BY <1>18 DEF StoreDone, CountInv
<1>19. CASE SignalFinished
  BY <1>19 DEF SignalFinished, CountInv
<1>20. CASE DestroyWithoutCancel
  BY <1>20 DEF DestroyWithoutCancel, DestroyRequest, PostUnlessDestroyed,
     CountInv
<1>21. CASE UnregisterCall
  BY <1>21 DEF UnregisterCall, CountInv
<1>22. CASE Detach
  BY <1>22 DEF Detach, CountInv
<1>23. CASE SignalReleased
  BY <1>23 DEF SignalReleased, CountInv
<1>24. CASE DeleteRequest
  BY <1>24 DEF DeleteRequest, CountInv
<1>25. CASE RegisterCall
  BY <1>25 DEF RegisterCall, CountInv
<1>26. CASE AttachRequest
  BY <1>26 DEF AttachRequest, CountInv
<1>27. CASE PostStart
  BY <1>27 DEF PostStart, CountInv
<1>28. CASE Drain
  BY <1>28 DEF Drain, CountInv
<1>29. CASE CheckHeaders
  BY <1>29 DEF CheckHeaders, CountInv
<1>30. CASE Poll
  BY <1>30 DEF Poll, CountInv
<1>31. CASE ReadResult
  BY <1>31 DEF ReadResult, Unwind, CountInv
<1>32. CASE Read
  BY <1>32 DEF Read, Least, Available, CountInv
<1>33. CASE Resume
  BY <1>33 DEF Resume, PostUnlessDestroyed, CountInv
<1>34. CASE ReadNothing
  BY <1>34 DEF ReadNothing, CountInv
<1>35. CASE FinalResult
  BY <1>35 DEF FinalResult, Unwind, CountInv
<1>36. CASE OwnerCancel
  BY <1>36 DEF OwnerCancel, DestroyRequest, PostUnlessDestroyed, CountInv
<1>37. CASE RaiseTimeout
  BY <1>37 DEF RaiseTimeout, CountInv
<1>38. CASE WaitDone
  BY <1>38 DEF WaitDone, CountInv
<1>39. CASE Cleanup
  BY <1>39 DEF Cleanup, CountInv
<1>40. CASE WaitForRelease
  BY <1>40 DEF WaitForRelease, CountInv
<1>41. CASE Expire
  BY <1>41 DEF Expire, CountInv
<1>42. CASE Abandon
  BY <1>42 DEF Abandon, CountInv
<1>43. CASE EngineCancel
  BY <1>43 DEF EngineCancel, DestroyRequest, PostUnlessDestroyed, CountInv
<1>44. CASE Terminated
  BY <1>44 DEF Terminated, vars, CountInv
<1>45. CASE UNCHANGED vars
  BY <1>45 DEF vars, CountInv
<1> QED
  BY <1>1, <1>2, <1>3, <1>4, <1>5, <1>6, <1>7, <1>8, <1>9, <1>10, <1>11,
     <1>12, <1>13, <1>14, <1>15, <1>16, <1>17, <1>18, <1>19, <1>20, <1>21,
     <1>22, <1>23, <1>24, <1>25, <1>26, <1>27, <1>28, <1>29, <1>30, <1>31,
     <1>32, <1>33, <1>34, <1>35, <1>36, <1>37, <1>38, <1>39, <1>40, <1>41,
     <1>42, <1>43, <1>44, <1>45 DEF Next, Server, Network, Owner

\* The second call.result() comes after the count, and no redirect comes
\* after it.
LEMMA NextReturned ==
  ASSUME BareEngine = FALSE, IInv, AnswerInv, CountInv,
         ReturnedRedirectCount, [Next]_vars
  PROVE  ReturnedRedirectCount'
<1> USE DEF IInv, TypeOK, FlagsOK, ValuesOK, BodyInv
<1>1. CASE OnReceivedRedirect
  BY <1>1 DEF OnReceivedRedirect, ReturnedRedirectCount
<1>2. CASE OnRedirectLimit
  BY <1>2 DEF OnRedirectLimit, OnResponse, ReturnedRedirectCount
<1>3. CASE OnResponseStarted
  BY <1>3 DEF OnResponseStarted, OnResponse, ReturnedRedirectCount
<1>4. CASE OnReadCompleted
  BY <1>4 DEF OnReadCompleted, OnData, ReturnedRedirectCount
<1>5. CASE OnSucceeded
  BY <1>5 DEF OnSucceeded, Terminal, Finish, ReturnedRedirectCount
<1>6. CASE OnError
  BY <1>6 DEF OnError, Terminal, Finish, ReturnedRedirectCount
<1>7. CASE RunTask
  BY <1>7 DEF RunTask, ReturnedRedirectCount
<1>8. CASE RunDestroy
  BY <1>8 DEF RunDestroy, ReturnedRedirectCount
<1>9. CASE FollowRedirect
  BY <1>9 DEF FollowRedirect, PostUnlessDestroyed, ReturnedRedirectCount
<1>10. CASE StoreHeaders
  BY <1>10 DEF StoreHeaders, ReturnedRedirectCount
<1>11. CASE SignalProgress
  BY <1>11 DEF SignalProgress, ReturnedRedirectCount
<1>12. CASE SetRedirectCount
  BY <1>12 DEF SetRedirectCount, ReturnedRedirectCount
<1>13. CASE ReadData
  BY <1>13 DEF ReadData, PostUnlessDestroyed, ReturnedRedirectCount
<1>14. CASE FinishAtLimit
  BY <1>14 DEF FinishAtLimit, Finish, ReturnedRedirectCount
<1>15. CASE OnCanceled
  BY <1>15 DEF OnCanceled, Finish, ReturnedRedirectCount
<1>16. CASE OnDestroyed
  BY <1>16 DEF OnDestroyed, Finish, ReturnedRedirectCount
<1>17. CASE WriteResult
  BY <1>17 DEF WriteResult, ReturnedRedirectCount
<1>18. CASE StoreDone
  BY <1>18 DEF StoreDone, ReturnedRedirectCount
<1>19. CASE SignalFinished
  BY <1>19 DEF SignalFinished, ReturnedRedirectCount
<1>20. CASE DestroyWithoutCancel
  BY <1>20 DEF DestroyWithoutCancel, DestroyRequest, PostUnlessDestroyed,
     ReturnedRedirectCount
<1>21. CASE UnregisterCall
  BY <1>21 DEF UnregisterCall, ReturnedRedirectCount
<1>22. CASE Detach
  BY <1>22 DEF Detach, ReturnedRedirectCount
<1>23. CASE SignalReleased
  BY <1>23 DEF SignalReleased, ReturnedRedirectCount
<1>24. CASE DeleteRequest
  BY <1>24 DEF DeleteRequest, ReturnedRedirectCount
<1>25. CASE RegisterCall
  BY <1>25 DEF RegisterCall, ReturnedRedirectCount
<1>26. CASE AttachRequest
  BY <1>26 DEF AttachRequest, ReturnedRedirectCount
<1>27. CASE PostStart
  BY <1>27 DEF PostStart, ReturnedRedirectCount
<1>28. CASE Drain
  BY <1>28 DEF Drain, ReturnedRedirectCount
<1>29. CASE CheckHeaders
  BY <1>29 DEF CheckHeaders, ReturnedRedirectCount
<1>30. CASE Poll
  BY <1>30 DEF Poll, ReturnedRedirectCount
<1>31. CASE ReadResult
  <2>1. report = "none"
    BY <1>31 DEF ReadResult, AnswerInv, Undecided
  <2>2. report' # "response"
    BY <1>31, <2>1 DEF ReadResult
  <2> QED
    BY <2>2 DEF ReturnedRedirectCount
<1>32. CASE Read
  BY <1>32 DEF Read, Least, Available, ReturnedRedirectCount
<1>33. CASE Resume
  BY <1>33 DEF Resume, PostUnlessDestroyed, ReturnedRedirectCount
<1>34. CASE ReadNothing
  BY <1>34 DEF ReadNothing, ReturnedRedirectCount
<1>35. CASE FinalResult
  <2>1. own = "final" /\ claimed /\ UNCHANGED hops
    BY <1>35 DEF FinalResult
  <2>2. errorCode = "OK" => redirectCount = hops
    BY <2>1 DEF CountInv, OutcomeInv
  <2>3. report' = "response" =>
          errorCode = "OK" /\ seenRedirects' = redirectCount
    BY <1>35 DEF FinalResult
  <2> QED
    BY <2>1, <2>2, <2>3 DEF ReturnedRedirectCount
<1>36. CASE OwnerCancel
  BY <1>36 DEF OwnerCancel, DestroyRequest, PostUnlessDestroyed,
     ReturnedRedirectCount
<1>37. CASE RaiseTimeout
  BY <1>37 DEF RaiseTimeout, ReturnedRedirectCount
<1>38. CASE WaitDone
  BY <1>38 DEF WaitDone, ReturnedRedirectCount
<1>39. CASE Cleanup
  BY <1>39 DEF Cleanup, ReturnedRedirectCount
<1>40. CASE WaitForRelease
  BY <1>40 DEF WaitForRelease, ReturnedRedirectCount
<1>41. CASE Expire
  BY <1>41 DEF Expire, ReturnedRedirectCount
<1>42. CASE Abandon
  BY <1>42 DEF Abandon, ReturnedRedirectCount
<1>43. CASE EngineCancel
  BY <1>43 DEF EngineCancel, DestroyRequest, PostUnlessDestroyed,
     ReturnedRedirectCount
<1>44. CASE Terminated
  BY <1>44 DEF Terminated, vars, ReturnedRedirectCount
<1>45. CASE UNCHANGED vars
  BY <1>45 DEF vars, ReturnedRedirectCount
<1> QED
  BY <1>1, <1>2, <1>3, <1>4, <1>5, <1>6, <1>7, <1>8, <1>9, <1>10, <1>11,
     <1>12, <1>13, <1>14, <1>15, <1>16, <1>17, <1>18, <1>19, <1>20, <1>21,
     <1>22, <1>23, <1>24, <1>25, <1>26, <1>27, <1>28, <1>29, <1>30, <1>31,
     <1>32, <1>33, <1>34, <1>35, <1>36, <1>37, <1>38, <1>39, <1>40, <1>41,
     <1>42, <1>43, <1>44, <1>45 DEF Next, Server, Network, Owner

\* Both hold before the call is registered.
LEMMA InitTold == Init => ToldInv
<1> SUFFICES ASSUME Init PROVE ToldInv
  OBVIOUS
<1>1. ~claimed /\ ~released
  BY Zenon DEF Init
<1>2. /\ own = "new" /\ report = "none" /\ errorCode = "OK" /\ req = "none"
      /\ net = "idle" /\ callState = "STARTED"
  BY DEF Init
<1> QED
  BY <1>1, <1>2 DEF ToldInv, AnswerInv, CountInv, ReturnedRedirectCount,
     Undecided

-----------------------------------------------------------------------------
(* Every step is a step of AbstractCall or none.                           *)

\* What the owner cannot see.
LEMMA Unseen ==
  ASSUME UNCHANGED <<sent, got, claimed, verdict, report>>,
         (own = "freed") = (own' = "freed")
  PROVE  UNCHANGED Abstract!vars
BY DEF Abstract!vars

\* A call of Finish is the end of the call or, if it was not the first,
\* nothing.
LEMMA FinishEnds ==
  ASSUME IInv, AnswerInv, UNCHANGED <<sent, got, report, own>>,
         \/ claimed /\ UNCHANGED <<claimed, verdict>>
         \/ ~claimed /\ claimed' = TRUE /\ verdict' \in Codes
  PROVE  Abstract!End \/ UNCHANGED Abstract!vars
<1>1. CASE claimed
  BY <1>1, Unseen
<1>2. CASE ~claimed
  <2>1. own # "freed"
    BY <1>2 DEF IInv, ReleaseInv, AnswerInv
  <2>2. claimed' /\ verdict' \in Codes
    BY <1>2
  <2> QED
    BY <1>2, <2>1, <2>2 DEF Abstract!End
<1> QED
  BY <1>1, <1>2

\* An answer may be given to an owner that holds the call and has none.
LEMMA Answered ==
  ASSUME IInv, AnswerInv, own \in Undecided, own' # "freed",
         UNCHANGED <<sent, got, claimed, verdict>>, report' \in Abstract!Answers,
         report' \in {"response", "streamed", "error"} => claimed,
         report' \in {"response", "streamed"} => got = sent
  PROVE  \E a \in Abstract!Answers : Abstract!Answer(a)
<1>1. report = "none" /\ own # "freed"
  BY DEF AnswerInv, Undecided
<1>2. claimed => verdict # "pending"
  BY DEF IInv, TypeOK, ValuesOK
<1>3. Abstract!Answer(report')
  BY <1>1, <1>2 DEF Abstract!Answer
<1> QED
  BY <1>3

\* Delivering, taking, ending, answering and letting go are what the steps of
\* the threads come to.
LEMMA NextRefines ==
  ASSUME BareEngine = FALSE, IInv, AnswerInv, [Next]_vars
  PROVE  Abstract!Next \/ UNCHANGED Abstract!vars
<1>1. CASE OnReceivedRedirect
  BY <1>1, Unseen DEF OnReceivedRedirect
<1>2. CASE OnRedirectLimit
  BY <1>2, Unseen DEF OnRedirectLimit, OnResponse
<1>3. CASE OnResponseStarted
  BY <1>3, Unseen DEF OnResponseStarted, OnResponse
<1>4. CASE OnReadCompleted
  <2>1. /\ req = "reading" /\ UNCHANGED <<got, claimed, verdict, report, own>>
    BY <1>4 DEF OnReadCompleted
  <2>2. PICK n \in 1..ReadBufferSize : sent' = sent + n
    BY <1>4 DEF OnReadCompleted
  <2>3. ~claimed /\ own # "freed"
    BY <2>1 DEF IInv, BodyInv, ReleaseInv
  <2>4. Available < HighWater
    BY <2>1 DEF IInv, RoomInv, ParkInv, Parked
  <2>5. sent + n - got <= HighWater + ReadBufferSize - 1
    BY <2>4, WaterMarks DEF IInv, BodyInv, TypeOK, ValuesOK, Available
  <2>6. Abstract!Deliver
    BY <2>1, <2>2, <2>3, <2>5 DEF Abstract!Deliver
  <2> QED
    BY <2>6 DEF Abstract!Next
<1>5. CASE OnSucceeded
  <2>1. /\ UNCHANGED <<sent, got, report, own>>
        /\ \/ claimed /\ UNCHANGED <<claimed, verdict>>
           \/ ~claimed /\ claimed' = TRUE /\ verdict' \in Codes
    BY <1>5 DEF OnSucceeded, Terminal, Finish
  <2> QED
    BY <2>1, FinishEnds DEF Abstract!Next
<1>6. CASE OnError
  <2>1. /\ UNCHANGED <<sent, got, report, own>>
        /\ \/ claimed /\ UNCHANGED <<claimed, verdict>>
           \/ ~claimed /\ claimed' = TRUE /\ verdict' \in Codes
    BY <1>6 DEF OnError, Terminal, Finish
  <2> QED
    BY <2>1, FinishEnds DEF Abstract!Next
<1>7. CASE RunTask
  BY <1>7, Unseen DEF RunTask
<1>8. CASE RunDestroy
  BY <1>8, Unseen DEF RunDestroy
<1>9. CASE FollowRedirect
  BY <1>9, Unseen DEF FollowRedirect, PostUnlessDestroyed
<1>10. CASE StoreHeaders
  BY <1>10, Unseen DEF StoreHeaders
<1>11. CASE SignalProgress
  BY <1>11, Unseen DEF SignalProgress
<1>12. CASE SetRedirectCount
  BY <1>12, Unseen DEF SetRedirectCount
<1>13. CASE ReadData
  BY <1>13, Unseen DEF ReadData, PostUnlessDestroyed
<1>14. CASE FinishAtLimit
  <2>1. /\ UNCHANGED <<sent, got, report, own>>
        /\ \/ claimed /\ UNCHANGED <<claimed, verdict>>
           \/ ~claimed /\ claimed' = TRUE /\ verdict' \in Codes
    BY <1>14 DEF FinishAtLimit, Finish
  <2> QED
    BY <2>1, FinishEnds DEF Abstract!Next
<1>15. CASE OnCanceled
  <2>1. /\ UNCHANGED <<sent, got, report, own>>
        /\ \/ claimed /\ UNCHANGED <<claimed, verdict>>
           \/ ~claimed /\ claimed' = TRUE /\ verdict' \in Codes
    BY <1>15 DEF OnCanceled, Finish
  <2> QED
    BY <2>1, FinishEnds DEF Abstract!Next
<1>16. CASE OnDestroyed
  <2>1. /\ UNCHANGED <<sent, got, report, own>>
        /\ \/ claimed /\ UNCHANGED <<claimed, verdict>>
           \/ ~claimed /\ claimed' = TRUE /\ verdict' \in Codes
    BY <1>16 DEF OnDestroyed, Finish
  <2> QED
    BY <2>1, FinishEnds DEF Abstract!Next
<1>17. CASE WriteResult
  BY <1>17, Unseen DEF WriteResult
<1>18. CASE StoreDone
  BY <1>18, Unseen DEF StoreDone
<1>19. CASE SignalFinished
  BY <1>19, Unseen DEF SignalFinished
<1>20. CASE DestroyWithoutCancel
  BY <1>20, Unseen DEF DestroyWithoutCancel, DestroyRequest,
     PostUnlessDestroyed
<1>21. CASE UnregisterCall
  BY <1>21, Unseen DEF UnregisterCall
<1>22. CASE Detach
  BY <1>22, Unseen DEF Detach
<1>23. CASE SignalReleased
  BY <1>23, Unseen DEF SignalReleased
<1>24. CASE DeleteRequest
  BY <1>24, Unseen DEF DeleteRequest
<1>25. CASE RegisterCall
  BY <1>25, Unseen DEF RegisterCall
<1>26. CASE AttachRequest
  BY <1>26, Unseen DEF AttachRequest
<1>27. CASE PostStart
  BY <1>27, Unseen DEF PostStart
<1>28. CASE Drain
  BY <1>28, Unseen DEF Drain
<1>29. CASE CheckHeaders
  BY <1>29, Unseen DEF CheckHeaders
<1>30. CASE Poll
  BY <1>30, Unseen DEF Poll
<1>31. CASE ReadResult
  <2>1. CASE errorCode = "OK"
    BY <1>31, <2>1, Unseen DEF ReadResult
  <2>2. CASE errorCode # "OK"
    <3>1. \E a \in Abstract!Answers : Abstract!Answer(a)
      BY <1>31, <2>2, Answered DEF ReadResult, Unwind, Undecided,
         AnswerInv, Abstract!Answers
    <3> QED
      BY <3>1 DEF Abstract!Next
  <2> QED
    BY <2>1, <2>2
<1>32. CASE Read
  <2>1. /\ own = "read" /\ Available > 0 /\ own' \in {"read", "resume"}
        /\ UNCHANGED <<sent, claimed, verdict, report>>
        /\ got' = got + Least(ChunkSize, Available)
    BY <1>32 DEF Read
  <2>2. sent - got = Available /\ Available \in Nat
    BY DEF IInv, BodyInv, TypeOK, ValuesOK, Available
  <2>3. Least(ChunkSize, Available) \in 1..(sent - got)
    BY <2>1, <2>2, WaterMarks DEF Least
  <2>4. report = "none"
    BY <2>1 DEF AnswerInv, Undecided
  <2>5. Abstract!Take
    BY <2>1, <2>3, <2>4 DEF Abstract!Take
  <2> QED
    BY <2>5 DEF Abstract!Next
<1>33. CASE Resume
  BY <1>33, Unseen DEF Resume, PostUnlessDestroyed
<1>34. CASE ReadNothing
  <2>1. /\ own = "read" /\ Available = 0
        /\ UNCHANGED <<sent, got, claimed, verdict>>
    BY <1>34 DEF ReadNothing
  <2>2. CASE ~bodyComplete \/ owner # "stream"
    BY <1>34, <2>2, Unseen DEF ReadNothing
  <2>3. CASE bodyComplete /\ owner = "stream"
    <3>1. claimed /\ got = sent
      BY <2>1, <2>3 DEF IInv, BodyInv, TypeOK, ValuesOK, Available
    <3>2. own' = "cleanup" /\ report' = "streamed"
      BY <1>34, <2>3 DEF ReadNothing
    <3>3. \E a \in Abstract!Answers : Abstract!Answer(a)
      BY <2>1, <3>1, <3>2, Answered DEF Undecided, Abstract!Answers
    <3> QED
      BY <3>3 DEF Abstract!Next
  <2> QED
    BY <2>2, <2>3
<1>35. CASE FinalResult
  <2>1. /\ own = "final" /\ own' \in {"close", "cleanup"}
        /\ report' \in {"response", "error"}
        /\ UNCHANGED <<sent, got, claimed, verdict>>
    BY <1>35 DEF FinalResult, Unwind
  <2>2. claimed /\ got = sent
    BY <2>1 DEF IInv, BodyInv, TypeOK, ValuesOK, Available
  <2>3. \E a \in Abstract!Answers : Abstract!Answer(a)
    BY <2>1, <2>2, Answered DEF Undecided, Abstract!Answers
  <2> QED
    BY <2>3 DEF Abstract!Next
<1>36. CASE OwnerCancel
  <2>1. CASE own = "expired"
    <3>1. /\ own' = "waitDone" /\ report' = "timeout"
          /\ UNCHANGED <<sent, got, claimed, verdict>>
      BY <1>36, <2>1 DEF OwnerCancel
    <3>2. \E a \in Abstract!Answers : Abstract!Answer(a)
      BY <2>1, <3>1, Answered DEF Undecided, Abstract!Answers
    <3> QED
      BY <3>2 DEF Abstract!Next
  <2>2. CASE own # "expired"
    BY <1>36, <2>2, Unseen DEF OwnerCancel
  <2> QED
    BY <2>1, <2>2
<1>37. CASE RaiseTimeout
  <2>1. /\ own \in {"expired"} /\ own' = "cleanup"
        /\ report' = "timeout" /\ UNCHANGED <<sent, got, claimed, verdict>>
    BY <1>37 DEF RaiseTimeout
  <2>2. \E a \in Abstract!Answers : Abstract!Answer(a)
    BY <2>1, Answered DEF Undecided, Abstract!Answers
  <2> QED
    BY <2>2 DEF Abstract!Next
<1>38. CASE WaitDone
  BY <1>38, Unseen DEF WaitDone
<1>39. CASE Cleanup
  BY <1>39, Unseen DEF Cleanup
<1>40. CASE WaitForRelease
  <2>1. /\ own = "release" /\ own' = "freed" /\ released
        /\ UNCHANGED <<sent, got, claimed, verdict, report>>
    BY <1>40 DEF WaitForRelease
  <2>2. claimed /\ report # "none"
    BY <2>1 DEF AnswerInv, Undecided
  <2>3. verdict # "pending"
    BY DEF IInv, TypeOK, ValuesOK
  <2>4. Abstract!LetGo
    BY <2>1, <2>2, <2>3 DEF Abstract!LetGo
  <2> QED
    BY <2>4 DEF Abstract!Next
<1>41. CASE Expire
  BY <1>41, Unseen DEF Expire
<1>42. CASE Abandon
  <2>1. /\ own \in {"drainBody", "read", "pollHeaders", "pollBody"}
        /\ own' = "cleanup" /\ report' = "abandoned" /\ UNCHANGED <<sent, got, claimed, verdict>>
    BY <1>42 DEF Abandon
  <2>2. \E a \in Abstract!Answers : Abstract!Answer(a)
    BY <2>1, Answered DEF Undecided, Abstract!Answers
  <2> QED
    BY <2>2 DEF Abstract!Next
<1>43. CASE EngineCancel
  BY <1>43, Unseen DEF EngineCancel, DestroyRequest, PostUnlessDestroyed
<1>44. CASE Terminated
  BY <1>44, Unseen DEF Terminated, vars
<1>45. CASE UNCHANGED vars
  BY <1>45, Unseen DEF vars
<1> QED
  BY <1>1, <1>2, <1>3, <1>4, <1>5, <1>6, <1>7, <1>8, <1>9, <1>10, <1>11,
     <1>12, <1>13, <1>14, <1>15, <1>16, <1>17, <1>18, <1>19, <1>20, <1>21,
     <1>22, <1>23, <1>24, <1>25, <1>26, <1>27, <1>28, <1>29, <1>30, <1>31,
     <1>32, <1>33, <1>34, <1>35, <1>36, <1>37, <1>38, <1>39, <1>40, <1>41,
     <1>42, <1>43, <1>44, <1>45 DEF Next, Server, Network, Owner

-----------------------------------------------------------------------------
(* Every step is a step of CallLife or none.                               *)

\* What the engine cannot see.
LEMMA UnseenByEngine ==
  ASSUME UNCHANGED <<registered, released, destroyRequested>>,
         (own \in {"new", "freed"}) = (own' \in {"new", "freed"})
  PROVE  UNCHANGED Phase
BY DEF Phase

\* Asking for the teardown is a cancellation or, the second time or once the
\* call has left the engine, nothing.
LEMMA TeardownAsked ==
  ASSUME IInv, UNCHANGED <<registered, released>>,
         destroyRequested' = (destroyRequested \/ attached),
         (own \in {"new", "freed"}) = (own' \in {"new", "freed"})
  PROVE  Life!Cancel \/ UNCHANGED Phase
BY DEF IInv, TypeOK, FlagsOK, Phase, Life!Cancel

\* Registering, cancelling, unregistering, releasing and freeing are what the
\* steps of the threads come to.
LEMMA NextLives ==
  ASSUME BareEngine = FALSE, IInv, [Next]_vars
  PROVE  Life!Next \/ UNCHANGED Phase
<1>1. CASE Server
  <2>1. UNCHANGED <<registered, released, destroyRequested, own>>
    BY <1>1 DEF Server, OnReceivedRedirect, OnRedirectLimit,
       OnResponseStarted, OnResponse, OnReadCompleted, OnSucceeded, OnError,
       Terminal
  <2> QED
    BY <2>1, UnseenByEngine
<1>2. CASE \/ RunTask \/ RunDestroy \/ FollowRedirect \/ StoreHeaders
           \/ SignalProgress \/ SetRedirectCount \/ ReadData
  <2>1. UNCHANGED <<registered, released, destroyRequested, own>>
    BY <1>2 DEF RunTask, RunDestroy, FollowRedirect, StoreHeaders,
       SignalProgress, SetRedirectCount, ReadData
  <2> QED
    BY <2>1, UnseenByEngine
<1>3. CASE \/ FinishAtLimit \/ OnCanceled \/ OnDestroyed \/ WriteResult
           \/ StoreDone \/ SignalFinished \/ Detach \/ DeleteRequest
  <2>1. UNCHANGED <<registered, released, destroyRequested, own>>
    BY <1>3 DEF FinishAtLimit, OnCanceled, OnDestroyed, WriteResult,
       StoreDone, SignalFinished, Detach, DeleteRequest
  <2> QED
    BY <2>1, UnseenByEngine
<1>4. CASE DestroyWithoutCancel \/ EngineCancel
  <2>1. /\ UNCHANGED <<registered, released, own>>
        /\ destroyRequested' = (destroyRequested \/ attached)
    BY <1>4 DEF DestroyWithoutCancel, EngineCancel, DestroyRequest
  <2> QED
    BY <2>1, TeardownAsked DEF Life!Next
<1>5. CASE OwnerCancel
  <2>1. /\ UNCHANGED <<registered, released>>
        /\ destroyRequested' = (destroyRequested \/ attached)
        /\ own \notin {"new", "freed"} /\ own' \notin {"new", "freed"}
    BY <1>5 DEF OwnerCancel, DestroyRequest
  <2> QED
    BY <2>1, TeardownAsked DEF Life!Next
<1>6. CASE UnregisterCall
  <2>1. /\ net = "unregister" /\ registered' = FALSE
        /\ UNCHANGED <<released, destroyRequested, own>>
    BY <1>6 DEF UnregisterCall
  <2>2. own \notin {"new", "freed"} /\ ~released
    BY <2>1 DEF IInv, NetInv, ReleaseInv
  <2> QED
    BY <2>1, <2>2 DEF Phase, Life!Next, Life!Unregister
<1>7. CASE SignalReleased
  <2>1. /\ net = "release" /\ released' = TRUE
        /\ UNCHANGED <<registered, destroyRequested, own>>
    BY <1>7 DEF SignalReleased
  <2>2. own \notin {"new", "freed"} /\ ~released /\ ~registered
    BY <2>1 DEF IInv, NetInv, ReleaseInv
  <2> QED
    BY <2>1, <2>2 DEF Phase, Life!Next, Life!Release
<1>8. CASE RegisterCall
  <2>1. /\ own = "new" /\ own' = "attach" /\ registered' = TRUE
        /\ UNCHANGED destroyRequested
    BY <1>8 DEF RegisterCall
  <2>2. ~destroyRequested
    BY <2>1 DEF IInv, PostInv
  <2> QED
    BY <2>1, <2>2 DEF Phase, Life!Next, Life!Start
<1>9. CASE WaitForRelease
  <2>1. own = "release" /\ released /\ own' = "freed"
    BY <1>9 DEF WaitForRelease
  <2>2. ~registered
    BY <2>1 DEF IInv, ReleaseInv
  <2> QED
    BY <2>1, <2>2 DEF Phase, Life!Next, Life!Free
<1>10. CASE \/ AttachRequest \/ PostStart \/ Drain \/ CheckHeaders \/ Poll
            \/ ReadResult \/ Read \/ Resume
  <2>1. /\ UNCHANGED <<registered, released, destroyRequested>>
        /\ own \notin {"new", "freed"} /\ own' \notin {"new", "freed"}
    BY <1>10 DEF AttachRequest, PostStart, Drain, CheckHeaders, Poll,
       ReadResult, Unwind, Read, Resume
  <2> QED
    BY <2>1, UnseenByEngine
<1>11. CASE \/ ReadNothing \/ FinalResult \/ RaiseTimeout \/ WaitDone
            \/ Cleanup \/ Expire \/ Abandon
  <2>1. /\ UNCHANGED <<registered, released, destroyRequested>>
        /\ own \notin {"new", "freed"} /\ own' \notin {"new", "freed"}
    BY <1>11 DEF ReadNothing, FinalResult, Unwind, RaiseTimeout, WaitDone,
       Cleanup, Expire, Abandon
  <2> QED
    BY <2>1, UnseenByEngine
<1>12. CASE Terminated \/ UNCHANGED vars
  BY <1>12, UnseenByEngine DEF Terminated, vars
<1> QED
  BY <1>1, <1>2, <1>3, <1>4, <1>5, <1>6, <1>7, <1>8, <1>9, <1>10, <1>11,
     <1>12 DEF Next, Network, Owner

-----------------------------------------------------------------------------
(* The theorems.                                                           *)

\* What the owner is told rests on the call's own protocol.
THEOREM ToldInvariance ==
  ASSUME BareEngine = FALSE PROVE Spec => [](IInv /\ ToldInv)
<1>1. Init => ToldInv
  BY InitTold
<1>2. IInv /\ ToldInv /\ [Next]_vars => ToldInv'
  BY NextAnswer, NextCount, NextReturned DEF ToldInv
<1> QED
  BY <1>1, <1>2, Invariance, PTL DEF Spec

\* The Response that a request returns has counted every redirect followed,
\* although headers become visible before set_redirect_count runs.
THEOREM RedirectsCounted ==
  ASSUME BareEngine = FALSE PROVE Spec => []ReturnedRedirectCount
<1>1. ToldInv => ReturnedRedirectCount
  BY DEF ToldInv
<1> QED
  BY <1>1, ToldInvariance, PTL

\* CallState implements AbstractCall: for its owner the call is a stream of
\* bytes a bounded amount ahead, with one outcome, one answer and one release,
\* whatever its threads do and whatever the constants.
THEOREM Refinement ==
  ASSUME BareEngine = FALSE PROVE Spec => ImplementsAbstractCall
<1>1. Init => Abstract!Init
  BY Zenon DEF Init, Abstract!Init
<1>2. IInv /\ ToldInv /\ [Next]_vars => [Abstract!Next]_(Abstract!vars)
  BY NextRefines DEF ToldInv
<1> QED
  BY <1>1, <1>2, ToldInvariance, PTL
     DEF Spec, ImplementsAbstractCall, Abstract!Spec

\* CallState implements CallLife, so what Engine relies on of each of its calls
\* is what a call does, whatever its threads do and whatever the constants.
THEOREM LifeRefinement ==
  ASSUME BareEngine = FALSE PROVE Spec => ImplementsCallLife
<1>1. Init => Life!Init
  BY Zenon DEF Init, Phase, Life!Init
<1>2. IInv /\ [Next]_vars => [Life!Next]_Phase
  BY NextLives
<1> QED
  BY <1>1, <1>2, Invariance, PTL DEF Spec, ImplementsCallLife, Life!Spec
=============================================================================
