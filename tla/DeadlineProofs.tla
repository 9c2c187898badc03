--------------------------- MODULE DeadlineProofs ---------------------------
(***************************************************************************)
(* Proofs about Deadline for any resolution of the clock, any timeouts,    *)
(* any network errors, any number of pieces and of hops.                   *)
(***************************************************************************)
EXTENDS Deadline, TLAPS

-----------------------------------------------------------------------------
(* The inductive invariant.                                                *)

\* Where the owner stands: waiting for headers, then for the body, having
\* given up, and letting go.
HeaderPhase == {"headers", "askPoll", "pollHeaders", "wokenHeaders", "result",
                "handed"}
BodyPhase == {"body", "read", "yielded", "pollBody", "wokenBody", "final",
              "exhausted"}
GivingUp == {"expired", "waitDone", "raise"}
LettingGo == {"cleanup", "close", "over"}

Shape ==
    /\ owner \in {"perform", "stream", "async"} /\ limit \in Limits
    /\ pc \in HeaderPhase \cup BodyPhase \cup GivingUp \cup LettingGo
    /\ hop \in Nat /\ elapsed \in Nat /\ waited \in Nat
    /\ remaining \in Int /\ wake \in Int /\ code \in Int

\* A call is Aborted only if somebody asked, and the owner asks last of all.
OutcomeInv ==
    /\ code # OK => callState = "DONE"
    /\ code = Aborted => asked # {}
    /\ asked \subseteq {"owner", "other"}
    /\ "owner" \in asked => pc \in GivingUp \cup LettingGo

\* A driver whose deadline has run out reports that and nothing else; only a
\* stream lets the built-in TimeoutError out.
ReportInv ==
    /\ expired \in BOOLEAN
    /\ pc \in GivingUp => expired
    /\ expired => \/ pc \in GivingUp
                  \/ /\ pc \in LettingGo \cup {"exhausted"}
                     /\ \/ report = "Timeout"
                        \/ report = "TimeoutError" /\ owner = "stream"
    /\ pc \notin LettingGo \cup {"exhausted"} => report = "none"
    /\ report = "Cancelled" => "other" \in asked
    /\ report = "Timeout" => expired \/ code \in TimeoutErrors

\* The descriptor stays readable for whatever was signalled since the owner
\* last looked at the state.
SeenInv ==
    pc \in {"askPoll", "pollHeaders"} /\ ~readable =>
        callState = "STARTED" \/ owed

\* A response is handed over by Session.stream only.
StreamInv == pc = "handed" => owner = "stream"

\* In ticks: the timeout, what is counted down of it, what the countdowns of
\* earlier hops and of this hop's headers may have used, and what the running
\* countdown has used.
Budget == IF limit < 0 THEN 0 ELSE limit
Whole == TimeoutMs * U
Earlier == hop * Countdowns * Budget
Begun == IF pc \in BodyPhase /\ owner # "async" THEN Earlier + Budget
         ELSE Earlier
Spent == waited - Begun

\* What a round was given, or the poll it has come to, ends less than a
\* millisecond before the countdown and, added to the time already spent
\* blocked, not after it.
RoundInv ==
    /\ limit = NoLimit \/ owner = "async" =>
         remaining = Forever /\ wake = Forever
    /\ limit # NoLimit /\ owner # "async" =>
         /\ pc \in {"askPoll", "read", "yielded"} =>
              /\ remaining >= 1
              /\ elapsed + remaining * U >= Whole - (U - 1)
              /\ Spent + remaining * U <= Whole
         /\ pc \in {"pollHeaders", "pollBody"} =>
              /\ wake >= Whole - (U - 1)
              /\ Spent + (wake - elapsed) <= Whole

\* Blocked time is part of the countdown's own, and within the timeout.
BudgetInv ==
    limit # NoLimit =>
        IF pc \in HeaderPhase \cup BodyPhase
        THEN Spent <= elapsed /\ Spent <= Budget
        ELSE waited <= Earlier + Countdowns * Budget

IInv == /\ Shape /\ OutcomeInv /\ ReportInv /\ SeenInv /\ StreamInv
        /\ RoundInv /\ BudgetInv

-----------------------------------------------------------------------------
(* Arithmetic of the countdown.                                            *)

\* Whole milliseconds cut off less than one.
LEMMA Division ==
  ASSUME NEW n \in Int, NEW d \in Nat \ {0}
  PROVE  /\ n \div d \in Int
         /\ (n \div d) * d <= n /\ n < (n \div d) * d + d
OBVIOUS

\* One hop more is one share more.
LEMMA Product ==
  ASSUME NEW h \in Nat, NEW c \in Nat, NEW l \in Nat
  PROVE  /\ h * c * l \in Nat /\ c * l \in Nat
         /\ (h + 1) * c * l = h * c * l + c * l
OBVIOUS

\* What is counted down is the timeout, less than a millisecond short.
LEMMA WholeFacts ==
  ASSUME Shape, limit # NoLimit
  PROVE  /\ limit \in Int /\ Budget \in Nat /\ Whole \in Nat
         /\ Whole <= Budget /\ Whole >= limit - (U - 1)
<1>1. limit \in Int /\ U \in Nat \ {0}
  BY ClockAssumption DEF Shape
<1>2. /\ (limit \div U) * U <= limit /\ limit < (limit \div U) * U + U
      /\ limit \div U \in Int
  BY <1>1, Division
<1>3. CASE limit < U
  <2>1. Whole = 0
    BY <1>1, <1>3 DEF Whole, TimeoutMs
  <2> QED
    BY <1>1, <1>3, <2>1 DEF Budget
<1>4. CASE ~(limit < U)
  <2>1. Whole = (limit \div U) * U
    BY <1>1, <1>4 DEF Whole, TimeoutMs
  <2> QED
    BY <1>1, <1>2, <1>4, <2>1 DEF Budget
<1> QED
  BY <1>3, <1>4

\* The shares of the hops, and when the running countdown began.
LEMMA ShareFacts ==
  ASSUME Shape, limit # NoLimit
  PROVE  /\ Countdowns \in {1, 2} /\ Earlier \in Nat /\ Begun \in Nat
         /\ Countdowns * Budget \in Nat /\ Countdowns * Budget >= Budget
         /\ owner # "async" => Countdowns * Budget = Budget + Budget
         /\ (hop + 1) * Countdowns * Budget = Earlier + Countdowns * Budget
         /\ Begun = Earlier \/ Begun = Earlier + Budget
<1>1. Budget \in Nat /\ hop \in Nat
  BY WholeFacts DEF Shape
<1>2. Countdowns \in {1, 2} /\ (owner # "async" => Countdowns = 2)
  BY DEF Countdowns
<1>3. /\ Earlier \in Nat
      /\ (hop + 1) * Countdowns * Budget = Earlier + Countdowns * Budget
  BY <1>1, <1>2, Product DEF Earlier
<1>4. /\ Countdowns * Budget \in Nat /\ Countdowns * Budget >= Budget
      /\ owner # "async" => Countdowns * Budget = Budget + Budget
  BY <1>1, <1>2
<1>5. Begun \in Nat /\ (Begun = Earlier \/ Begun = Earlier + Budget)
  BY <1>1, <1>3 DEF Begun
<1> QED
  BY <1>2, <1>3, <1>4, <1>5

\* A countdown that has run out is less than two milliseconds early.
LEMMA RunOutFacts ==
  ASSUME Shape, RunOut
  PROVE  limit # NoLimit /\ elapsed >= limit - 2 * (U - 1)
<1>1. limit # NoLimit /\ Countdown <= 0
  BY DEF RunOut
<1>2. Whole \in Nat /\ Whole >= limit - (U - 1) /\ limit \in Int
  BY <1>1, WholeFacts
<1>3. U \in Nat \ {0} /\ elapsed \in Nat
  BY ClockAssumption DEF Shape
<1>4. TimeoutMs # Forever
  BY <1>2, <1>3 DEF Whole, Forever
<1>5. (Whole - elapsed) \div U <= 0
  BY <1>1, <1>4 DEF Countdown, Whole
<1>6. Whole - elapsed < ((Whole - elapsed) \div U) * U + U
  BY <1>2, <1>3, Division
<1>7. (Whole - elapsed) \div U \in Int
  BY <1>2, <1>3, Division
<1>8. ((Whole - elapsed) \div U) * U <= 0
  BY <1>3, <1>5, <1>7
<1>9. Whole - elapsed < U
  BY <1>2, <1>3, <1>6, <1>7, <1>8
<1> QED
  BY <1>1, <1>2, <1>3, <1>9

\* A round that begins is given what is left, in whole milliseconds.
LEMMA RoundFacts ==
  ASSUME Shape, NextRound
  PROVE  /\ limit = NoLimit => remaining' = Forever
         /\ limit # NoLimit =>
              /\ remaining' \in Int /\ remaining' >= 1
              /\ remaining' * U <= Whole - elapsed
              /\ Whole - elapsed < remaining' * U + U
<1>1. CASE limit = NoLimit
  BY <1>1 DEF NextRound, Countdown, TimeoutMs
<1>2. CASE limit # NoLimit
  <2>1. Whole \in Nat /\ U \in Nat \ {0} /\ elapsed \in Nat
    BY <1>2, WholeFacts, ClockAssumption DEF Shape
  <2>2. TimeoutMs # Forever
    BY <2>1 DEF Whole, Forever
  <2>3. remaining' = (Whole - elapsed) \div U
    BY <2>2 DEF NextRound, Countdown, Whole
  <2>4. remaining' \in Int /\ ~(remaining' <= 0)
    BY <1>2, <2>1, <2>3, Division DEF NextRound, RunOut
  <2> QED
    BY <1>2, <2>1, <2>3, <2>4, Division
<1> QED
  BY <1>1, <1>2

\* The exceptions that are told apart.
LEMMA ErrorFacts ==
  ASSUME NEW n \in Int
  PROVE  /\ ErrorFor(n) = "Timeout" => n \in TimeoutErrors
         /\ ErrorFor(n) = "Cancelled" => n = Aborted
BY DEF ErrorFor, TimeoutErrors, ProxyErrors, SslErrors, Aborted, RedirectLimit

-----------------------------------------------------------------------------
(* Every step preserves the invariant.                                     *)

USE DEF request, clock, native, HeaderPhase, BodyPhase, GivingUp, LettingGo,
        Blocking, Suspended

\* At the start nothing has been waited for.
LEMMA InitInv == Init => IInv
<1> SUFFICES ASSUME Init PROVE IInv
  OBVIOUS
<1>1. Shape
  BY ClockAssumption DEF Init, Shape, Forever, OK
<1>2. OutcomeInv /\ SeenInv /\ StreamInv
  BY DEF Init, OutcomeInv, SeenInv, StreamInv, OK, Aborted
<1>3. ReportInv
  <2>1. expired = FALSE /\ report = "none" /\ pc = "headers"
    BY Zenon DEF Init
  <2> QED
    BY <2>1 DEF ReportInv
<1>4. RoundInv
  BY DEF Init, RoundInv
<1>5. BudgetInv
  <2> SUFFICES ASSUME limit # NoLimit
               PROVE  Spent <= elapsed /\ Spent <= Budget
    BY DEF Init, BudgetInv
  <2>1. waited = 0 /\ elapsed = 0
    BY DEF Init
  <2>2. Begun \in Nat /\ Budget \in Nat
    BY <1>1, ShareFacts, WholeFacts
  <2> QED
    BY <2>1, <2>2 DEF Spent
<1> QED
  BY <1>1, <1>2, <1>3, <1>4, <1>5 DEF IInv

\* The owner stands where its code can be; time does not run backwards.
LEMMA NextShape == IInv /\ [Next]_vars => Shape'
<1> SUFFICES ASSUME IInv, [Next]_vars PROVE Shape'
  OBVIOUS
<1>1. CASE HeadersArrive
  BY <1>1, ClockAssumption DEF HeadersArrive, IInv, Shape
<1>2. CASE PieceArrives
  BY <1>2, ClockAssumption DEF PieceArrives, IInv, Shape
<1>3. CASE Finish
  <2>1. code' \in Int
    BY <1>3, ClockAssumption DEF Finish, OK, Aborted
  <2> QED
    BY <1>3, <2>1 DEF Finish, IInv, Shape
<1>4. CASE SignalProgress
  BY <1>4, ClockAssumption DEF SignalProgress, IInv, Shape
<1>5. CASE OthersCancel
  BY <1>5, ClockAssumption DEF OthersCancel, IInv, Shape
<1>6. CASE HeadersRound
  <2>1. remaining' \in Int
    BY <1>6, RoundFacts DEF HeadersRound, IInv, Forever
  <2> QED
    BY <1>6, <2>1 DEF HeadersRound, NextRound, LookAtState, Drain, KeepCall,
       IInv, Shape
<1>7. CASE AsyncHeadersRound
  BY <1>7, ClockAssumption DEF AsyncHeadersRound, LookAtState, Drain,
     KeepCall, IInv, Shape
<1>8. CASE PollHeaders
  <2>1. wake' \in Int
    BY <1>8, ClockAssumption DEF PollHeaders, StartPoll, IInv, Shape, Forever
  <2> QED
    BY <1>8, <2>1 DEF PollHeaders, IInv, Shape
<1>9. CASE HeadersRunOut
  BY <1>9, ClockAssumption DEF HeadersRunOut, IInv, Shape
<1>10. CASE ResultRaises
  BY <1>10, ClockAssumption DEF ResultRaises, IInv, Shape
<1>11. CASE HandOver
  BY <1>11, ClockAssumption DEF HandOver, Checked, IInv, Shape
<1>12. CASE StartBody
  BY <1>12, ClockAssumption DEF StartBody, StartCountdown, IInv, Shape
<1>13. CASE BodyRound
  <2>1. remaining' \in Int
    BY <1>13, RoundFacts DEF BodyRound, IInv, Forever
  <2> QED
    BY <1>13, <2>1 DEF BodyRound, NextRound, DrainThenRead, Drain, KeepCall,
       IInv, Shape
<1>14. CASE AsyncBodyRound
  BY <1>14, ClockAssumption DEF AsyncBodyRound, DrainThenRead, Drain,
     KeepCall, IInv, Shape
<1>15. CASE ReadPiece
  BY <1>15, ClockAssumption DEF ReadPiece, IInv, Shape
<1>16. CASE ReadEnd
  BY <1>16, ClockAssumption DEF ReadEnd, IInv, Shape
<1>17. CASE ReadNothing
  <2>1. wake' \in Int
    BY <1>17, ClockAssumption DEF ReadNothing, StartPoll, IInv, Shape, Forever
  <2> QED
    BY <1>17, <2>1 DEF ReadNothing, IInv, Shape
<1>18. CASE BodyRunOut
  BY <1>18, ClockAssumption DEF BodyRunOut, BodyExpires, IInv, Shape
<1>19. CASE Final
  BY <1>19, ClockAssumption DEF Final, Checked, IInv, Shape
<1>20. CASE Wake
  BY <1>20, ClockAssumption DEF Wake, IInv, Shape
<1>21. CASE TaskRuns
  BY <1>21, ClockAssumption DEF TaskRuns, IInv, Shape
<1>22. CASE PollExpires
  BY <1>22, ClockAssumption DEF PollExpires, BodyExpires, IInv, Shape
<1>23. CASE AsyncioExpires
  BY <1>23, ClockAssumption DEF AsyncioExpires, IInv, Shape
<1>24. CASE TaskCancelled
  BY <1>24, ClockAssumption DEF TaskCancelled, IInv, Shape
<1>25. CASE Tick
  BY <1>25, ClockAssumption DEF Tick, IInv, Shape
<1>26. CASE FirstNext
  BY <1>26, ClockAssumption DEF FirstNext, StartCountdown, IInv, Shape
<1>27. CASE NextPiece
  BY <1>27, ClockAssumption DEF NextPiece, IInv, Shape
<1>28. CASE Leave
  BY <1>28, ClockAssumption DEF Leave, IInv, Shape
<1>29. CASE Expired
  BY <1>29, ClockAssumption DEF Expired, IInv, Shape
<1>30. CASE WaitDone
  BY <1>30, ClockAssumption DEF WaitDone, IInv, Shape
<1>31. CASE RaiseTimeout
  BY <1>31, ClockAssumption DEF RaiseTimeout, IInv, Shape
<1>32. CASE Cleanup
  BY <1>32, ClockAssumption DEF Cleanup, IInv, Shape
<1>33. CASE Close
  BY <1>33, ClockAssumption DEF Close, CallReleased, IInv, Shape
<1>34. CASE FollowHop
  <2>1. /\ remaining' = Forever /\ wake' = Forever /\ code' = OK
        /\ elapsed' = 0 /\ hop' = hop + 1 /\ pc' = "headers"
        /\ UNCHANGED <<owner, limit, waited>>
    BY <1>34 DEF FollowHop, StartCountdown
  <2> QED
    BY <2>1 DEF IInv, Shape, Forever, OK
<1>35. CASE UNCHANGED vars
  BY <1>35, ClockAssumption DEF vars, IInv, Shape
<1> QED
  BY <1>1, <1>2, <1>3, <1>4, <1>5, <1>6, <1>7, <1>8, <1>9, <1>10, <1>11,
     <1>12, <1>13, <1>14, <1>15, <1>16, <1>17, <1>18, <1>19, <1>20, <1>21,
     <1>22, <1>23, <1>24, <1>25, <1>26, <1>27, <1>28, <1>29, <1>30, <1>31,
     <1>32, <1>33, <1>34, <1>35 DEF Next, Ended

\* An outcome stays what it is, and the owner asks only when it gives up or
\* lets go.
LEMMA NextOutcome == IInv /\ [Next]_vars => OutcomeInv'
<1> SUFFICES ASSUME IInv, [Next]_vars PROVE OutcomeInv'
  OBVIOUS
<1>1. CASE HeadersArrive
  BY <1>1 DEF HeadersArrive, IInv, OutcomeInv, OK, Aborted
<1>2. CASE PieceArrives
  BY <1>2 DEF PieceArrives, IInv, OutcomeInv, OK, Aborted
<1>3. CASE Finish
  <2>1. callState' = "DONE" /\ UNCHANGED <<asked, pc>>
    BY <1>3 DEF Finish
  <2>2. code' = Aborted => asked # {}
    BY <1>3, ClockAssumption DEF Finish, Aborted, OK
  <2> QED
    BY <2>1, <2>2 DEF IInv, OutcomeInv
<1>4. CASE SignalProgress
  BY <1>4 DEF SignalProgress, IInv, OutcomeInv, OK, Aborted
<1>5. CASE OthersCancel
  BY <1>5 DEF OthersCancel, IInv, OutcomeInv, OK, Aborted
<1>6. CASE HeadersRound
  BY <1>6 DEF HeadersRound, NextRound, LookAtState, Drain, KeepCall, IInv,
     OutcomeInv, OK, Aborted
<1>7. CASE AsyncHeadersRound
  BY <1>7 DEF AsyncHeadersRound, LookAtState, Drain, KeepCall, IInv,
     OutcomeInv, OK, Aborted
<1>8. CASE PollHeaders
  BY <1>8 DEF PollHeaders, StartPoll, IInv, OutcomeInv, OK, Aborted
<1>9. CASE HeadersRunOut
  BY <1>9 DEF HeadersRunOut, IInv, OutcomeInv, OK, Aborted
<1>10. CASE ResultRaises
  BY <1>10 DEF ResultRaises, IInv, OutcomeInv, OK, Aborted
<1>11. CASE HandOver
  BY <1>11 DEF HandOver, Checked, IInv, OutcomeInv, OK, Aborted
<1>12. CASE StartBody
  BY <1>12 DEF StartBody, StartCountdown, IInv, OutcomeInv, OK, Aborted
<1>13. CASE BodyRound
  BY <1>13 DEF BodyRound, NextRound, DrainThenRead, Drain, KeepCall, IInv,
     OutcomeInv, OK, Aborted
<1>14. CASE AsyncBodyRound
  BY <1>14 DEF AsyncBodyRound, DrainThenRead, Drain, KeepCall, IInv,
     OutcomeInv, OK, Aborted
<1>15. CASE ReadPiece
  BY <1>15 DEF ReadPiece, IInv, OutcomeInv, OK, Aborted
<1>16. CASE ReadEnd
  BY <1>16 DEF ReadEnd, IInv, OutcomeInv, OK, Aborted
<1>17. CASE ReadNothing
  BY <1>17 DEF ReadNothing, StartPoll, IInv, OutcomeInv, OK, Aborted
<1>18. CASE BodyRunOut
  BY <1>18 DEF BodyRunOut, BodyExpires, IInv, OutcomeInv, OK, Aborted
<1>19. CASE Final
  BY <1>19 DEF Final, Checked, IInv, OutcomeInv, OK, Aborted
<1>20. CASE Wake
  BY <1>20 DEF Wake, IInv, OutcomeInv, OK, Aborted
<1>21. CASE TaskRuns
  BY <1>21 DEF TaskRuns, IInv, OutcomeInv, OK, Aborted
<1>22. CASE PollExpires
  BY <1>22 DEF PollExpires, BodyExpires, IInv, OutcomeInv, OK, Aborted
<1>23. CASE AsyncioExpires
  BY <1>23 DEF AsyncioExpires, IInv, OutcomeInv, OK, Aborted
<1>24. CASE TaskCancelled
  BY <1>24 DEF TaskCancelled, IInv, OutcomeInv, OK, Aborted
<1>25. CASE Tick
  BY <1>25 DEF Tick, IInv, OutcomeInv, OK, Aborted
<1>26. CASE FirstNext
  BY <1>26 DEF FirstNext, StartCountdown, IInv, OutcomeInv, OK, Aborted
<1>27. CASE NextPiece
  BY <1>27 DEF NextPiece, IInv, OutcomeInv, OK, Aborted
<1>28. CASE Leave
  BY <1>28 DEF Leave, IInv, OutcomeInv, OK, Aborted
<1>29. CASE Expired
  BY <1>29 DEF Expired, IInv, OutcomeInv, OK, Aborted
<1>30. CASE WaitDone
  BY <1>30 DEF WaitDone, IInv, OutcomeInv, OK, Aborted
<1>31. CASE RaiseTimeout
  BY <1>31 DEF RaiseTimeout, IInv, OutcomeInv, OK, Aborted
<1>32. CASE Cleanup
  BY <1>32 DEF Cleanup, IInv, OutcomeInv, OK, Aborted
<1>33. CASE Close
  BY <1>33 DEF Close, CallReleased, IInv, OutcomeInv, OK, Aborted
<1>34. CASE FollowHop
  BY <1>34 DEF FollowHop, CallReleased, StartCountdown, IInv, OutcomeInv, OK,
     Aborted
<1>35. CASE UNCHANGED vars
  BY <1>35 DEF vars, IInv, OutcomeInv, OK, Aborted
<1> QED
  BY <1>1, <1>2, <1>3, <1>4, <1>5, <1>6, <1>7, <1>8, <1>9, <1>10, <1>11,
     <1>12, <1>13, <1>14, <1>15, <1>16, <1>17, <1>18, <1>19, <1>20, <1>21,
     <1>22, <1>23, <1>24, <1>25, <1>26, <1>27, <1>28, <1>29, <1>30, <1>31,
     <1>32, <1>33, <1>34, <1>35 DEF Next, Ended

\* Only a deadline that has run out, or the outcome of the call, makes the
\* report.
LEMMA NextReport == IInv /\ [Next]_vars => ReportInv'
<1> SUFFICES ASSUME IInv, [Next]_vars PROVE ReportInv'
  OBVIOUS
<1>1. CASE HeadersArrive
  BY <1>1 DEF HeadersArrive, IInv, ReportInv
<1>2. CASE PieceArrives
  BY <1>2 DEF PieceArrives, IInv, ReportInv
<1>3. CASE Finish
  <2>1. UNCHANGED <<owner, expired, pc, report, asked>>
    BY <1>3 DEF Finish
  <2>2. code = OK
    BY <1>3 DEF Finish, IInv, OutcomeInv
  <2>3. code \notin TimeoutErrors
    BY <2>2 DEF OK, TimeoutErrors
  <2> QED
    BY <2>1, <2>3 DEF IInv, ReportInv
<1>4. CASE SignalProgress
  BY <1>4 DEF SignalProgress, IInv, ReportInv
<1>5. CASE OthersCancel
  BY <1>5 DEF OthersCancel, IInv, ReportInv
<1>6. CASE HeadersRound
  BY <1>6 DEF HeadersRound, NextRound, LookAtState, Drain, KeepCall, IInv,
     ReportInv
<1>7. CASE AsyncHeadersRound
  BY <1>7 DEF AsyncHeadersRound, LookAtState, Drain, KeepCall, IInv, ReportInv
<1>8. CASE PollHeaders
  BY <1>8 DEF PollHeaders, StartPoll, IInv, ReportInv
<1>9. CASE HeadersRunOut
  BY <1>9 DEF HeadersRunOut, IInv, ReportInv
<1>10. CASE ResultRaises
  <2>1. /\ pc = "result" /\ pc' = "cleanup" /\ report' = ErrorFor(code)
        /\ UNCHANGED <<expired, asked, code>>
    BY <1>10 DEF ResultRaises
  <2>2. report' = "Cancelled" => code = Aborted
    BY <2>1, ErrorFacts DEF IInv, Shape
  <2>3. report' = "Timeout" => code \in TimeoutErrors
    BY <2>1, ErrorFacts DEF IInv, Shape
  <2>4. code = Aborted => "other" \in asked
    BY <2>1 DEF IInv, OutcomeInv
  <2>5. ~expired
    BY <2>1 DEF IInv, ReportInv
  <2> QED
    BY <2>1, <2>2, <2>3, <2>4, <2>5 DEF IInv, ReportInv
<1>11. CASE HandOver
  BY <1>11 DEF HandOver, Checked, IInv, ReportInv
<1>12. CASE StartBody
  BY <1>12 DEF StartBody, StartCountdown, IInv, ReportInv
<1>13. CASE BodyRound
  BY <1>13 DEF BodyRound, NextRound, DrainThenRead, Drain, KeepCall, IInv,
     ReportInv
<1>14. CASE AsyncBodyRound
  BY <1>14 DEF AsyncBodyRound, DrainThenRead, Drain, KeepCall, IInv, ReportInv
<1>15. CASE ReadPiece
  BY <1>15 DEF ReadPiece, IInv, ReportInv
<1>16. CASE ReadEnd
  BY <1>16 DEF ReadEnd, IInv, ReportInv
<1>17. CASE ReadNothing
  BY <1>17 DEF ReadNothing, StartPoll, IInv, ReportInv
<1>18. CASE BodyRunOut
  BY <1>18 DEF BodyRunOut, BodyExpires, IInv, ReportInv
<1>19. CASE Final
  <2>1. /\ pc = "final" /\ pc' = "cleanup"
        /\ UNCHANGED <<expired, asked, code>>
    BY <1>19 DEF Final
  <2>2. report' = "Cancelled" => code = Aborted
    BY <1>19, ErrorFacts DEF Final, Checked, IInv, Shape
  <2>3. report' = "Timeout" => code \in TimeoutErrors
    BY <1>19, ErrorFacts DEF Final, Checked, IInv, Shape
  <2>4. code = Aborted => "other" \in asked
    BY <2>1 DEF IInv, OutcomeInv
  <2>5. ~expired
    BY <2>1 DEF IInv, ReportInv
  <2> QED
    BY <2>1, <2>2, <2>3, <2>4, <2>5 DEF IInv, ReportInv
<1>20. CASE Wake
  BY <1>20 DEF Wake, IInv, ReportInv
<1>21. CASE TaskRuns
  BY <1>21 DEF TaskRuns, IInv, ReportInv
<1>22. CASE PollExpires
  BY <1>22 DEF PollExpires, BodyExpires, IInv, ReportInv
<1>23. CASE AsyncioExpires
  BY <1>23 DEF AsyncioExpires, IInv, ReportInv
<1>24. CASE TaskCancelled
  BY <1>24 DEF TaskCancelled, IInv, ReportInv
<1>25. CASE Tick
  BY <1>25 DEF Tick, IInv, ReportInv
<1>26. CASE FirstNext
  BY <1>26 DEF FirstNext, StartCountdown, IInv, ReportInv
<1>27. CASE NextPiece
  BY <1>27 DEF NextPiece, IInv, ReportInv
<1>28. CASE Leave
  BY <1>28 DEF Leave, IInv, ReportInv
<1>29. CASE Expired
  BY <1>29 DEF Expired, IInv, ReportInv
<1>30. CASE WaitDone
  BY <1>30 DEF WaitDone, IInv, ReportInv
<1>31. CASE RaiseTimeout
  BY <1>31 DEF RaiseTimeout, IInv, ReportInv
<1>32. CASE Cleanup
  BY <1>32 DEF Cleanup, IInv, ReportInv
<1>33. CASE Close
  BY <1>33 DEF Close, CallReleased, IInv, ReportInv
<1>34. CASE FollowHop
  BY <1>34 DEF FollowHop, CallReleased, StartCountdown, IInv, ReportInv
<1>35. CASE UNCHANGED vars
  BY <1>35 DEF vars, IInv, ReportInv
<1> QED
  BY <1>1, <1>2, <1>3, <1>4, <1>5, <1>6, <1>7, <1>8, <1>9, <1>10, <1>11,
     <1>12, <1>13, <1>14, <1>15, <1>16, <1>17, <1>18, <1>19, <1>20, <1>21,
     <1>22, <1>23, <1>24, <1>25, <1>26, <1>27, <1>28, <1>29, <1>30, <1>31,
     <1>32, <1>33, <1>34, <1>35 DEF Next, Ended

\* What is stored is signalled, and what is signalled is drained only before
\* the state is looked at.
LEMMA NextSeen == IInv /\ [Next]_vars => SeenInv'
<1> SUFFICES ASSUME IInv, [Next]_vars PROVE SeenInv'
  OBVIOUS
<1>1. CASE HeadersArrive
  BY <1>1 DEF HeadersArrive, IInv, SeenInv
<1>2. CASE PieceArrives
  BY <1>2 DEF PieceArrives, IInv, SeenInv
<1>3. CASE Finish
  BY <1>3 DEF Finish, IInv, SeenInv
<1>4. CASE SignalProgress
  BY <1>4 DEF SignalProgress, IInv, SeenInv
<1>5. CASE OthersCancel
  BY <1>5 DEF OthersCancel, IInv, SeenInv
<1>6. CASE HeadersRound
  BY <1>6 DEF HeadersRound, NextRound, LookAtState, Drain, KeepCall, IInv,
     SeenInv
<1>7. CASE AsyncHeadersRound
  BY <1>7 DEF AsyncHeadersRound, LookAtState, Drain, KeepCall, IInv, SeenInv
<1>8. CASE PollHeaders
  BY <1>8 DEF PollHeaders, StartPoll, IInv, SeenInv
<1>9. CASE HeadersRunOut
  BY <1>9 DEF HeadersRunOut, IInv, SeenInv
<1>10. CASE ResultRaises
  BY <1>10 DEF ResultRaises, IInv, SeenInv
<1>11. CASE HandOver
  BY <1>11 DEF HandOver, Checked, IInv, SeenInv
<1>12. CASE StartBody
  BY <1>12 DEF StartBody, StartCountdown, IInv, SeenInv
<1>13. CASE BodyRound
  BY <1>13 DEF BodyRound, NextRound, DrainThenRead, Drain, KeepCall, IInv,
     SeenInv
<1>14. CASE AsyncBodyRound
  BY <1>14 DEF AsyncBodyRound, DrainThenRead, Drain, KeepCall, IInv, SeenInv
<1>15. CASE ReadPiece
  BY <1>15 DEF ReadPiece, IInv, SeenInv
<1>16. CASE ReadEnd
  BY <1>16 DEF ReadEnd, IInv, SeenInv
<1>17. CASE ReadNothing
  BY <1>17 DEF ReadNothing, StartPoll, IInv, SeenInv
<1>18. CASE BodyRunOut
  BY <1>18 DEF BodyRunOut, BodyExpires, IInv, SeenInv
<1>19. CASE Final
  BY <1>19 DEF Final, Checked, IInv, SeenInv
<1>20. CASE Wake
  BY <1>20 DEF Wake, IInv, SeenInv
<1>21. CASE TaskRuns
  BY <1>21 DEF TaskRuns, IInv, SeenInv
<1>22. CASE PollExpires
  BY <1>22 DEF PollExpires, BodyExpires, IInv, SeenInv
<1>23. CASE AsyncioExpires
  BY <1>23 DEF AsyncioExpires, IInv, SeenInv
<1>24. CASE TaskCancelled
  BY <1>24 DEF TaskCancelled, IInv, SeenInv
<1>25. CASE Tick
  BY <1>25 DEF Tick, IInv, SeenInv
<1>26. CASE FirstNext
  BY <1>26 DEF FirstNext, StartCountdown, IInv, SeenInv
<1>27. CASE NextPiece
  BY <1>27 DEF NextPiece, IInv, SeenInv
<1>28. CASE Leave
  BY <1>28 DEF Leave, IInv, SeenInv
<1>29. CASE Expired
  BY <1>29 DEF Expired, IInv, SeenInv
<1>30. CASE WaitDone
  BY <1>30 DEF WaitDone, IInv, SeenInv
<1>31. CASE RaiseTimeout
  BY <1>31 DEF RaiseTimeout, IInv, SeenInv
<1>32. CASE Cleanup
  BY <1>32 DEF Cleanup, IInv, SeenInv
<1>33. CASE Close
  BY <1>33 DEF Close, CallReleased, IInv, SeenInv
<1>34. CASE FollowHop
  BY <1>34 DEF FollowHop, CallReleased, StartCountdown, IInv, SeenInv
<1>35. CASE UNCHANGED vars
  BY <1>35 DEF vars, IInv, SeenInv
<1> QED
  BY <1>1, <1>2, <1>3, <1>4, <1>5, <1>6, <1>7, <1>8, <1>9, <1>10, <1>11,
     <1>12, <1>13, <1>14, <1>15, <1>16, <1>17, <1>18, <1>19, <1>20, <1>21,
     <1>22, <1>23, <1>24, <1>25, <1>26, <1>27, <1>28, <1>29, <1>30, <1>31,
     <1>32, <1>33, <1>34, <1>35 DEF Next, Ended

\* Only Session.stream hands its response over.
LEMMA NextStream == IInv /\ [Next]_vars => StreamInv'
<1> SUFFICES ASSUME IInv, [Next]_vars PROVE StreamInv'
  OBVIOUS
<1>1. CASE HeadersArrive
  BY <1>1 DEF HeadersArrive, IInv, StreamInv, OutcomeInv
<1>2. CASE PieceArrives
  BY <1>2 DEF PieceArrives, IInv, StreamInv, OutcomeInv
<1>3. CASE Finish
  BY <1>3 DEF Finish, IInv, StreamInv, OutcomeInv
<1>4. CASE SignalProgress
  BY <1>4 DEF SignalProgress, IInv, StreamInv, OutcomeInv
<1>5. CASE OthersCancel
  BY <1>5 DEF OthersCancel, IInv, StreamInv, OutcomeInv
<1>6. CASE HeadersRound
  BY <1>6 DEF HeadersRound, NextRound, LookAtState, Drain, KeepCall, IInv,
     StreamInv, OutcomeInv
<1>7. CASE AsyncHeadersRound
  BY <1>7 DEF AsyncHeadersRound, LookAtState, Drain, KeepCall, IInv,
     StreamInv, OutcomeInv
<1>8. CASE PollHeaders
  BY <1>8 DEF PollHeaders, StartPoll, IInv, StreamInv, OutcomeInv
<1>9. CASE HeadersRunOut
  BY <1>9 DEF HeadersRunOut, IInv, StreamInv, OutcomeInv
<1>10. CASE ResultRaises
  BY <1>10 DEF ResultRaises, IInv, StreamInv, OutcomeInv
<1>11. CASE HandOver
  BY <1>11 DEF HandOver, Checked, IInv, StreamInv, OutcomeInv
<1>12. CASE StartBody
  BY <1>12 DEF StartBody, StartCountdown, IInv, StreamInv, OutcomeInv
<1>13. CASE BodyRound
  BY <1>13 DEF BodyRound, NextRound, DrainThenRead, Drain, KeepCall, IInv,
     StreamInv, OutcomeInv
<1>14. CASE AsyncBodyRound
  BY <1>14 DEF AsyncBodyRound, DrainThenRead, Drain, KeepCall, IInv,
     StreamInv, OutcomeInv
<1>15. CASE ReadPiece
  BY <1>15 DEF ReadPiece, IInv, StreamInv, OutcomeInv
<1>16. CASE ReadEnd
  BY <1>16 DEF ReadEnd, IInv, StreamInv, OutcomeInv
<1>17. CASE ReadNothing
  BY <1>17 DEF ReadNothing, StartPoll, IInv, StreamInv, OutcomeInv
<1>18. CASE BodyRunOut
  BY <1>18 DEF BodyRunOut, BodyExpires, IInv, StreamInv, OutcomeInv
<1>19. CASE Final
  BY <1>19 DEF Final, Checked, IInv, StreamInv, OutcomeInv
<1>20. CASE Wake
  BY <1>20 DEF Wake, IInv, StreamInv, OutcomeInv
<1>21. CASE TaskRuns
  BY <1>21 DEF TaskRuns, IInv, StreamInv, OutcomeInv
<1>22. CASE PollExpires
  BY <1>22 DEF PollExpires, BodyExpires, IInv, StreamInv, OutcomeInv
<1>23. CASE AsyncioExpires
  BY <1>23 DEF AsyncioExpires, IInv, StreamInv, OutcomeInv
<1>24. CASE TaskCancelled
  BY <1>24 DEF TaskCancelled, IInv, StreamInv, OutcomeInv
<1>25. CASE Tick
  BY <1>25 DEF Tick, IInv, StreamInv, OutcomeInv
<1>26. CASE FirstNext
  BY <1>26 DEF FirstNext, StartCountdown, IInv, StreamInv, OutcomeInv
<1>27. CASE NextPiece
  BY <1>27 DEF NextPiece, IInv, StreamInv, OutcomeInv
<1>28. CASE Leave
  BY <1>28 DEF Leave, IInv, StreamInv, OutcomeInv
<1>29. CASE Expired
  BY <1>29 DEF Expired, IInv, StreamInv, OutcomeInv
<1>30. CASE WaitDone
  BY <1>30 DEF WaitDone, IInv, StreamInv, OutcomeInv
<1>31. CASE RaiseTimeout
  BY <1>31 DEF RaiseTimeout, IInv, StreamInv, OutcomeInv
<1>32. CASE Cleanup
  BY <1>32 DEF Cleanup, IInv, StreamInv, OutcomeInv
<1>33. CASE Close
  BY <1>33 DEF Close, CallReleased, IInv, StreamInv, OutcomeInv
<1>34. CASE FollowHop
  BY <1>34 DEF FollowHop, CallReleased, StartCountdown, IInv, StreamInv,
     OutcomeInv
<1>35. CASE UNCHANGED vars
  BY <1>35 DEF vars, IInv, StreamInv, OutcomeInv
<1> QED
  BY <1>1, <1>2, <1>3, <1>4, <1>5, <1>6, <1>7, <1>8, <1>9, <1>10, <1>11,
     <1>12, <1>13, <1>14, <1>15, <1>16, <1>17, <1>18, <1>19, <1>20, <1>21,
     <1>22, <1>23, <1>24, <1>25, <1>26, <1>27, <1>28, <1>29, <1>30, <1>31,
     <1>32, <1>33, <1>34, <1>35 DEF Next, Ended

\* What does not change: the request, and what is counted down of it.
LEMMA SameRequest ==
  ASSUME [Next]_vars
  PROVE  /\ UNCHANGED <<owner, limit, Budget, Whole, Countdowns>>
         /\ hop' = hop => Earlier' = Earlier
<1>1. UNCHANGED <<owner, limit>>
  BY DEF Next, vars, Ended, HeadersArrive, PieceArrives, Finish,
     SignalProgress, OthersCancel, HeadersRound, AsyncHeadersRound,
     PollHeaders, HeadersRunOut, ResultRaises, HandOver, StartBody, BodyRound,
     AsyncBodyRound, ReadPiece, ReadEnd, ReadNothing, BodyRunOut, Final, Wake,
     TaskRuns, PollExpires, AsyncioExpires, TaskCancelled, Tick, FirstNext,
     NextPiece, Leave, Expired, WaitDone, RaiseTimeout, Cleanup, Close,
     FollowHop, BodyExpires, CallReleased, Checked, Drain, DrainThenRead,
     KeepCall, LookAtState, NextRound, StartCountdown, StartPoll
<1> QED
  BY <1>1 DEF Budget, Whole, TimeoutMs, Countdowns, Earlier

\* Arithmetic a step may need of the state it starts in.
LEMMA Numbers ==
  ASSUME Shape, limit # NoLimit
  PROVE  /\ Budget \in Nat /\ Whole \in Nat /\ Whole <= Budget
         /\ Earlier \in Nat /\ Begun \in Nat /\ Spent \in Int
         /\ remaining * U \in Int /\ U \in Nat
<1>1. waited \in Nat /\ remaining \in Int /\ U \in Nat
  BY ClockAssumption DEF Shape
<1> QED
  BY <1>1, WholeFacts, ShareFacts DEF Spent

\* A round is given what is left of the countdown, and polls for no longer.
LEMMA NextRounds == IInv /\ [Next]_vars => RoundInv'
<1> SUFFICES ASSUME IInv, [Next]_vars PROVE RoundInv'
  OBVIOUS
<1>1. CASE HeadersArrive
  BY <1>1, SameRequest, Numbers DEF HeadersArrive, IInv, Shape, RoundInv,
     Begun, Spent
<1>2. CASE PieceArrives
  BY <1>2, SameRequest, Numbers DEF PieceArrives, IInv, Shape, RoundInv,
     Begun, Spent
<1>3. CASE Finish
  BY <1>3, SameRequest, Numbers DEF Finish, IInv, Shape, RoundInv, Begun,
     Spent
<1>4. CASE SignalProgress
  BY <1>4, SameRequest, Numbers DEF SignalProgress, IInv, Shape, RoundInv,
     Begun, Spent
<1>5. CASE OthersCancel
  BY <1>5, SameRequest, Numbers DEF OthersCancel, IInv, Shape, RoundInv,
     Begun, Spent
<1>6. CASE HeadersRound
  <2>1. /\ pc = "headers" /\ pc' \in {"askPoll", "result"}
        /\ owner \in Blocking /\ NextRound
        /\ UNCHANGED <<hop, elapsed, wake, waited, owner, limit>>
    BY <1>6 DEF HeadersRound, NextRound, LookAtState
  <2>2. CASE limit = NoLimit
    <3>1. remaining' = Forever
      BY <2>1, <2>2, RoundFacts DEF IInv
    <3> QED
      BY <2>1, <2>2, <3>1 DEF IInv, RoundInv
  <2>3. CASE limit # NoLimit
    <3>1. /\ remaining' \in Int /\ remaining' >= 1
          /\ remaining' * U <= Whole - elapsed
          /\ Whole - elapsed < remaining' * U + U
      BY <2>1, <2>3, RoundFacts DEF IInv
    <3>2. /\ Whole \in Nat /\ U \in Nat /\ elapsed \in Nat /\ Spent \in Int
          /\ remaining' * U \in Int
      BY <2>3, <3>1, Numbers DEF IInv, Shape
    <3>3. Spent' = Spent /\ Whole' = Whole
      BY <2>1, SameRequest DEF Spent, Begun
    <3>4. Spent <= elapsed
      BY <2>1, <2>3 DEF IInv, BudgetInv
    <3>5. /\ elapsed + remaining' * U >= Whole - (U - 1)
          /\ Spent + remaining' * U <= Whole
      <4> DEFINE given == remaining' * U
      <4>1. /\ given \in Int /\ given <= Whole - elapsed
            /\ Whole - elapsed < given + U
        BY <3>1, <3>2
      <4> HIDE DEF given
      <4>2. elapsed + given >= Whole - (U - 1) /\ Spent + given <= Whole
        BY <3>2, <3>4, <4>1
      <4> QED
        BY <4>2 DEF given
    <3> QED
      BY <2>1, <2>3, <3>1, <3>3, <3>5 DEF RoundInv
  <2> QED
    BY <2>2, <2>3
<1>7. CASE AsyncHeadersRound
  BY <1>7, SameRequest, Numbers DEF AsyncHeadersRound, LookAtState, Drain,
     KeepCall, IInv, Shape, RoundInv, Begun, Spent
<1>8. CASE PollHeaders
  <2>1. /\ pc = "askPoll" /\ pc' = "pollHeaders" /\ StartPoll
        /\ UNCHANGED <<hop, elapsed, remaining, waited, owner, limit>>
    BY <1>8 DEF PollHeaders
  <2>2. CASE limit = NoLimit \/ owner = "async"
    BY <2>1, <2>2 DEF IInv, RoundInv, StartPoll
  <2>3. CASE limit # NoLimit /\ owner # "async"
    <3>1. /\ remaining >= 1 /\ elapsed + remaining * U >= Whole - (U - 1)
          /\ Spent + remaining * U <= Whole
      BY <2>1, <2>3 DEF IInv, RoundInv
    <3>2. /\ remaining \in Int /\ remaining * U \in Int /\ elapsed \in Nat
          /\ Spent \in Int /\ Whole \in Nat
      BY <2>3, Numbers DEF IInv, Shape
    <3>3. wake' = elapsed + remaining * U
      BY <2>1, <3>1, <3>2 DEF StartPoll, Forever
    <3>4. Spent' = Spent /\ Whole' = Whole
      BY <2>1, SameRequest DEF Spent, Begun
    <3>5. wake' >= Whole - (U - 1) /\ Spent + (wake' - elapsed) <= Whole
      BY <3>1, <3>2, <3>3
    <3> QED
      BY <2>1, <2>3, <3>4, <3>5 DEF RoundInv
  <2> QED
    BY <2>2, <2>3
<1>9. CASE HeadersRunOut
  BY <1>9, SameRequest, Numbers DEF HeadersRunOut, IInv, Shape, RoundInv,
     Begun, Spent
<1>10. CASE ResultRaises
  BY <1>10, SameRequest, Numbers DEF ResultRaises, IInv, Shape, RoundInv,
     Begun, Spent
<1>11. CASE HandOver
  BY <1>11, SameRequest, Numbers DEF HandOver, Checked, IInv, Shape, RoundInv,
     Begun, Spent
<1>12. CASE StartBody
  BY <1>12, SameRequest, Numbers DEF StartBody, StartCountdown, IInv, Shape,
     RoundInv, Begun, Spent
<1>13. CASE BodyRound
  <2>1. /\ pc = "body" /\ pc' \in {"read"} /\ owner \in Blocking /\ NextRound
        /\ UNCHANGED <<hop, elapsed, wake, waited, owner, limit>>
    BY <1>13 DEF BodyRound, NextRound, DrainThenRead
  <2>2. CASE limit = NoLimit
    <3>1. remaining' = Forever
      BY <2>1, <2>2, RoundFacts DEF IInv
    <3> QED
      BY <2>1, <2>2, <3>1 DEF IInv, RoundInv
  <2>3. CASE limit # NoLimit
    <3>1. /\ remaining' \in Int /\ remaining' >= 1
          /\ remaining' * U <= Whole - elapsed
          /\ Whole - elapsed < remaining' * U + U
      BY <2>1, <2>3, RoundFacts DEF IInv
    <3>2. /\ Whole \in Nat /\ U \in Nat /\ elapsed \in Nat /\ Spent \in Int
          /\ remaining' * U \in Int
      BY <2>3, <3>1, Numbers DEF IInv, Shape
    <3>3. Spent' = Spent /\ Whole' = Whole
      BY <2>1, SameRequest DEF Spent, Begun
    <3>4. Spent <= elapsed
      BY <2>1, <2>3 DEF IInv, BudgetInv
    <3>5. /\ elapsed + remaining' * U >= Whole - (U - 1)
          /\ Spent + remaining' * U <= Whole
      <4> DEFINE given == remaining' * U
      <4>1. /\ given \in Int /\ given <= Whole - elapsed
            /\ Whole - elapsed < given + U
        BY <3>1, <3>2
      <4> HIDE DEF given
      <4>2. elapsed + given >= Whole - (U - 1) /\ Spent + given <= Whole
        BY <3>2, <3>4, <4>1
      <4> QED
        BY <4>2 DEF given
    <3> QED
      BY <2>1, <2>3, <3>1, <3>3, <3>5 DEF RoundInv
  <2> QED
    BY <2>2, <2>3
<1>14. CASE AsyncBodyRound
  BY <1>14, SameRequest, Numbers DEF AsyncBodyRound, DrainThenRead, Drain,
     KeepCall, IInv, Shape, RoundInv, Begun, Spent
<1>15. CASE ReadPiece
  BY <1>15, SameRequest, Numbers DEF ReadPiece, IInv, Shape, RoundInv, Begun,
     Spent
<1>16. CASE ReadEnd
  BY <1>16, SameRequest, Numbers DEF ReadEnd, IInv, Shape, RoundInv, Begun,
     Spent
<1>17. CASE ReadNothing
  <2>1. /\ pc = "read" /\ pc' = "pollBody" /\ StartPoll
        /\ UNCHANGED <<hop, elapsed, remaining, waited, owner, limit>>
    BY <1>17 DEF ReadNothing
  <2>2. CASE limit = NoLimit \/ owner = "async"
    BY <2>1, <2>2 DEF IInv, RoundInv, StartPoll
  <2>3. CASE limit # NoLimit /\ owner # "async"
    <3>1. /\ remaining >= 1 /\ elapsed + remaining * U >= Whole - (U - 1)
          /\ Spent + remaining * U <= Whole
      BY <2>1, <2>3 DEF IInv, RoundInv
    <3>2. /\ remaining \in Int /\ remaining * U \in Int /\ elapsed \in Nat
          /\ Spent \in Int /\ Whole \in Nat
      BY <2>3, Numbers DEF IInv, Shape
    <3>3. wake' = elapsed + remaining * U
      BY <2>1, <3>1, <3>2 DEF StartPoll, Forever
    <3>4. Spent' = Spent /\ Whole' = Whole
      BY <2>1, SameRequest DEF Spent, Begun
    <3>5. wake' >= Whole - (U - 1) /\ Spent + (wake' - elapsed) <= Whole
      BY <3>1, <3>2, <3>3
    <3> QED
      BY <2>1, <2>3, <3>4, <3>5 DEF RoundInv
  <2> QED
    BY <2>2, <2>3
<1>18. CASE BodyRunOut
  BY <1>18, SameRequest, Numbers DEF BodyRunOut, BodyExpires, IInv, Shape,
     RoundInv, Begun, Spent
<1>19. CASE Final
  BY <1>19, SameRequest, Numbers DEF Final, Checked, IInv, Shape, RoundInv,
     Begun, Spent
<1>20. CASE Wake
  BY <1>20, SameRequest, Numbers DEF Wake, IInv, Shape, RoundInv, Begun, Spent
<1>21. CASE TaskRuns
  BY <1>21, SameRequest, Numbers DEF TaskRuns, IInv, Shape, RoundInv, Begun,
     Spent
<1>22. CASE PollExpires
  BY <1>22, SameRequest, Numbers DEF PollExpires, BodyExpires, IInv, Shape,
     RoundInv, Begun, Spent
<1>23. CASE AsyncioExpires
  BY <1>23, SameRequest, Numbers DEF AsyncioExpires, IInv, Shape, RoundInv,
     Begun, Spent
<1>24. CASE TaskCancelled
  BY <1>24, SameRequest, Numbers DEF TaskCancelled, IInv, Shape, RoundInv,
     Begun, Spent
<1>25. CASE Tick
  BY <1>25, SameRequest, Numbers DEF Tick, IInv, Shape, RoundInv, Begun, Spent
<1>26. CASE FirstNext
  BY <1>26, SameRequest, Numbers DEF FirstNext, StartCountdown, IInv, Shape,
     RoundInv, Begun, Spent
<1>27. CASE NextPiece
  BY <1>27, SameRequest, Numbers DEF NextPiece, IInv, Shape, RoundInv, Begun,
     Spent
<1>28. CASE Leave
  BY <1>28, SameRequest, Numbers DEF Leave, IInv, Shape, RoundInv, Begun,
     Spent
<1>29. CASE Expired
  BY <1>29, SameRequest, Numbers DEF Expired, IInv, Shape, RoundInv, Begun,
     Spent
<1>30. CASE WaitDone
  BY <1>30, SameRequest, Numbers DEF WaitDone, IInv, Shape, RoundInv, Begun,
     Spent
<1>31. CASE RaiseTimeout
  BY <1>31, SameRequest, Numbers DEF RaiseTimeout, IInv, Shape, RoundInv,
     Begun, Spent
<1>32. CASE Cleanup
  BY <1>32, SameRequest, Numbers DEF Cleanup, IInv, Shape, RoundInv, Begun,
     Spent
<1>33. CASE Close
  BY <1>33, SameRequest, Numbers DEF Close, CallReleased, IInv, Shape,
     RoundInv, Begun, Spent
<1>34. CASE FollowHop
  BY <1>34, SameRequest, Numbers DEF FollowHop, CallReleased, StartCountdown,
     IInv, Shape, RoundInv, Begun, Spent
<1>35. CASE UNCHANGED vars
  BY <1>35, SameRequest, Numbers DEF vars, IInv, Shape, RoundInv, Begun, Spent
<1> QED
  BY <1>1, <1>2, <1>3, <1>4, <1>5, <1>6, <1>7, <1>8, <1>9, <1>10, <1>11,
     <1>12, <1>13, <1>14, <1>15, <1>16, <1>17, <1>18, <1>19, <1>20, <1>21,
     <1>22, <1>23, <1>24, <1>25, <1>26, <1>27, <1>28, <1>29, <1>30, <1>31,
     <1>32, <1>33, <1>34, <1>35 DEF Next, Ended

\* Time passes for a blocked owner only while its countdown runs, and each
\* countdown is begun with a share of its own.
LEMMA NextBudget == IInv /\ [Next]_vars => BudgetInv'
<1> SUFFICES ASSUME IInv, [Next]_vars PROVE BudgetInv'
  OBVIOUS
<1>1. CASE HeadersArrive
  BY <1>1, SameRequest, Numbers, ShareFacts DEF HeadersArrive, IInv, Shape,
     BudgetInv, Begun, Spent
<1>2. CASE PieceArrives
  BY <1>2, SameRequest, Numbers, ShareFacts DEF PieceArrives, IInv, Shape,
     BudgetInv, Begun, Spent
<1>3. CASE Finish
  BY <1>3, SameRequest, Numbers, ShareFacts DEF Finish, IInv, Shape,
     BudgetInv, Begun, Spent
<1>4. CASE SignalProgress
  BY <1>4, SameRequest, Numbers, ShareFacts DEF SignalProgress, IInv, Shape,
     BudgetInv, Begun, Spent
<1>5. CASE OthersCancel
  BY <1>5, SameRequest, Numbers, ShareFacts DEF OthersCancel, IInv, Shape,
     BudgetInv, Begun, Spent
<1>6. CASE HeadersRound
  BY <1>6, SameRequest, Numbers, ShareFacts DEF HeadersRound, NextRound,
     LookAtState, Drain, KeepCall, IInv, Shape, BudgetInv, Begun, Spent
<1>7. CASE AsyncHeadersRound
  BY <1>7, SameRequest, Numbers, ShareFacts DEF AsyncHeadersRound,
     LookAtState, Drain, KeepCall, IInv, Shape, BudgetInv, Begun, Spent
<1>8. CASE PollHeaders
  BY <1>8, SameRequest, Numbers, ShareFacts DEF PollHeaders, StartPoll, IInv,
     Shape, BudgetInv, Begun, Spent
<1>9. CASE HeadersRunOut
  BY <1>9, SameRequest, Numbers, ShareFacts DEF HeadersRunOut, IInv, Shape,
     BudgetInv, Begun, Spent
<1>10. CASE ResultRaises
  BY <1>10, SameRequest, Numbers, ShareFacts DEF ResultRaises, IInv, Shape,
     BudgetInv, Begun, Spent
<1>11. CASE HandOver
  BY <1>11, SameRequest, Numbers, ShareFacts DEF HandOver, Checked, IInv,
     Shape, BudgetInv, Begun, Spent
<1>12. CASE StartBody
  BY <1>12, SameRequest, Numbers, ShareFacts DEF StartBody, StartCountdown,
     IInv, Shape, BudgetInv, Begun, Spent
<1>13. CASE BodyRound
  BY <1>13, SameRequest, Numbers, ShareFacts DEF BodyRound, NextRound,
     DrainThenRead, Drain, KeepCall, IInv, Shape, BudgetInv, Begun, Spent
<1>14. CASE AsyncBodyRound
  BY <1>14, SameRequest, Numbers, ShareFacts DEF AsyncBodyRound,
     DrainThenRead, Drain, KeepCall, IInv, Shape, BudgetInv, Begun, Spent
<1>15. CASE ReadPiece
  BY <1>15, SameRequest, Numbers, ShareFacts DEF ReadPiece, IInv, Shape,
     BudgetInv, Begun, Spent
<1>16. CASE ReadEnd
  BY <1>16, SameRequest, Numbers, ShareFacts DEF ReadEnd, IInv, Shape,
     BudgetInv, Begun, Spent
<1>17. CASE ReadNothing
  BY <1>17, SameRequest, Numbers, ShareFacts DEF ReadNothing, StartPoll, IInv,
     Shape, BudgetInv, Begun, Spent
<1>18. CASE BodyRunOut
  BY <1>18, SameRequest, Numbers, ShareFacts DEF BodyRunOut, BodyExpires,
     IInv, Shape, BudgetInv, Begun, Spent
<1>19. CASE Final
  BY <1>19, SameRequest, Numbers, ShareFacts DEF Final, Checked, IInv, Shape,
     BudgetInv, Begun, Spent
<1>20. CASE Wake
  BY <1>20, SameRequest, Numbers, ShareFacts DEF Wake, IInv, Shape, BudgetInv,
     Begun, Spent
<1>21. CASE TaskRuns
  BY <1>21, SameRequest, Numbers, ShareFacts DEF TaskRuns, IInv, Shape,
     BudgetInv, Begun, Spent
<1>22. CASE PollExpires
  <2>1. /\ pc \in {"pollHeaders", "pollBody"} /\ owner \in Blocking
        /\ UNCHANGED <<hop, elapsed, waited, owner, limit>>
    BY <1>22 DEF PollExpires
  <2>2. \/ pc' = "expired"
        \/ pc = "pollBody" /\ pc' = "exhausted"
    BY <1>22 DEF PollExpires, BodyExpires
  <2>3. ASSUME limit # NoLimit, pc' = "expired"
        PROVE  waited <= Earlier + Countdowns * Budget
    <3>1. /\ Spent <= Budget /\ waited \in Nat /\ Budget \in Nat
          /\ Earlier \in Nat
          /\ Countdowns * Budget = Budget + Budget
      BY <2>1, <2>3, Numbers, ShareFacts DEF IInv, Shape, BudgetInv
    <3>2. Begun = Earlier \/ Begun = Earlier + Budget
      BY <2>3, ShareFacts DEF IInv
    <3> QED
      BY <3>1, <3>2 DEF Spent
  <2>4. CASE pc' = "expired"
    BY <2>1, <2>3, <2>4, SameRequest DEF BudgetInv
  <2>5. CASE pc = "pollBody" /\ pc' = "exhausted"
    BY <2>1, <2>5, SameRequest DEF IInv, BudgetInv, Spent, Begun
  <2> QED
    BY <2>2, <2>4, <2>5
<1>23. CASE AsyncioExpires
  BY <1>23, SameRequest, Numbers, ShareFacts DEF AsyncioExpires, IInv, Shape,
     BudgetInv, Begun, Spent
<1>24. CASE TaskCancelled
  BY <1>24, SameRequest, Numbers, ShareFacts DEF TaskCancelled, IInv, Shape,
     BudgetInv, Begun, Spent
<1>25. CASE Tick
  <2>1. /\ elapsed' = elapsed + 1 /\ limit # NoLimit
        /\ UNCHANGED <<pc, hop, owner, limit>>
    BY <1>25 DEF Tick
  <2>2. Begun' = Begun /\ Budget' = Budget
    BY <2>1, SameRequest DEF Begun
  <2>3. /\ Budget \in Nat /\ Whole \in Nat /\ Whole <= Budget /\ Spent \in Int
        /\ Begun \in Nat /\ elapsed \in Nat /\ waited \in Nat /\ wake \in Int
        /\ limit \in Int
    BY <2>1, Numbers, WholeFacts DEF IInv, Shape
  <2>4. pc \in BodyPhase \cup HeaderPhase
    BY <1>25 DEF Tick
  <2>5. Spent <= elapsed /\ Spent <= Budget
    BY <2>1, <2>4 DEF IInv, BudgetInv
  <2>6. CASE waited' = waited
    <3>1. Spent' = Spent
      BY <2>2, <2>6 DEF Spent
    <3> QED
      BY <2>1, <2>2, <2>3, <2>4, <2>5, <3>1 DEF BudgetInv
  <2>7. CASE waited' # waited
    <3>1. /\ pc \in {"pollHeaders", "pollBody"} /\ elapsed < Due
          /\ waited' = waited + 1
      BY <1>25, <2>7 DEF Tick
    <3>2. Spent' = Spent + 1
      BY <2>2, <2>3, <3>1 DEF Spent
    <3>3. Spent + 1 <= Budget
      <4>1. CASE owner = "async"
        BY <2>3, <2>5, <3>1, <4>1 DEF Due, Budget
      <4>2. CASE owner # "async"
        <5>1. Spent + (wake - elapsed) <= Whole
          BY <2>1, <3>1, <4>2 DEF IInv, RoundInv
        <5>2. elapsed < wake
          BY <3>1, <4>2 DEF Due
        <5> QED
          BY <2>3, <5>1, <5>2
      <4> QED
        BY <4>1, <4>2
    <3>4. Spent' <= elapsed' /\ Spent' <= Budget
      BY <2>1, <2>3, <2>5, <3>2, <3>3
    <3> QED
      BY <2>1, <2>2, <2>4, <3>4 DEF BudgetInv
  <2> QED
    BY <2>6, <2>7
<1>26. CASE FirstNext
  <2>1. /\ pc = "handed" /\ pc' = "body" /\ elapsed' = 0
        /\ UNCHANGED <<hop, waited, owner, limit>>
    BY <1>26 DEF FirstNext, StartCountdown
  <2> SUFFICES ASSUME limit # NoLimit
               PROVE  Spent' <= elapsed' /\ Spent' <= Budget'
    BY <2>1 DEF BudgetInv
  <2>2. /\ Budget \in Nat /\ Earlier \in Nat /\ waited \in Nat
        /\ Spent <= elapsed /\ Spent <= Budget
    BY <2>1, Numbers DEF IInv, Shape, BudgetInv
  <2>3. owner # "async"
    BY <2>1 DEF IInv, StreamInv
  <2>4. Spent = waited - Earlier /\ Spent' = waited - (Earlier + Budget)
    BY <2>1, <2>3, SameRequest DEF Spent, Begun
  <2> QED
    BY <2>1, <2>2, <2>4, SameRequest
<1>27. CASE NextPiece
  BY <1>27, SameRequest, Numbers, ShareFacts DEF NextPiece, IInv, Shape,
     BudgetInv, Begun, Spent
<1>28. CASE Leave
  BY <1>28, SameRequest, Numbers, ShareFacts DEF Leave, IInv, Shape,
     BudgetInv, Begun, Spent
<1>29. CASE Expired
  BY <1>29, SameRequest, Numbers, ShareFacts DEF Expired, IInv, Shape,
     BudgetInv, Begun, Spent
<1>30. CASE WaitDone
  BY <1>30, SameRequest, Numbers, ShareFacts DEF WaitDone, IInv, Shape,
     BudgetInv, Begun, Spent
<1>31. CASE RaiseTimeout
  BY <1>31, SameRequest, Numbers, ShareFacts DEF RaiseTimeout, IInv, Shape,
     BudgetInv, Begun, Spent
<1>32. CASE Cleanup
  BY <1>32, SameRequest, Numbers, ShareFacts DEF Cleanup, IInv, Shape,
     BudgetInv, Begun, Spent
<1>33. CASE Close
  BY <1>33, SameRequest, Numbers, ShareFacts DEF Close, CallReleased, IInv,
     Shape, BudgetInv, Begun, Spent
<1>34. CASE FollowHop
  <2>1. /\ pc = "close" /\ pc' = "headers" /\ elapsed' = 0 /\ hop' = hop + 1
        /\ UNCHANGED <<waited, owner, limit>>
    BY <1>34 DEF FollowHop, CallReleased, StartCountdown
  <2> SUFFICES ASSUME limit # NoLimit
               PROVE  Spent' <= elapsed' /\ Spent' <= Budget'
    BY <2>1 DEF BudgetInv
  <2>2. /\ Budget \in Nat /\ Earlier \in Nat /\ waited \in Nat
        /\ waited <= Earlier + Countdowns * Budget
        /\ Countdowns * Budget \in Nat
    BY <2>1, Numbers, ShareFacts DEF IInv, Shape, BudgetInv
  <2>3. Earlier' = Earlier + Countdowns * Budget
    BY <2>1, SameRequest, ShareFacts DEF IInv, Earlier
  <2>4. Spent' = waited - (Earlier + Countdowns * Budget)
    BY <2>1, <2>3 DEF Spent, Begun
  <2> QED
    BY <2>1, <2>2, <2>4, SameRequest
<1>35. CASE UNCHANGED vars
  BY <1>35, SameRequest, Numbers, ShareFacts DEF vars, IInv, Shape, BudgetInv,
     Begun, Spent
<1> QED
  BY <1>1, <1>2, <1>3, <1>4, <1>5, <1>6, <1>7, <1>8, <1>9, <1>10, <1>11,
     <1>12, <1>13, <1>14, <1>15, <1>16, <1>17, <1>18, <1>19, <1>20, <1>21,
     <1>22, <1>23, <1>24, <1>25, <1>26, <1>27, <1>28, <1>29, <1>30, <1>31,
     <1>32, <1>33, <1>34, <1>35 DEF Next, Ended

-----------------------------------------------------------------------------
(* The theorems.                                                           *)

\* The parts above are together an invariant of the specification.
THEOREM Inductive == Spec => []IInv
<1>1. IInv /\ [Next]_vars => IInv'
  BY NextShape, NextOutcome, NextReport, NextSeen, NextStream, NextRounds,
     NextBudget DEF IInv
<1> QED
  BY InitInv, <1>1, PTL DEF Spec

\* However the rounds of waiting fall and however much of the timeout int()
\* cuts off, a caller is kept blocked for no longer than its timeout for each
\* countdown that was begun, for any timeout and any number of hops.
THEOREM BlockedWithinBudget == Spec => []WithinBudget
<1>1. ASSUME IInv PROVE WithinBudget
  <2> SUFFICES ASSUME limit # NoLimit
               PROVE  waited <= (hop + 1) * Countdowns * Budget
    BY DEF WithinBudget, Budget
  <2>1. (hop + 1) * Countdowns * Budget = Earlier + Countdowns * Budget
    BY <1>1, ShareFacts DEF IInv
  <2>2. CASE pc \in HeaderPhase \cup BodyPhase
    <3>1. /\ Spent <= Budget /\ waited \in Nat /\ Budget \in Nat
          /\ Earlier \in Nat
      BY <1>1, <2>2, Numbers DEF IInv, Shape, BudgetInv
    <3>2. CASE owner = "async"
      <4>1. Begun = Earlier /\ Countdowns * Budget >= Budget
        BY <1>1, <3>2, ShareFacts DEF Begun, IInv
      <4> QED
        BY <1>1, <2>1, <3>1, <4>1, ShareFacts DEF Spent, IInv
    <3>3. CASE owner # "async"
      <4>1. /\ Begun = Earlier \/ Begun = Earlier + Budget
            /\ Countdowns * Budget = Budget + Budget
        BY <1>1, <3>3, ShareFacts DEF IInv
      <4> QED
        BY <2>1, <3>1, <4>1 DEF Spent
    <3> QED
      BY <3>2, <3>3
  <2>3. CASE pc \notin HeaderPhase \cup BodyPhase
    BY <1>1, <2>1, <2>3 DEF IInv, BudgetInv
  <2> QED
    BY <2>2, <2>3
<1> QED
  BY Inductive, <1>1, PTL

\* A request read whole that gives up says so, and any driver says Cancelled
\* only when somebody else cancelled.
THEOREM TimeoutsAreTimeouts == Spec => []OwnTimeoutIsNoCancel
<1>1. IInv => OwnTimeoutIsNoCancel
  BY DEF IInv, ReportInv, OwnTimeoutIsNoCancel
<1> QED
  BY Inductive, <1>1, PTL

\* No timeout of the driver's own comes two milliseconds early or more, for
\* any number of rounds and any resolution of the clock.
THEOREM NeverEarly == Spec => NotEarly
<1>1. ASSUME IInv, [Next]_vars
      PROVE  [~expired /\ expired' => elapsed >= limit - 2 * (U - 1)]_vars
  <2> SUFFICES ASSUME Next, ~expired, expired'
               PROVE  elapsed >= limit - 2 * (U - 1)
    BY <1>1
  <2>1. HeadersRunOut \/ BodyRunOut \/ PollExpires \/ AsyncioExpires
    BY DEF Next, Ended, vars, AsyncBodyRound, AsyncHeadersRound, BodyRound,
       CallReleased, Checked, Cleanup, Close, Drain, DrainThenRead, Expired,
       Final, Finish, FirstNext, FollowHop, HandOver, HeadersArrive,
       HeadersRound, KeepCall, Leave, LookAtState, NextPiece, NextRound,
       OthersCancel, PieceArrives, PollHeaders, RaiseTimeout, ReadEnd,
       ReadNothing, ReadPiece, ResultRaises, SignalProgress, StartBody,
       StartCountdown, StartPoll, TaskCancelled, TaskRuns, Tick, WaitDone,
       Wake
  <2>2. CASE HeadersRunOut \/ BodyRunOut
    BY <1>1, <2>2, RunOutFacts DEF IInv, HeadersRunOut, BodyRunOut
  <2>3. CASE PollExpires
    <3>1. /\ pc \in {"pollHeaders", "pollBody"} /\ owner # "async"
          /\ wake # Forever /\ elapsed >= wake
      BY <2>3 DEF PollExpires, PollTimedOut
    <3>2. limit # NoLimit
      BY <1>1, <3>1 DEF IInv, RoundInv
    <3>3. wake >= Whole - (U - 1)
      BY <1>1, <3>1, <3>2 DEF IInv, RoundInv
    <3>4. Whole >= limit - (U - 1) /\ Whole \in Nat /\ limit \in Int
      BY <1>1, <3>2, WholeFacts DEF IInv
    <3>5. elapsed \in Nat /\ wake \in Int /\ U \in Nat
      BY <1>1, ClockAssumption DEF IInv, Shape
    <3> QED
      BY <3>1, <3>3, <3>4, <3>5
  <2>4. CASE AsyncioExpires
    <3>1. limit # NoLimit /\ elapsed >= limit
      BY <2>4 DEF AsyncioExpires
    <3>2. limit \in Int /\ elapsed \in Nat /\ U \in Nat \ {0}
      BY <1>1, <3>1, ClockAssumption DEF IInv, Shape
    <3> QED
      BY <3>1, <3>2
  <2> QED
    BY <2>1, <2>2, <2>3, <2>4
<1> QED
  BY Inductive, <1>1, PTL DEF Spec, NotEarly

\* Headers, or an end of the call, that had been signalled are never reported
\* as a timeout by a blocking driver.
THEOREM SignalledHeadersWin == Spec => HeadersBeatTheDeadline
<1>1. ASSUME IInv, [Next]_vars
      PROVE  [(pc \in {"headers", "pollHeaders"} /\ pc' = "expired"
                 /\ owner \in Blocking)
                => callState = "STARTED" \/ owed]_vars
  <2> SUFFICES ASSUME Next, pc \in {"headers", "pollHeaders"}, pc' = "expired",
                      owner \in Blocking
               PROVE  callState = "STARTED" \/ owed
    BY <1>1
  <2>1. HeadersRunOut \/ PollExpires
    BY DEF Next, Ended, vars, AsyncBodyRound, AsyncHeadersRound,
       AsyncioExpires, BodyExpires, BodyRound, BodyRunOut, CallReleased,
       Checked, Cleanup, Close, Drain, DrainThenRead, Expired, Final, Finish,
       FirstNext, FollowHop, HandOver, HeadersArrive, HeadersRound, KeepCall,
       Leave, LookAtState, NextPiece, NextRound, OthersCancel, PieceArrives,
       PollHeaders, RaiseTimeout, ReadEnd, ReadNothing, ReadPiece,
       ResultRaises, SignalProgress, StartBody, StartCountdown, StartPoll,
       TaskCancelled, TaskRuns, Tick, WaitDone, Wake
  <2>2. CASE HeadersRunOut
    BY <2>2 DEF HeadersRunOut
  <2>3. CASE PollExpires
    BY <1>1, <2>3 DEF PollExpires, IInv, SeenInv
  <2> QED
    BY <2>1, <2>2, <2>3
<1> QED
  BY Inductive, <1>1, PTL DEF Spec, HeadersBeatTheDeadline
=============================================================================
