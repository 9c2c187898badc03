---------------------------- MODULE EngineProofs ----------------------------
(***************************************************************************)
(* Proofs about Engine for any number of threads, any set of addresses and *)
(* any number of operations.                                               *)
(***************************************************************************)
EXTENDS Engine, FiniteSetTheorems, TLAPS

-----------------------------------------------------------------------------
(* The inductive invariant, one conjunct per protocol.                     *)

\* Between the return of cronet_call_start and that of cronet_call_free.
Owning == {"add", "run", "free", "freeWait"}

\* The threads _calls_in_flight counts.  One that closes the session inside
\* its own stream keeps its claim while it waits.
Holders == {t \in Threads : pc[t] \in Claimed \/ mine[t] # NoHandle}

\* The count is exact: the holders, and the claims lost with their calls.
CountInv == inFlight = Cardinality(Holders) + Cardinality(lost)

\* A call that has not been freed is the call of exactly one thread, or lost.
OwnInv ==
    /\ \A t \in Threads :
         /\ pc[t] \in Owning => mine[t] # NoHandle
         /\ mine[t] # NoHandle =>
              /\ pc[t] \in Owning \/ (NestedClose /\ pc[t] = "closing")
              /\ call[mine[t]] # "free"
    /\ \A t, u \in Threads : mine[t] = mine[u] /\ mine[t] # NoHandle => t = u
    /\ \A h \in Handles :
         call[h] # "free" => h \in lost \/ \E t \in Threads : mine[t] = h
    /\ \A h \in lost : call[h] # "free" /\ \A t \in Threads : mine[t] # h

\* What each of the two lists of calls holds.
ListInv ==
    /\ \A h \in liveCalls :
         \/ h \in lost
         \/ \E t \in Threads : mine[t] = h /\ pc[t] \in {"run", "closing"}
    /\ registered = {h \in Handles : call[h] \in {"live", "cancelled"}}

\* The engine is let go of once nobody holds it and nobody can claim it; close()
\* also waits for the claims of lost calls, the finalizer does not.
CloseInv ==
    /\ \A t \in Threads :
         /\ pc[t] \in Closing => ~open
         /\ pc[t] \in {"destroy", "destroyWait"} => Holders = {} /\ lost = {}
    /\ dropped => /\ open /\ \A t \in Threads : pc[t] = "idle"
                  /\ \A h \in Handles : call[h] # "live"
    /\ engine # "alive" => Holders = {} /\ ((~open /\ lost = {}) \/ dropped)

IInv == TypeOK /\ CountInv /\ OwnInv /\ ListInv /\ NothingEscapesClose
            /\ CloseInv

-----------------------------------------------------------------------------
(* The invariant holds at first and every step preserves it.               *)

USE EngineConstants DEF Claimed, Closing, Steps, Owning, pyVars, nativeVars

\* __init__ and Engine::Create: nothing is claimed, listed or registered.
LEMMA InitInv == Init => IInv
<1> SUFFICES ASSUME Init PROVE IInv
  OBVIOUS
<1>1. Holders = {}
  BY DEF Init, Holders
<1>2. Cardinality(Threads) \in Nat
  BY FS_CardinalityType
<1>3. TypeOK
  <2>1. open \in BOOLEAN /\ dropped \in BOOLEAN
    BY Zenon DEF Init
  <2>2. IsFiniteSet(lost) /\ Cardinality(lost) = 0
    BY FS_EmptySet DEF Init
  <2> QED
    BY <1>2, <2>1, <2>2 DEF Init, TypeOK
<1>4. CountInv
  BY <1>1, FS_EmptySet DEF Init, CountInv
<1>5. OwnInv /\ ListInv /\ NothingEscapesClose /\ CloseInv
  BY <1>1 DEF Init, OwnInv, ListInv, NothingEscapesClose, CloseInv
<1> QED
  BY <1>3, <1>4, <1>5 DEF IInv

\* The holders are finitely many: they are threads.
LEMMA HoldersFinite ==
    /\ IsFiniteSet(Holders)
    /\ Cardinality(Holders) \in 0..Cardinality(Threads)
<1>1. Holders \subseteq Threads
  BY DEF Holders
<1> QED
  BY <1>1, FS_Subset, FS_CardinalityType

\* A count of zero means that nobody holds the engine and no call was lost.
LEMMA NobodyHolds ==
    TypeOK /\ CountInv /\ inFlight = 0 => Holders = {} /\ lost = {}
<1> SUFFICES ASSUME TypeOK, CountInv, inFlight = 0
             PROVE  Holders = {} /\ lost = {}
  OBVIOUS
<1>1. IsFiniteSet(lost) /\ Cardinality(lost) \in Nat
  BY FS_CardinalityType DEF TypeOK
<1>2. Cardinality(Holders) \in Nat
  BY HoldersFinite, FS_CardinalityType
<1>3. Cardinality(Holders) = 0 /\ Cardinality(lost) = 0
  BY <1>1, <1>2 DEF CountInv
<1> QED
  BY <1>1, <1>3, HoldersFinite, FS_EmptySet

\* What each step does to the set of holders: a granted _claim adds its
\* thread, a _release takes it away, a dropped Call moves its claim to the lost
\* ones, and nothing else changes the set.
HoldersStep ==
    \/ Holders' = Holders /\ lost' = lost /\ inFlight' = inFlight
    \/ \E t \in Threads \ Holders :
          /\ Holders' = Holders \cup {t} /\ lost' = lost
          /\ inFlight' = inFlight + 1
    \/ \E t \in Holders :
          /\ Holders' = Holders \ {t} /\ lost' = lost
          /\ inFlight' = inFlight - 1
    \/ \E t \in Holders, h \in Handles \ lost :
          /\ Holders' = Holders \ {t} /\ lost' = lost \cup {h}
          /\ inFlight' = inFlight

\* _claim, _release and a dropped Call alone decide who holds the engine.
LEMMA NextHolders == IInv /\ [Next]_vars => HoldersStep
<1> SUFFICES ASSUME IInv, [Next]_vars PROVE HoldersStep
  OBVIOUS
<1> USE DEF IInv
<1>1. ASSUME NEW t \in Threads, Claim(t) PROVE HoldersStep
  BY <1>1 DEF Claim, Goto, TypeOK, OwnInv, CloseInv, Holders, HoldersStep
<1>2. ASSUME NEW t \in Threads, StartCall(t) PROVE HoldersStep
  BY <1>2 DEF StartCall, Goto, TypeOK, OwnInv, CloseInv, Holders, HoldersStep
<1>3. ASSUME NEW t \in Threads, AddCall(t) PROVE HoldersStep
  BY <1>3 DEF AddCall, Cancel, Goto, TypeOK, OwnInv, CloseInv, Holders,
              HoldersStep
<1>4. ASSUME NEW t \in Threads, Discard(t) PROVE HoldersStep
  BY <1>4 DEF Discard, Goto, TypeOK, OwnInv, CloseInv, Holders, HoldersStep
<1>5. ASSUME NEW t \in Threads, FreeCancel(t) PROVE HoldersStep
  BY <1>5 DEF FreeCancel, Cancel, Goto, TypeOK, OwnInv, CloseInv, Holders,
              HoldersStep
<1>6. ASSUME NEW t \in Threads, FreeWait(t) PROVE HoldersStep
  BY <1>6 DEF FreeWait, Goto, TypeOK, OwnInv, CloseInv, Holders, HoldersStep
<1>7. ASSUME NEW t \in Threads, Release(t) PROVE HoldersStep
  BY <1>7 DEF Release, Goto, TypeOK, OwnInv, CloseInv, Holders, HoldersStep
<1>8. ASSUME NEW t \in Threads, Close(t) PROVE HoldersStep
  BY <1>8 DEF Close, WaitIdle, Cancel, Goto, TypeOK, OwnInv, CloseInv,
              Holders, HoldersStep
<1>9. ASSUME NEW t \in Threads, CloseWoken(t) PROVE HoldersStep
  BY <1>9 DEF CloseWoken, WaitIdle, Goto, TypeOK, OwnInv, CloseInv,
              Holders, HoldersStep
<1>10. ASSUME NEW t \in Threads, DestroyBegin(t) PROVE HoldersStep
  BY <1>10 DEF DestroyBegin, Shutdown, Cancel, Goto, TypeOK, OwnInv, CloseInv,
               Holders, HoldersStep
<1>11. ASSUME NEW t \in Threads, DestroyEnd(t) PROVE HoldersStep
  BY <1>11 DEF DestroyEnd, Goto, TypeOK, OwnInv, CloseInv, Holders, HoldersStep
<1>12. ASSUME NEW h \in Handles, UnregisterCall(h) PROVE HoldersStep
  BY <1>12 DEF UnregisterCall, TypeOK, OwnInv, CloseInv, Holders, HoldersStep
<1>13. ASSUME NEW h \in Handles, OnReleased(h) PROVE HoldersStep
  BY <1>13 DEF OnReleased, TypeOK, OwnInv, CloseInv, Holders, HoldersStep
<1>14. CASE Finalize
  BY <1>14 DEF Finalize, Shutdown, Cancel, TypeOK, OwnInv, CloseInv, Holders,
               HoldersStep
<1>15. CASE FinalizeEnd
  BY <1>15 DEF FinalizeEnd, TypeOK, OwnInv, CloseInv, Holders, HoldersStep
<1>16. CASE UNCHANGED vars
  BY <1>16 DEF vars, TypeOK, OwnInv, CloseInv, Holders, HoldersStep
<1>17. ASSUME NEW t \in Threads, Forget(t) PROVE HoldersStep
  BY <1>17 DEF Forget, Goto, TypeOK, OwnInv, CloseInv, Holders, HoldersStep
<1> QED
  BY <1>1, <1>2, <1>3, <1>4, <1>5, <1>6, <1>7, <1>8, <1>9, <1>10, <1>11,
     <1>12, <1>13, <1>14, <1>15, <1>16, <1>17 DEF Next, Progress, Idle

\* The count stays exact.
LEMMA NextCount == IInv /\ [Next]_vars => CountInv' /\ IsFiniteSet(lost')
<1> SUFFICES ASSUME IInv, [Next]_vars PROVE CountInv' /\ IsFiniteSet(lost')
  OBVIOUS
<1>1. HoldersStep
  BY NextHolders
<1>0. /\ IsFiniteSet(lost) /\ Cardinality(lost) \in Nat
      /\ IsFiniteSet(Holders) /\ Cardinality(Holders) \in Nat
      /\ inFlight = Cardinality(Holders) + Cardinality(lost)
  BY HoldersFinite, FS_CardinalityType DEF IInv, TypeOK, CountInv
<1>2. CASE Holders' = Holders /\ lost' = lost /\ inFlight' = inFlight
  BY <1>0, <1>2 DEF CountInv
<1>3. ASSUME NEW t \in Threads \ Holders,
             Holders' = Holders \cup {t} /\ lost' = lost
               /\ inFlight' = inFlight + 1
      PROVE CountInv' /\ IsFiniteSet(lost')
  <2>1. Cardinality(Holders') = Cardinality(Holders) + 1
    BY <1>0, <1>3, FS_AddElement
  <2> QED
    BY <1>0, <1>3, <2>1 DEF CountInv
<1>4. ASSUME NEW t \in Holders,
             Holders' = Holders \ {t} /\ lost' = lost
               /\ inFlight' = inFlight - 1
      PROVE CountInv' /\ IsFiniteSet(lost')
  <2>1. Cardinality(Holders') = Cardinality(Holders) - 1
    BY <1>0, <1>4, FS_RemoveElement
  <2> QED
    BY <1>0, <1>4, <2>1 DEF CountInv
<1>5. ASSUME NEW t \in Holders, NEW h \in Handles \ lost,
             Holders' = Holders \ {t} /\ lost' = lost \cup {h}
               /\ inFlight' = inFlight
      PROVE CountInv' /\ IsFiniteSet(lost')
  <2>1. Cardinality(Holders') = Cardinality(Holders) - 1
    BY <1>0, <1>5, FS_RemoveElement
  <2>2. IsFiniteSet(lost') /\ Cardinality(lost') = Cardinality(lost) + 1
    BY <1>0, <1>5, FS_AddElement
  <2> QED
    BY <1>0, <1>5, <2>1, <2>2 DEF CountInv
<1> QED
  BY <1>1, <1>2, <1>3, <1>4, <1>5 DEF HoldersStep

\* Every member keeps its type; the count's range follows from its meaning.
LEMMA NextType == IInv /\ [Next]_vars => TypeOK'
<1> DEFINE Values == /\ IsFiniteSet(lost)
                     /\ inFlight \in 0..(Cardinality(Threads) + Cardinality(lost))
<1> SUFFICES ASSUME IInv, [Next]_vars, Values' PROVE TypeOK'
  <2>1. ASSUME IInv, [Next]_vars PROVE Values'
    <3>1. Holders' \subseteq Threads
      BY DEF Holders
    <3>2. /\ Cardinality(Holders') \in Nat /\ Cardinality(Threads) \in Nat
          /\ Cardinality(Holders') <= Cardinality(Threads)
      BY <3>1, FS_Subset, FS_CardinalityType
    <3>3. IsFiniteSet(lost') /\ Cardinality(lost') \in Nat
      BY <2>1, NextCount, FS_CardinalityType
    <3>4. inFlight' = Cardinality(Holders') + Cardinality(lost')
      BY <2>1, NextCount DEF CountInv
    <3> QED
      BY <3>2, <3>3, <3>4
  <2> QED
    BY <2>1
<1> USE DEF IInv
<1>1. ASSUME NEW t \in Threads, Claim(t) PROVE TypeOK'
  BY <1>1 DEF Claim, Goto, TypeOK
<1>2. ASSUME NEW t \in Threads, StartCall(t) PROVE TypeOK'
  BY <1>2 DEF StartCall, Goto, TypeOK
<1>3. ASSUME NEW t \in Threads, AddCall(t) PROVE TypeOK'
  BY <1>3 DEF AddCall, Cancel, Goto, TypeOK, OwnInv
<1>4. ASSUME NEW t \in Threads, Discard(t) PROVE TypeOK'
  BY <1>4 DEF Discard, Goto, TypeOK
<1>5. ASSUME NEW t \in Threads, FreeCancel(t) PROVE TypeOK'
  BY <1>5 DEF FreeCancel, Cancel, Goto, TypeOK
<1>6. ASSUME NEW t \in Threads, FreeWait(t) PROVE TypeOK'
  BY <1>6 DEF FreeWait, Goto, TypeOK
<1>7. ASSUME NEW t \in Threads, Release(t) PROVE TypeOK'
  BY <1>7 DEF Release, Goto, TypeOK
<1>8. ASSUME NEW t \in Threads, Close(t) PROVE TypeOK'
  <2>1. open' \in BOOLEAN
    BY <1>8, Zenon DEF Close, TypeOK
  <2> QED
    BY <1>8, <2>1 DEF Close, WaitIdle, Cancel, Goto, TypeOK
<1>9. ASSUME NEW t \in Threads, CloseWoken(t) PROVE TypeOK'
  BY <1>9 DEF CloseWoken, WaitIdle, Goto, TypeOK
<1>10. ASSUME NEW t \in Threads, DestroyBegin(t) PROVE TypeOK'
  BY <1>10 DEF DestroyBegin, Shutdown, Cancel, Goto, TypeOK
<1>11. ASSUME NEW t \in Threads, DestroyEnd(t) PROVE TypeOK'
  BY <1>11 DEF DestroyEnd, Goto, TypeOK
<1>12. ASSUME NEW h \in Handles, UnregisterCall(h) PROVE TypeOK'
  BY <1>12 DEF UnregisterCall, TypeOK
<1>13. ASSUME NEW h \in Handles, OnReleased(h) PROVE TypeOK'
  BY <1>13 DEF OnReleased, TypeOK
<1>14. CASE Finalize
  BY <1>14 DEF Finalize, Shutdown, Cancel, TypeOK
<1>15. CASE FinalizeEnd
  BY <1>15 DEF FinalizeEnd, TypeOK
<1>16. CASE UNCHANGED vars
  BY <1>16 DEF vars, TypeOK
<1>17. ASSUME NEW t \in Threads, Forget(t) PROVE TypeOK'
  BY <1>17 DEF Forget, Goto, TypeOK, OwnInv
<1> QED
  BY <1>1, <1>2, <1>3, <1>4, <1>5, <1>6, <1>7, <1>8, <1>9, <1>10, <1>11,
     <1>12, <1>13, <1>14, <1>15, <1>16, <1>17 DEF Next, Progress, Idle

\* Ownership: cronet_call_start gives a fresh address to one thread, which
\* alone frees it.
LEMMA NextOwn == IInv /\ [Next]_vars => OwnInv'
<1> SUFFICES ASSUME IInv, [Next]_vars PROVE OwnInv'
  OBVIOUS
<1>0. inFlight = 0 => Holders = {} /\ lost = {}
  BY NobodyHolds DEF IInv
<1> USE DEF IInv
<1>1. ASSUME NEW t \in Threads, Claim(t) PROVE OwnInv'
  BY <1>1 DEF Claim, Goto, TypeOK, OwnInv, CloseInv, Holders
<1>2. ASSUME NEW t \in Threads, StartCall(t) PROVE OwnInv'
  BY <1>2 DEF StartCall, Goto, TypeOK, OwnInv, CloseInv, Holders
<1>3. ASSUME NEW t \in Threads, AddCall(t) PROVE OwnInv'
  BY <1>3 DEF AddCall, Cancel, Goto, TypeOK, OwnInv, CloseInv, Holders
<1>4. ASSUME NEW t \in Threads, Discard(t) PROVE OwnInv'
  BY <1>4 DEF Discard, Goto, TypeOK, OwnInv, CloseInv, Holders
<1>5. ASSUME NEW t \in Threads, FreeCancel(t) PROVE OwnInv'
  BY <1>5 DEF FreeCancel, Cancel, Goto, TypeOK, OwnInv, CloseInv, Holders
<1>6. ASSUME NEW t \in Threads, FreeWait(t) PROVE OwnInv'
  BY <1>6 DEF FreeWait, Goto, TypeOK, OwnInv, CloseInv, Holders
<1>7. ASSUME NEW t \in Threads, Release(t) PROVE OwnInv'
  BY <1>7 DEF Release, Goto, TypeOK, OwnInv, CloseInv, Holders
<1>8. ASSUME NEW t \in Threads, Close(t) PROVE OwnInv'
  BY <1>8, <1>0 DEF Close, WaitIdle, Cancel, Goto, TypeOK, OwnInv, CloseInv,
                  Holders
<1>9. ASSUME NEW t \in Threads, CloseWoken(t) PROVE OwnInv'
  BY <1>9, <1>0 DEF CloseWoken, WaitIdle, Goto, TypeOK, OwnInv, CloseInv,
                  Holders
<1>10. ASSUME NEW t \in Threads, DestroyBegin(t) PROVE OwnInv'
  BY <1>10 DEF DestroyBegin, Shutdown, Cancel, Goto, TypeOK, OwnInv, CloseInv,
               Holders
<1>11. ASSUME NEW t \in Threads, DestroyEnd(t) PROVE OwnInv'
  BY <1>11 DEF DestroyEnd, Goto, TypeOK, OwnInv, CloseInv, Holders
<1>12. ASSUME NEW h \in Handles, UnregisterCall(h) PROVE OwnInv'
  BY <1>12 DEF UnregisterCall, TypeOK, OwnInv, CloseInv, Holders
<1>13. ASSUME NEW h \in Handles, OnReleased(h) PROVE OwnInv'
  BY <1>13 DEF OnReleased, TypeOK, OwnInv, CloseInv, Holders
<1>14. CASE Finalize
  BY <1>14 DEF Finalize, Shutdown, Cancel, TypeOK, OwnInv, CloseInv, Holders
<1>15. CASE FinalizeEnd
  BY <1>15 DEF FinalizeEnd, TypeOK, OwnInv, CloseInv, Holders
<1>16. CASE UNCHANGED vars
  BY <1>16 DEF vars, TypeOK, OwnInv, CloseInv, Holders
<1>17. ASSUME NEW t \in Threads, Forget(t) PROVE OwnInv'
  BY <1>17 DEF Forget, Goto, TypeOK, OwnInv, CloseInv, Holders
<1> QED
  BY <1>1, <1>2, <1>3, <1>4, <1>5, <1>6, <1>7, <1>8, <1>9, <1>10, <1>11,
     <1>12, <1>13, <1>14, <1>15, <1>16, <1>17 DEF Next, Progress, Idle

\* The lists: a handle is off _live_calls before it is freed, and off the
\* native list exactly when its request has been torn down.
LEMMA NextList == IInv /\ [Next]_vars => ListInv'
<1> SUFFICES ASSUME IInv, [Next]_vars PROVE ListInv'
  OBVIOUS
<1>0. inFlight = 0 => Holders = {} /\ lost = {}
  BY NobodyHolds DEF IInv
<1> USE DEF IInv
<1>1. ASSUME NEW t \in Threads, Claim(t) PROVE ListInv'
  BY <1>1 DEF Claim, Goto, TypeOK, OwnInv, ListInv, CloseInv, Holders
<1>2. ASSUME NEW t \in Threads, StartCall(t) PROVE ListInv'
  BY <1>2 DEF StartCall, Goto, TypeOK, OwnInv, ListInv, CloseInv, Holders
<1>3. ASSUME NEW t \in Threads, AddCall(t) PROVE ListInv'
  BY <1>3 DEF AddCall, Cancel, Goto, TypeOK, OwnInv, ListInv, CloseInv, Holders
<1>4. ASSUME NEW t \in Threads, Discard(t) PROVE ListInv'
  BY <1>4 DEF Discard, Goto, TypeOK, OwnInv, ListInv, CloseInv, Holders
<1>5. ASSUME NEW t \in Threads, FreeCancel(t) PROVE ListInv'
  BY <1>5 DEF FreeCancel, Cancel, Goto, TypeOK, OwnInv, ListInv, CloseInv,
              Holders
<1>6. ASSUME NEW t \in Threads, FreeWait(t) PROVE ListInv'
  BY <1>6 DEF FreeWait, Goto, TypeOK, OwnInv, ListInv, CloseInv, Holders
<1>7. ASSUME NEW t \in Threads, Release(t) PROVE ListInv'
  BY <1>7 DEF Release, Goto, TypeOK, OwnInv, ListInv, CloseInv, Holders
<1>8. ASSUME NEW t \in Threads, Close(t) PROVE ListInv'
  BY <1>8, <1>0 DEF Close, WaitIdle, Cancel, Goto, TypeOK, OwnInv, ListInv,
                    CloseInv,
                  Holders
<1>9. ASSUME NEW t \in Threads, CloseWoken(t) PROVE ListInv'
  BY <1>9, <1>0 DEF CloseWoken, WaitIdle, Goto, TypeOK, OwnInv, ListInv,
                    CloseInv,
                  Holders
<1>10. ASSUME NEW t \in Threads, DestroyBegin(t) PROVE ListInv'
  BY <1>10 DEF DestroyBegin, Shutdown, Cancel, Goto, TypeOK, OwnInv, ListInv,
               CloseInv, Holders
<1>11. ASSUME NEW t \in Threads, DestroyEnd(t) PROVE ListInv'
  BY <1>11 DEF DestroyEnd, Goto, TypeOK, OwnInv, ListInv, CloseInv, Holders
<1>12. ASSUME NEW h \in Handles, UnregisterCall(h) PROVE ListInv'
  BY <1>12 DEF UnregisterCall, TypeOK, OwnInv, ListInv, CloseInv, Holders
<1>13. ASSUME NEW h \in Handles, OnReleased(h) PROVE ListInv'
  BY <1>13 DEF OnReleased, TypeOK, OwnInv, ListInv, CloseInv, Holders
<1>14. CASE Finalize
  BY <1>14 DEF Finalize, Shutdown, Cancel, TypeOK, OwnInv, ListInv, CloseInv,
               Holders
<1>15. CASE FinalizeEnd
  BY <1>15 DEF FinalizeEnd, TypeOK, OwnInv, ListInv, CloseInv, Holders
<1>16. CASE UNCHANGED vars
  BY <1>16 DEF vars, TypeOK, OwnInv, ListInv, CloseInv, Holders
<1>17. ASSUME NEW t \in Threads, Forget(t) PROVE ListInv'
  BY <1>17 DEF Forget, Goto, TypeOK, OwnInv, ListInv, CloseInv, Holders
<1> QED
  BY <1>1, <1>2, <1>3, <1>4, <1>5, <1>6, <1>7, <1>8, <1>9, <1>10, <1>11,
     <1>12, <1>13, <1>14, <1>15, <1>16, <1>17 DEF Next, Progress, Idle

\* A call is cancelled by the close() that finds it or, when close() came
\* first, by its own start().
LEMMA NextEscape == IInv /\ [Next]_vars => NothingEscapesClose'
<1> SUFFICES ASSUME IInv, [Next]_vars PROVE NothingEscapesClose'
  OBVIOUS
<1> USE DEF IInv
<1>1. ASSUME NEW t \in Threads, Claim(t) PROVE NothingEscapesClose'
  BY <1>1 DEF Claim, Goto, TypeOK, OwnInv, ListInv, NothingEscapesClose
<1>2. ASSUME NEW t \in Threads, StartCall(t) PROVE NothingEscapesClose'
  BY <1>2 DEF StartCall, Goto, TypeOK, OwnInv, ListInv, NothingEscapesClose
<1>3. ASSUME NEW t \in Threads, AddCall(t) PROVE NothingEscapesClose'
  BY <1>3 DEF AddCall, Cancel, Goto, TypeOK, OwnInv, ListInv,
              NothingEscapesClose
<1>4. ASSUME NEW t \in Threads, Discard(t) PROVE NothingEscapesClose'
  BY <1>4 DEF Discard, Goto, TypeOK, OwnInv, ListInv, NothingEscapesClose
<1>5. ASSUME NEW t \in Threads, FreeCancel(t) PROVE NothingEscapesClose'
  BY <1>5 DEF FreeCancel, Cancel, Goto, TypeOK, OwnInv, ListInv,
              NothingEscapesClose
<1>6. ASSUME NEW t \in Threads, FreeWait(t) PROVE NothingEscapesClose'
  BY <1>6 DEF FreeWait, Goto, TypeOK, OwnInv, ListInv, NothingEscapesClose
<1>7. ASSUME NEW t \in Threads, Release(t) PROVE NothingEscapesClose'
  BY <1>7 DEF Release, Goto, TypeOK, OwnInv, ListInv, NothingEscapesClose
<1>8. ASSUME NEW t \in Threads, Close(t) PROVE NothingEscapesClose'
  BY <1>8 DEF Close, WaitIdle, Cancel, Goto, TypeOK, OwnInv, ListInv,
              NothingEscapesClose
<1>9. ASSUME NEW t \in Threads, CloseWoken(t) PROVE NothingEscapesClose'
  BY <1>9 DEF CloseWoken, WaitIdle, Goto, TypeOK, OwnInv, ListInv,
              NothingEscapesClose
<1>10. ASSUME NEW t \in Threads, DestroyBegin(t) PROVE NothingEscapesClose'
  BY <1>10 DEF DestroyBegin, Shutdown, Cancel, Goto, TypeOK, OwnInv, ListInv,
               NothingEscapesClose
<1>11. ASSUME NEW t \in Threads, DestroyEnd(t) PROVE NothingEscapesClose'
  BY <1>11 DEF DestroyEnd, Goto, TypeOK, OwnInv, ListInv, NothingEscapesClose
<1>12. ASSUME NEW h \in Handles, UnregisterCall(h) PROVE NothingEscapesClose'
  BY <1>12 DEF UnregisterCall, TypeOK, OwnInv, ListInv, NothingEscapesClose
<1>13. ASSUME NEW h \in Handles, OnReleased(h) PROVE NothingEscapesClose'
  BY <1>13 DEF OnReleased, TypeOK, OwnInv, ListInv, NothingEscapesClose
<1>14. CASE Finalize
  BY <1>14 DEF Finalize, Shutdown, Cancel, TypeOK, OwnInv, ListInv,
               NothingEscapesClose
<1>15. CASE FinalizeEnd
  BY <1>15 DEF FinalizeEnd, TypeOK, OwnInv, ListInv, NothingEscapesClose
<1>16. CASE UNCHANGED vars
  BY <1>16 DEF vars, TypeOK, OwnInv, ListInv, NothingEscapesClose
<1>17. ASSUME NEW t \in Threads, Forget(t) PROVE NothingEscapesClose'
  BY <1>17 DEF Forget, Goto, TypeOK, OwnInv, ListInv, NothingEscapesClose
<1> QED
  BY <1>1, <1>2, <1>3, <1>4, <1>5, <1>6, <1>7, <1>8, <1>9, <1>10, <1>11,
     <1>12, <1>13, <1>14, <1>15, <1>16, <1>17 DEF Next, Progress, Idle

\* The engine is destroyed only when nobody holds it, and nobody claims it
\* afterwards.
LEMMA NextClose == IInv /\ [Next]_vars => CloseInv'
<1> SUFFICES ASSUME IInv, [Next]_vars PROVE CloseInv'
  OBVIOUS
<1>0. inFlight = 0 => Holders = {} /\ lost = {}
  BY NobodyHolds DEF IInv
<1> USE DEF IInv
<1>1. ASSUME NEW t \in Threads, Claim(t) PROVE CloseInv'
  BY <1>1, <1>0 DEF Claim, Goto, TypeOK, OwnInv, CloseInv, Holders
<1>2. ASSUME NEW t \in Threads, StartCall(t) PROVE CloseInv'
  BY <1>2, <1>0 DEF StartCall, Goto, TypeOK, OwnInv, CloseInv, Holders
<1>3. ASSUME NEW t \in Threads, AddCall(t) PROVE CloseInv'
  BY <1>3, <1>0 DEF AddCall, Cancel, Goto, TypeOK, OwnInv, CloseInv, Holders
<1>4. ASSUME NEW t \in Threads, Discard(t) PROVE CloseInv'
  BY <1>4, <1>0 DEF Discard, Goto, TypeOK, OwnInv, CloseInv, Holders
<1>5. ASSUME NEW t \in Threads, FreeCancel(t) PROVE CloseInv'
  BY <1>5, <1>0 DEF FreeCancel, Cancel, Goto, TypeOK, OwnInv, CloseInv, Holders
<1>6. ASSUME NEW t \in Threads, FreeWait(t) PROVE CloseInv'
  BY <1>6, <1>0 DEF FreeWait, Goto, TypeOK, OwnInv, CloseInv, Holders
<1>7. ASSUME NEW t \in Threads, Release(t) PROVE CloseInv'
  BY <1>7, <1>0 DEF Release, Goto, TypeOK, OwnInv, CloseInv, Holders
<1>8. ASSUME NEW t \in Threads, Close(t) PROVE CloseInv'
  BY <1>8, <1>0 DEF Close, WaitIdle, Cancel, Goto, TypeOK, OwnInv, CloseInv,
                    Holders
<1>9. ASSUME NEW t \in Threads, CloseWoken(t) PROVE CloseInv'
  BY <1>9, <1>0 DEF CloseWoken, WaitIdle, Goto, TypeOK, OwnInv, CloseInv,
                    Holders
<1>10. ASSUME NEW t \in Threads, DestroyBegin(t) PROVE CloseInv'
  BY <1>10, <1>0 DEF DestroyBegin, Shutdown, Cancel, Goto, TypeOK, OwnInv,
                     CloseInv, Holders
<1>11. ASSUME NEW t \in Threads, DestroyEnd(t) PROVE CloseInv'
  BY <1>11, <1>0 DEF DestroyEnd, Goto, TypeOK, OwnInv, CloseInv, Holders
<1>12. ASSUME NEW h \in Handles, UnregisterCall(h) PROVE CloseInv'
  BY <1>12, <1>0 DEF UnregisterCall, TypeOK, OwnInv, CloseInv, Holders
<1>13. ASSUME NEW h \in Handles, OnReleased(h) PROVE CloseInv'
  BY <1>13, <1>0 DEF OnReleased, TypeOK, OwnInv, CloseInv, Holders
<1>14. CASE Finalize
  BY <1>14, <1>0 DEF Finalize, Shutdown, Cancel, TypeOK, OwnInv, ListInv,
                     CloseInv, Holders
<1>15. CASE FinalizeEnd
  BY <1>15, <1>0 DEF FinalizeEnd, TypeOK, OwnInv, CloseInv, Holders
<1>16. CASE UNCHANGED vars
  BY <1>16, <1>0 DEF vars, TypeOK, OwnInv, CloseInv, Holders
<1>17. ASSUME NEW t \in Threads, Forget(t) PROVE CloseInv'
  BY <1>17 DEF Forget, Goto, TypeOK, OwnInv, CloseInv, Holders
<1> QED
  BY <1>1, <1>2, <1>3, <1>4, <1>5, <1>6, <1>7, <1>8, <1>9, <1>10, <1>11,
     <1>12, <1>13, <1>14, <1>15, <1>16, <1>17 DEF Next, Progress, Idle

-----------------------------------------------------------------------------
(* The theorems.                                                           *)

\* The parts above are together an invariant of the specification.
THEOREM Inductive == Spec => []IInv
<1>1. IInv /\ [Next]_vars => IInv'
  BY NextCount, NextType, NextOwn, NextList, NextEscape, NextClose DEF IInv
<1> QED
  BY InitInv, <1>1, PTL DEF Spec

\* Every member keeps its type, and the count of calls in flight never leaves
\* the range from zero to the number of threads and of lost calls.
THEOREM TypeCorrect == Spec => []TypeOK
<1>1. IInv => TypeOK
  BY DEF IInv
<1> QED
  BY Inductive, <1>1, PTL

\* What _claim is for: no thread between _claim and _release ever finds that
\* its native engine has begun to be destroyed, whoever closes the session.
THEOREM OutlivesItsUse == Spec => []EngineOutlivesItsUse
<1>1. IInv => EngineOutlivesItsUse
  BY DEF IInv, CloseInv, Holders, EngineOutlivesItsUse
<1> QED
  BY Inductive, <1>1, PTL

\* When no thread closes the session inside its own stream, close() walks a
\* list of calls each of which has a thread that still owns it or was lost.
THEOREM ListedOwned ==
    ASSUME NestedClose = FALSE PROVE Spec => []ListedCallsAreOwned
<1>1. IInv => ListedCallsAreOwned
  BY DEF IInv, TypeOK, OwnInv, ListInv, ListedCallsAreOwned
<1> QED
  BY Inductive, <1>1, PTL

\* No listed call is left running once close() has begun.
THEOREM NothingEscapes == Spec => []NothingEscapesClose
<1>1. IInv => NothingEscapesClose
  BY DEF IInv
<1> QED
  BY Inductive, <1>1, PTL

\* The native Engine::Destroy meets no registered call when close() runs it,
\* and only lost calls, none of them left running, when the finalizer does.
THEOREM DestroyAlone == Spec => []DestroyMeetsOnlyTheLost
<1>1. ASSUME IInv, Holders = {}, NEW h \in registered PROVE h \in lost
  <2>1. h \in Handles /\ call[h] # "free"
    BY <1>1 DEF IInv, ListInv
  <2>2. \A t \in Threads : mine[t] # h
    BY <1>1, <2>1 DEF Holders
  <2> QED
    BY <1>1, <2>1, <2>2 DEF IInv, OwnInv
<1>2. ASSUME IInv, dropped, NEW h \in registered
      PROVE  h \in lost /\ call[h] = "cancelled"
  <2>1. Holders = {}
    BY <1>2 DEF IInv, OwnInv, CloseInv, Holders
  <2>2. call[h] = "cancelled"
    BY <1>2 DEF IInv, CloseInv, ListInv
  <2> QED
    BY <1>1, <1>2, <2>1, <2>2
<1>3. ASSUME IInv, NEW t \in Threads, pc[t] \in {"destroy", "destroyWait"}
      PROVE  registered = {}
  <2>1. Holders = {} /\ lost = {}
    BY <1>3 DEF IInv, CloseInv
  <2> QED
    BY <1>1, <1>3, <2>1
<1>4. IInv => DestroyMeetsOnlyTheLost
  BY <1>2, <1>3 DEF DestroyMeetsOnlyTheLost
<1> QED
  BY Inductive, <1>4, PTL
-----------------------------------------------------------------------------
(* What Engine relies on of a call, and what it grants in return.          *)

Life(h) == INSTANCE CallLife WITH phase <- call[h]

\* Which calls a step may cancel: that of a thread back from cronet_call_start
\* and not yet done with cronet_call_free, or one that was lost, whose owner is
\* for ever between the two.  It is what CallState's EngineCancel takes for
\* granted of the Engine above it.
CancelGranted ==
    \A h \in Handles :
        call[h] = "live" /\ call'[h] = "cancelled" =>
            \/ h \in lost
            \/ \E t \in Threads : mine[t] = h /\ pc[t] \in {"add", "run", "free"}

\* CallLife's next-state relation, said of one address.
Moves(h) ==
    \/ call'[h] = call[h]
    \/ <<call[h], call'[h]>> \in
         {<<"free", "live">>, <<"live", "cancelled">>, <<"live", "leaving">>,
          <<"cancelled", "leaving">>, <<"leaving", "released">>,
          <<"released", "free">>}

LEMMA MovesAlong ==
    ASSUME NEW h \in Handles, Moves(h) PROVE [Life(h)!Next]_(call[h])
  BY DEF Moves, Life!Next, Life!Start, Life!Cancel, Life!Unregister,
         Life!Release, Life!Free

\* Cancelling any of the calls moves each of them along its life.
LEMMA CancelMoves ==
    ASSUME TypeOK, NEW S, call' = Cancel(S), NEW h \in Handles PROVE Moves(h)
  BY DEF Cancel, TypeOK, Moves

\* A step of a thread or of the network thread takes each call one step along
\* its life, or leaves it alone.
LEMMA NextMoves ==
    ASSUME IInv, [Next]_vars, NEW h \in Handles PROVE Moves(h)
<1>0. TypeOK
  BY DEF IInv
<1>1. ASSUME call' = call PROVE Moves(h)
  BY <1>1 DEF Moves
<1>2. ASSUME NEW S, call' = Cancel(S) PROVE Moves(h)
  BY <1>0, <1>2, CancelMoves
<1>3. ASSUME NEW t \in Threads, StartCall(t) PROVE Moves(h)
  BY <1>0, <1>3 DEF StartCall, TypeOK, Moves
<1>4. ASSUME NEW t \in Threads, FreeWait(t) PROVE Moves(h)
  BY <1>0, <1>4 DEF FreeWait, TypeOK, Moves
<1>5. ASSUME NEW g \in Handles, UnregisterCall(g) PROVE Moves(h)
  BY <1>0, <1>5 DEF UnregisterCall, TypeOK, Moves
<1>6. ASSUME NEW g \in Handles, OnReleased(g) PROVE Moves(h)
  BY <1>0, <1>6 DEF OnReleased, TypeOK, Moves
<1>7. ASSUME NEW t \in Threads,
             Claim(t) \/ Discard(t) \/ Forget(t) \/ Release(t)
               \/ CloseWoken(t) \/ DestroyEnd(t)
      PROVE  Moves(h)
  BY <1>1, <1>7 DEF Claim, Discard, Forget, Release, CloseWoken, DestroyEnd
<1>8. ASSUME NEW t \in Threads,
             AddCall(t) \/ FreeCancel(t) \/ Close(t) \/ DestroyBegin(t)
      PROVE  Moves(h)
  <2>1. \/ call' = call
        \/ call' = Cancel({mine[t]}) \/ call' = Cancel(liveCalls)
        \/ call' = Cancel(registered)
    BY <1>8 DEF AddCall, FreeCancel, Close, DestroyBegin, Shutdown
  <2> QED
    BY <1>1, <1>2, <2>1
<1>9. CASE Finalize
  <2>1. call' = Cancel(registered)
    BY <1>9 DEF Finalize, Shutdown
  <2> QED
    BY <1>2, <2>1
<1>10. CASE FinalizeEnd \/ Idle \/ UNCHANGED vars
  BY <1>1, <1>10 DEF FinalizeEnd, Idle, vars
<1> QED
  BY <1>3, <1>4, <1>5, <1>6, <1>7, <1>8, <1>9, <1>10 DEF Next, Progress

\* Engine uses no call in a way that CallLife does not allow: whichever
\* threads start, cancel, free and close, each address goes through the lives
\* of its calls in order.
THEOREM CallsLive == ASSUME NEW h \in Handles PROVE Spec => Life(h)!Spec
<1>1. Init => Life(h)!Init
  BY DEF Init, Life!Init
<1>2. IInv /\ [Next]_vars => [Life(h)!Next]_(call[h])
  BY NextMoves, MovesAlong
<1> QED
  BY Inductive, <1>1, <1>2, PTL DEF Spec, Life!Spec

\* No step of the engine, Engine::Destroy included, cancels a call that is
\* still being started or has been freed.
THEOREM CancelsAreGranted == Spec => [][CancelGranted]_vars
<1>1. ASSUME IInv, [Next]_vars PROVE CancelGranted
  <2> SUFFICES ASSUME NEW h \in Handles, call[h] = "live",
                      call'[h] = "cancelled"
               PROVE  \/ h \in lost
                      \/ \E t \in Threads :
                           mine[t] = h /\ pc[t] \in {"add", "run", "free"}
    BY DEF CancelGranted
  <2> DEFINE Granted == \/ h \in lost
                        \/ \E t \in Threads :
                             mine[t] = h /\ pc[t] \in {"add", "run", "free"}
  <2>0. TypeOK
    BY <1>1 DEF IInv
  <2>1. ASSUME NEW S, call' = Cancel(S) PROVE h \in S
    BY <2>1 DEF Cancel
  <2>2. ASSUME NEW t \in Threads, AddCall(t) \/ FreeCancel(t) PROVE Granted
    <3>1. call' = call \/ call' = Cancel({mine[t]})
      BY <2>2 DEF AddCall, FreeCancel
    <3>2. mine[t] = h
      BY <2>1, <3>1
    <3> QED
      BY <2>2, <3>2 DEF AddCall, FreeCancel
  <2>3. ASSUME NEW t \in Threads, Close(t) PROVE Granted
    <3>1. open /\ h \in liveCalls
      BY <2>1, <2>3 DEF Close
    <3>0. CASE h \in lost
      BY <3>0
    <3> SUFFICES ASSUME h \notin lost PROVE Granted
      BY <3>0
    <3>2. PICK u \in Threads : mine[u] = h /\ pc[u] \in {"run", "closing"}
      BY <1>1, <3>1 DEF IInv, ListInv
    <3>3. pc[u] = "run"
      BY <1>1, <3>1, <3>2 DEF IInv, CloseInv
    <3> QED
      BY <3>2, <3>3
  <2>4. ASSUME NEW t \in Threads, DestroyBegin(t) PROVE FALSE
    <3>1. Holders = {} /\ lost = {}
      BY <1>1, <2>4 DEF DestroyBegin, IInv, CloseInv
    <3>2. call[h] = "free"
      BY <1>1, <3>1 DEF IInv, TypeOK, OwnInv, Holders
    <3> QED
      BY <3>2
  <2>5. CASE Finalize
    <3>1. Holders = {}
      BY <1>1, <2>5 DEF Finalize, IInv, OwnInv, Holders
    <3> QED
      BY <1>1, <3>1 DEF IInv, TypeOK, OwnInv, Holders
  <2>6. ASSUME NEW t \in Threads,
               \/ Claim(t) \/ Discard(t) \/ Forget(t) \/ Release(t)
               \/ CloseWoken(t) \/ DestroyEnd(t) \/ StartCall(t) \/ FreeWait(t)
        PROVE  FALSE
    BY <2>0, <2>6 DEF Claim, Discard, Forget, Release, CloseWoken,
                      DestroyEnd, StartCall, FreeWait, TypeOK
  <2>7. ASSUME NEW g \in Handles, UnregisterCall(g) \/ OnReleased(g)
        PROVE  FALSE
    BY <2>0, <2>7 DEF UnregisterCall, OnReleased, TypeOK
  <2>8. CASE FinalizeEnd \/ Idle \/ UNCHANGED vars
    BY <2>8 DEF FinalizeEnd, Idle, vars
  <2> QED
    BY <1>1, <2>2, <2>3, <2>4, <2>5, <2>6, <2>7, <2>8 DEF Next, Progress
<1> QED
  BY Inductive, <1>1, PTL DEF Spec

=============================================================================
