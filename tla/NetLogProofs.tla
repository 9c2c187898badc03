---------------------------- MODULE NetLogProofs ----------------------------
(***************************************************************************)
(* Proofs about NetLog for any number of threads and of operations, where  *)
(* the callers keep starts and stops from overlapping.                     *)
(***************************************************************************)
EXTENDS NetLog, SequenceTheorems, TLAPS

-----------------------------------------------------------------------------
(* The inductive invariant.                                                *)

PcSteps == {"idle", "post", "wait", "blocked", "stopped"}

TypeInv ==
    /\ logging \in BOOLEAN /\ event \in BOOLEAN
    /\ tasks \in Seq(Nat) /\ running \in Nat /\ started \in Nat
    /\ pc \in [Threads -> PcSteps]
    /\ target \in [Threads -> Nat]

\* What the callers promise: no stop is under way when an operation begins.
OneStop == \A t, u \in Threads : pc[t] # "idle" /\ pc[u] # "idle" => t = u

\* The newest log has been asked for: its start is posted or it is running.
Asked ==
    /\ started > 0
    /\ \/ tasks = <<started>> /\ running = 0
       \/ tasks = <<>> /\ running = started

\* Its stop has been posted as well, behind a start that may not have run.
StopAsked ==
    /\ started > 0
    /\ \/ tasks = <<started, 0>> /\ running = 0
       \/ tasks = <<0>> /\ running = started

\* The network thread has caught up and no log is running.
Quiet == tasks = <<>> /\ running = 0

\* While no stop is under way the flag says which of the two it is.
RestInv ==
    (\A t \in Threads : pc[t] = "idle") => IF logging THEN Asked ELSE Quiet

\* How far the stop under way has got.
StopInv ==
    \A t \in Threads : pc[t] # "idle" =>
        /\ ~logging /\ target[t] = started
        /\ pc[t] = "post" => ~event /\ Asked
        /\ pc[t] = "wait" => \/ ~event /\ StopAsked
                             \/ event /\ Quiet /\ started \in flushed
        /\ pc[t] = "blocked" => ~event /\ StopAsked
        /\ pc[t] = "stopped" => Quiet /\ started \in flushed

IInv == TypeInv /\ OneStop /\ RestInv /\ StopInv

-----------------------------------------------------------------------------
(* The invariant holds at first and every step preserves it.               *)

USE DEF PcSteps

\* Taking a task from, and adding one to, a queue of one or of two.
LEMMA ShortQueues ==
    ASSUME NEW n \in Nat
    PROVE  /\ Head(<<n>>) = n /\ Tail(<<n>>) = <<>>
           /\ Head(<<n, 0>>) = n /\ Tail(<<n, 0>>) = <<0>>
           /\ Append(<<>>, n) = <<n>> /\ Append(<<n>>, 0) = <<n, 0>>
           /\ <<n>> \in Seq(Nat) /\ <<n, 0>> \in Seq(Nat) /\ <<>> \in Seq(Nat)
           /\ <<n>> # <<>> /\ <<n, 0>> # <<>>
<1>1. Append(<<>>, n) = <<n>>
  OBVIOUS
<1>5. Append(<<n>>, 0) = <<n, 0>>
  <2>1. <<n>> \in Seq(Nat) /\ Len(<<n>>) = 1 /\ <<n>>[1] = n
    OBVIOUS
  <2>2. <<n, 0>> \in Seq(Nat) /\ Len(<<n, 0>>) = 2
        /\ <<n, 0>>[1] = n /\ <<n, 0>>[2] = 0
    OBVIOUS
  <2> DEFINE s == Append(<<n>>, 0)
  <2>3. s \in Seq(Nat) /\ Len(s) = 2 /\ s[1] = n /\ s[2] = 0
    BY <2>1, AppendProperties
  <2> HIDE DEF s
  <2>4. \A i \in 1..Len(s) : s[i] = <<n, 0>>[i]
    <3>1. \A i \in 1..Len(s) : i = 1 \/ i = 2
      BY <2>3
    <3> QED
      BY <2>2, <2>3, <3>1
  <2>5. s = <<n, 0>>
    BY <2>2, <2>3, <2>4, SeqEqual
  <2> QED
    BY <2>5 DEF s
<1>2. Head(<<n>>) = n /\ Head(<<n, 0>>) = n
  OBVIOUS
<1>3. Tail(<<n>>) = <<>>
  OBVIOUS
<1>4. Tail(<<n, 0>>) = <<0>>
  OBVIOUS
<1> QED
  BY <1>1, <1>2, <1>3, <1>4, <1>5

\* StartNetLog either fails or posts the only task there is.
LEMMA StartStep ==
    ASSUME Serialized, IInv, NEW t \in Threads, StartNetLog(t)
    PROVE  IInv'
<1>1. \A u \in Threads : pc[u] = "idle"
  BY DEF StartNetLog, Begin
<1>2. CASE UNCHANGED <<logging, tasks, started>>
  BY <1>1, <1>2 DEF StartNetLog, IInv, TypeInv, OneStop, RestInv, StopInv,
                    Asked, Quiet
<1>3. CASE /\ ~logging /\ logging' = TRUE
           /\ started' = started + 1
           /\ tasks' = Append(tasks, started + 1)
  <2>1. tasks = <<>> /\ running = 0
    BY <1>1, <1>3 DEF IInv, RestInv, Quiet
  <2>2. tasks' = <<started'>> /\ running' = 0 /\ started' > 0
    BY <1>3, <2>1 DEF StartNetLog, IInv, TypeInv
  <2>3. logging' \in BOOLEAN /\ tasks' \in Seq(Nat) /\ started' \in Nat
    BY <1>3, <2>2 DEF IInv, TypeInv
  <2> QED
    BY <1>1, <1>3, <2>2, <2>3
       DEF StartNetLog, IInv, TypeInv, OneStop, RestInv, StopInv, Asked
<1> QED
  BY <1>2, <1>3 DEF StartNetLog

\* StopNetLog resets the event before anybody can signal it for this stop.
LEMMA StopStep ==
    ASSUME Serialized, IInv, NEW t \in Threads, StopNetLog(t)
    PROVE  IInv'
<1>1. \A u \in Threads : pc[u] = "idle"
  BY DEF StopNetLog, Begin
<1>2. CASE ~logging
  BY <1>1, <1>2 DEF StopNetLog, IInv, TypeInv, OneStop, RestInv, StopInv,
                    Asked, Quiet
<1>3. CASE logging
  <2>1. logging' = FALSE /\ event' = FALSE
    BY <1>3 DEF StopNetLog
  <2>2. Asked /\ UNCHANGED <<tasks, running, flushed, started>>
    BY <1>1, <1>3 DEF StopNetLog, IInv, RestInv
  <2>3. /\ pc' = [pc EXCEPT ![t] = "post"]
        /\ target' = [target EXCEPT ![t] = started]
    BY <1>3 DEF StopNetLog
  <2> QED
    BY <1>1, <2>1, <2>2, <2>3
       DEF IInv, TypeInv, OneStop, RestInv, StopInv, Asked
<1> QED
  BY <1>2, <1>3 DEF IInv, TypeInv

\* The stop is posted behind whatever the start has posted.
LEMMA PostStep ==
    ASSUME IInv, NEW t \in Threads, PostStop(t)
    PROVE  IInv'
<1>1. /\ \A u \in Threads : u # t => pc[u] = "idle"
      /\ ~logging /\ ~event /\ Asked /\ target[t] = started
  BY DEF PostStop, IInv, OneStop, StopInv
<1>2. StopAsked' /\ tasks' \in Seq(Nat)
  <2>1. started \in Nat /\ started' = started /\ running' = running
    BY DEF PostStop, IInv, TypeInv
  <2>2. CASE tasks = <<started>> /\ running = 0
    <3>1. tasks' = <<started, 0>>
      BY <2>1, <2>2, ShortQueues DEF PostStop
    <3> QED
      BY <1>1, <2>1, <2>2, <3>1 DEF Asked, StopAsked
  <2>3. CASE tasks = <<>> /\ running = started
    <3>1. tasks' = <<0>>
      BY <2>3, ShortQueues DEF PostStop
    <3> QED
      BY <1>1, <2>1, <2>3, <3>1 DEF Asked, StopAsked
  <2> QED
    BY <1>1, <2>2, <2>3 DEF Asked
<1> QED
  BY <1>1, <1>2 DEF PostStop, IInv, TypeInv, OneStop, RestInv, StopInv

\* A wait returns at once only for the signal of this very stop.
LEMMA WaitStep ==
    ASSUME IInv, NEW t \in Threads, Wait(t)
    PROVE  IInv'
  BY DEF Wait, IInv, TypeInv, OneStop, RestInv, StopInv, StopAsked, Quiet

\* After the return the flag and the network thread agree that nothing runs.
LEMMA ReturnStep ==
    ASSUME IInv, NEW t \in Threads, Return(t)
    PROVE  IInv'
<1>1. /\ \A u \in Threads : u # t => pc[u] = "idle"
      /\ ~logging /\ Quiet
  BY DEF Return, IInv, OneStop, StopInv
<1> QED
  BY <1>1 DEF Return, IInv, TypeInv, OneStop, RestInv, StopInv, Quiet

\* The network thread starts the log that was asked for.
LEMMA RunStartStep == ASSUME IInv, RunStart PROVE IInv'
<1>1. Head(tasks) # 0 /\ tasks # <<>> /\ started \in Nat /\ started' = started
  BY DEF RunStart, IInv, TypeInv
<1>2. Asked => Asked'
  <2> SUFFICES ASSUME Asked PROVE Asked'
    OBVIOUS
  <2>1. tasks = <<started>> /\ running = 0
    BY <1>1 DEF Asked
  <2>2. tasks' = <<>> /\ running' = started
    BY <1>1, <2>1, ShortQueues DEF RunStart
  <2> QED
    BY <1>1, <2>2 DEF Asked
<1>3. StopAsked => StopAsked'
  <2> SUFFICES ASSUME StopAsked PROVE StopAsked'
    OBVIOUS
  <2>1. tasks = <<started, 0>> /\ running = 0
    BY <1>1, ShortQueues DEF StopAsked
  <2>2. tasks' = <<0>> /\ running' = started
    BY <1>1, <2>1, ShortQueues DEF RunStart
  <2> QED
    BY <1>1, <2>2 DEF StopAsked
<1>4. ~Quiet
  BY <1>1 DEF Quiet
<1>5. TypeInv'
  BY <1>1 DEF RunStart, IInv, TypeInv
<1> QED
  BY <1>2, <1>3, <1>4, <1>5 DEF RunStart, IInv, OneStop, RestInv, StopInv

\* A stop flushes the newest log, and wakes only the thread it is for.
LEMMA RunStopStep == ASSUME IInv, RunStop PROVE IInv'
<1>1. Head(tasks) = 0 /\ tasks # <<>>
  BY DEF RunStop
<1>2. ~Asked /\ ~Quiet
  BY <1>1 DEF Asked, Quiet
<1>3. PICK t \in Threads : pc[t] \in {"wait", "blocked"}
  BY <1>2 DEF IInv, TypeInv, RestInv, StopInv
<1>4. /\ ~logging /\ ~event /\ target[t] = started /\ StopAsked
      /\ \A u \in Threads : u # t => pc[u] = "idle"
  BY <1>2, <1>3 DEF IInv, OneStop, StopInv
<1>5. running = started /\ started > 0 /\ tasks = <<0>>
  BY <1>1, <1>4 DEF StopAsked
<1>6. /\ Quiet' /\ event' = TRUE /\ started' = started
      /\ started \in flushed'
  BY <1>5 DEF RunStop, Quiet
<1>7. /\ pc' = [u \in Threads |->
                  IF pc[u] = "blocked" THEN "stopped" ELSE pc[u]]
      /\ UNCHANGED <<logging, target>>
  BY <1>5 DEF RunStop
<1>8. TypeInv'
  BY <1>5, <1>6, <1>7 DEF RunStop, Quiet, IInv, TypeInv
<1> QED
  BY <1>3, <1>4, <1>6, <1>7, <1>8 DEF IInv, TypeInv, OneStop, RestInv, StopInv

\* Where starts and stops never overlap the parts above are an invariant.
THEOREM Inductive == ASSUME Serialized PROVE Spec => []IInv
<1>1. Init => IInv
  <2> SUFFICES ASSUME Init PROVE IInv
    OBVIOUS
  <2>1. logging \in BOOLEAN /\ event \in BOOLEAN
    BY Zenon DEF Init
  <2> QED
    BY <2>1 DEF Init, IInv, TypeInv, OneStop, RestInv, StopInv, Quiet
<1>2. ASSUME IInv, UNCHANGED vars PROVE IInv'
  BY <1>2 DEF vars, IInv, TypeInv, OneStop, RestInv, StopInv, Asked,
              StopAsked, Quiet
<1>3. IInv /\ [Next]_vars => IInv'
  BY <1>2, StartStep, StopStep, PostStep, WaitStep, ReturnStep, RunStartStep,
     RunStopStep DEF Next, Network, Caller, Done
<1> QED
  BY <1>1, <1>3, PTL DEF Spec

\* engine.h on net_log_stopped_: when a stop returns, the log it was called
\* for is complete on disk, whichever logs came before it.
THEOREM StopFlushes == ASSUME Serialized PROVE Spec => []StopMeansFlushed
<1>1. IInv => StopMeansFlushed
  BY DEF IInv, StopInv, StopMeansFlushed
<1> QED
  BY Inductive, <1>1, PTL

\* is_net_logging_ agrees with the network thread whenever that has caught up.
THEOREM FlagTrue == ASSUME Serialized PROVE Spec => []FlagIsTrue
<1>1. ASSUME IInv PROVE FlagIsTrue
  <2> SUFFICES ASSUME tasks = <<>>,
                      \A t \in Threads : pc[t] \in {"idle", "stopped"}
               PROVE  logging = (running # 0)
    BY DEF FlagIsTrue
  <2>1. CASE \A t \in Threads : pc[t] = "idle"
    <3>1. IF logging THEN Asked ELSE Quiet
      BY <1>1, <2>1 DEF IInv, RestInv
    <3>2. logging <=> running # 0
      BY <3>1 DEF Asked, Quiet
    <3> QED
      BY <1>1, <3>2, Zenon DEF IInv, TypeInv
  <2>2. ASSUME NEW t \in Threads, pc[t] # "idle"
        PROVE  logging = (running # 0)
    <3>1. ~logging /\ Quiet
      BY <1>1, <2>2 DEF IInv, StopInv
    <3>2. logging <=> running # 0
      BY <3>1 DEF Quiet
    <3> QED
      BY <1>1, <3>2, Zenon DEF IInv, TypeInv
  <2> QED
    BY <2>1, <2>2
<1> QED
  BY Inductive, <1>1, PTL
=============================================================================
