------------------------------- MODULE NetLog -------------------------------
(***************************************************************************)
(* The NetLog of an engine: StartNetLog and StopNetLog of                  *)
(* native/engine.cc, called from any number of threads, over one flag      *)
(* under lock_ and one WaitableEvent that every stop shares.               *)
(*                                                                         *)
(* CronetContext is external.  It runs what is posted to it in order; it   *)
(* answers a stop by flushing the file and calling OnStopNetLogCompleted,  *)
(* and answers a stop with no log running not at all.  A start that meets  *)
(* a running log leaves one log running.                                   *)
(***************************************************************************)
EXTENDS Naturals, Sequences

CONSTANTS
    Threads,      \* threads sharing the engine
    OpBound,      \* operations one thread makes (bounds the model)
    Serialized    \* TRUE: the callers keep starts and stops from overlapping

ASSUME NetLogConstants == OpBound \in Nat /\ Serialized \in BOOLEAN

VARIABLES
    logging,   \* is_net_logging_
    event,     \* net_log_stopped_ is signalled (it is reset by hand)
    tasks,     \* starts and stops posted to the network thread, in order
    running,   \* the log being written, 0 for none
    flushed,   \* the logs that are complete on disk
    started,   \* logs started so far
    pc,        \* where each thread stands
    target,    \* the log each thread's stop is to finish
    ops        \* operations each thread has left

vars == <<logging, event, tasks, running, flushed, started, pc, target, ops>>

Init ==
    /\ logging = FALSE /\ event = FALSE /\ tasks = <<>>
    /\ running = 0 /\ flushed = {} /\ started = 0
    /\ pc = [t \in Threads |-> "idle"]
    /\ target = [t \in Threads |-> 0]
    /\ ops = [t \in Threads |-> OpBound]

Begin(t) ==
    /\ pc[t] = "idle" /\ ops[t] > 0
    /\ Serialized => \A u \in Threads : pc[u] = "idle"
    /\ ops' = [ops EXCEPT ![t] = @ - 1]

\* StartNetLog, all of it under lock_; the file may fail to open.
StartNetLog(t) ==
    /\ Begin(t)
    /\ \/ UNCHANGED <<logging, tasks, started>>
       \/ /\ ~logging
          /\ logging' = TRUE
          /\ started' = started + 1
          /\ tasks' = Append(tasks, started + 1)
    /\ UNCHANGED <<event, running, flushed, pc, target>>

\* Slip: the event keeps the signal of the stop before.
StopWithoutReset(t) ==
    /\ Begin(t)
    /\ IF ~logging
       THEN UNCHANGED <<logging, event, pc, target>>
       ELSE /\ logging' = FALSE
            /\ UNCHANGED event
            /\ pc' = [pc EXCEPT ![t] = "post"]
            /\ target' = [target EXCEPT ![t] = started]
    /\ UNCHANGED <<tasks, running, flushed, started>>

\* Slip: the flag still says that a log is running.
StopKeepsFlag(t) ==
    /\ Begin(t)
    /\ IF ~logging
       THEN UNCHANGED <<event, pc, target>>
       ELSE /\ event' = FALSE
            /\ pc' = [pc EXCEPT ![t] = "post"]
            /\ target' = [target EXCEPT ![t] = started]
    /\ UNCHANGED <<logging, tasks, running, flushed, started>>

\* Slip: a stop waits although no log is running.
StopAnyway(t) ==
    /\ Begin(t)
    /\ logging' = FALSE
    /\ event' = FALSE
    /\ pc' = [pc EXCEPT ![t] = "post"]
    /\ target' = [target EXCEPT ![t] = started]
    /\ UNCHANGED <<tasks, running, flushed, started>>

\* StopNetLog up to the end of its critical section.
StopNetLog(t) ==
    /\ Begin(t)
    /\ IF ~logging
       THEN UNCHANGED <<logging, event, pc, target>>
       ELSE /\ logging' = FALSE
            /\ event' = FALSE
            /\ pc' = [pc EXCEPT ![t] = "post"]
            /\ target' = [target EXCEPT ![t] = started]
    /\ UNCHANGED <<tasks, running, flushed, started>>

\* context_->StopNetLog(), outside lock_.
PostStop(t) ==
    /\ pc[t] = "post"
    /\ tasks' = Append(tasks, 0)
    /\ pc' = [pc EXCEPT ![t] = "wait"]
    /\ UNCHANGED <<logging, event, running, flushed, started, target, ops>>

\* net_log_stopped_.Wait(): it returns at once or blocks.
Wait(t) ==
    /\ pc[t] = "wait"
    /\ pc' = [pc EXCEPT ![t] = IF event THEN "stopped" ELSE "blocked"]
    /\ UNCHANGED <<logging, event, tasks, running, flushed, started, target,
                   ops>>

\* StopNetLog returns to its caller, who may now read the file.
Return(t) ==
    /\ pc[t] = "stopped"
    /\ pc' = [pc EXCEPT ![t] = "idle"]
    /\ UNCHANGED <<logging, event, tasks, running, flushed, started, target,
                   ops>>

-----------------------------------------------------------------------------
(* The network thread.                                                     *)

\* A start; of two logs that meet, either survives.
RunStart ==
    /\ tasks # <<>> /\ Head(tasks) # 0
    /\ running' \in IF running = 0 THEN {Head(tasks)}
                                   ELSE {running, Head(tasks)}
    /\ tasks' = Tail(tasks)
    /\ UNCHANGED <<logging, event, flushed, started, pc, target, ops>>

\* A stop flushes the file of a running log; OnStopNetLogCompleted then
\* signals the event, which releases whoever is blocked on it.  A stop with no
\* log running is dropped.
RunStop ==
    /\ tasks # <<>> /\ Head(tasks) = 0
    /\ tasks' = Tail(tasks)
    /\ IF running = 0
       THEN UNCHANGED <<event, flushed, running, pc>>
       ELSE /\ flushed' = flushed \cup {running}
            /\ running' = 0
            /\ event' = TRUE
            /\ pc' = [t \in Threads |->
                        IF pc[t] = "blocked" THEN "stopped" ELSE pc[t]]
    /\ UNCHANGED <<logging, started, target, ops>>

Network == RunStart \/ RunStop

Caller(t) == PostStop(t) \/ Wait(t) \/ Return(t)

Done ==
    /\ \A t \in Threads : pc[t] = "idle" /\ ops[t] = 0
    /\ tasks = <<>>
    /\ UNCHANGED vars

Next ==
    \/ \E t \in Threads : StartNetLog(t) \/ StopNetLog(t) \/ Caller(t)
    \/ Network \/ Done

\* The threads run; nobody has to start or to stop a log.
Fairness ==
    /\ WF_vars(Network)
    /\ \A t \in Threads : WF_vars(Caller(t))

Spec == Init /\ [][Next]_vars /\ Fairness

-----------------------------------------------------------------------------
(* Properties.                                                             *)

\* engine.h on net_log_stopped_: a stop waits for the file to be flushed
\* "before its caller may read it", the log it was called for and no other.
StopMeansFlushed ==
    \A t \in Threads : pc[t] = "stopped" => target[t] \in flushed

\* is_net_logging_ agrees with the network thread once that has caught up and
\* no stop is under way, so the next start is refused only for a running log
\* and the next stop waits only for one.
FlagIsTrue ==
    tasks = <<>> /\ (\A t \in Threads : pc[t] \in {"idle", "stopped"}) =>
        logging = (running # 0)

\* engine.h: "Every method is safe to call from any thread".  A stop that has
\* claimed a log comes back.
StopReturns == \A t \in Threads : pc[t] = "post" ~> pc[t] = "idle"
=============================================================================
