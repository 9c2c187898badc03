------------------------- MODULE SessionSetupProofs -------------------------
(***************************************************************************)
(* Proofs about SessionSetup for any number of threads and of sessions,    *)
(* and for any settings and requests.                                      *)
(***************************************************************************)
EXTENDS SessionSetup, FiniteSetTheorems, NaturalsInduction,
        WellFoundedInduction, SequenceTheorems, TLAPS

-----------------------------------------------------------------------------
(* The inductive invariant.                                                *)

\* The thread has posted, or is about to post, the building of its context.
Building == {"post", "wait"}
Built == {"preload", "open", "asked", "done"}
PcSteps == {"idle", "create", "failed", "install"} \cup Building \cup Built

\* The value is a record with the fields of an engine.
IsEngine(e) == e = [proxy |-> e.proxy, profile |-> e.profile,
                    hints |-> e.hints, preloaded |-> e.preloaded]

\* The reasons SetLastError is given, those Python adds, and the exceptions.
Refusals == {"an on-disk cache needs a storage_path",
             "proxy_rules could not be parsed"}
Reasons == Refusals \cup {"", "the engine could not be created",
                          "the request could not be started"}
Misuse == {"TypeError", "ValueError", "UnicodeEncodeError"}
Errors == Misuse \cup {"", "LibraryError", "RequestError"}

Shape ==
    /\ pc \in [Threads -> PcSteps]
    /\ settings \in [Threads -> Settings]
    /\ lastError \in [Threads -> Refusals \cup {""}]
    /\ raised \in [Threads -> [error : Errors, reason : Reasons]]
    /\ ready \in [Threads -> BOOLEAN]
    /\ engine = [t \in Threads |-> engine[t]]
    /\ \A t \in Threads : IsEngine(engine[t])
    /\ lock \subseteq Threads

\* PendingProxyConfigLock: whoever is building holds it alone, and what is
\* pending is its own configuration.
LockInv ==
    /\ \A t \in Threads : pc[t] \in Building <=> t \in lock
    /\ \A t, u \in lock : t = u
    /\ \A t \in lock : pending = Rules(settings[t])

\* The init thread's queue: at most the task of the one thread that waits.
TaskInv ==
    \/ tasks = <<>>
    \/ \E t \in Threads : tasks = <<t>> /\ pc[t] = "wait" /\ ~ready[t]

\* A context that has been built has the configuration of its session.
BuiltInv ==
    \A t \in Threads :
        (pc[t] = "wait" /\ ready[t]) \/ pc[t] \in Built =>
            engine[t].proxy = Rules(settings[t])

\* What PreloadProxyCredentials adds to the auth cache.
Preloaded(s) == IF s.user # "" THEN HttpProxies(Rules(s)) ELSE {}

\* The auth cache holds the credentials an HTTP proxy will ask for.
PreloadInv ==
    \A t \in Threads :
        pc[t] \in {"open", "asked", "done"} =>
            engine[t].preloaded = Preloaded(settings[t])

\* No engine is asked for by a session that __init__ refuses, and no context
\* is built for one that Engine::Create refuses.
AcceptedInv ==
    \A t \in Threads :
        /\ pc[t] # "idle" => ~SessionRefused(settings[t])
        /\ pc[t] \in {"install"} \cup Building \cup Built =>
             CreateRefusal(settings[t]) = ""

\* A thread about to raise finds its own reason in its own g_last_error.
ReasonInv ==
    \A t \in Threads :
        pc[t] = "failed" => /\ lastError[t] = CreateRefusal(settings[t])
                            /\ lastError[t] # ""

IInv == Shape /\ LockInv /\ TaskInv /\ BuiltInv /\ PreloadInv /\ AcceptedInv
            /\ ReasonInv /\ ReasonIsMine

-----------------------------------------------------------------------------
(* What the operators return.                                              *)

\* The exceptions of request() are not a LibraryError.
LEMMA RefusalFacts ==
    ASSUME NEW o, NEW defaults
    PROVE  Refusal(o, defaults) \in Misuse \cup {""}
  BY Zenon DEF Refusal, Misuse

\* Engine::Create's reasons.
LEMMA CreateRefusalFacts ==
    ASSUME NEW s PROVE CreateRefusal(s) \in Refusals \cup {""}
  BY Zenon DEF CreateRefusal, Refusals

\* with_proxy_credentials changes nothing but the userinfo.
LEMMA RulesFacts ==
    ASSUME NEW s \in Settings
    PROVE  /\ Rules(s).scheme = s.proxy.scheme
           /\ Rules(s).others = s.proxy.others
           /\ Rules(s).userinfo = IF TakesCredentials(s.proxy, s.user)
                                  THEN s.user ELSE s.proxy.userinfo
<1>1. s.proxy \in ProxyRules
  BY SetupAssumption
<1> QED
  BY <1>1 DEF Rules, WithProxyCredentials, ProxyRules

\* Where a session is accepted, with_proxy_credentials has put the user into
\* the URL of a SOCKS5 proxy that is alone, or changed nothing: it raises on a
\* list, and Chromium refuses the userinfo it gives a SOCKS4 proxy.
LEMMA CredentialPlace ==
    ASSUME NEW s \in Settings, ~SessionRefused(s), CreateRefusal(s) = ""
    PROVE  Rules(s) =
             IF /\ s.user # "" /\ s.proxy.scheme = "socks5"
                /\ ~s.proxy.mapped /\ s.proxy.others = {}
                /\ s.proxy.userinfo = ""
             THEN [s.proxy EXCEPT !.userinfo = s.user] ELSE s.proxy
<1>1. CASE TakesCredentials(s.proxy, s.user)
  <2>1. /\ s.user # "" /\ ~s.proxy.mapped /\ s.proxy.userinfo = ""
        /\ s.proxy.scheme \in {"socks4", "socks5"}
    BY <1>1 DEF TakesCredentials, StartsWith
  <2>2. s.proxy.others = {}
    BY <1>1 DEF SessionRefused
  <2>3. RulesParse(Rules(s))
    BY <2>1 DEF CreateRefusal
  <2>4. s.proxy.scheme = "socks5"
    BY <1>1, <2>1, <2>3, RulesFacts DEF RulesParse
  <2> QED
    BY <1>1, <2>1, <2>2, <2>4 DEF Rules, WithProxyCredentials
<1>2. CASE ~TakesCredentials(s.proxy, s.user)
  BY <1>2 DEF Rules, WithProxyCredentials, TakesCredentials, StartsWith
<1> QED
  BY <1>1, <1>2

\* An engine is a record: a changed field leaves the others alone.
LEMMA EngineFacts ==
    ASSUME NEW e, IsEngine(e), NEW value
    PROVE  /\ IsEngine([e EXCEPT !.proxy = value])
           /\ [e EXCEPT !.proxy = value].proxy = value
           /\ IsEngine([e EXCEPT !.preloaded = value])
           /\ [e EXCEPT !.preloaded = value].proxy = e.proxy
           /\ [e EXCEPT !.preloaded = value].preloaded = value
<1>1. [e EXCEPT !.proxy = value] =
        [proxy |-> value, profile |-> e.profile, hints |-> e.hints,
         preloaded |-> e.preloaded]
  BY DEF IsEngine
<1>2. [e EXCEPT !.preloaded = value] =
        [proxy |-> e.proxy, profile |-> e.profile, hints |-> e.hints,
         preloaded |-> value]
  BY DEF IsEngine
<1> QED
  BY <1>1, <1>2 DEF IsEngine

\* What a session asks for, and no engine at all, have the same fields.
LEMMA ConfigFacts ==
    IsEngine(NoEngine) /\ \A s : IsEngine(EngineConfig(s))
<1>1. ASSUME NEW a, NEW b, NEW c, NEW d
      PROVE  IsEngine([proxy |-> a, profile |-> b, hints |-> c,
                       preloaded |-> d])
  BY DEF IsEngine
<1> QED
  BY <1>1, Zenon DEF NoEngine, EngineConfig

\* Raising an exception on one thread.
LEMMA RaisedFacts ==
    ASSUME Shape, NEW t \in Threads, NEW error \in Errors,
           NEW reason \in Reasons,
           raised' = [raised EXCEPT
                        ![t] = [error |-> error, reason |-> reason]]
    PROVE  /\ raised' \in [Threads -> [error : Errors, reason : Reasons]]
           /\ raised'[t].error = error /\ raised'[t].reason = reason
           /\ \A u \in Threads : u # t => raised'[u] = raised[u]
  BY DEF Shape

-----------------------------------------------------------------------------
(* Every step preserves the invariant.                                     *)

USE DEF Building, Built, PcSteps, shared

\* __init__ up to the engine: only the thread's own session is touched.
LEMMA OpenStep ==
    ASSUME IInv, NEW t \in Threads, Open(t)
    PROVE  IInv'
<1>1. PICK s \in Settings, error \in {"", "ValueError"} :
        /\ settings' = [settings EXCEPT ![t] = s]
        /\ \/ pc' = pc
           \/ pc' = [pc EXCEPT ![t] = "create"] /\ ~SessionRefused(s)
        /\ raised' = [raised EXCEPT ![t] = [error |-> error, reason |-> ""]]
  BY DEF Open, Raise, Goto, Nothing
<1>2. pc[t] = "idle" /\ UNCHANGED <<lastError, shared, engine>>
  BY DEF Open
<1>0. /\ raised' \in [Threads -> [error : Errors, reason : Reasons]]
      /\ raised'[t].error # "LibraryError"
      /\ \A u \in Threads : u # t => raised'[u] = raised[u]
  <2>1. error \in Errors \ {"LibraryError"} /\ "" \in Reasons
    BY DEF Errors, Misuse, Reasons
  <2> QED
    BY <1>1, <2>1, RaisedFacts DEF IInv
<1>3. Shape'
  BY <1>0, <1>1, <1>2 DEF IInv, Shape, IsEngine
<1>4. LockInv' /\ TaskInv'
  BY <1>1, <1>2, ZenonT(60) DEF IInv, Shape, LockInv, TaskInv
<1>5. BuiltInv' /\ PreloadInv' /\ AcceptedInv' /\ ReasonInv'
  BY <1>1, <1>2, ZenonT(60)
     DEF IInv, Shape, BuiltInv, PreloadInv, AcceptedInv, ReasonInv
<1>6. ReasonIsMine'
  BY <1>0, <1>1, <1>2 DEF IInv, Shape, ReasonIsMine
<1> QED
  BY <1>3, <1>4, <1>5, <1>6 DEF IInv

\* Engine::Create's checks: a refusal leaves its reason with its thread.
LEMMA CreateStep ==
    ASSUME IInv, NEW t \in Threads, Create(t)
    PROVE  IInv'
<1> DEFINE why == CreateRefusal(settings[t])
<1>1. /\ pc[t] = "create"
      /\ UNCHANGED <<settings, raised, shared, engine>>
      /\ \/ /\ why = "" /\ pc' = [pc EXCEPT ![t] = "install"]
            /\ UNCHANGED lastError
         \/ /\ why # "" /\ pc' = [pc EXCEPT ![t] = "failed"]
            /\ lastError' = [lastError EXCEPT ![t] = why]
  BY DEF Create, Goto, SetLastError
<1>2. why \in Refusals \cup {""}
  BY CreateRefusalFacts
<1>3. Shape'
  <2> HIDE DEF why
  <2> QED
    BY <1>1, <1>2, ZenonT(60) DEF IInv, Shape, IsEngine
<1>4. LockInv' /\ TaskInv'
  <2> HIDE DEF why
  <2> QED
    BY <1>1, ZenonT(60) DEF IInv, Shape, LockInv, TaskInv
<1>5. BuiltInv' /\ PreloadInv'
  <2> HIDE DEF why
  <2> QED
    BY <1>1 DEF IInv, Shape, BuiltInv, PreloadInv
<1>6. AcceptedInv' /\ ReasonInv'
  <2>1. ASSUME NEW u \in Threads, u # t
        PROVE  pc'[u] = pc[u] /\ lastError'[u] = lastError[u]
    <3> HIDE DEF why
    <3> QED
      BY <1>1, <2>1 DEF IInv, Shape
  <2>2. \/ pc'[t] = "install" /\ why = ""
        \/ pc'[t] = "failed" /\ why # "" /\ lastError'[t] = why
    <3> HIDE DEF why
    <3> QED
      BY <1>1 DEF IInv, Shape
  <2> QED
    BY <1>1, <2>1, <2>2 DEF IInv, AcceptedInv, ReasonInv
<1>7. ReasonIsMine'
  BY <1>1 DEF IInv, ReasonIsMine
<1> QED
  BY <1>3, <1>4, <1>5, <1>6, <1>7 DEF IInv

\* Engine.__init__ raises with the reason it finds.
LEMMA RaiseStep ==
    ASSUME IInv, NEW t \in Threads, RaiseLibraryError(t)
    PROVE  IInv'
<1>1. /\ pc[t] = "failed" /\ pc' = [pc EXCEPT ![t] = "idle"]
      /\ UNCHANGED <<settings, lastError, shared, engine>>
      /\ lastError[t] = CreateRefusal(settings[t]) /\ lastError[t] # ""
      /\ raised' = [raised EXCEPT ![t] = [error |-> "LibraryError",
                                          reason |-> lastError[t]]]
  BY DEF RaiseLibraryError, Goto, Raise, IInv, ReasonInv
<1>2. Shape'
  BY <1>1 DEF IInv, Shape, IsEngine, Errors, Reasons
<1>3. LockInv' /\ TaskInv'
  BY <1>1 DEF IInv, Shape, LockInv, TaskInv
<1>4. BuiltInv' /\ PreloadInv' /\ AcceptedInv' /\ ReasonInv'
  BY <1>1 DEF IInv, Shape, BuiltInv, PreloadInv, AcceptedInv, ReasonInv
<1>5. ReasonIsMine'
  BY <1>1 DEF IInv, Shape, ReasonIsMine
<1> QED
  BY <1>2, <1>3, <1>4, <1>5 DEF IInv

\* The lock is taken when nobody holds it.
LEMMA InstallStep ==
    ASSUME IInv, NEW t \in Threads, Install(t)
    PROVE  IInv'
<1>1. /\ pc[t] = "install" /\ pc' = [pc EXCEPT ![t] = "post"]
      /\ lock = {} /\ lock' = {t}
      /\ UNCHANGED <<settings, lastError, raised, tasks, ready, engine>>
  BY DEF Install, Goto
<1>2. pending' = Rules(settings[t])
  BY DEF Install, EngineConfig
<1>3. Shape'
  BY <1>1 DEF IInv, Shape, IsEngine
<1>4. LockInv'
  BY <1>1, <1>2 DEF IInv, Shape, LockInv
<1>5. TaskInv'
  BY <1>1 DEF IInv, Shape, TaskInv
<1>6. BuiltInv' /\ PreloadInv' /\ AcceptedInv' /\ ReasonInv' /\ ReasonIsMine'
  BY <1>1 DEF IInv, Shape, BuiltInv, PreloadInv, AcceptedInv, ReasonInv,
              ReasonIsMine
<1> QED
  BY <1>3, <1>4, <1>5, <1>6 DEF IInv

\* The holder of the lock finds the queue empty.
LEMMA PostStep ==
    ASSUME IInv, NEW t \in Threads, PostTaskToInitThread(t)
    PROVE  IInv'
<1>1. /\ pc[t] = "post" /\ pc' = [pc EXCEPT ![t] = "wait"]
      /\ tasks' = Append(tasks, t)
      /\ ready' = [ready EXCEPT ![t] = FALSE]
      /\ UNCHANGED <<settings, lastError, raised, lock, pending, engine>>
  BY DEF PostTaskToInitThread, Goto
<1>2. tasks = <<>>
  <2> SUFFICES ASSUME NEW u \in Threads, pc[u] = "wait" PROVE FALSE
    BY DEF IInv, TaskInv
  <2>1. u \in lock /\ t \in lock
    BY <1>1 DEF IInv, LockInv
  <2> QED
    BY <1>1, <2>1 DEF IInv, LockInv
<1>3. tasks' = <<t>>
  BY <1>1, <1>2
<1>4. Shape'
  BY <1>1 DEF IInv, Shape, IsEngine
<1>5. LockInv'
  BY <1>1 DEF IInv, Shape, LockInv
<1>6. TaskInv'
  BY <1>1, <1>3 DEF IInv, Shape, TaskInv
<1>7. BuiltInv' /\ PreloadInv' /\ AcceptedInv' /\ ReasonInv' /\ ReasonIsMine'
  BY <1>1 DEF IInv, Shape, BuiltInv, PreloadInv, AcceptedInv, ReasonInv,
              ReasonIsMine
<1> QED
  BY <1>4, <1>5, <1>6, <1>7 DEF IInv

\* What is pending is the configuration of the context being built.
LEMMA InitStep == ASSUME IInv, InitRequestContext PROVE IInv'
<1>1. PICK t \in Threads : tasks = <<t>> /\ pc[t] = "wait" /\ ~ready[t]
  BY DEF IInv, TaskInv, InitRequestContext
<1>2. Head(tasks) = t /\ Tail(tasks) = <<>>
  BY <1>1
<1>3. pending = Rules(settings[t])
  BY <1>1 DEF IInv, LockInv
<1> DEFINE config == EngineConfig(settings[t])
           e == [config EXCEPT !.proxy = pending]
<1>4. /\ engine' = [engine EXCEPT ![t] = e]
      /\ ready' = [ready EXCEPT ![t] = TRUE]
      /\ tasks' = <<>>
      /\ UNCHANGED <<pc, settings, lastError, raised, lock, pending>>
  BY <1>2, Zenon DEF InitRequestContext
<1>5. IsEngine(e) /\ e.proxy = Rules(settings[t])
  <2>1. IsEngine(config)
    BY ConfigFacts
  <2> HIDE DEF config
  <2>2. IsEngine([config EXCEPT !.proxy = pending])
        /\ [config EXCEPT !.proxy = pending].proxy = pending
    BY <2>1, EngineFacts
  <2> QED
    BY <1>3, <2>2
<1> HIDE DEF e
<1>6. Shape'
  BY <1>4, <1>5 DEF IInv, Shape, IsEngine
<1>7. LockInv' /\ TaskInv'
  BY <1>4 DEF IInv, Shape, LockInv, TaskInv
<1>8. BuiltInv' /\ PreloadInv'
  BY <1>1, <1>4, <1>5 DEF IInv, Shape, BuiltInv, PreloadInv
<1>9. AcceptedInv' /\ ReasonInv' /\ ReasonIsMine'
  BY <1>4 DEF IInv, AcceptedInv, ReasonInv, ReasonIsMine
<1> QED
  BY <1>6, <1>7, <1>8, <1>9 DEF IInv

\* The lock is let go of only once the context has been built.
LEMMA UninstallStep ==
    ASSUME IInv, NEW t \in Threads, Uninstall(t)
    PROVE  IInv'
<1>1. /\ pc[t] = "wait" /\ ready[t] /\ pc' = [pc EXCEPT ![t] = "preload"]
      /\ lock' = lock \ {t}
      /\ UNCHANGED <<settings, lastError, raised, tasks, ready, engine>>
  BY DEF Uninstall, Goto
<1>2. lock' = {}
  BY <1>1 DEF IInv, LockInv
<1>3. Shape'
  BY <1>1 DEF IInv, Shape, IsEngine
<1>4. LockInv'
  BY <1>1, <1>2 DEF IInv, Shape, LockInv
<1>5. TaskInv'
  BY <1>1 DEF IInv, Shape, TaskInv
<1>6. BuiltInv' /\ PreloadInv' /\ AcceptedInv' /\ ReasonInv' /\ ReasonIsMine'
  BY <1>1 DEF IInv, Shape, BuiltInv, PreloadInv, AcceptedInv, ReasonInv,
              ReasonIsMine
<1> QED
  BY <1>3, <1>4, <1>5, <1>6 DEF IInv

\* The credentials of an HTTP proxy go to the auth cache, no others do.
LEMMA PreloadStep ==
    ASSUME IInv, NEW t \in Threads, PreloadProxyCredentials(t)
    PROVE  IInv'
<1> DEFINE proxies == Preloaded(settings[t])
           old == engine[t]
           e == [old EXCEPT !.preloaded = proxies]
<1>1. /\ pc[t] = "preload" /\ pc' = [pc EXCEPT ![t] = "open"]
      /\ UNCHANGED <<settings, lastError, raised, shared>>
  BY DEF PreloadProxyCredentials, Goto
<1>2. engine' = [engine EXCEPT ![t] = e]
  BY Zenon DEF PreloadProxyCredentials, Preloaded
<1>3. IsEngine(e) /\ e.proxy = engine[t].proxy /\ e.preloaded = proxies
  <2>1. IsEngine(old) /\ old = engine[t]
    BY DEF IInv, Shape
  <2> HIDE DEF old, proxies
  <2> QED
    BY <2>1, EngineFacts DEF old
<1> HIDE DEF e
<1>4. Shape'
  BY <1>1, <1>2, <1>3 DEF IInv, Shape, IsEngine
<1>5. LockInv' /\ TaskInv'
  BY <1>1 DEF IInv, Shape, LockInv, TaskInv
<1>6. BuiltInv' /\ PreloadInv'
  BY <1>1, <1>2, <1>3 DEF IInv, Shape, BuiltInv, PreloadInv
<1>7. AcceptedInv' /\ ReasonInv' /\ ReasonIsMine'
  BY <1>1 DEF IInv, Shape, AcceptedInv, ReasonInv, ReasonIsMine
<1> QED
  BY <1>4, <1>5, <1>6, <1>7 DEF IInv

\* A request raises no LibraryError and changes nothing about the engine.
LEMMA RequestStep ==
    ASSUME IInv, NEW t \in Threads, StartRequest(t) \/ StartRefused(t)
    PROVE  IInv'
<1>1. /\ pc[t] \in {"open", "asked"}
      /\ pc' = [pc EXCEPT ![t] = "asked"] \/ pc' = [pc EXCEPT ![t] = "done"]
      /\ UNCHANGED <<settings, lastError, shared, engine>>
  BY DEF StartRequest, StartRefused, Goto
<1>2. \/ UNCHANGED raised
      \/ \E error \in Errors \ {"LibraryError"}, reason \in Reasons :
           raised' = [raised EXCEPT ![t] = [error |-> error,
                                            reason |-> reason]]
  <2>1. CASE StartRequest(t)
    <3>1. PICK o \in Requests :
            \/ UNCHANGED raised
            \/ /\ Refusal(o, settings[t].headers) # ""
               /\ Raise(t, Refusal(o, settings[t].headers), "")
      BY <2>1, Zenon DEF StartRequest
    <3> DEFINE error == Refusal(o, settings[t].headers)
    <3>2. error \in Misuse \cup {""}
      BY RefusalFacts
    <3> HIDE DEF error
    <3>3. error \in Errors \ {"LibraryError"} /\ "" \in Reasons
      BY <3>2 DEF Errors, Misuse, Reasons
    <3> QED
      BY <3>1, <3>3, Zenon DEF Raise, error
  <2>2. CASE StartRefused(t)
    <3> DEFINE reason == IF lastError[t] # "" THEN lastError[t]
                         ELSE "the request could not be started"
    <3>1. raised' = [raised EXCEPT ![t] = [error |-> "RequestError",
                                           reason |-> reason]]
      BY <2>2, Zenon DEF StartRefused, Raise
    <3>2. "RequestError" \in Errors \ {"LibraryError"} /\ reason \in Reasons
      BY DEF IInv, Shape, Errors, Misuse, Reasons
    <3> QED
      BY <3>1, <3>2, Zenon
  <2> QED
    BY <2>1, <2>2
<1>0. /\ raised' \in [Threads -> [error : Errors, reason : Reasons]]
      /\ raised' # raised => raised'[t].error # "LibraryError"
      /\ \A u \in Threads : u # t => raised'[u] = raised[u]
  <2>1. CASE UNCHANGED raised
    BY <2>1 DEF IInv, Shape
  <2>2. ASSUME NEW error \in Errors \ {"LibraryError"}, NEW reason \in Reasons,
               raised' = [raised EXCEPT ![t] = [error |-> error,
                                                reason |-> reason]]
        PROVE  /\ raised' \in [Threads -> [error : Errors, reason : Reasons]]
               /\ raised'[t].error # "LibraryError"
               /\ \A u \in Threads : u # t => raised'[u] = raised[u]
    BY <2>2, RaisedFacts DEF IInv
  <2> QED
    BY <1>2, <2>1, <2>2
<1>3. Shape'
  BY <1>0, <1>1 DEF IInv, Shape, IsEngine
<1>4. LockInv' /\ TaskInv'
  BY <1>1, ZenonT(60) DEF IInv, Shape, LockInv, TaskInv
<1>5. BuiltInv' /\ PreloadInv' /\ AcceptedInv' /\ ReasonInv'
  BY <1>1, ZenonT(60)
     DEF IInv, Shape, BuiltInv, PreloadInv, AcceptedInv, ReasonInv
<1>6. ReasonIsMine'
  BY <1>0, <1>1 DEF IInv, Shape, ReasonIsMine
<1> QED
  BY <1>3, <1>4, <1>5, <1>6 DEF IInv

\* The session is forgotten.
LEMMA CloseStep ==
    ASSUME IInv, NEW t \in Threads, Close(t)
    PROVE  IInv'
<1>1. /\ pc[t] \in {"open", "asked", "done"}
      /\ pc' = [pc EXCEPT ![t] = "idle"]
      /\ engine' = [engine EXCEPT ![t] = NoEngine]
      /\ raised' = [raised EXCEPT ![t] = [error |-> "", reason |-> ""]]
      /\ UNCHANGED <<settings, lastError, shared>>
  BY DEF Close, Goto, Nothing
<1>2. IsEngine(NoEngine)
  BY ConfigFacts
<1>3. Shape'
  BY <1>1, <1>2 DEF IInv, Shape, IsEngine, Errors, Reasons
<1>4. LockInv' /\ TaskInv'
  BY <1>1 DEF IInv, Shape, LockInv, TaskInv
<1>5. BuiltInv' /\ PreloadInv' /\ AcceptedInv' /\ ReasonInv'
  BY <1>1 DEF IInv, Shape, BuiltInv, PreloadInv, AcceptedInv, ReasonInv
<1>6. ReasonIsMine'
  BY <1>1 DEF IInv, Shape, ReasonIsMine
<1> QED
  BY <1>3, <1>4, <1>5, <1>6 DEF IInv

-----------------------------------------------------------------------------
(* The theorems.                                                           *)

\* The parts above are together an invariant of the specification.
THEOREM Inductive == Spec => []IInv
<1>1. ASSUME Init PROVE IInv
  <2>1. (CHOOSE s \in Settings : TRUE) \in Settings
    BY SetupAssumption
  <2>2. Shape
    BY <1>1, <2>1, ConfigFacts
       DEF Init, Shape, IsEngine, Nothing, Errors, Misuse, Reasons
  <2>3. LockInv /\ TaskInv /\ BuiltInv /\ PreloadInv /\ AcceptedInv
        /\ ReasonInv
    BY <1>1 DEF Init, LockInv, TaskInv, BuiltInv, PreloadInv, AcceptedInv,
                ReasonInv
  <2>4. ReasonIsMine
    BY <1>1 DEF Init, ReasonIsMine, Nothing
  <2> QED
    BY <2>2, <2>3, <2>4 DEF IInv
<1>2. ASSUME IInv, UNCHANGED vars PROVE IInv'
  <2>1. Shape' /\ LockInv' /\ TaskInv'
    BY <1>2 DEF vars, IInv, Shape, IsEngine, LockInv, TaskInv
  <2>2. BuiltInv' /\ PreloadInv' /\ AcceptedInv' /\ ReasonInv' /\ ReasonIsMine'
    BY <1>2 DEF vars, IInv, BuiltInv, PreloadInv, AcceptedInv, ReasonInv,
                ReasonIsMine
  <2> QED
    BY <2>1, <2>2 DEF IInv
<1>3. IInv /\ [Next]_vars => IInv'
  BY <1>2, OpenStep, CreateStep, RaiseStep, InstallStep, PostStep, InitStep,
     UninstallStep, PreloadStep, RequestStep, CloseStep
     DEF Next, Creation, AllDone
<1> QED
  BY <1>1, <1>3, PTL DEF Spec

\* However many sessions are opened at once, each engine has the rules its own
\* session gave, and the credentials are in the URL of a lone SOCKS5 proxy, in
\* the auth cache for each http and https proxy, and nowhere else.
THEOREM KeepTheirProxy == Spec => []EnginesKeepTheirProxy
<1>1. ASSUME IInv, NEW t \in Threads, pc[t] \in Built
      PROVE  LET s == settings[t]
                 e == engine[t]
                 lone == /\ s.proxy.scheme = "socks5" /\ ~s.proxy.mapped
                         /\ s.proxy.others = {} /\ s.proxy.userinfo = ""
                 named == s.proxy.others \cup {s.proxy.scheme}
             IN  /\ e.proxy = IF s.user # "" /\ lone
                              THEN [s.proxy EXCEPT !.userinfo = s.user]
                              ELSE s.proxy
                 /\ pc[t] # "preload" =>
                      e.preloaded = {x \in {"http", "https"} :
                                       s.user # "" /\ x \in named}
  <2> DEFINE s == settings[t]
             e == engine[t]
             named == s.proxy.others \cup {s.proxy.scheme}
  <2>1. /\ s \in Settings /\ e.proxy = Rules(s)
        /\ ~SessionRefused(s) /\ CreateRefusal(s) = ""
        /\ pc[t] # "preload" => e.preloaded = Preloaded(s)
    BY <1>1 DEF IInv, Shape, BuiltInv, PreloadInv, AcceptedInv
  <2>2. Preloaded(s) = {x \in {"http", "https"} : s.user # "" /\ x \in named}
    BY <2>1, RulesFacts DEF Preloaded, HttpProxies
  <2> QED
    BY <2>1, <2>2, CredentialPlace
<1>2. IInv => EnginesKeepTheirProxy
  BY <1>1 DEF EnginesKeepTheirProxy
<1> QED
  BY Inductive, <1>2, PTL

\* A LibraryError names the reason its own session was refused for, whatever
\* the other threads are refused meanwhile.
THEOREM ReasonMine == Spec => []ReasonIsMine
<1>1. IInv => ReasonIsMine
  BY DEF IInv
<1> QED
  BY Inductive, <1>1, PTL

-----------------------------------------------------------------------------
(* Induction over the naturals, with a set in the place of a predicate.     *)

\* A set of naturals has a least member.
LEMMA LeastNatural ==
    ASSUME NEW T, T \subseteq Nat, T # {}
    PROVE  \E m \in T : \A k \in T : m <= k
<1> DEFINE less == OpToRel(<, Nat)
<1>1. IsWellFoundedOn(less, Nat)
  BY NatLessThanWellFounded
<1>2. PICK m \in T : \A k \in T : <<k, m>> \notin less
  <2> HIDE DEF less
  <2> QED
    BY <1>1, WFMin
<1>3. ASSUME NEW k \in T PROVE m <= k
  <2>1. k \in Nat /\ m \in Nat
    OBVIOUS
  <2>2. k < m => <<k, m>> \in less
    BY <2>1 DEF OpToRel
  <2>3. ~(k < m)
    BY <1>2, <2>2
  <2> QED
    BY <2>1, <2>3
<1> QED
  BY <1>3

\* A set that has 0 and, with a number, the next has every natural.
LEMMA SetInduction ==
    ASSUME NEW T, 0 \in T, \A n \in Nat : n \in T => n + 1 \in T
    PROVE  \A n \in Nat : n \in T
<1> DEFINE Missing == {n \in Nat : n \notin T}
<1> SUFFICES ASSUME Missing # {} PROVE FALSE
  OBVIOUS
<1>1. PICK m \in Missing : \A k \in Missing : m <= k
  <2>1. Missing \subseteq Nat
    OBVIOUS
  <2> HIDE DEF Missing
  <2> QED
    BY <2>1, LeastNatural
<1>2. m - 1 \in Nat /\ m - 1 \in T
  BY <1>1
<1> QED
  BY <1>2

\* f[i] is what a loop has made of its first i items.
IsRun(f, S, N, base, step) ==
    /\ f \in [0..N -> S]
    /\ f[0] = base
    /\ \A i \in 1..N : f[i] = step[i][f[i - 1]]

\* Every loop has a run: a recursive function over 0..N exists.
LEMMA Recursion ==
    ASSUME NEW S, NEW N \in Nat, NEW base \in S,
           NEW step \in [1..N -> [S -> S]]
    PROVE  \E f : IsRun(f, S, N, base, step)
<1> DEFINE Run(n) ==
             {f \in [0..n -> S] :
                f[0] = base /\ \A i \in 1..n : f[i] = step[i][f[i - 1]]}
           T == {n \in Nat : n <= N => Run(n) # {}}
<1>1. 0 \in T
  <2>1. [i \in 0..0 |-> base] \in Run(0)
    OBVIOUS
  <2> QED
    BY <2>1
<1>2. ASSUME NEW n \in Nat, n \in T PROVE n + 1 \in T
  <2> SUFFICES ASSUME n + 1 <= N PROVE Run(n + 1) # {}
    OBVIOUS
  <2>1. PICK f \in Run(n) : TRUE
    BY <1>2
  <2> DEFINE g == [i \in 0..(n + 1) |->
                     IF i <= n THEN f[i] ELSE step[n + 1][f[n]]]
  <2>2. f \in [0..n -> S] /\ n + 1 \in 1..N
    BY <2>1
  <2>3. g \in [0..(n + 1) -> S]
    BY <2>2
  <2>4. ASSUME NEW i \in 1..(n + 1) PROVE g[i] = step[i][g[i - 1]]
    <3>1. CASE i <= n
      BY <2>1, <3>1
    <3>2. CASE i = n + 1
      BY <3>2
    <3> QED
      BY <3>1, <3>2
  <2>5. g[0] = base
    BY <2>1
  <2>6. g \in Run(n + 1)
    <3> HIDE DEF g
    <3> QED BY <2>3, <2>4, <2>5
  <2> QED
    BY <2>6
<1>3. \A n \in Nat : n \in T
  <2> HIDE DEF T
  <2> QED
    BY <1>1, <1>2, SetInduction
<1>4. PICK f \in Run(N) : TRUE
  BY <1>3
<1>5. IsRun(f, S, N, base, step)
  BY <1>4 DEF IsRun
<1> QED
  BY <1>5

\* What every step of a loop preserves holds after each of them.
LEMMA RunType ==
    ASSUME NEW S, NEW N \in Nat, NEW g, g[0] \in S,
           \A i \in 1..N : g[i - 1] \in S => g[i] \in S
    PROVE  \A i \in 0..N : g[i] \in S
<1> DEFINE T == {n \in Nat : n <= N => g[n] \in S}
<1>1. 0 \in T
  OBVIOUS
<1>2. ASSUME NEW n \in Nat, n \in T PROVE n + 1 \in T
  <2> SUFFICES ASSUME n + 1 <= N PROVE g[n + 1] \in S
    OBVIOUS
  <2>1. g[n] \in S /\ n + 1 \in 1..N /\ (n + 1) - 1 = n
    BY <1>2
  <2> QED
    BY <2>1
<1>3. \A n \in Nat : n \in T
  <2> HIDE DEF T
  <2> QED
    BY <1>1, <1>2, SetInduction
<1> QED
  BY <1>3

\* Among: what its loop has kept after each pair.
Kept(pairs, names, kept) ==
    /\ kept[0] = <<>>
    /\ \A i \in 0..Len(pairs) : kept[i] \in Seq(Header)
    /\ \A i \in 1..Len(pairs) :
         kept[i] = IF pairs[i].name \in names
                   THEN Append(kept[i - 1], pairs[i]) ELSE kept[i - 1]

\* The recursive function in Among exists, and is that run.
LEMMA AmongLoop ==
    ASSUME NEW pairs \in Seq(Header), NEW names
    PROVE  \E kept : /\ Kept(pairs, names, kept)
                     /\ Among(pairs, names) = kept[Len(pairs)]
<1> DEFINE N == Len(pairs)
           item(f, i) == IF i = 0 THEN <<>>
                         ELSE IF pairs[i].name \in names
                         THEN Append(f[i - 1], pairs[i]) ELSE f[i - 1]
           step == [i \in 1..N |-> [s \in Seq(Header) |->
                      IF pairs[i].name \in names THEN Append(s, pairs[i])
                      ELSE s]]
           loop == CHOOSE f : f = [i \in 0..N |-> item(f, i)]
<1>1. Among(pairs, names) = loop[N]
  BY DEF Among
<1>2. \A i \in 1..N : pairs[i] \in Header
  OBVIOUS
<1>3. N \in Nat /\ <<>> \in Seq(Header)
      /\ step \in [1..N -> [Seq(Header) -> Seq(Header)]]
  OBVIOUS
<1>4. PICK f : IsRun(f, Seq(Header), N, <<>>, step)
  <2> HIDE DEF step, N
  <2> QED
    BY <1>3, Recursion
<1>5. ASSUME NEW i \in 0..N PROVE f[i] = item(f, i)
  <2>1. CASE i = 0
    BY <1>4, <2>1 DEF IsRun
  <2>2. CASE i # 0
    <3>1. i \in 1..N /\ i - 1 \in 0..N
      BY <1>3, <2>2
    <3>2. f[i - 1] \in Seq(Header)
      BY <1>4, <3>1 DEF IsRun
    <3>3. step[i][f[i - 1]] = item(f, i)
      BY <2>2, <3>1, <3>2
    <3> QED
      BY <1>4, <3>1, <3>3 DEF IsRun
  <2> QED
    BY <2>1, <2>2
<1>6. loop = [i \in 0..N |-> item(loop, i)]
  <2> HIDE DEF item, N
  <2>1. f = [i \in 0..N |-> item(f, i)]
    BY <1>4, <1>5 DEF IsRun
  <2> QED
    BY <2>1
<1>7. \A i \in 0..N : loop[i] = item(loop, i)
  <2> HIDE DEF item, N, loop
  <2> QED
    BY <1>6
<1> HIDE DEF loop
<1>8. \A i \in 0..N : loop[i] \in Seq(Header)
  <2>1. loop[0] \in Seq(Header)
    <3>1. 0 \in 0..N /\ loop[0] = item(loop, 0)
      BY <1>3, <1>7
    <3> QED
      BY <1>3, <3>1
  <2>2. ASSUME NEW i \in 1..N, loop[i - 1] \in Seq(Header)
        PROVE  loop[i] \in Seq(Header)
    <3>1. i \in 0..N /\ i # 0 /\ loop[i] = item(loop, i)
      BY <1>3, <1>7
    <3> QED
      BY <1>2, <2>2, <3>1
  <2> HIDE DEF N
  <2> QED
    BY <1>3, <2>1, <2>2, RunType
<1> QED
  BY <1>1, <1>3, <1>7, <1>8 DEF Kept

-----------------------------------------------------------------------------
(* Lists in the order of their ranks.                                      *)

\* All of Q comes before all of R.
Before(Q, R) ==
    \A q \in Q, r \in R : q[1] < r[1] \/ (q[1] = r[1] /\ q[2] < r[2])

\* How many ranks there are up to one of them is a place in the list.
LEMMA RankPlace ==
    ASSUME NEW R, R \subseteq Nat \X Nat, IsFiniteSet(R), NEW r \in R
    PROVE  /\ IsFiniteSet(UpTo(R, r))
           /\ Cardinality(UpTo(R, r)) \in 1..Cardinality(R)
<1>1. UpTo(R, r) \subseteq R /\ r \in UpTo(R, r)
  BY DEF UpTo
<1>2. /\ IsFiniteSet(UpTo(R, r))
      /\ Cardinality(UpTo(R, r)) <= Cardinality(R)
  BY <1>1, FS_Subset
<1>3. Cardinality(UpTo(R, r)) \in Nat /\ Cardinality(R) \in Nat
  BY <1>2, FS_CardinalityType
<1>4. Cardinality(UpTo(R, r)) # 0
  BY <1>1, <1>2, FS_EmptySet
<1> QED
  BY <1>2, <1>3, <1>4

\* Disjoint finite sets: the sizes add up.
LEMMA DisjointUnion ==
    ASSUME NEW Q, NEW R, IsFiniteSet(Q), IsFiniteSet(R), Q \cap R = {}
    PROVE  Cardinality(Q \cup R) = Cardinality(Q) + Cardinality(R)
<1>1. Cardinality(Q \cup R) =
        Cardinality(Q) + Cardinality(R) - Cardinality(Q \cap R)
  BY FS_Union
<1>2. Cardinality(Q \cap R) = 0
  BY FS_EmptySet
<1>3. Cardinality(Q) \in Nat /\ Cardinality(R) \in Nat
  BY FS_CardinalityType
<1> QED
  BY <1>1, <1>2, <1>3

\* A list in order, followed by one whose ranks all come later, is in order.
LEMMA ConcatInOrder ==
    ASSUME NEW Q, NEW R, Q \subseteq Nat \X Nat, R \subseteq Nat \X Nat,
           IsFiniteSet(Q), IsFiniteSet(R), Before(Q, R),
           NEW own, NEW defaults,
           NEW s \in Seq(Header), InOrder(s, Q, own, defaults),
           NEW t \in Seq(Header), InOrder(t, R, own, defaults)
    PROVE  InOrder(s \o t, Q \cup R, own, defaults)
<1> DEFINE at(r) == IF r[2] = 0 THEN defaults[r[1]] ELSE own[r[2]]
<1>1. Q \cap R = {}
  <2> SUFFICES ASSUME NEW q, q \in Q, q \in R PROVE FALSE
    OBVIOUS
  <2>1. q[1] < q[1] \/ (q[1] = q[1] /\ q[2] < q[2])
    BY DEF Before
  <2>2. q[1] \in Nat /\ q[2] \in Nat
    OBVIOUS
  <2> QED
    BY <2>1, <2>2
<1>2. Cardinality(Q) \in Nat /\ Cardinality(R) \in Nat
  BY FS_CardinalityType
<1>3. Len(s) = Cardinality(Q) /\ Len(t) = Cardinality(R)
  BY DEF InOrder
<1>4. Cardinality(Q \cup R) = Cardinality(Q) + Cardinality(R)
  BY <1>1, DisjointUnion
<1>5. Len(s \o t) = Cardinality(Q \cup R)
  BY <1>3, <1>4
<1>6. ASSUME NEW r \in Q
      PROVE  (s \o t)[Cardinality(UpTo(Q \cup R, r))] = at(r)
  <2>1. ASSUME NEW q \in R
        PROVE  ~(q[1] < r[1] \/ (q[1] = r[1] /\ q[2] <= r[2]))
    <3>1. r[1] < q[1] \/ (r[1] = q[1] /\ r[2] < q[2])
      BY DEF Before
    <3>2. q[1] \in Nat /\ q[2] \in Nat /\ r[1] \in Nat /\ r[2] \in Nat
      OBVIOUS
    <3> QED
      BY <3>1, <3>2
  <2>2. UpTo(Q \cup R, r) = UpTo(Q, r)
    BY <2>1 DEF UpTo
  <2>3. Cardinality(UpTo(Q, r)) \in 1..Len(s)
    BY <1>3, RankPlace
  <2>4. s[Cardinality(UpTo(Q, r))] = at(r)
    BY DEF InOrder
  <2> QED
    BY <2>2, <2>3, <2>4
<1>7. ASSUME NEW r \in R
      PROVE  (s \o t)[Cardinality(UpTo(Q \cup R, r))] = at(r)
  <2>1. UpTo(Q \cup R, r) = Q \cup UpTo(R, r)
    BY DEF UpTo, Before
  <2>2. Q \cap UpTo(R, r) = {} /\ IsFiniteSet(UpTo(R, r))
    BY <1>1, RankPlace DEF UpTo
  <2>3. Cardinality(UpTo(Q \cup R, r)) = Len(s) + Cardinality(UpTo(R, r))
    <3>1. Cardinality(Q \cup UpTo(R, r)) =
            Cardinality(Q) + Cardinality(UpTo(R, r))
      BY <2>2, DisjointUnion
    <3> QED
      BY <1>3, <2>1, <3>1
  <2>4. Cardinality(UpTo(R, r)) \in 1..Len(t)
    BY <1>3, RankPlace
  <2>5. t[Cardinality(UpTo(R, r))] = at(r)
    BY DEF InOrder
  <2> HIDE DEF at
  <2>6. ASSUME NEW n \in 1..Len(t) PROVE (s \o t)[Len(s) + n] = t[n]
    OBVIOUS
  <2> QED
    BY <2>3, <2>4, <2>5, <2>6
<1> QED
  BY <1>5, <1>6, <1>7 DEF InOrder

\* The empty list, and a list of one header, are in order.
LEMMA NoneInOrder ==
    ASSUME NEW own, NEW defaults
    PROVE  InOrder(<<>>, {}, own, defaults)
BY FS_EmptySet DEF InOrder

LEMMA OneInOrder ==
    ASSUME NEW own, NEW defaults, NEW r \in Nat \X Nat,
           NEW h, h = IF r[2] = 0 THEN defaults[r[1]] ELSE own[r[2]]
    PROVE  InOrder(<<h>>, {r}, own, defaults)
<1>1. UpTo({r}, r) = {r}
  BY DEF UpTo
<1>2. Cardinality({r}) = 1
  BY FS_Singleton
<1> QED
  BY <1>1, <1>2 DEF InOrder

\* Among lists what it keeps in order, at whatever place p.
Block(own, names, p, n) ==
    {<<p, j>> : j \in {k \in 1..n : own[k].name \in names}}

LEMMA AmongInOrder ==
    ASSUME NEW own \in Seq(Header), NEW defaults, NEW names, NEW p \in Nat
    PROVE  LET B == Block(own, names, p, Len(own))
           IN  /\ Among(own, names) \in Seq(Header)
               /\ B \subseteq Nat \X Nat /\ IsFiniteSet(B)
               /\ InOrder(Among(own, names), B, own, defaults)
<1>1. PICK kept : /\ Kept(own, names, kept)
                  /\ Among(own, names) = kept[Len(own)]
  BY AmongLoop
<1> DEFINE B(n) == Block(own, names, p, n)
           Good(n) == /\ B(n) \subseteq Nat \X Nat /\ IsFiniteSet(B(n))
                      /\ InOrder(kept[n], B(n), own, defaults)
           T == {n \in Nat : n <= Len(own) => Good(n)}
<1>2. 0 \in T
  <2>1. B(0) = {} /\ kept[0] = <<>>
    BY <1>1 DEF Block, Kept
  <2> QED
    BY <2>1, NoneInOrder, FS_EmptySet
<1>3. ASSUME NEW n \in Nat, n \in T PROVE n + 1 \in T
  <2> SUFFICES ASSUME n + 1 <= Len(own) PROVE Good(n + 1)
    OBVIOUS
  <2>1. n + 1 \in 1..Len(own) /\ n \in 0..Len(own) /\ (n + 1) - 1 = n
    OBVIOUS
  <2>2. Good(n)
    BY <1>3, <2>1
  <2>3. /\ kept[n] \in Seq(Header)
        /\ kept[n + 1] = IF own[n + 1].name \in names
                         THEN Append(kept[n], own[n + 1]) ELSE kept[n]
    BY <1>1, <2>1 DEF Kept
  <2>4. CASE own[n + 1].name \notin names
    <3>1. B(n + 1) = B(n)
      BY <2>4 DEF Block
    <3> HIDE DEF B
    <3> QED
      BY <2>2, <2>3, <2>4, <3>1
  <2>5. CASE own[n + 1].name \in names
    <3> DEFINE r == <<p, n + 1>>
    <3>1. B(n + 1) = B(n) \cup {r}
      BY <2>5 DEF Block
    <3>2. Before(B(n), {r})
      BY DEF Block, Before
    <3>3. r \in Nat \X Nat /\ own[n + 1] \in Header
      BY <2>1
    <3>4. InOrder(<<own[n + 1]>>, {r}, own, defaults)
      <4>1. own[n + 1] = IF r[2] = 0 THEN defaults[r[1]] ELSE own[r[2]]
        OBVIOUS
      <4> HIDE DEF r
      <4> QED
        BY <3>3, <4>1, OneInOrder
    <3>5. kept[n + 1] = kept[n] \o <<own[n + 1]>>
      BY <2>3, <2>5, <3>3, AppendIsConcat
    <3>6. /\ IsFiniteSet({r}) /\ IsFiniteSet(B(n) \cup {r})
          /\ {r} \subseteq Nat \X Nat /\ <<own[n + 1]>> \in Seq(Header)
      <4>1. IsFiniteSet({r})
        BY FS_Singleton
      <4>2. IsFiniteSet(B(n) \cup {r})
        BY <2>2, <4>1, FS_Union
      <4> QED
        BY <3>3, <4>1, <4>2
    <3>7. InOrder(kept[n] \o <<own[n + 1]>>, B(n) \cup {r}, own, defaults)
      <4> HIDE DEF r, B
      <4> QED
        BY <2>2, <2>3, <3>2, <3>4, <3>6, ConcatInOrder
    <3> HIDE DEF r, B
    <3> QED
      BY <2>2, <3>1, <3>3, <3>5, <3>6, <3>7
  <2> QED
    BY <2>4, <2>5
<1>4. \A n \in Nat : n \in T
  <2> HIDE DEF T
  <2> QED
    BY <1>2, <1>3, SetInduction
<1>5. Len(own) \in Nat /\ kept[Len(own)] \in Seq(Header)
  BY <1>1 DEF Kept
<1>6. Good(Len(own))
  BY <1>4, <1>5
<1> QED
  BY <1>1, <1>5, <1>6

\* The place of a name is where the defaults first mention it.
LEMMA PlaceFirst ==
    ASSUME NEW defaults \in Seq(Header), NEW name
    PROVE  LET i == Place(name, defaults)
           IN  /\ i \in 1..(Len(defaults) + 1)
               /\ i <= Len(defaults) => defaults[i].name = name
               /\ \A k \in 1..(i - 1) : defaults[k].name # name
<1> DEFINE T == {i \in 1..(Len(defaults) + 1) :
                   i <= Len(defaults) => defaults[i].name = name}
<1>1. PICK m \in T : \A k \in T : m <= k
  <2>1. Len(defaults) + 1 \in T /\ T \subseteq Nat
    OBVIOUS
  <2> HIDE DEF T
  <2> QED
    BY <2>1, LeastNatural
<1>2. /\ m \in 1..(Len(defaults) + 1)
      /\ m <= Len(defaults) => defaults[m].name = name
      /\ \A k \in 1..(m - 1) : defaults[k].name # name
  <2>1. ASSUME NEW k \in 1..(m - 1) PROVE defaults[k].name # name
    BY <1>1
  <2> QED
    BY <1>1, <2>1
<1> HIDE DEF T
<1> QED
  BY <1>2 DEF Place

\* WithDefaults: what its loop has laid after each of the defaults.
Acc == [emitted : SUBSET STRING, result : Seq(Header)]

Lay(own, p, acc) ==
    IF p.name \notin Names(own) THEN [acc EXCEPT !.result = Append(@, p)]
    ELSE IF p.name \in acc.emitted THEN acc
    ELSE [emitted |-> acc.emitted \cup {p.name},
          result |-> acc.result \o Among(own, {p.name})]

Laid(own, defaults, laid) ==
    /\ laid[0] = [emitted |-> {}, result |-> <<>>]
    /\ \A i \in 0..Len(defaults) : laid[i] \in Acc
    /\ \A i \in 1..Len(defaults) :
         laid[i] = Lay(own, defaults[i], laid[i - 1])

\* A pass of the loop keeps the type of what has been laid.
LEMMA LayType ==
    ASSUME NEW own \in Seq(Header), NEW p \in Header, NEW acc \in Acc
    PROVE  Lay(own, p, acc) \in Acc
<1>1. Among(own, {p.name}) \in Seq(Header)
  BY AmongInOrder
<1>2. p.name \in STRING
  BY DEF Header
<1>3. acc.emitted \in SUBSET STRING /\ acc.result \in Seq(Header)
  BY DEF Acc
<1>4. CASE p.name \notin Names(own)
  <2>1. Append(acc.result, p) \in Seq(Header)
    BY <1>3
  <2> QED
    BY <1>3, <1>4, <2>1 DEF Lay, Acc
<1>5. CASE p.name \in Names(own) /\ p.name \in acc.emitted
  BY <1>5 DEF Lay
<1>6. CASE p.name \in Names(own) /\ p.name \notin acc.emitted
  <2>1. acc.result \o Among(own, {p.name}) \in Seq(Header)
    BY <1>1, <1>3
  <2> QED
    BY <1>2, <1>3, <1>6, <2>1 DEF Lay, Acc
<1> QED
  BY <1>4, <1>5, <1>6

\* The recursive function in WithDefaults exists, and is that run.
LEMMA LayLoop ==
    ASSUME NEW own \in Seq(Header), NEW defaults \in Seq(Header)
    PROVE  \E laid :
             /\ Laid(own, defaults, laid)
             /\ WithDefaults(own, defaults) =
                  laid[Len(defaults)].result
                    \o Among(own, Names(own) \ laid[Len(defaults)].emitted)
<1> DEFINE N == Len(defaults)
           base == [emitted |-> {}, result |-> <<>>]
           item(f, i) == IF i = 0 THEN base
                         ELSE Lay(own, defaults[i], f[i - 1])
           step == [i \in 1..N |->
                      [acc \in Acc |-> Lay(own, defaults[i], acc)]]
           loop == CHOOSE f : f = [i \in 0..N |-> item(f, i)]
<1>1. WithDefaults(own, defaults) =
        loop[N].result \o Among(own, Names(own) \ loop[N].emitted)
  BY DEF WithDefaults, Lay
<1>2. \A i \in 1..N : defaults[i] \in Header
  OBVIOUS
<1>3. N \in Nat /\ base \in Acc /\ step \in [1..N -> [Acc -> Acc]]
  <2>1. \A i \in 1..N, acc \in Acc : Lay(own, defaults[i], acc) \in Acc
    BY <1>2, LayType
  <2>2. base \in Acc
    BY DEF Acc
  <2> QED
    BY <2>1, <2>2
<1>4. PICK f : IsRun(f, Acc, N, base, step)
  <2> HIDE DEF step, N, base
  <2> QED
    BY <1>3, Recursion
<1>5. ASSUME NEW i \in 0..N PROVE f[i] = item(f, i)
  <2>1. CASE i = 0
    BY <1>4, <2>1 DEF IsRun
  <2>2. CASE i # 0
    <3>1. i \in 1..N /\ i - 1 \in 0..N
      BY <1>3, <2>2
    <3>2. f[i - 1] \in Acc
      BY <1>4, <3>1 DEF IsRun
    <3>3. step[i][f[i - 1]] = item(f, i)
      BY <2>2, <3>1, <3>2
    <3> QED
      BY <1>4, <3>1, <3>3 DEF IsRun
  <2> QED
    BY <2>1, <2>2
<1>6. loop = [i \in 0..N |-> item(loop, i)]
  <2> HIDE DEF item, N
  <2>1. f = [i \in 0..N |-> item(f, i)]
    BY <1>4, <1>5 DEF IsRun
  <2> QED
    BY <2>1
<1>7. \A i \in 0..N : loop[i] = item(loop, i)
  <2> HIDE DEF item, N, loop
  <2> QED
    BY <1>6
<1> HIDE DEF loop
<1>8. \A i \in 0..N : loop[i] \in Acc
  <2>1. loop[0] \in Acc
    <3>1. 0 \in 0..N /\ loop[0] = item(loop, 0)
      BY <1>3, <1>7
    <3> QED
      BY <1>3, <3>1
  <2>2. ASSUME NEW i \in 1..N, loop[i - 1] \in Acc
        PROVE  loop[i] \in Acc
    <3>1. i \in 0..N /\ i # 0 /\ loop[i] = item(loop, i)
      BY <1>3, <1>7
    <3> QED
      BY <1>2, <2>2, <3>1, LayType
  <2> HIDE DEF N
  <2> QED
    BY <1>3, <2>1, <2>2, RunType
<1>9. Laid(own, defaults, loop)
  <2>1. loop[0] = base
    <3>1. 0 \in 0..N
      BY <1>3
    <3> QED
      BY <1>7, <3>1
  <2>2. ASSUME NEW i \in 1..N
        PROVE  loop[i] = Lay(own, defaults[i], loop[i - 1])
    <3>1. i \in 0..N /\ i # 0
      BY <1>3
    <3> QED
      BY <1>7, <3>1
  <2> QED
    BY <1>8, <2>1, <2>2 DEF Laid
<1> QED
  BY <1>1, <1>9

\* The ranks of the first i places.
Upper(own, defaults, i) == {r \in Ranks(own, defaults) : r[1] <= i}

\* Ranks are pairs of naturals, and places lie within the defaults or right
\* behind them.
LEMMA RanksType ==
    ASSUME NEW own \in Seq(Header), NEW defaults \in Seq(Header)
    PROVE  /\ Ranks(own, defaults) \subseteq Nat \X Nat
           /\ \A r \in Ranks(own, defaults) : r[1] \in 1..(Len(defaults) + 1)
<1>1. \A j \in 1..Len(own) :
        Place(own[j].name, defaults) \in 1..(Len(defaults) + 1)
  BY PlaceFirst
<1> QED
  BY <1>1 DEF Ranks

\* Which ranks a place has: the default's own, or those of the headers of
\* `own` whose name the defaults mention there first.
LEMMA RanksOf ==
    ASSUME NEW own \in Seq(Header), NEW defaults \in Seq(Header),
           NEW p \in Nat, NEW j \in Nat
    PROVE  <<p, j>> \in Ranks(own, defaults) <=>
             \/ /\ p \in 1..Len(defaults) /\ j = 0
                /\ defaults[p].name \notin Names(own)
             \/ /\ j \in 1..Len(own)
                /\ p = Place(own[j].name, defaults)
BY DEF Ranks

\* The names that have been met are those whose place has been passed.
LEMMA PlaceNext ==
    ASSUME NEW defaults \in Seq(Header), NEW i \in 1..Len(defaults), NEW name
    PROVE  /\ Place(name, defaults) <= i <=>
                Place(name, defaults) <= i - 1 \/ name = defaults[i].name
           /\ Place(name, defaults) = i => name = defaults[i].name
<1>1. LET k == Place(name, defaults)
      IN  /\ k \in 1..(Len(defaults) + 1)
          /\ k <= Len(defaults) => defaults[k].name = name
          /\ \A m \in 1..(k - 1) : defaults[m].name # name
  BY PlaceFirst
<1> DEFINE k == Place(name, defaults)
<1>2. /\ k \in 1..(Len(defaults) + 1)
      /\ k <= Len(defaults) => defaults[k].name = name
      /\ \A m \in 1..(k - 1) : defaults[m].name # name
  BY <1>1
<1> HIDE DEF k
<1>3. /\ k <= i <=> k <= i - 1 \/ name = defaults[i].name
      /\ k = i => name = defaults[i].name
  BY <1>2
<1> QED
  BY <1>3 DEF k

\* The loop of with_defaults: after i of the defaults the result has, in order,
\* all that belongs to the first i places, and the names emitted are those of
\* `own` the defaults have mentioned.
LEMMA LaidInOrder ==
    ASSUME NEW own \in Seq(Header), NEW defaults \in Seq(Header),
           NEW laid, Laid(own, defaults, laid)
    PROVE  \A i \in 0..Len(defaults) :
             /\ laid[i].emitted =
                  {n \in Names(own) : Place(n, defaults) <= i}
             /\ IsFiniteSet(Upper(own, defaults, i))
             /\ InOrder(laid[i].result, Upper(own, defaults, i), own, defaults)
<1> DEFINE D == Len(defaults)
           U(i) == Upper(own, defaults, i)
           met(i) == {n \in Names(own) : Place(n, defaults) <= i}
           Good(i) == /\ laid[i].emitted = met(i)
                      /\ IsFiniteSet(U(i))
                      /\ InOrder(laid[i].result, U(i), own, defaults)
           T == {i \in Nat : i <= D => Good(i)}
<1>1. \A i \in Nat : U(i) \subseteq Nat \X Nat
  BY RanksType DEF Upper
<1>2. 0 \in T
  <2>1. U(0) = {}
    BY RanksType DEF Upper
  <2>2. met(0) = {}
    BY PlaceFirst
  <2>3. laid[0].emitted = {} /\ laid[0].result = <<>>
    BY DEF Laid
  <2> HIDE DEF U, met
  <2> QED
    BY <2>1, <2>2, <2>3, NoneInOrder, FS_EmptySet
<1>3. ASSUME NEW n \in Nat, n \in T PROVE n + 1 \in T
  <2> SUFFICES ASSUME n + 1 <= D PROVE Good(n + 1)
    OBVIOUS
  <2> DEFINE i == n + 1
             p == defaults[i]
             acc == laid[n]
  <2>1. i \in 1..D /\ n \in 0..D /\ i - 1 = n /\ i \in Nat
    OBVIOUS
  <2>2. Good(n)
    BY <1>3, <2>1
  <2>3. laid[i] = Lay(own, p, acc) /\ acc \in Acc
    BY <2>1 DEF Laid
  <2>4. p \in Header /\ acc.result \in Seq(Header)
    BY <2>1, <2>3 DEF Acc
  <2>5. \A name : /\ Place(name, defaults) <= i <=>
                       Place(name, defaults) <= n \/ name = p.name
                  /\ Place(name, defaults) = i => name = p.name
    BY <2>1, PlaceNext
  <2> DEFINE here == {r \in Ranks(own, defaults) : r[1] = i}
  <2>6. U(i) = U(n) \cup here
    BY <1>1, <2>1, RanksType DEF Upper
  <2>7. here \subseteq Nat \X Nat /\ Before(U(n), here)
    BY <1>1, <2>1, RanksType DEF Upper, Before
  <2>8. \A j \in Nat : <<i, j>> \in here <=>
          \/ j = 0 /\ p.name \notin Names(own)
          \/ j \in 1..Len(own) /\ i = Place(own[j].name, defaults)
    BY <2>1, RanksOf
  <2>9. \A r \in here : r = <<i, r[2]>> /\ r[2] \in Nat
    BY <2>7
  <2>10. CASE p.name \notin Names(own)
    <3>1. laid[i].emitted = acc.emitted /\ laid[i].result = acc.result \o <<p>>
      BY <2>3, <2>4, <2>10, AppendIsConcat DEF Lay, Acc
    <3>2. met(i) = met(n)
      BY <2>5, <2>10
    <3>3. here = {<<i, 0>>}
      <4>1. ASSUME NEW r \in here PROVE r = <<i, 0>>
        <5>1. r[2] \in 1..Len(own) => own[r[2]].name \in Names(own)
          BY DEF Names
        <5>2. ~(r[2] \in 1..Len(own) /\ i = Place(own[r[2]].name, defaults))
          BY <2>5, <2>10, <5>1
        <5> HIDE DEF here, i
        <5> QED
          BY <2>8, <2>9, <5>2
      <4>2. <<i, 0>> \in here
        <5> HIDE DEF here, i
        <5> QED
          BY <2>10, <2>8
      <4> HIDE DEF here
      <4> QED
        BY <4>1, <4>2
    <3>4. InOrder(<<p>>, here, own, defaults)
      BY <2>1, <3>3, OneInOrder
    <3>5. IsFiniteSet(here) /\ <<p>> \in Seq(Header)
      <4>1. IsFiniteSet({<<i, 0>>})
        BY FS_Singleton
      <4>2. <<p>> \in Seq(Header)
        BY <2>4
      <4> QED
        BY <3>3, <4>1, <4>2
    <3> HIDE DEF U, met, here, acc, p
    <3>6. InOrder(acc.result \o <<p>>, U(n) \cup here, own, defaults)
      BY <1>1, <2>2, <2>4, <2>7, <3>4, <3>5, ConcatInOrder DEF acc
    <3>7. IsFiniteSet(U(n) \cup here)
      BY <2>2, <3>5, FS_Union
    <3> QED
      BY <2>2, <2>6, <3>1, <3>2, <3>6, <3>7 DEF acc
  <2>11. CASE p.name \in Names(own) /\ p.name \in acc.emitted
    <3>1. laid[i] = acc
      BY <2>3, <2>11 DEF Lay
    <3>2. met(i) = met(n)
      BY <2>2, <2>5, <2>11
    <3>3. here = {}
      <4> SUFFICES ASSUME NEW r \in here PROVE FALSE
        OBVIOUS
      <4>1. i = Place(own[r[2]].name, defaults)
        <5> HIDE DEF here, i
        <5> QED
          BY <2>11, <2>8, <2>9
      <4>2. Place(p.name, defaults) = i
        BY <2>5, <4>1
      <4>3. Place(p.name, defaults) <= n
        BY <2>2, <2>11
      <4> QED
        BY <2>1, <4>2, <4>3
    <3> HIDE DEF U, met, here
    <3> QED
      BY <2>2, <2>6, <3>1, <3>2, <3>3
  <2>12. CASE p.name \in Names(own) /\ p.name \notin acc.emitted
    <3> DEFINE B == Block(own, {p.name}, i, Len(own))
               add == Among(own, {p.name})
    <3>1. /\ laid[i].emitted = acc.emitted \cup {p.name}
          /\ laid[i].result = acc.result \o add
      BY <2>3, <2>12, SMTT(30) DEF Lay
    <3>2. met(i) = met(n) \cup {p.name}
      BY <2>5, <2>12
    <3>3. Place(p.name, defaults) = i
      <4>1. Place(p.name, defaults) \in Nat
        BY PlaceFirst
      <4>2. ~(Place(p.name, defaults) <= n)
        BY <2>2, <2>12
      <4>3. Place(p.name, defaults) <= i
        BY <2>5
      <4> QED
        BY <2>1, <4>1, <4>2, <4>3
    <3>4. here = B
      <4>1. ASSUME NEW j \in Nat PROVE <<i, j>> \in here <=> <<i, j>> \in B
        <5>1. \A k \in 1..Len(own) :
                i = Place(own[k].name, defaults) <=> own[k].name = p.name
          BY <2>5, <3>3
        <5>2. <<i, j>> \in B <=> j \in 1..Len(own) /\ own[j].name = p.name
          BY DEF Block
        <5> HIDE DEF here, i, B, p
        <5> QED
          BY <2>12, <2>8, <5>1, <5>2
      <4>2. \A r \in B : r = <<i, r[2]>> /\ r[2] \in Nat
        BY DEF Block
      <4> HIDE DEF here, B, i
      <4>3. ASSUME NEW r \in here PROVE r \in B
        <5>1. r = <<i, r[2]>> /\ r[2] \in Nat
          BY <2>9
        <5> QED
          BY <4>1, <5>1
      <4>4. ASSUME NEW r \in B PROVE r \in here
        <5>1. r = <<i, r[2]>> /\ r[2] \in Nat
          BY <4>2
        <5> QED
          BY <4>1, <5>1
      <4> QED
        BY <4>3, <4>4
    <3>5. /\ add \in Seq(Header) /\ IsFiniteSet(B)
          /\ InOrder(add, B, own, defaults)
      BY <2>1, AmongInOrder
    <3> HIDE DEF U, met, here, acc, p, B, add
    <3>6. InOrder(acc.result \o add, U(n) \cup here, own, defaults)
      BY <1>1, <2>2, <2>4, <2>7, <3>4, <3>5, ConcatInOrder DEF acc
    <3>7. IsFiniteSet(U(n) \cup here)
      BY <2>2, <3>4, <3>5, FS_Union
    <3> QED
      BY <2>2, <2>6, <3>1, <3>2, <3>6, <3>7 DEF acc
  <2> QED
    BY <2>10, <2>11, <2>12
<1>4. \A i \in Nat : i \in T
  <2> HIDE DEF T
  <2> QED
    BY <1>2, <1>3, SetInduction
<1> QED
  BY <1>4
\* What is left of `own` after the loop belongs behind the defaults.
LEMMA MergedInOrder ==
    ASSUME NEW own \in Seq(Header), NEW defaults \in Seq(Header)
    PROVE  /\ WithDefaults(own, defaults) \in Seq(Header)
           /\ IsFiniteSet(Ranks(own, defaults))
           /\ IsLaidOver(WithDefaults(own, defaults), own, defaults)
<1> DEFINE D == Len(defaults)
           U == Upper(own, defaults, D)
<1>1. PICK laid : /\ Laid(own, defaults, laid)
                  /\ WithDefaults(own, defaults) =
                       laid[D].result
                         \o Among(own, Names(own) \ laid[D].emitted)
  BY LayLoop
<1> DEFINE rest == Names(own) \ laid[D].emitted
           B == Block(own, rest, D + 1, Len(own))
<1>2. D \in 0..D /\ D \in Nat /\ D + 1 \in Nat
  OBVIOUS
<1>3. /\ laid[D].emitted = {n \in Names(own) : Place(n, defaults) <= D}
      /\ IsFiniteSet(U)
      /\ InOrder(laid[D].result, U, own, defaults)
  BY <1>1, <1>2, LaidInOrder
<1>4. laid[D].result \in Seq(Header)
  BY <1>1, <1>2 DEF Laid, Acc
<1>5. /\ Among(own, rest) \in Seq(Header)
      /\ B \subseteq Nat \X Nat /\ IsFiniteSet(B)
      /\ InOrder(Among(own, rest), B, own, defaults)
  <2> HIDE DEF rest
  <2> QED
    BY <1>2, AmongInOrder
<1>6. U \subseteq Nat \X Nat /\ Before(U, B)
  BY RanksType DEF Upper, Before, Block
<1>7. Ranks(own, defaults) = U \cup B
  <2>1. ASSUME NEW j \in 1..Len(own)
        PROVE  own[j].name \in rest <=> Place(own[j].name, defaults) = D + 1
    <3>1. own[j].name \in Names(own)
      BY DEF Names
    <3>2. Place(own[j].name, defaults) \in 1..(D + 1)
      BY PlaceFirst
    <3> QED
      BY <1>2, <1>3, <3>1, <3>2
  <2>2. ASSUME NEW j \in Nat
        PROVE  <<D + 1, j>> \in Ranks(own, defaults) <=> <<D + 1, j>> \in B
    <3>1. <<D + 1, j>> \in Ranks(own, defaults) <=>
            j \in 1..Len(own) /\ Place(own[j].name, defaults) = D + 1
      BY <1>2, RanksOf
    <3>2. <<D + 1, j>> \in B <=> j \in 1..Len(own) /\ own[j].name \in rest
      BY DEF Block
    <3> HIDE DEF B, rest
    <3> QED
      BY <2>1, <3>1, <3>2
  <2>3. ASSUME NEW r \in Ranks(own, defaults) PROVE r \in U \cup B
    <3>1. r = <<r[1], r[2]>> /\ r[2] \in Nat /\ r[1] \in 1..(D + 1)
      BY RanksType
    <3>2. r[1] <= D \/ r[1] = D + 1
      BY <1>2, <3>1
    <3>3. CASE r[1] <= D
      BY <3>3 DEF Upper
    <3>4. CASE r[1] = D + 1
      <4> HIDE DEF B, D
      <4> QED
        BY <2>2, <3>1, <3>4
    <3> QED
      BY <3>2, <3>3, <3>4
  <2>4. ASSUME NEW r \in B PROVE r \in Ranks(own, defaults)
    <3>1. r = <<D + 1, r[2]>> /\ r[2] \in Nat
      BY DEF Block
    <3> HIDE DEF B, D
    <3> QED
      BY <2>2, <3>1
  <2>5. U \subseteq Ranks(own, defaults)
    BY DEF Upper
  <2> HIDE DEF U, B
  <2> QED
    BY <2>3, <2>4, <2>5
<1> HIDE DEF U, B, rest, D
<1>8. InOrder(laid[D].result \o Among(own, rest), U \cup B, own, defaults)
  BY <1>3, <1>4, <1>5, <1>6, ConcatInOrder
<1>9. laid[D].result \o Among(own, rest) \in Seq(Header)
  BY <1>4, <1>5
<1>10. IsFiniteSet(U \cup B)
  BY <1>3, <1>5, FS_Union
<1> QED
  BY <1>1, <1>7, <1>8, <1>9, <1>10 DEF IsLaidOver, rest

\* ... so every name that was spoken for is there.
LEMMA NamesKept ==
    ASSUME NEW own \in Seq(Header), NEW defaults \in Seq(Header)
    PROVE  Names(own) \cup Names(defaults)
             \subseteq Names(WithDefaults(own, defaults))
<1> DEFINE R == Ranks(own, defaults)
           M == WithDefaults(own, defaults)
<1>1. M \in Seq(Header) /\ InOrder(M, R, own, defaults)
  BY MergedInOrder DEF IsLaidOver
<1>2. R \subseteq Nat \X Nat
  BY RanksType
<1>3. IsFiniteSet(R)
  BY MergedInOrder
<1>4. ASSUME NEW r \in R
      PROVE  (IF r[2] = 0 THEN defaults[r[1]] ELSE own[r[2]]).name \in Names(M)
  <2> HIDE DEF R, M
  <2>1. Cardinality(UpTo(R, r)) \in 1..Len(M)
    BY <1>1, <1>2, <1>3, RankPlace DEF InOrder
  <2> QED
    BY <1>1, <2>1 DEF InOrder, Names
<1>5. ASSUME NEW j \in 1..Len(own) PROVE own[j].name \in Names(M)
  <2> DEFINE r == <<Place(own[j].name, defaults), j>>
  <2>1. r \in R /\ r[2] = j /\ j # 0
    BY DEF Ranks
  <2> HIDE DEF R, M, r
  <2> QED
    BY <1>4, <2>1
<1>6. ASSUME NEW i \in 1..Len(defaults) PROVE defaults[i].name \in Names(M)
  <2>1. CASE defaults[i].name \in Names(own)
    <3> HIDE DEF M
    <3> QED
      BY <1>5, <2>1 DEF Names
  <2>2. CASE defaults[i].name \notin Names(own)
    <3> DEFINE r == <<i, 0>>
    <3>1. r \in R /\ r[2] = 0 /\ r[1] = i
      BY <2>2 DEF Ranks
    <3> HIDE DEF R, M, r
    <3> QED
      BY <1>4, <3>1
  <2> QED
    BY <2>1, <2>2
<1> HIDE DEF M
<1>7. Names(own) \subseteq Names(M) /\ Names(defaults) \subseteq Names(M)
  BY <1>5, <1>6 DEF Names
<1> QED
  BY <1>7 DEF M

\* Headers.with_defaults keeps the order of the defaults, loses nothing and
\* repeats nothing, whatever the two lists are.
THEOREM WithDefaultsInOrder ==
    \A own, defaults \in Seq(Header) :
        /\ WithDefaults(own, defaults) \in Seq(Header)
        /\ IsLaidOver(WithDefaults(own, defaults), own, defaults)
BY MergedInOrder


-----------------------------------------------------------------------------
(* What build_call adds by itself.                                         *)

\* `sent` begins with `merged` and goes on under names new to it, among
\* `names`, none of them twice.
Extended(merged, sent, names) ==
    /\ Len(sent) >= Len(merged)
    /\ \A i \in 1..Len(merged) : sent[i] = merged[i]
    /\ \A i \in (Len(merged) + 1)..Len(sent) :
         /\ sent[i].name \in names \ Names(merged)
         /\ \A k \in (Len(merged) + 1)..(i - 1) : sent[k].name # sent[i].name

\* One addition, under a name not added before.
LEMMA ExtendedByOne ==
    ASSUME NEW S, NEW merged \in Seq(S), NEW sent \in Seq(S), NEW names,
           Extended(merged, sent, names), NEW name, name \notin names,
           NEW value, [name |-> name, shown |-> name, value |-> value] \in S
    PROVE  LET next == sent \o Addition(merged, name, value)
           IN  next \in Seq(S) /\ Extended(merged, next, names \cup {name})
<1> DEFINE h == [name |-> name, shown |-> name, value |-> value]
<1>1. CASE value = "" \/ name \in Names(merged)
  <2>1. sent \o Addition(merged, name, value) = sent
    <3>1. Addition(merged, name, value) = <<>>
      BY <1>1 DEF Addition
    <3> QED
      BY <3>1, ConcatEmptySeq
  <2>2. Extended(merged, sent, names \cup {name})
    BY DEF Extended
  <2> QED
    BY <2>1, <2>2
<1>2. CASE ~(value = "" \/ name \in Names(merged))
  <2> DEFINE next == Append(sent, h)
  <2>1. sent \o Addition(merged, name, value) = next
    BY <1>2, AppendIsConcat DEF Addition
  <2>2. /\ next \in Seq(S) /\ Len(next) = Len(sent) + 1
        /\ \A i \in 1..Len(sent) : next[i] = sent[i]
        /\ next[Len(sent) + 1] = h
    OBVIOUS
  <2>3. Len(merged) \in Nat /\ Len(sent) \in Nat /\ h.name = name
    OBVIOUS
  <2> HIDE DEF next, h
  <2>4. ASSUME NEW i \in (Len(merged) + 1)..Len(next)
        PROVE  /\ next[i].name \in (names \cup {name}) \ Names(merged)
               /\ \A k \in (Len(merged) + 1)..(i - 1) :
                    next[k].name # next[i].name
    <3>1. \A k \in (Len(merged) + 1)..(i - 1) :
            k \in (Len(merged) + 1)..Len(sent) /\ next[k] = sent[k]
      BY <2>2, <2>3
    <3>2. CASE i <= Len(sent)
      <4>1. i \in (Len(merged) + 1)..Len(sent) /\ next[i] = sent[i]
        BY <2>2, <2>3, <3>2
      <4>2. /\ sent[i].name \in names \ Names(merged)
            /\ \A k \in (Len(merged) + 1)..(i - 1) :
                 sent[k].name # sent[i].name
        BY <4>1 DEF Extended
      <4> QED
        BY <3>1, <4>1, <4>2
    <3>3. CASE i = Len(sent) + 1
      <4>1. next[i].name = name
        BY <2>2, <2>3, <3>3
      <4>2. \A k \in (Len(merged) + 1)..Len(sent) : sent[k].name \in names
        BY DEF Extended
      <4> QED
        BY <1>2, <3>1, <4>1, <4>2
    <3> QED
      BY <2>2, <2>3, <3>2, <3>3
  <2>5. \A i \in 1..Len(merged) : next[i] = merged[i]
    BY <2>2, <2>3 DEF Extended
  <2>6. Len(next) >= Len(merged)
    BY <2>2, <2>3 DEF Extended
  <2> QED
    BY <2>1, <2>2, <2>4, <2>5, <2>6 DEF Extended
<1> QED
  BY <1>1, <1>2

\* All of them.
LEMMA AdditionsLast ==
    ASSUME NEW merged \in Seq(Header), NEW o, NEW cookie
    PROVE  LET sent == WithAdditions(merged, o, cookie)
           IN  /\ Len(sent) \in Nat
               /\ SubSeq(sent, 1, Len(merged)) = merged
               /\ Extended(merged, sent,
                           {"content-type", "authorization", "cookie"})
<1> DEFINE rec(name, value) == [name |-> name, shown |-> name, value |-> value]
           S == Header \cup {rec("content-type", EncodeBody(o).type),
                             rec("authorization", Authorization(o)),
                             rec("cookie", cookie)}
           first == merged \o Addition(merged, "content-type",
                                       EncodeBody(o).type)
           second == first \o Addition(merged, "authorization",
                                       Authorization(o))
           sent == second \o Addition(merged, "cookie", cookie)
<1>1. merged \in Seq(S) /\ Extended(merged, merged, {})
  <2>1. merged \in Seq(S)
    OBVIOUS
  <2>2. Extended(merged, merged, {})
    BY DEF Extended
  <2> QED
    BY <2>1, <2>2
<1>2. first \in Seq(S) /\ Extended(merged, first, {"content-type"})
  <2>1. rec("content-type", EncodeBody(o).type) \in S
    OBVIOUS
  <2> HIDE DEF S
  <2>2. Extended(merged, first, {} \cup {"content-type"}) /\ first \in Seq(S)
    BY <1>1, <2>1, ExtendedByOne
  <2> QED
    BY <2>2
<1>3. second \in Seq(S)
      /\ Extended(merged, second, {"content-type", "authorization"})
  <2>1. /\ rec("authorization", Authorization(o)) \in S
        /\ "authorization" \notin {"content-type"}
    OBVIOUS
  <2> HIDE DEF S, first
  <2>2. /\ Extended(merged, second, {"content-type"} \cup {"authorization"})
        /\ second \in Seq(S)
    BY <1>1, <1>2, <2>1, ExtendedByOne
  <2>3. {"content-type"} \cup {"authorization"}
          = {"content-type", "authorization"}
    OBVIOUS
  <2> QED
    BY <2>2, <2>3
<1>4. sent \in Seq(S)
      /\ Extended(merged, sent, {"content-type", "authorization", "cookie"})
  <2>1. /\ rec("cookie", cookie) \in S
        /\ "cookie" \notin {"content-type", "authorization"}
    OBVIOUS
  <2> HIDE DEF S, second
  <2>2. /\ Extended(merged, sent,
                    {"content-type", "authorization"} \cup {"cookie"})
        /\ sent \in Seq(S)
    BY <1>1, <1>3, <2>1, ExtendedByOne
  <2>3. {"content-type", "authorization"} \cup {"cookie"}
          = {"content-type", "authorization", "cookie"}
    OBVIOUS
  <2> QED
    BY <2>2, <2>3
<1>5. sent = WithAdditions(merged, o, cookie)
  BY DEF WithAdditions
<1> HIDE DEF sent, S
<1>6. SubSeq(sent, 1, Len(merged)) = merged
  BY <1>1, <1>4 DEF Extended
<1> QED
  BY <1>4, <1>5, <1>6
-----------------------------------------------------------------------------
(* The headers of a call.                                                  *)

\* What build_call made the headers from.
MadeFrom(b, s) ==
    \E o \in Requests :
        /\ b.options = o
        /\ b.call.headers =
             WithAdditions(WithDefaults(o.headers, s.headers), o, s.cookie)

\* A call was made from the settings its session still has: they do not change
\* before the session is closed, and then there is no call.
CallInv ==
    /\ built = [t \in Threads |-> built[t]]
    /\ \A t \in Threads :
         built[t] # NoCall =>
             pc[t] \in {"asked", "done"} /\ MadeFrom(built[t], settings[t])

\* A session is opened by a thread that has none, so by one without a call.
LEMMA CallOpenStep ==
    ASSUME IInv, CallInv, NEW t \in Threads, Open(t) PROVE CallInv'
<1>1. pc[t] = "idle" /\ built' = built /\ built[t] = NoCall
  BY DEF Open, CallInv
<1>2. \A u \in Threads : u # t => pc'[u] = pc[u] /\ settings'[u] = settings[u]
  BY DEF Open, Goto, IInv, Shape
<1> QED
  BY <1>1, <1>2 DEF CallInv

\* build_call and _build_request: the headers are those of BuildCall.
LEMMA CallRequestStep ==
    ASSUME IInv, CallInv, NEW t \in Threads, StartRequest(t) PROVE CallInv'
<1>1. /\ pc' = [pc EXCEPT ![t] = "asked"] /\ settings' = settings
      /\ pc \in [Threads -> PcSteps] /\ pc[t] = "open"
  BY DEF StartRequest, Goto, IInv, Shape
<1>2. \A u \in Threads : pc'[u] = IF u = t THEN "asked" ELSE pc[u]
  BY <1>1
<1>3. built[t] = NoCall
  BY <1>1 DEF CallInv
<1>4. CASE UNCHANGED built
  BY <1>1, <1>2, <1>3, <1>4 DEF CallInv
<1>5. ASSUME NEW o \in Requests,
             built' = [built EXCEPT ![t] =
                [options |-> o,
                 call |-> BuildRequest(
                            BuildCall(o, settings[t].headers,
                                      settings[t].cookie,
                                      NativeLimit(o, settings[t])))]]
      PROVE  CallInv'
  <2>1. /\ built' = [u \in Threads |-> built'[u]]
        /\ \A u \in Threads : u # t => built'[u] = built[u]
        /\ built'[t] = [options |-> o,
                        call |-> BuildRequest(
                                   BuildCall(o, settings[t].headers,
                                             settings[t].cookie,
                                             NativeLimit(o, settings[t])))]
    BY <1>5 DEF CallInv
  <2>2. MadeFrom(built'[t], settings[t])
    <3>1. /\ built'[t].options = o
          /\ built'[t].call.headers =
               WithAdditions(WithDefaults(o.headers, settings[t].headers), o,
                             settings[t].cookie)
      <4>1. \A c : BuildRequest(c).headers = c.headers
        BY DEF BuildRequest
      <4>2. \A d, c, l : BuildCall(o, d, c, l).headers =
                          WithAdditions(WithDefaults(o.headers, d), o, c)
        BY DEF BuildCall
      <4> QED
        BY <2>1, <4>1, <4>2
    <3> QED
      BY <3>1 DEF MadeFrom
  <2> QED
    BY <1>1, <1>2, <2>1, <2>2 DEF CallInv
<1> QED
  BY <1>4, <1>5 DEF StartRequest

\* Closing a session forgets its call.
LEMMA CallCloseStep ==
    ASSUME IInv, CallInv, NEW t \in Threads, Close(t) PROVE CallInv'
<1>1. /\ settings' = settings
      /\ built' = [u \in Threads |-> built'[u]] /\ built'[t] = NoCall
      /\ \A u \in Threads : u # t => built'[u] = built[u] /\ pc'[u] = pc[u]
  BY DEF Close, Goto, IInv, Shape, CallInv
<1> QED
  BY <1>1 DEF CallInv

\* The steps of a creation, and a refused start, change no call and no
\* settings, and leave a thread that has a call where a call may be.
LEMMA CallOtherStep ==
    ASSUME IInv, CallInv, NEW t \in Threads, Creation(t) \/ StartRefused(t)
    PROVE  CallInv'
<1>1. built' = built /\ settings' = settings
  BY DEF Creation, Create, RaiseLibraryError, Install, PostTaskToInitThread,
         Uninstall, PreloadProxyCredentials, StartRefused
<1>2. /\ pc[t] \in {"asked", "done"} => pc'[t] \in {"asked", "done"}
      /\ \A u \in Threads : u # t => pc'[u] = pc[u]
  BY DEF Creation, Create, RaiseLibraryError, Install, PostTaskToInitThread,
         Uninstall, PreloadProxyCredentials, StartRefused, Goto, IInv, Shape
<1> QED
  BY <1>1, <1>2 DEF CallInv

\* Whatever other threads do, a call's headers are made from the settings of
\* the session that sends it.
THEOREM CallsMadeFrom == Spec => []CallInv
<1>1. Init => CallInv
  BY DEF Init, CallInv
<1>2. ASSUME IInv, CallInv, [Next]_vars PROVE CallInv'
  <2>1. CASE UNCHANGED vars
    BY <1>2, <2>1 DEF vars, CallInv
  <2>2. ASSUME NEW t \in Threads, Open(t) PROVE CallInv'
    BY <1>2, <2>2, CallOpenStep
  <2>3. ASSUME NEW t \in Threads, Creation(t) \/ StartRefused(t)
        PROVE  CallInv'
    BY <1>2, <2>3, CallOtherStep
  <2>4. ASSUME NEW t \in Threads, StartRequest(t) PROVE CallInv'
    BY <1>2, <2>4, CallRequestStep
  <2>5. ASSUME NEW t \in Threads, Close(t) PROVE CallInv'
    BY <1>2, <2>5, CallCloseStep
  <2>6. CASE InitRequestContext
    BY <1>2, <2>6 DEF InitRequestContext, CallInv
  <2>7. CASE AllDone
    BY <2>1, <2>7 DEF AllDone
  <2> QED
    BY <1>2, <2>1, <2>2, <2>3, <2>4, <2>5, <2>6, <2>7 DEF Next
<1> QED
  BY Inductive, <1>1, <1>2, PTL DEF Spec

\* The headers of every call, for any lists of headers: the request's laid over
\* the session's, nothing lost, nothing twice, the session's order kept, and
\* what build_call adds comes last under names nobody has used.
THEOREM HeadersInOrder == Spec => []HeaderOrderKept
<1>1. ASSUME IInv, CallInv, NEW t \in Threads, built[t] # NoCall
      PROVE  LET own == built[t].options.headers
                 defaults == settings[t].headers
                 sent == built[t].call.headers
             IN  \E n \in 0..Len(sent) :
                   /\ IsLaidOver(SubSeq(sent, 1, n), own, defaults)
                   /\ \A i \in (n + 1)..Len(sent) :
                        /\ sent[i].name \notin Names(own) \cup Names(defaults)
                        /\ \A k \in (n + 1)..(i - 1) :
                             sent[k].name # sent[i].name
  <2>1. PICK o \in Requests :
          /\ built[t].options = o
          /\ built[t].call.headers =
               WithAdditions(WithDefaults(o.headers, settings[t].headers), o,
                             settings[t].cookie)
    BY <1>1 DEF CallInv, MadeFrom
  <2> DEFINE own == o.headers
             defaults == settings[t].headers
             merged == WithDefaults(own, defaults)
             sent == built[t].call.headers
             n == Len(merged)
  <2>2. own \in Seq(Header) /\ defaults \in Seq(Header)
    BY <1>1, SetupAssumption DEF IInv, Shape
  <2>3. merged \in Seq(Header) /\ IsLaidOver(merged, own, defaults)
    BY <2>2, WithDefaultsInOrder
  <2>4. Names(own) \cup Names(defaults) \subseteq Names(merged)
    BY <2>2, NamesKept
  <2> HIDE DEF merged
  <2>5. /\ Len(sent) \in Nat
        /\ SubSeq(sent, 1, n) = merged
        /\ Extended(merged, sent,
                    {"content-type", "authorization", "cookie"})
    BY <2>1, <2>3, AdditionsLast DEF merged
  <2>6. n \in 0..Len(sent)
    BY <2>3, <2>5 DEF Extended
  <2>7. \A i \in (n + 1)..Len(sent) :
          /\ sent[i].name \notin Names(own) \cup Names(defaults)
          /\ \A k \in (n + 1)..(i - 1) : sent[k].name # sent[i].name
    BY <2>4, <2>5 DEF Extended
  <2> HIDE DEF sent, own, defaults, n
  <2>8. \E m \in 0..Len(sent) :
          /\ IsLaidOver(SubSeq(sent, 1, m), own, defaults)
          /\ \A i \in (m + 1)..Len(sent) :
               /\ sent[i].name \notin Names(own) \cup Names(defaults)
               /\ \A k \in (m + 1)..(i - 1) : sent[k].name # sent[i].name
    BY <2>3, <2>5, <2>6, <2>7
  <2> QED
    BY <2>1, <2>8 DEF sent, own, defaults
<1>2. IInv /\ CallInv => HeaderOrderKept
  BY <1>1 DEF HeaderOrderKept
<1> QED
  BY Inductive, CallsMadeFrom, <1>2, PTL
=============================================================================
