---------------------------- MODULE SessionSetup ----------------------------
(***************************************************************************)
(* Opening sessions from several threads at once, and starting a request   *)
(* on each: _BaseSession.__init__, _bridge.Engine.__init__,                *)
(* cronet_engine_create and Engine::Create, down to the process-wide       *)
(* proxy configuration that Chromium's init thread reads while it builds a *)
(* context, without being told whose context it is.                        *)
(***************************************************************************)
EXTENDS Request, FiniteSets

CONSTANTS
    Threads,
    Settings,    \* keyword arguments of a session
    Requests,    \* options of a request
    OpenBound    \* sessions a thread opens at most (bounds the model)

\* "Schemes: http, https, socks4, socks5, direct."
Schemes == {"http", "https", "socks4", "socks5", "direct"}

\* `proxy`: the scheme ("" for no proxy at all) and the userinfo of the first
\* proxy it names, the schemes of the others, whether it is a mapping that
\* begins with the scheme of the requests it is for ("https=socks5://b:1080"),
\* and whether Chromium's parser would take it without a userinfo.
ProxyRules == [mapped : BOOLEAN, scheme : STRING, userinfo : STRING,
               others : SUBSET Schemes, parses : BOOLEAN]

NoRule == [mapped |-> FALSE, scheme |-> "", userinfo |-> "", others |-> {},
           parses |-> TRUE]

ASSUME SetupAssumption ==
    /\ IsFiniteSet(Threads) /\ OpenBound \in Nat /\ Settings # {}
    /\ \A s \in Settings :
         /\ s.proxy \in ProxyRules
         /\ s.proxy.scheme = "" => s.proxy = NoRule
         /\ s.proxy.parses => s.proxy.scheme \in Schemes \cup {""}
         /\ s.headers \in Seq(Header)
    /\ \A o \in Requests : o.headers \in Seq(Header)

VARIABLES
    pc,          \* where each thread stands
    opens,       \* sessions each thread has tried to open
    settings,    \* the arguments of its current session
    lastError,   \* g_last_error, which is thread_local
    raised,      \* what its last operation raised
    lock,        \* the holders of PendingProxyConfigLock
    pending,     \* PendingProxyConfig, one for the process
    tasks,       \* the init thread's queue: whose context to build
    ready,       \* the WaitableEvent `initialized` of each creation
    engine,      \* what each thread's engine was built with
    built        \* the call its last request became

vars == <<pc, opens, settings, lastError, raised, lock, pending, tasks, ready,
          engine, built>>

NoEngine == [proxy |-> NoRule, profile |-> <<>>, hints |-> <<>>,
             preloaded |-> {}]
NoCall == [options |-> <<>>, call |-> <<>>]
Nothing == [error |-> "", reason |-> ""]

-----------------------------------------------------------------------------
(* What the arguments of a session amount to.                              *)

Versions == {"1.2", "1.3"}
AlpnProtocols == {"h2", "http/1.1", "h3"}
UnorderableExtensions == {21, 41}

\* TlsProfile.__post_init__ raises ValueError.
ProfileRefused(p) ==
    \/ p.version \notin Versions \cup {""}
    \/ ~ p.alpn \subseteq AlpnProtocols
    \/ ToSet(p.order) \cap UnorderableExtensions # {}
    \/ Cardinality(ToSet(p.order)) # Len(p.order)

\* TlsProfile.to_options: what was asked for, and an explicit order switches
\* the shuffle off unless the caller said otherwise.
ToOptions(p) ==
    LET permute == IF p.permute = "" /\ p.order # <<>> THEN "no" ELSE p.permute
        asked == [version |-> p.version, alpn |-> p.alpn, order |-> p.order,
                  permute |-> permute]
    IN  IF asked = [version |-> "", alpn |-> {}, order |-> <<>>, permute |-> ""]
        THEN <<>> ELSE <<asked>>

\* rules.startswith(...): a mapping begins with the scheme it maps, not with
\* that of a proxy.
StartsWith(rule, schemes) == ~rule.mapped /\ rule.scheme \in schemes

\* with_proxy_credentials gets past its early returns.  The port that follows
\* in a list ("socks5://a:1080,direct://") makes parts.port raise ValueError.
TakesCredentials(rule, user) ==
    /\ user # "" /\ StartsWith(rule, {"socks4", "socks5"})
    /\ rule.userinfo = ""

WithProxyCredentials(rule, user) ==
    IF TakesCredentials(rule, user) THEN [rule EXCEPT !.userinfo = user]
    ELSE rule

Rules(s) == WithProxyCredentials(s.proxy, s.user)

\* TlsProfile(...) or __init__ raises ValueError: its own checks,
\* Cache(cache), or with_proxy_credentials.
SessionRefused(s) ==
    \/ ProfileRefused(s.tls)
    \/ HeadersRefused(s.headers)
    \/ s.require /\ ~s.http3
    \/ s.require /\ s.proxy.scheme # "" /\ ~StartsWith(s.proxy, {"socks5"})
    \/ s.cache \notin {"off", "memory", "disk"}
    \/ TakesCredentials(s.proxy, s.user) /\ s.proxy.others # {}

\* The options `tls` sets replace those of the same name given by hand.
EngineProfile(s) ==
    IF ToOptions(s.tls) # <<>> THEN ToOptions(s.tls) ELSE s.experimental

\* A bare host means port 443; the library takes 443 for a port of zero.
Hints(s) ==
    LET Pair(h) == [host |-> h.host,
                    port |-> IF h.bare \/ h.port <= 0 THEN 443 ELSE h.port]
    IN  [i \in 1..Len(s.hints) |-> Pair(s.hints[i])]

\* _build_engine_config, and cronet_engine_create's copy of it.
EngineConfig(s) ==
    [proxy |-> Rules(s), profile |-> EngineProfile(s), hints |-> Hints(s),
     preloaded |-> {}]

\* The parser takes a userinfo for SOCKS5 only (0003-socks5-auth.patch), also
\* where with_proxy_credentials has put it there.
RulesParse(rule) ==
    rule.parses /\ (rule.userinfo # "" => rule.scheme = "socks5")

\* Why Engine::Create refuses, "" if it does not.  A cache mode it does not
\* know and options that are no JSON object cannot come from Python.
CreateRefusal(s) ==
    IF s.cache = "disk" /\ ~s.storage
    THEN "an on-disk cache needs a storage_path"
    ELSE IF s.proxy.scheme # "" /\ ~RulesParse(Rules(s))
    THEN "proxy_rules could not be parsed"
    ELSE ""

Unset == -1

\* The redirects the native side may follow: none where a jar is in use,
\* which is walked hop by hop, else the request's limit or the session's.
NativeLimit(o, s) ==
    IF s.cookie # "" THEN 0
    ELSE IF o.maxRedirects = Unset THEN s.limit ELSE o.maxRedirects

-----------------------------------------------------------------------------
Init ==
    /\ pc = [t \in Threads |-> "idle"]
    /\ opens = [t \in Threads |-> 0]
    /\ settings = [t \in Threads |-> CHOOSE s \in Settings : TRUE]
    /\ lastError = [t \in Threads |-> ""]
    /\ raised = [t \in Threads |-> Nothing]
    /\ lock = {} /\ pending = NoRule /\ tasks = <<>>
    /\ ready = [t \in Threads |-> FALSE]
    /\ engine = [t \in Threads |-> NoEngine]
    /\ built = [t \in Threads |-> NoCall]

Goto(t, where) == pc' = [pc EXCEPT ![t] = where]

Raise(t, error, reason) ==
    raised' = [raised EXCEPT ![t] = [error |-> error, reason |-> reason]]

shared == <<lock, pending, tasks, ready>>

\* _BaseSession.__init__ up to the engine.
Open(t) ==
    /\ pc[t] = "idle" /\ opens[t] < OpenBound
    /\ opens' = [opens EXCEPT ![t] = @ + 1]
    /\ \E s \in Settings :
         /\ settings' = [settings EXCEPT ![t] = s]
         /\ IF SessionRefused(s)
            THEN Raise(t, "ValueError", "") /\ UNCHANGED pc
            ELSE Goto(t, "create") /\ raised' = [raised EXCEPT ![t] = Nothing]
    /\ UNCHANGED <<lastError, shared, engine, built>>

\* Slip: one buffer for the reasons of every thread.
SetLastErrorForAll(t, reason) == lastError' = [u \in Threads |-> reason]

SetLastError(t, reason) == lastError' = [lastError EXCEPT ![t] = reason]

\* Engine::Create's checks, and SetLastError where one fails.
Create(t) ==
    /\ pc[t] = "create"
    /\ IF CreateRefusal(settings[t]) = ""
       THEN Goto(t, "install") /\ UNCHANGED lastError
       ELSE Goto(t, "failed") /\ SetLastError(t, CreateRefusal(settings[t]))
    /\ UNCHANGED <<opens, settings, raised, shared, engine, built>>

\* Engine.__init__ finds no handle and asks cronet_last_error() why.
RaiseLibraryError(t) ==
    /\ pc[t] = "failed"
    /\ Goto(t, "idle")
    /\ Raise(t, "LibraryError",
             IF lastError[t] # "" THEN lastError[t]
             ELSE "the engine could not be created")
    /\ UNCHANGED <<opens, settings, lastError, shared, engine, built>>

\* Slip: the configuration is installed without taking the lock.
InstallUnlocked(t) ==
    /\ pc[t] = "install"
    /\ Goto(t, "post")
    /\ lock' = lock \cup {t}
    /\ pending' = EngineConfig(settings[t]).proxy
    /\ UNCHANGED <<opens, settings, lastError, raised, tasks, ready, engine,
                   built>>

\* ScopedPendingProxyConfig's constructor.
Install(t) ==
    /\ pc[t] = "install" /\ lock = {}
    /\ Goto(t, "post")
    /\ lock' = {t}
    /\ pending' = EngineConfig(settings[t]).proxy
    /\ UNCHANGED <<opens, settings, lastError, raised, tasks, ready, engine,
                   built>>

PostTaskToInitThread(t) ==
    /\ pc[t] = "post"
    /\ Goto(t, "wait")
    /\ tasks' = Append(tasks, t)
    /\ ready' = [ready EXCEPT ![t] = FALSE]
    /\ UNCHANGED <<opens, settings, lastError, raised, lock, pending, engine,
                   built>>

\* The init thread builds a context: CreateProxyConfigService takes whatever
\* is pending, then the event is signalled.
InitRequestContext ==
    /\ tasks # <<>>
    /\ LET t == Head(tasks) IN
       /\ engine' = [engine EXCEPT ![t] =
                        [EngineConfig(settings[t]) EXCEPT !.proxy = pending]]
       /\ ready' = [ready EXCEPT ![t] = TRUE]
    /\ tasks' = Tail(tasks)
    /\ UNCHANGED <<pc, opens, settings, lastError, raised, lock, pending, built>>

\* Slip: the destructor clears the configuration and keeps the lock.
UninstallOnly(t) ==
    /\ pc[t] = "wait" /\ ready[t]
    /\ Goto(t, "preload")
    /\ pending' = NoRule
    /\ UNCHANGED <<opens, settings, lastError, raised, lock, tasks, ready,
                   engine, built>>

\* initialized.Wait() returns; ScopedPendingProxyConfig's destructor.
Uninstall(t) ==
    /\ pc[t] = "wait" /\ ready[t]
    /\ Goto(t, "preload")
    /\ pending' = NoRule
    /\ lock' = lock \ {t}
    /\ UNCHANGED <<opens, settings, lastError, raised, tasks, ready, engine,
                   built>>

\* CollectHttpProxies over every list of the rules.
HttpProxies(rule) == ({rule.scheme} \cup rule.others) \cap {"http", "https"}

\* PreloadProxyCredentials: into the auth cache, for every http and https
\* proxy of the rules, where a user is given.
PreloadProxyCredentials(t) ==
    /\ pc[t] = "preload"
    /\ Goto(t, "open")
    /\ LET s == settings[t] IN
       engine' = [engine EXCEPT ![t].preloaded =
                     IF s.user # "" THEN HttpProxies(Rules(s)) ELSE {}]
    /\ UNCHANGED <<opens, settings, lastError, raised, shared, built>>

\* Session.request as far as cronet_call_start.
StartRequest(t) ==
    /\ pc[t] = "open"
    /\ \E o \in Requests :
         LET s == settings[t] IN
         IF Refusal(o, s.headers) # ""
         THEN Raise(t, Refusal(o, s.headers), "") /\ UNCHANGED built
         ELSE /\ built' = [built EXCEPT ![t] =
                    [options |-> o,
                     call |-> BuildRequest(BuildCall(o, s.headers, s.cookie,
                                                     NativeLimit(o, s)))]]
              /\ UNCHANGED raised
    /\ Goto(t, "asked")
    /\ UNCHANGED <<opens, settings, lastError, shared, engine>>

\* cronet_call_start returns null and sets no reason: Engine.start raises
\* with whatever this thread's last failure left.
StartRefused(t) ==
    /\ pc[t] = "asked" /\ built[t] # NoCall
    /\ Goto(t, "done")
    /\ Raise(t, "RequestError",
             IF lastError[t] # "" THEN lastError[t]
             ELSE "the request could not be started")
    /\ UNCHANGED <<opens, settings, lastError, shared, engine, built>>

\* The session is closed and forgotten.
Close(t) ==
    /\ pc[t] \in {"open", "asked", "done"}
    /\ Goto(t, "idle")
    /\ engine' = [engine EXCEPT ![t] = NoEngine]
    /\ built' = [built EXCEPT ![t] = NoCall]
    /\ raised' = [raised EXCEPT ![t] = Nothing]
    /\ UNCHANGED <<opens, settings, lastError, shared>>

AllDone ==
    /\ \A t \in Threads : pc[t] = "idle" /\ opens[t] = OpenBound
    /\ UNCHANGED vars

Creation(t) ==
    \/ Create(t) \/ RaiseLibraryError(t) \/ Install(t)
    \/ PostTaskToInitThread(t) \/ Uninstall(t) \/ PreloadProxyCredentials(t)

Next ==
    \/ \E t \in Threads : Open(t) \/ Creation(t) \/ StartRequest(t)
                          \/ StartRefused(t) \/ Close(t)
    \/ InitRequestContext
    \/ AllDone

\* A thread inside the constructor keeps running, and so does the init thread.
Spec ==
    /\ Init /\ [][Next]_vars
    /\ \A t \in Threads : WF_vars(Creation(t))
    /\ WF_vars(InitRequestContext)

-----------------------------------------------------------------------------
(* Properties.                                                             *)

\* However the creations of several threads interleave, an engine is built
\* with the rules its own session gave, or the system's where it gave none,
\* and the session's credentials are where Chromium looks for them: in the
\* URL of a SOCKS5 proxy that is the only one and is written without a scheme
\* it maps, and in the auth cache for each http and https proxy.  In no other
\* case are they anywhere: a SOCKS5 proxy of a mapping or of a list goes
\* without them, as with_proxy_credentials' "anything else is returned
\* untouched" has it.  (session.py:124-126 and cronet.h:82-84 have it that
\* the credentials are for http and https proxies alone, which the first of
\* these places contradicts.)
EnginesKeepTheirProxy ==
    \A t \in Threads :
        pc[t] \in {"preload", "open", "asked", "done"} =>
            LET s == settings[t]
                e == engine[t]
                lone == /\ s.proxy.scheme = "socks5" /\ ~s.proxy.mapped
                        /\ s.proxy.others = {} /\ s.proxy.userinfo = ""
                named == s.proxy.others \cup {s.proxy.scheme}
            IN  /\ e.proxy = IF s.user # "" /\ lone
                             THEN [s.proxy EXCEPT !.userinfo = s.user]
                             ELSE s.proxy
                /\ pc[t] # "preload" =>
                     e.preloaded = {x \in {"http", "https"} :
                                      s.user # "" /\ x \in named}

\* A LibraryError names the reason its own session was refused for, whatever
\* other threads were refused in the meantime.
ReasonIsMine ==
    \A t \in Threads :
        raised[t].error = "LibraryError" =>
            raised[t].reason = CreateRefusal(settings[t])

\* The headers of a call are the request's laid over the session's: nothing
\* lost, nothing twice, the session's order undisturbed, and what build_call
\* adds by itself comes last and only under names nobody has used.
HeaderOrderKept ==
    \A t \in Threads :
        built[t] # NoCall =>
            LET own == built[t].options.headers
                defaults == settings[t].headers
                sent == built[t].call.headers
            IN  \E n \in 0..Len(sent) :
                  /\ IsLaidOver(SubSeq(sent, 1, n), own, defaults)
                  /\ \A i \in (n + 1)..Len(sent) :
                       /\ sent[i].name \notin Names(own) \cup Names(defaults)
                       /\ \A k \in (n + 1)..(i - 1) : sent[k].name # sent[i].name

\* Opening a session comes to an end, with a session or an exception: no
\* creation waits for ever for the lock or for the init thread.
OpenReturns ==
    \A t \in Threads : pc[t] = "create" ~> pc[t] \in {"open", "idle"}
=============================================================================
