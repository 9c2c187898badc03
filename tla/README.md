# Verification of Cronet for Python

TLA+ models of the parts of this repository in which threads meet or a long
sequence of steps decides the outcome: a native call shared by Chromium's
network thread and the Python thread that owns it, the time a request may take,
the engine that calls are started from and closed under, how engines are created
and requests built, its NetLog, the redirect chain that a session with a cookie
jar walks, and the script that probes a SOCKS5 proxy. TLC checks the models on
small instances, and that the call implements an abstract specification. TLAPS
proves that refinement, that the models of the call and of the engine fit
together, and every safety property that holds, for every value of the
constants: any number of threads, any buffer size, water mark, timeout, redirect
limit, list of headers or number of attempts.

## Inventory

### Parts, their state and their operations

| Part | Source | State | Operations |
|---|---|---|---|
| Native call | `native/call.cc`, `call.h` | `state_`, `outcome_claimed_`, the response view, the events `finished_` and `released_`, the eventfd; under `lock_` the request pointer and `destroy_requested_`; under `body_lock_` the body, its offset, `body_complete_`, `read_paused_` | observer callbacks (redirect, response, data, success, error, cancel, destroyed, metrics), `Read`, `Wait`, `Cancel`, `WaitForRelease`, `StartCall` |
| C ABI | `native/c_api.cc` | none | thin wrappers; `cronet_call_free` cancels, waits for release and deletes |
| Python call | `_bridge.py` `Call` | the handle | `drain`, `read`, `wait_for_progress`, `wait_for_headers`, `iter_body`, `result`, `cancel`, `close` |
| Drivers | `session.py` | a countdown, or asyncio's deadline | `Session._perform`, `Session.stream`, `AsyncSession._perform` |
| Session setup | `session.py`, `_bridge.py`, `c_api.cc`, `engine.cc` | the session's defaults, the thread's last error | `_BaseSession.__init__`, `Engine.__init__`, `cronet_engine_create`, `Engine::Create` |
| Engine bookkeeping | `_bridge.py` `Engine` | `_handle`, `_live_calls`, `_calls_in_flight`, the condition `_idle` | `start`, `_claim`, `_release`, `_free_call`, `close`, the finalizer |
| Native engine | `native/engine.cc` | `live_calls_`, `is_shutting_down_`, `is_net_logging_`, `net_log_stopped_` | `Create`, `RegisterCall`, `UnregisterCall`, `Destroy`, `StartNetLog`, `StopNetLog` |
| Global state | `native/global_state.cc` | the pending proxy configuration | installed and removed around the construction of a context |
| Redirect chain | `request.py`, `cookies.py` | pending hop, history, the jar | `receive`, `next_hop`, `store`, `header_for` |
| Value code | `request.py`, `headers.py`, `response.py`, `errors.py`, `tls.py` | none | option guards, merging of headers, bodies, error table, TLS profile checks |
| Probe | `scripts/probe_socks5_udp.py` | a control connection, one UDP socket per attempt | `greet`, `authenticate`, `request_udp_associate`, `relay_a_datagram` |
| Patches | `patches/` | inside Chromium | TLS profile, SOCKS5 authentication, SOCKS5 UDP for QUIC |

### How they interact

The owner's Python thread never runs a callback of the network. It calls
`cronet_call_start`, waits on an eventfd with `poll` or an event loop, drains
it, and then looks at the state or pulls bytes. The network thread runs the
observer, writes the shared `CallState`, and signals the eventfd. Both threads
post tasks to the request, under `lock_`; either may be the one that re-issues a
network read. `_bridge.Engine` counts the calls that are inside the library so
that `close()` on any thread can cancel them, wait for them and only then
destroy the native engine. An engine is created on the caller's thread, but its
context is built on Chromium's init thread, which asks a process-wide variable
which proxy to use.

### What is hard

- the read is handed from thread to thread at the two water marks;
- teardown is a posted task: whatever is posted behind it uses freed memory;
- cancellation, deadline, success and failure race for one outcome;
- results are published in several stores that another thread may see half way;
- the eventfd is drained by one thread while the other signals it;
- `close()` runs while calls start, end and are freed on other threads, and the
  handles it keeps are addresses that the allocator reuses;
- a deadline is counted in whole milliseconds, over several rounds of waiting,
  and passes while the answer arrives;
- two engines created at once share one pending proxy configuration;
- the probe must tell a relay that does not work from datagrams that were lost.

`PROJECT.json` lists these as hazards, each at its line, with the properties
that would catch it.

## Modules

| Module | Stands for |
|---|---|
| `CallState` | one native call with its network thread, its owner and a thread that cancels |
| `AbstractCall` | what a call promises its owner |
| `CallLife` | what a call promises its engine |
| `CallRefinement` | `CallState` implements both |
| `MCCallState` | instances for TLC |
| `CallStateProofs` | its inductive invariant and the theorems |
| `CallRefinementProofs` | the two refinements as theorems, and the redirect count |
| `Engine` | `_bridge.Engine` over the native `Engine`, with any number of threads |
| `MCEngine` | its instances for TLC |
| `EngineProofs` | its inductive invariant and the theorems, for any number of threads and addresses; that it keeps to `CallLife` |
| `NetLog` | `StartNetLog` and `StopNetLog` of an engine, called from several threads |
| `MCNetLog` | its instances for TLC |
| `NetLogProofs` | its inductive invariant and the theorems, for any number of threads, operations not overlapping |
| `RedirectChain` | requests walked hop by hop over a shared jar, beside the native walk of the same responses |
| `MCRedirectChain` | its instances for TLC |
| `RedirectChainProofs` | its inductive invariant and the theorems, for any origins, requests and limits |
| `Deadline` | the three drivers against a clock, from the first hop to the exception or response |
| `MCDeadline` | its instances for TLC |
| `DeadlineProofs` | its inductive invariant and the theorems, for any clock, timeouts, hops and pieces |
| `Request` | the operators a request is checked and built with, no state |
| `SessionSetup` | threads that open sessions and build requests on them (uses `Request`) |
| `MCSessionSetup` | its instances for TLC |
| `SessionSetupProofs` | its inductive invariant and the theorems, for any number of threads and any settings |
| `SocksProbe` | a run of the probe against any proxy, relay and network |
| `MCSocksProbe` | its instances for TLC |
| `SocksProbeProofs` | its inductive invariant and the theorems, for any number of attempts |

Operators commented with *Slip* are variants of the definition that follows
them, with a mistake the code might have contained; they show that a property
can fail and are no part of the specifications.

### CallState

A step is one critical section, one access to an atomic or one system call.
`net` is the network thread's position inside a callback and `own` the owner's
position inside its request, so that a callback such as `Finish` is a sequence
of steps (`Finish`, `WriteResult`, `StoreDone`, `SignalFinished`,
`SignalProgress`) that the owner's steps may come between. The variables are
`CallState`'s members under their own names, without the trailing underscore.

*The request* is external code: `CronetURLRequest`, modelled from its use. It runs
posted tasks in order (`RunTask`, `RunDestroy`), answers each with one callback,
and after `Destroy` calls nothing but `OnCanceled` (if it was asked to),
`OnMetricsCollected` and `OnDestroyed`, then deletes itself. Metrics are
collected just before a terminal callback, or in the teardown task when there
was none, as the comment in `set_metrics` says.

*The owner* is one of three: `perform` (`Session._perform`), `stream`
(`Session.stream` with a consumer that may leave early) and `async`
(`AsyncSession._perform`, whose task may be cancelled at an await). They share
`Drain`, `CheckHeaders`, `Poll`, `ReadResult`, `Read`, `ReadNothing`; they differ
in where a deadline can strike (`Expire`), what a timeout does (`OwnerCancel`
against `RaiseTimeout`) and how they clean up. A `ProtocolDowngraded` raised by
`_checked` leaves the block as `Abandon` does for a stream, and after the
response has been made for the other two.

*Data.* Bytes are counted. Strings, headers and metrics are reduced to whether
they have been written. Error codes are four: none, aborted, too many
redirects, any other. `verdict` (the outcome `Finish` was called with), `sent`
and `got` are history the properties compare the members with.

### AbstractCall and CallRefinement

Seen from its owner a call is five variables: bytes delivered, bytes taken, the
one outcome, what the owner's request was answered with, and whether the call is
still held. `AbstractCall` says what may happen to them: bytes come in front of
the owner by less than the high-water mark plus one network read and never after
the outcome; a response is answered only when every byte has been taken, and
neither a response nor an error before there is an outcome; the call is let go of
once, afterwards. `CallRefinement` maps `CallState` onto it: the outcome is
`verdict` from the moment `outcome_claimed_` is set, and all the stores in between
and all of the waking up are steps the owner cannot tell from nothing.

What it does not promise is that the answer agrees with the outcome: that is
`FailureSurfaces`, and run `call_eof` shows that it fails.

Seen from its engine a call is one variable, the phase of `CallLife`: live,
cancelled, off `live_calls_` (`leaving`), released, free. `CallRefinement` reads the
phase off `registered`, `destroyRequested`, `released` and the owner's position. `Engine`
takes each of its addresses through the same phases.

### Deadline

The same owners as in `CallState`, with a clock instead of threads: the native
call is what can be seen of it (state, error code, pieces buffered, descriptor),
and the network thread does one store and one signal. The clock ticks `U` times a
millisecond, so that the two `int()` conversions of `_timeout_ms` and `_countdown`
cut something off, and only while the owner is blocked or a streaming consumer
is busy with a piece. A timed wait returns when it is due; what a slow scheduler
adds is not the code's. `elapsed` counts from the beginning of the countdown that
is running, `waited` all the time the caller spent blocked on the network.

`_countdown` is `NextRound` (it yields) or `RunOut` (it returns), once per round
of `wait_for_headers` (`HeadersRound`, `PollHeaders`, `HeadersRunOut`) and `iter_body`
(`BodyRound`, `ReadPiece`, `ReadNothing`, `BodyRunOut`). The asyncio driver has its own
rounds and one `asyncio.timeout` around both, which cancels the task where it is
suspended even if it has already been woken (`AsyncioExpires`). A response is
checked for HTTP/3, an error becomes the exception of `error_for`, a timeout
cancels and waits or leaves that to the `finally` clause, and with a jar a
redirect makes another hop with the same options (`FollowHop`).

### Request and SessionSetup

`Request` translates `headers.py` and `request.py` up to `build_call`, and
`_build_request`, as operators: the checks of a request in the order they are
made (`Refusal`), the merge of headers (`WithDefaults`), bodies and what type they
imply, and what `build_call` adds. A header is its folded name, its spelling and
its value; a query or a form is its pairs; percent-encoding, JSON, boundaries
and quoting are left out. The loops over headers are recursive functions of how
far the loop has come. What the merge should be is said without a loop
(`IsLaidOver`): each header has a rank, the place of its name among the defaults and
then its own place, and stands in the merged list where its rank puts it.

`SessionSetup` has each thread open sessions, one at a time: `Open`
(`_BaseSession.__init__`'s checks), `Create` (`Engine::Create`'s), then `Install`,
`PostTaskToInitThread`, the init thread's `InitRequestContext`, `Uninstall` and
`PreloadProxyCredentials`; on an open session `StartRequest` builds a call or
raises. A refusal leaves its reason in the thread's `g_last_error`, from which
`RaiseLibraryError` takes it. `cronet_call_start` may refuse too, without setting one
(`StartRefused`). `InitRequestContext` takes whatever proxy is pending: it is not
told for whom it builds. Proxy rules are the first proxy's scheme and userinfo, the
schemes of the others, and whether the string is a mapping (`https=socks5://b:1080`),
because the two places in Python that look at them test how the string begins
(`StartsWith`). `RulesParse` is what the patched parser of the proxy rules accepts:
credentials in the URL of a SOCKS5 proxy and of no other.

### SocksProbe

The probe's steps are those of the script, one per message or datagram.
`receive_exactly` is `ReceiveChunk` with chunks of any size, `ReceiveEnd` and
`ReceiveTimeout`. The proxy may answer every field with anything and close the
connection at any moment, and the association goes with it. Each attempt has a
socket of its own (`Receive`). The relay either forwards or does not (`honours`); it sends
an answer back to where the probe came from or to where it last heard from, behind a
header with any type of address (`AnswersTo`). The network may lose or delay any probe
or answer (`LoseOrDelay`) or return something else (`Garble`). A datagram is what the script
looks at: its size, two bytes of its header, and at which offsets the bytes stand
that make a Version Negotiation packet; which attempt it answers is history that the
script cannot see. What else comes back is not restricted: garbage malformed at each
boundary in turn, and Version Negotiation packets that answer no probe. A wait ends
without an answer only where there is a reason for it, which is what lets
`LossTolerated` speak of it.

### Engine

Each `with self._lock` block is one step; `idle.wait()` leaves the block, so
`close()` is `Close`, any number of `CloseWoken` and the destruction. A call is
what `CallLife` says of it, and `RequestObserver::OnDestroyed` is two steps:
`UnregisterCall`, under the engine's lock, and then `OnReleased`, for which
`cronet_call_free` waits. Between the two a call is off the engine's list and may not
be freed yet. A handle is an address and may be handed out again once freed. `StartCall` may fail, and its
failing branch also stands for the two NetLog operations, which claim the
engine, make one native call and release it. `NestedClose` lets a thread call
`close()` inside its own stream block.

A call may be *lost* (`Forget`): `Session.stream` starts it and only then works out the
timeout, outside its `try` block, so that a timeout that `int()` refuses leaves a call
that nobody frees and a claim that nobody releases. An engine dropped without `close()`
is destroyed by its finalizer (`Finalize`). Every `Call` refers to its engine, so an engine
that is garbage has no thread inside it; the calls that `Engine::Destroy` then cancels
are the lost ones.

### NetLog

A stop is `StopNetLog` (its critical section), `PostStop`, `Wait` and `Return`. The
context is external: it runs starts and stops in the order they are posted,
completes a stop by flushing the file, and ignores a stop that finds no log, as
the comments in `engine.cc` and `engine.h` say. What a start does that finds a log
running is left open (either log survives). Logs are numbered so that a property
can say which one a stop was called for.

### RedirectChain

A hop is `Send` (`build_call`, which looks at the jar, and the start of `_perform`)
and `Receive` (`store`, `next_hop` and the limit) or `Fail`. Other requests and
`CookieJar.clear` come in between. `NativeWalk` is `OnReceivedRedirect` of `call.cc`
applied to the same responses, for comparison: with `StartCall`'s default of 20 for a
negative limit (`EffectiveLimit`), and with Chromium's notion of a redirect
(`FollowedNatively`: 301, 302, 303, 307 and 308), where `next_hop` takes any 3xx with a
Location. `Calls` are the requests and limits to begin with. A URL is its origin. A cookie is
taken to apply to the origin that set it, since the real rules are
`http.cookiejar`'s. A session's own headers may name an authorization; a cookie
among them is left out.

## Runs

| Run | Checks | Result |
|---|---|---|
| `call` | all properties of `CallState`, the refinement, no deadlock | holds, 528,791 states |
| `call_eof` | `FailureSurfaces` | violated |
| `call_count` | `StreamedRedirectCount` | violated |
| `deadline` | all properties of `Deadline`, no deadlock | holds, 4,433,680 states |
| `deadline_total` | `TotalIsTheTimeout` | violated |
| `engine_lifecycle` | all properties of `Engine`, no deadlock | holds, 124,908 states |
| `engine_nested` | `CloseReturns` with `NestedClose` | violated |
| `session_setup` | all properties of `SessionSetup`, no deadlock | holds, 424,683 states |
| `netlog_serial` | all properties of `NetLog`, operations not overlapping | holds, 1,423 states |
| `netlog_race` | `StopReturns`, operations overlapping | violated |
| `redirect_walk` | all properties of `RedirectChain`, no deadlock | holds, 356,732 states |
| `socks_probe` | all properties of `SocksProbe`, no deadlock | holds, 1,867,570 states |

`deadline` shows what a timeout does mean: a caller is kept for no longer than its
timeout for each countdown begun (`WithinBudget`: one per hop with asyncio, two
otherwise, whatever a streaming consumer does in between); a timeout comes less
than two milliseconds early (`NotEarly`); headers the network thread has signalled
are never lost to the deadline (`HeadersBeatTheDeadline`); and a request that gives up
raises `Timeout`, never the cancellation it asked for (`OwnTimeoutIsNoCancel`), except
where a streaming consumer gets the builtin `TimeoutError` (see below).

`session_setup` shows that the lock in `ScopedPendingProxyConfig`, held across the
wait for the init thread, is enough to give each engine its own proxy and does
not hold anybody up for ever; that a session's credentials end up in the URL of a lone
SOCKS5 proxy and in the auth cache for each http and https proxy, and nowhere else; that a refusal's reason is the thread's own; and
that header merging meets a definition that has no loop in it.

`redirect_walk` shows that a jar's walk ends as Chromium's own would, for limits that are
not negative and redirects that Chromium follows.

`engine_lifecycle` shows that `close()` returns with the engine destroyed unless a call
was lost, that `Engine::Destroy` meets no call a thread still uses, and that it leaves no
lost one running.

`socks_probe` shows that the probe ends whatever the proxy does, that an answer of the
target makes it say yes however the relay has wrapped it (`VerdictFollowsTheAnswer`), and
that it calls a relay that forwards unresponsive only if all three attempts were lost or
late. That every yes is such an answer it does not show, because it is not so (below).

### What the violated runs show

1. **A failure can be returned as a response** (`call_eof`). `Finish` sets
   `body_complete_` and releases `body_lock_` before it writes `error_code` and
   stores `CRONET_CALL_DONE`. An owner that reads in between is told `CRONET_EOF`,
   asks `call.result()`, which looks at `error_code` whatever the state is, finds 0,
   and returns the truncated body as a success. `session.py` says of that call
   that it "also surfaces a failure that arrived mid-body". Setting
   `body_complete_` after the result has been written would repair it.
2. **A streamed response can miss its redirects** (`call_count`). The count is
   set after `OnResponse` has already stored `CRONET_CALL_HEADERS` and woken the
   owner. Responses read whole are not affected (`ReturnedRedirectCount`).
3. **close() inside one's own stream block never returns** (`engine_nested`). It
   waits for a call that only the waiting thread can free.
4. **StopNetLog may never return** (`netlog_race`). It clears `is_net_logging_` under the
   lock and posts the stop after unlocking. A start on another thread that falls in
   between is posted first, the stop ends the only log there is, and
   `is_net_logging_` stays set: the next stop waits for a completion that never
   comes. Whichever of the two logs survives their meeting makes no difference.
5. **A request may take twice its timeout** (`deadline_total`). `Session._perform` gives
   the whole timeout to `wait_for_headers` and the whole of it again to
   `iter_body`. A server that sends its headers just in time and then trickles the
   body keeps the caller for nearly twice the `timeout=` that `request.py` documents as
   "Seconds this request may take". `AsyncSession` has one limit for both. With
   a jar every hop starts again, in both.

### Seen while modelling, without a run

- `StartCall` posts `Start()` outside `lock_`. With the C ABI alone,
  `cronet_engine_destroy` on another thread may cancel in between, so that Start
  stands behind Destroy in the queue (`BareEngine = TRUE` in `CallState`; the theorem
  `TypeCorrect` covers that case, the others do not). Through Python it cannot
  happen: `close()` reaches a call only after `start()` has returned, and
  `Engine::Destroy` meets none but lost calls (`DestroyMeetsOnlyTheLost`).
- A stream whose timeout cannot be converted (`timeout=float("inf")` or `nan`) raises after
  its call has been started and before the `try` that closes it. The call is lost, and
  a later `close()` waits for it for ever, where `_bridge.py:514` says "Cancel everything
  in flight, wait for it, then destroy the engine". `CloseReturns` and `ClosedIsDestroyed`
  except this case; `Session._perform` is not exposed to it.
- A negative `max_redirects` means the default of 20 without a jar, as `cronet.h:155` has
  it. With a jar it reaches `RedirectChain.receive` as it is, and the first redirect
  raises `TooManyRedirects`.
- `next_hop` follows any 3xx with a Location, 300, 304 and 305 among them, which Chromium
  hands over as responses; so such a response is returned without a jar and followed
  with one, where a comment in `receive` says "exactly as it does when Chromium is
  the one following".
- With a jar every hop is a native call of its own with a limit of 0, and the
  chain fills in `history` but not `redirect_count`, which stays 0.
- A 303 answer to a GET that carries a body drops the body although the method
  does not change, while the comment in `next_hop` says that only a method change
  does.
- `iter_body` documents its TimeoutError as "The call made no progress within the
  time allowed"; its countdown is for the whole body, progress or not. A streaming
  consumer gets it as the builtin `TimeoutError`, which is no `CronetError`, where
  `README.md:415` and `errors.py:11` say that everything raised derives from it.
  `OwnTimeoutIsNoCancel` says nothing of a stream for that reason.
- `proxy_username` is documented for http and https proxies only (`session.py:124`,
  `README.md:79` and `257`, `cronet.h:82`), while `with_proxy_credentials` folds it into a lone SOCKS5
  URL and says so. A SOCKS5 proxy in a mapping (`https=socks5://b:1080`) gets the
  credentials nowhere, without a word, and `require_http3=True` refuses it as no SOCKS5
  proxy. `EnginesKeepTheirProxy` states what the code does.
- A failure in the middle of a streamed body ends the iteration like a complete
  one: nothing calls `result()` again. After a `read()` that raised, a second
  `read()` returns an empty body.
- `with_proxy_credentials` drops the brackets of an IPv6 host, and raises ValueError for a
  rule list that begins with a SOCKS5 URL, which its docstring says is "returned
  untouched". It also folds credentials into a `socks4://` URL, though the docstring
  speaks of "a lone SOCKS5 URL"; the patched parser accepts userinfo for SOCKS5 only,
  so that session is refused with "proxy_rules could not be parsed".
- `cronet_call_start` sets no `cronet_last_error`, so `Engine.start` may report the reason
  of an earlier failure on the same thread.
- The probe reports a relay at an IPv6 address as "could not reach the proxy".
- It never compares the id that `quic_probe` says the answer "must echo"
  (`probe_socks5_udp.py:209`): any Version Negotiation packet makes it say that the proxy relays
  UDP. And it stops at the first datagram it receives, so that a stray one makes it
  say no although attempts are left.

### Bounds, and why they are enough

`call` has a high-water mark of 2, a low-water mark of 1, network reads and chunks
of up to 2 bytes, a body of up to 4 bytes and up to two redirects against limits of
0, 1 and the default 20. A body of 4 passes the high-water mark by one byte, pauses,
resumes and can pause again; reads of 2 land on the mark and beyond it; two
redirects run past a limit of 1, take 0 and stay within the default. The theorems
below hold without any of these bounds on sizes; `BodyBound` and `HopBound` are
arbitrary naturals there.

`deadline` has two ticks to a millisecond and timeouts of none, a negative one, half a
millisecond (which becomes 0), two and two and a half milliseconds: every
conversion cuts something off in one case and nothing in another, and a countdown
has several rounds. Two pieces of body make a streaming consumer stop between
pieces; one redirect makes a second hop; the network errors are one that counts
as a timeout and one that does not.

`session_setup` has two threads of two sessions each. The sessions differ in what
refuses them, and in where their proxy's credentials belong; the requests in what
refuses them, in their bodies and in how their headers meet the session's, with
names repeated on either side; the proxies are alone, in a list or in a mapping, with
an http or a SOCKS proxy first. A thread that fails first and succeeds or fails
again afterwards meets what its first failure left behind.

`socks_probe` has the script's three attempts, every kind of URL and of userinfo, and
messages of the real lengths, so that each can arrive in any number of chunks.

`engine_lifecycle` has three threads of two operations and two addresses: two threads
may be in calls while a third closes, a fourth actor being the network thread; a
freed address is reused while another thread still closes; one call or both are lost
while the others go on.

`netlog_serial` has two threads of four operations, so that a log is started and
stopped several times and the event carries over from one stop to the next.
`redirect_walk` has two requests, two origins and limits of -1, 0, 1 and 2: a walk of two
hops leaves its origin and returns, meets the limit, and changes its method on
either hop, while the other request stores cookies and a third party clears them.

### Fairness, and why the code justifies it

- The network thread and the owner's thread are scheduled, and every step of
  `Network` and `Owner` is one that nothing but its own guard delays.
- `Expire`: a deadline passes, if the request has one.
- `Server` is fair only for requests without a timeout. A request with a timeout
  ends although the peer never answers; one without needs its peer, and the code
  promises nothing else.
- A streaming consumer is assumed to read on or to leave its block.
- In `Engine`, only a *cancelled* call is assumed to be unregistered and released
  (`CancelReleases` of `CallState`), and a thread leaves its block at some time
  once its call has ended. Nobody is obliged to start, to close or to let a live
  call end.
- In `NetLog` and `RedirectChain`, whoever has begun an operation goes on with it, and
  a hop ends (`CallEnds`). Nobody is obliged to start or stop a log, or to clear
  the jar.
- In `SessionSetup`, a thread inside the constructor and the init thread are
  scheduled. Nobody is obliged to open a session, use it or close it.
- In `SocksProbe`, the probe itself goes on, because every socket it waits on has a
  timeout; a relay that forwards does so unless the probe is lost first.
- `Deadline` has safety properties only and needs none.

## Proofs

Each `*Proofs` module proves its component's properties as theorems of `Spec`, for
every value of the constants that its named assumptions allow. All go the same
way: an inductive invariant `IInv`, a conjunction of named parts, that TLC has
confirmed on the component's run; a lemma for each part or each action, with one
step per action; and the properties as consequences. The assumptions only give the
constants their types, except where said below. No theorem uses the bounds of the
runs: `BodyBound`, `HopBound`, `OpBound` and the like are arbitrary naturals.

### The call (`CallStateProofs`, `CallRefinementProofs`)

From `WaterMarks` (the low mark is below the high one, buffers are not empty) and
`Choices` (the other constants have their types):

- `TypeCorrect`: `TypeOK`, with or without `_bridge.Engine`'s guard;
- with the guard (`BareEngine = FALSE`), `PostingRule`, `SingleOperation`, `BufferIsBounded`,
  `PauseIsTheOwners`, `NoWakeupLost`, `EofTheorem`, `FreeIsSafe`, `LastResort`,
  `RedirectsCounted`, the action property `FirstOutcomeIsFinal`, and `Refinement`:
  `CallState` implements `AbstractCall`.

They follow from `Invariance`, the inductive invariant `IInv`. None of the
properties is inductive by itself, because each depends on where both threads
stand:

- `NetInv` ties `net` to what the request is doing;
- `PostInv` says when the request is attached and who may have asked for
  teardown, `QueueInv` that the queue holds at most one operation, followed by at
  most one Destroy;
- `ParkInv` is the heart of the backpressure: while the read is parked with the
  owner (paused, or about to be resumed) the response is open and the network
  thread is not about to issue a read itself, and with `QueueInv` none is queued;
- `RoomInv` says that whoever may issue the read has room for what it brings;
- `BodyInv` counts bytes: what was sent is what was handed over plus what is
  buffered;
- `OutcomeInv` orders the stores of `Finish`, `ReleaseInv` those of `OnDestroyed`
  and `OnReleased`;
- `WakeupNeverLost` is inductive once these are known.

`ToldInvariance` adds what the owner has been told: `AnswerInv`, that it has an
answer exactly where it unwinds and only with an outcome behind it, and
`CountInv`, that the count is right from `set_redirect_count` on and that an owner
past the headers cannot be told of a success before it. The refinement takes one
step per action (`NextRefines`): `Deliver` for data, `End` where the outcome is
claimed, `Take`, `Answer` and `LetGo` for the owner's, and a stutter for everything
else, which is nearly every store and all of the waking up. `RoomInv` is what bounds
a delivery, `BodyInv` what lets a response be answered only with the body taken.

`LifeRefinement` says that `CallState` implements `CallLife`. Nearly all steps leave the
phase alone (`UnseenByEngine`); `ReleaseInv` is what orders `UnregisterCall`, `SignalReleased`
and the owner's `WaitForRelease`.

### The engine (`EngineProofs`)

From `EngineConstants`. `CountInv` is the heart: `_calls_in_flight` is the number of
threads that hold a claim (`Holders`), a set that each step changes by at most the
thread that takes it (`NextHolders`), and of calls that were lost with theirs. `OwnInv` says that a call that has not been
freed is the call of exactly one thread or of none any more, which is why a reused address harms nobody;
`ListInv` what the two lists of calls hold; `CloseInv` that the engine is let go of
once nobody holds it and nobody can claim it. Theorems: `OutlivesItsUse`,
`NothingEscapes`, `DestroyAlone`, also with a thread that closes inside its own call;
`ListedOwned` without such a thread, whose call stays listed while it waits.

The two models rely on each other, and the proofs meet in the middle:

- `Engine` takes for granted that a call goes through the phases of `CallLife`.
  `CallsLive` proves that it asks for nothing else, for each address; `LifeRefinement`
  that `CallState` does nothing else.
- `CallState` takes for granted, with `BareEngine = FALSE`, that the engine cancels a
  call only between the return of `cronet_call_start` and the end of its claim (the
  guard of `EngineCancel`). `CancelsAreGranted` proves it of `Engine`, `Engine::Destroy` included.

Neither argument is circular: each theorem is about the steps of its own model, and
the guarantee of a step rests on the other side's earlier steps only. The liveness
half of the contract, that a cancelled call is released, is `CancelReleases`, which
TLC checks.

### The NetLog (`NetLogProofs`)

From `Serialized`: without it `netlog_race` shows what happens. `RestInv` says that
between stops the flag tells whether the newest log has been asked for or all is
quiet, `StopInv` how far the one stop under way has got and what is queued for it.
Theorems: `StopFlushes`, `FlagTrue`.

### The redirect chain (`RedirectChainProofs`)

From `ChainConstants`. The properties speak of the message sent; the invariant says
the same of the hop that is pending (`SecretInv`, `BodyInv`), that the jar keeps what a
walk has learned (`JarInv`), and that a walk under way has no verdict and is within
its limit (`WalkInv`); a walk that has met a redirect Chromium would not follow is
marked, and nothing is claimed of it. Lemmas about `BuildCall`, `NextHop` and the native walk carry one
over to the other. Theorems: `StayHome`, `BodyMethod`, `CookiesReach`, `SameAsNative`.

### Session setup (`SessionSetupProofs`)

From `SetupAssumption`, which says that rules Chromium can parse have one of the
schemes the documentation lists. `LockInv`: whoever is building holds the lock alone,
and what is pending is its own; `TaskInv`: the init thread has at most the task of the
thread that waits. So `InitRequestContext`, which is not told for whom it builds,
builds for the right one (`BuiltInv`). `PreloadInv` and `AcceptedInv` place the
credentials: `CredentialPlace` shows that of the rules `with_proxy_credentials` would change,
`__init__` refuses the lists and the parser SOCKS4. `ReasonInv` is about the reason of a
refusal. Theorems: `KeepTheirProxy`, `ReasonMine`. The first attempt at `KeepTheirProxy` failed for SOCKS4 with credentials,
which the model then let into an engine; the parser refuses it, and `RulesParse` now
says so.

*Headers.* `HeadersInOrder` proves `HeaderOrderKept` for any lists of headers, in two halves.

`WithDefaultsInOrder` is about the loop of `with_defaults` alone: for any two lists its
result is `IsLaidOver`. This is an induction over data. The library's induction
theorems take the property as an operator, which these provers cannot instantiate;
here the property is a *set* of naturals instead. `LeastNatural` gets the least
element of a set from the well-founded order of the naturals, `SetInduction` follows
from it, and `Recursion` shows by that induction that the recursive functions of
`Among` and `WithDefaults` exist and meet their equations (`AmongLoop`, `LayLoop`). The
loop invariant (`LaidInOrder`) is that after `i` defaults the result holds, in order,
exactly the headers whose rank is at most `i`, and `emitted` the names of `own` met so far;
`ConcatInOrder` appends one block of ranks behind another, by counting them.

`CallsMadeFrom` is about the threads: its invariant `CallInv` says that the call a
thread has built was made from that thread's settings. `AdditionsLast` adds what
`build_call` appends under names nobody has used.

### The probe (`SocksProbeProofs`)

From `ProbeAssumption` and `GarbageAssumption`, which give the constants their types.
`HeaderFacts` is that `strip_header` finds where a header of any type ends, `AnswerFacts` that an
answer of the target passes every check. `AnswerInv`: an answer that comes back is to a
probe that got there, and only a probe that has stopped waiting has one; `LossInv`: every attempt given up had the network against it, provided
the relay forwards and the connection is open; `LetInInv` and `RelayInv` the order of
the handshake. Theorems: `AnswerDecides`, `LetInFirst`, and the action property
`EveryAttemptUsed`.

### Deadlines (`DeadlineProofs`)

From `ClockAssumption`. `RoundInv` is the heart: what a round was given, or the poll
it has come to, ends less than a millisecond before the whole countdown and, added
to the time already spent blocked, not after it. The second half is what survives a
streaming consumer that takes its time between two pieces, when `remaining` is
stale. `BudgetInv` adds up countdowns and hops; it needs products of variables, which
the lemmas about `TimeoutMs` and shares of it isolate. `OutcomeInv` and `ReportInv` tell
the driver's own cancellation from others', `SeenInv` that the descriptor stays
readable for what was signalled since the owner last looked. Theorems:
`BlockedWithinBudget`, `TimeoutsAreTimeouts`, and the action properties `NeverEarly` and
`SignalledHeadersWin`.

### Only model-checked

- The liveness properties `CallEnds`, `CancelReleases`, `CloseReturns`, `ClosedIsDestroyed`,
  `StopReturns`, `WalksEnd`, `OpenReturns` and `ProbeEnds`: fairness and ENABLED are outside
  what TLAPS handles.

Everything else that the passing runs check is a theorem.

## Not modelled, and why

`PROJECT.json` gives the reason for each part. In short: the generated binding,
loading it and the build scripts have no behaviour over time; text decoding, JSON
and `raise_for_status` are pure accessors; the patches modify Chromium, whose
surrounding code is not in this repository. An iterator kept beyond its stream
block reaches a freed call, which `Session.stream` documents as not readable; the
consumers modelled here keep to that. Interpreter shutdown is not modelled. Memory
ordering weaker than sequential consistency is not modelled: `state_` is stored
with release and loaded with acquire, the other shared members are under locks,
and `outcome_claimed_`, which is relaxed, only elects a winner.

## Plan

Done: the models of all parts that carry the program's own logic, the refinements
of `AbstractCall` and `CallLife`, and proofs of every invariant, action property and
refinement that holds. Left, in this order:

1. `Deadline`'s view of a call (state, error code, pieces, descriptor) as a refinement
   by `CallState`, as `CallLife` is now for the engine's view.
2. The SOCKS5 handshakes of the patches, as far as the patches show them.
