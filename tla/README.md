# A TLA+ model of sniffy

sniffy is an intercepting proxy: it captures the HTTP, WebSocket and streaming
exchanges of its clients, runs them through user hooks (JavaScript plugins,
rules, breakpoints), forwards them over a transport of its own, and shows them
live in a web or desktop interface. This directory models the core of the
program in TLA+, checks it with TLC and proves its safety properties with TLAPS.
Every definition is translated from the Go source; `PROJECT.json` names the
lines (`map`), the runs, the hazards and the theorems.

## 1. Inventory

What the system consists of, the state each part keeps, who calls it, and what
makes it hard. "M" marks what is modelled, "P" what is modelled in part,
"-" what is not; section 7 gives the reasons.

| Component | State | Operations and callers | Hard behaviour | Correct when |
|---|---|---|---|---|
| M Breakpoint manager, `internal/pipeline/breakpoint.go` | map of paused flows, one-slot channel per pause, `f.State` | `Pause` by handler goroutines; `Resume`, `Abort`, `List` by API goroutines; emits hit and resolved | the timer races an accepted answer; two clicks race; the limit on open pauses; a panicking emitter | no entry leaks, answers come from calls, resolved is emitted last |
| M its rules, and the rule list, `internal/service/rules.go`, `internal/api` | rules, their order, a file, global switch, wildcard cache | CRUD by user interfaces, `ShouldBreakFor` by handlers | concurrent toggle and update, interfaces that act on old copies, a save that fails | no update is lost, order, map and file agree |
| M Hook decisions, `internal/flow/decision.go`, `internal/pipeline/pipeline.go` | none | `OnRequest`, `OnResponse`, the message loops | order of aborts, mocks and breakpoints | a decision depends on the hooks as documented |
| P Hook registry, `internal/pipeline` | the ordered hooks | `Register`, `Clear` by the plugin manager; snapshots by handlers | reload while exchanges run | the pipeline calls the loaded instances |
| M Rule engine, `internal/rules` | none between flows | a hook | order, conditions that see what earlier rules changed | by priority, each as it says |
| M Flow pipeline, `capture/processors/http` | local state of each exchange | one goroutine per HTTP/1 connection or HTTP/2 stream | every write can fail; HTTP/2 aborts by panic; bodies cut short | recorded once, what the proxy cuts short is seen to be, aborts stop bytes |
| P Stream relay and recorder, `streaming.go` | scanner buffers, session, copies of it | the handler relays the response, a request pump runs beside it | reads cut anywhere; two directions that wait for each other; copies overtaken, add after close | nothing passes unrecorded or after an abort, no deadlock, every session ends closed |
| M Message fidelity, `internal/flow/http.go`, `order.go` | none | handlers, hooks | order and spelling of lines, hop-by-hop fields, encodings, lengths after an edit | lines and body agree; what was not touched is repeated |
| M HTTP/1 connection loop, `processor.go`, `proxy_auth.go`, `tunnel.go`, `tls.go` | a connection and its deadlines | one goroutine per connection | keep-alive, credentials that change, CONNECT, bodies left unread, silent clients | nothing unauthorized gets through, no desynchronised request, every connection ends |
| M WebSocket processor | two pumps, one session | two goroutines per connection, a resolver | close from both sides, blocked writes | order kept, recorded before passed on, both end |
| M Forward transport, `internal/forward/transport.go` | pool of upstream connections | handlers; the switch of the upstream proxy | stale connections retried, cancelled trips, a proxy switched under a trip | a connection has one owner, an answer belongs to its request, no double send |
| M Capture listener, `capture/tcp_listener.go` | listener, connections, counter | `Start`, `Stop`, accept loops, handlers | stop while connections arrive, and wait for peers | no connection escapes a stop, a restart serves |
| M Event bus and hub, `internal/core/events.go`, `internal/api/ws_hub.go` | buffered channels, registered clients | published by everybody; one read and one write pump per client | full buffers, clients dropped while they are served | in order, gaps only where a buffer was full, no channel closed twice |
| M Session stores, `internal/service/sessions.go` | order, map, capacity, eviction callback | `put` by handlers and resolvers; delete, clear, `setCap`, `list` by the API | two containers that must stay one set; callback after the lock | order = map, bounded, nothing leaves silently |
| P Recording, `internal/service/service.go` | recording switch, store, statistics | `RecordFlow*` by handlers, `ImportFlow*` by resend, resolver goroutine | check, then put; late updates | what is captured is counted once and announced in order |
| M Body cache, `internal/bodycache` | order, sizes, total, budget, files | entries by relays; `Remove` by the store's callback | files are deleted after the lock is released; crash | accounts = directory, within budget |
| M Configuration, `internal/service/config.go`, `service.go`, `app/bootstrap.go` | config, file, running settings, the OS proxy | updates by the API, start, shutdown | two locks, a file rewritten in place, crashes, a dead proxy setting | the runtime works with what is stored, and a start repairs |
| M Server certificates, `servercert.go` (twice) | items, file, the list handshakes use | import, delete, lookup by name | write and hand-over are two steps | the handshake picks the best that is stored |
| P Plugin manager, `internal/plugin/manager.go` | instances, directories, failed list | load, enable, save, create, delete, update, close | swap while flows call, crashes between writes, closed instances | table, pipeline and disk agree |
| P JavaScript plugins, `internal/plugin/js` | a VM and its goroutine, mailbox, watchdog, store and flusher | hooks, manager | interrupt that comes late, callers that give up, flush against delete | nobody is interrupted for another, a store is carried on |
| M Child windows, `internal/desktop/windowgc.go` | table of windows, timers | `OpenWindow`, closing hooks, timers | a timer that fires while the window is reopened | a reopened window lives |
| P Engine, management API, desktop shell | little of their own | | | (with the components they assemble) |
| - Throttle, process resolver, certificate authority, OS integration, web frontend | | | | section 7 |

How the parts interact around the life of a flow:

    client -> Listener -> ClientConn -> handler (FlowPipeline) -> Transport -> upstream
                              |            |    |
                              |            |    +-- hooks (Decisions): Rules, Plugins -> PluginCalls,
                              |            |        Pause (Breakpoint) <- UI (RuleBook)
                              |            |-- StreamRelay (Scanners) / Framing
                              |            |-- relay -> body cache (BodyCache)
                              |            +-- RecordFlow* -> store (Recording, SessionStore) -> EventHub -> UI
                              +-- WebSocket -> its session store -> EventHub
    store --onEvict--> body cache (CachedBodies)
    UI -> Settings (Account), ServerCerts, Plugins, Windows

## 2. Modules

| Module | Models | State and actions |
|---|---|---|
| `Breakpoint` | `Pause`, `unpublish`, `Resume`, `Abort`, `deliver` | `paused` (the map), `chan` (resume channel of each pause), `step`/`at` (where a handler is in `Pause`), `callStep` (where a UI call is in `deliver`). One action per critical section or channel operation: `Publish`, `PauseFull`, `EmitHit`, `EmitPanics`, `Receive`, `TimeOut`, `Unpublish`, `Resolve`; `Lookup`, `Send` |
| `RuleBook` | both rule lists and their API handlers | order, items and file of the interception rules, the file's two half-steps; the breakpoints, the copies the interfaces hold and what a user last `said` |
| `Patterns`, `Rules` | breakpoint URLs, scope hosts and plugins' lists; `internal/rules/engine.go` | functions of texts, rules and flows |
| `Matching` | what users write of both | `rules`, a list that grows (`CreateRule`), `pattern`, typed letter by letter, and a `text`; at each point they are used on the flows of `FlowsMet` |
| `Decisions`, `HookChain` | `Merge`, the loops of `OnRequest`, `OnResponse`, `On...Message` | functions of the sequence of hook results; `answers`, the results so far, one hook a step |
| `FlowPipeline` | `runFlowPipeline`, the three relays, the responders, the end of an exchange | `ex[f]`, a record of the handler's locals, and the manager's variables (`INSTANCE Breakpoint`). `todo` is the list of the calls a handler has still to make; their order is the code's |
| `StreamRelay` | `runResponseStream`, `runGRPCStream`, `pumpResponseStream`, `emitStreamMessage`, `streamRecorder` | `pc[g]` (where handler and pump are), `rec` (the session), `snap[g]` (a copy not yet handed to the sink), `stored`, and for each direction what was sent, read and passed on. One action per critical section, read, hook, write and hand-over |
| `Scanners` | `sseScanner`, `grpcScanner`, the writes of `dispatchChunk`, the peek at a head | `scanner` (its buffer, what it returned and what was written on) and `stream`, all that was read; one action per read, of any bytes in `SSEReads` or `GRPCReads` |
| `Framing` | capturing, editing and writing back the lines of a message; `Content-Length`, `Host`, encodings, hop-by-hop fields | functions of the lines received |
| `Fidelity` | reading the lines of a head, hooks that edit the table and the body | `received`, the lines of a message, one more a step; at each point the message is edited and sent in every way |
| `ClientConn` | detection, the request loop, proxy authorization, CONNECT, handshake, tunnels | `at` (where the goroutine is), the deadlines in force (`readBy`, `writeBy`), whether a body was left, what each request `effects` |
| `WebSocket` | the pumps, the frame hook, the recorder, the resolver | `pump[w]`, the frame in hand, frames sent, passed and aborted, `session`, and the copies on their way to the store (`copy`, `kept`) |
| `Transport` | round trips, the pool, guards, retry; `SetUpstreamProxy` of the engine | `trip[r]`, `link[c]` (with what is still to be read of it, `buf`), `idle` (the pool per proxy), `proxy`, `dropping` |
| `Listener` | `Start`, `Stop`, accept loops, handlers, `closeAllConns` | one action per critical section or blocking call; `running` is the wait group's counter |
| `EventHub` | `Publish`, subscriptions, the hub's loop, the clients' pumps; the desktop's forwarding | `channel` (each subscriber's buffer), `client[c]` with its send buffer; `taken` and `missed` are history |
| `SessionStore` | the session store | `order`, `items`, `cap`, `evicting` (out of the store, `onEvict` not yet called) |
| `Recording` | the service's recording functions | extends `SessionStore`; the handler and the resolver of each flow step through their accesses to switch, store, statistics and bus |
| `Paging` | `pageParams`, `pageBounds`, `hasNext` | arithmetic on words whose largest is `MaxInt`; a client that turns the pages (`asked`, `seen`) while flows arrive (`length`) |
| `BodyCache` | the cache of large bodies | the accounts, the directory, the entries, and `unlinking`: what each goroutine still has to delete after it released the lock |
| `CachedBodies` | relays, store and cache together | extends `BodyCache`, instances `SessionStore`; adds the callback, a path that is published after the commit, and crashes of the process |
| `Settings` | merging, saving and applying updates; start and shutdown | `cfg`, `file`, `engine` (what runs), `osProxy`, each `update` with its step |
| `Account` | the upstream proxy's account | functions of the configuration `account`, which a start loads and `Reconfigure` patches |
| `ServerCerts` | both certificate modules | `certItems`, `certFile`, `offered` (what handshakes use), each call with its step |
| `Plugins` | the manager, and the store of each instance with its flusher | `inst` (every instance built), `plugins` (the table), `hooks` (the pipeline), `disk` (directories), `request` (the UI's calls, one action per lock or file write), flows that call instances |
| `PluginCalls` | one VM: mailbox, watchdog, quit | `calls`, `reply`, `loop` (the goroutine), `timer` per call, `flag` (the VM's interrupt) |
| `ScriptView` | what a script sees and what is taken back | functions of an `exchange` and of the `result` its script works on; the script is the environment, one assignment at a time |
| `Windows` | `OpenWindow` and `childWindowManager` | `window` (screen, record, epoch), `known` (the table), `fired` (callbacks that wait for the lock), `dying` |
| `MC...`, `MatchingCases` | instances for TLC | bounds, symmetry, reference definitions, cases |
| `Selection` | `Only`, the part of a sequence that is in a set | a function of a sequence and a set |
| `BreakpointProofs`, `FlowPipelineProofs` | theorems on breakpoints; on hooks, exchanges, scripts' edits, rules and patterns | section 5 |
| `RecordingProofs`, `CachedBodiesProofs` | on the store, recording, pages; on bodies | |
| `UpstreamProofs`, `NetworkProofs` | on transport, streams and messages; listener, connections, WebSockets, hub, scripts | |
| `ManagementProofs`, `SequenceLemmas` | on windows, configuration, certificates, rules, plugins, the account; lemmas | |

**Composition.** Components that interact are composed: `FlowPipeline` with
`Breakpoint`, `Recording` with `SessionStore`, `CachedBodies` with `BodyCache`
and `SessionStore`. Components that only exchange outcomes are not: what
`Transport` answers is an outcome in `FlowPipeline`, and what happens to a
request is an outcome in `ClientConn`. To check the latter without a run for
each, `MCManagement`, `MCUpstream` and `MCNetwork` put several components in
one specification with a variable `subject`: a behaviour is about one of them
and the others stay as they began. The states of such a run are the sum of the
components' states, not their product, and every property is checked in all of
them.

The abstract specification of a component is the module of that component; the
detailed one is the module that composes it. Three such implementations are
stated: `FlowPipeline` implements `Breakpoint` (`UsesManager`, proved),
`Recording` implements `SessionStore` (`RecordingUsesStore`, proved),
`CachedBodies` implements `BodyCache` (`BodiesUseCache`, proved). The first one
is not by construction: in `FlowPipeline` a handler writes `f.State` and enters
`Pause` unconditionally, where its code does; that it never does so while the
manager owns the flow is what the property says.

## 3. Runs

| Run | Instance | Checks |
|---|---|---|
| `breakpoint` | 2 flows, 2 phases each, 2 UI calls, limit 1 | the map (`MapSound`: types, limit, leaks), where answers come from, that no accepted call is lost silently, resolved after unlisting |
| `algorithms` | see below | `ChainsDecide`, `PagesSound`, `ReadsDoNotMatter` (scanners), `WireSound` (framing), `RulesMean` (rules and patterns), `AccountKept`, `ScriptsEdit`, each against a definition of another shape |
| `flow` | 1 exchange, both protocols, every route, 2 UI calls | `ExchangeSound` (recorded once; the connection goes on only after one reply that ends as it says), `RecordTells` (the record agrees with the wire, cached copies are whole), `ExchangesEnd` (exchanges and calls end) |
| `flow_pair` | 2 exchanges, limit 1 | `AbortStopsBytes`: an abort stops its own bytes; `UsesManager` |
| `flow_mock` | 1 exchange | **violated**: finding 1 |
| `cached_bodies` | 2 flows, 1 manager, budgets 1 and 3, bodies up to 2 | accounts, files, eviction order; `CopiesFollowFlows`: which copies may outlive their flow (the leak the code names) and which must be kept |
| `management` | six components behind the user interfaces | `RecordingAgrees`, `StoreSound` and `StoreKeeps`; `SettingsAgree`; `WindowsLive`; `CertsAgree`; `BookSound`; `PluginsSound` |
| `plugin_reload` | one plugin, three instances | **violated**: finding 4 |
| `upstream` | the transport, and a stream relay | `PoolSound`, `AnswersMatch`, `CancelledEnds`; `StreamSound`, `RelayEnds` |
| `upstream_informed` | the transport | **violated**: finding 3 |
| `stream_final` | a stream relay | **violated**: finding 2 |
| `network` | bus and hub, one VM, listener, one connection, one WebSocket | `EventsInOrder`, `InterruptsOwn`, `ListenerSound`, `ConnSound`, `WebSocketSound`; `ConnectionsEnd`, `ServantsEnd` |

**The bounds, and why they are enough.**

* A breakpoint hazard needs two parties: a flow and a call, two calls on one
  flow, or two flows and one place. The run has two of each, and one place so
  that the limit is met. Both pauses of a flow are there because an answer to
  the first must not reach the second.
* `flow` has one exchange because exchanges share nothing but the manager,
  whose sharing `flow_pair` and `breakpoint` cover; each of the eight hook runs
  is one representative of a decision with or without a pause, and `algorithms`
  covers the sequences behind them, of up to five hooks.
* `algorithms`: in 6-bit words (`MaxInt` is 31) every way in which the product
  of page and size can wrap occurs. Seven bytes, in reads of one to three, hold
  two SSE events with every kind of blank line, or two gRPC frames and the
  beginning of a third that is too long. Three rules are one that changes what
  the next one sees and one that stops the third. Four letters hold every order
  of two literals and two stars. Three header lines hold a repeated name with
  another between them, a folded line or one without a colon among them, in any
  combination of the names the code treats specially. What hooks set is no
  edit, a name with fewer, other or more values, and a new name with a coding
  of its own.
* A store of two flows at capacity one evicts at the second put and puts an
  evicted flow back. Budgets 1 and 3 with bodies of 0 to 2 include a body larger than the
  budget, two that fit and two that do not.
* `management`: two overlapping updates that name the same setting or
  different ones, one applied at every update, one when it is named, one when it
  changes and two only at a start, with failing saves, a crash at any step and a
  second start; three windows
  are one that is dying, its successor, and the one of a second caller; two
  certificate calls overlap, over four certificates that differ in each way the
  choice looks at (by name or wildcard, renewed, expired); one editor with an
  old copy and five edits covers update after delete and toggle after update;
  two requests to one plugin and a stop. Two plugins share only the locks,
  which serialise them.
* `upstream`: one trip that may be replayed and cancelled and one that may not
  be either; two connections and one place in the pool of each proxy, so that
  it is full, empty, stale and shared in turn. Two messages each way exceed a
  window of three, let one wait for the other in both directions, and let the
  pump be at any point of a message when the handler ends.
* `network`: two publishers, two events in all (both of one or one of each) and
  buffers of one, so that the order of one publisher and every overflow occur; three calls are one that never
  ends, one that meets its leftovers and one that waits; two sockets and two
  starts let a connection of the first round meet the second; three requests
  are one before, one with and one after a change; two frames against one let
  either side end first.

Deadlock is not checked where the system may stop: exchanges, streams and
connections come to an end, and so does a behaviour of a run with a `subject`.

**What is left out of these.** Fields that are never read by a guard; the
content of bodies, headers and edits outside `algorithms` (an edit is a
different answer, `edit`); the distribution counters of the statistics; the
single messages of a stream in `FlowPipeline` (there the relay of a body is one
step from head to end, which can also be a cut by a hook or a failure of either
side; `StreamRelay` has the messages). `StreamRelay` leaves out breakpoints,
recording that is switched off, a store so full that it drops an open session,
and peers that stop reading for ever. Deleting a file does not fail in
`BodyCache`; it may in `Plugins` and `RuleBook`, where the code handles it.
`SetBudget` and `Clear` of the cache are exported and modelled, though nothing
in the product calls them; only tests do. A panic of the emitter is in
`Breakpoint`, whose emitter is injected, but not in `FlowPipeline`, whose
emitter is the bus. The code reads the path of a copy without a lock while the
relay writes it: the callback may see either value. `Listener` calls `Start`
and `Stop` in turn, as the application and the tests do. `Plugins` leaves out
the examples that are written at the first start and imported archives.

## 4. Liveness and fairness

Fairness is weak and per goroutine wherever it is assumed: the Go scheduler
runs every goroutine that can run. Nothing is assumed of users, clients or
upstreams unless it is said here.

* `ExchangesEnd` (`flow`): every exchange ends, and every UI call returns. A
  handler inside `Pause` is woken by an answer or by its timer
  (`breakpoint.go:306`, five minutes by default), an upstream answers or its
  client's timeouts fire (`processor.go:84`), and a UI call that has looked a
  flow up goes on to send. `MayLast` names where an exchange may stay for ever,
  because the code sets no bound there: at an upstream without a total timeout
  (gRPC and requests that ask for a stream or for something large,
  `flow_pipeline.go:113`; the read deadline is cleared after the head,
  `transport.go:450`), whatever way its body takes; at an HTTP/2 client that
  opens no window (`h2.go:29`); and at the deferred close of a body that was
  not read to its end, which reads the rest (`transport.go:552`), also with a
  client that has a timeout.
* `RelayEnds` (`upstream`): for peers that take turns, which is what a
  bidirectional call may do and what deadlocks a relay that holds a direction
  back: the client sends its next message when it has received the answer to
  the one before; the upstream answers, not even with a head, before it has
  received something. They may also fail, leave or send ahead at any point. The
  two goroutines run, and a pipe is closed once its closer can. This is the one
  place where fairness is given to peers, because the question is what the
  proxy does to peers that would finish without it.
* `CancelledEnds` (`upstream`): a cancelled trip ends though its upstream is
  silent for ever: the guard closes the connection under the write, the wait
  for the head or the read of the body. One wait is exempt, since the code has
  it: a `Close` that disarms the guard first (`transport.go:557`) reads what is
  left of the body, which no deadline and no guard ends. Fair are the guard,
  reads and writes of a connection that is closed (they fail), the wait for a
  head (it has a timeout), a `Close` that has nothing to wait for, and the
  caller's close of a body whose read has ended; not a write, which may block
  for ever, nor the arrival of a head or of bytes.
* `ConnectionsEnd` (`network`): a connection in the backlog is accepted or lost
  to a stop; after a stop every handler that waits for its client ends, and one
  that waits elsewhere may not; a connection lets go of a silent client, except
  where the code sets no deadline. The property names these waits: for the first
  bytes (`detect`, `peek`), in a tunnel and after an upgrade, for the upstream's
  answer to an upgrade (`await`, `handshake.go:58`), for what follows a refused
  one (`refused`, `websocket.go:66`), and for an upstream that is asked through
  the client without a total timeout (`relay`, `processor.go:115`). A tunnel or
  a WebSocket of which one side has ended ends, although the other peer reads
  nothing. Fair: the goroutines, a read under a deadline, dialling, which has
  timeouts, and an exchange with a total timeout; no other wait for an upstream.
* `ServantsEnd` (`network`): a user interface that is gone leaves no pump
  behind; the goroutine of a plugin comes back from a script that never ends,
  because the watchdog fires (`plugin.go:591`), and ends when the plugin is
  closed. That is fair for JavaScript; goja does not interrupt a native built-in
  in its middle, which the model leaves out. A client that reads nothing may keep a writer waiting for ever:
  `WriteMessage` is fair only after its connection was closed.

## 5. Proofs

All of it is checked by tlapm, for every value of the constants, under the
assumptions named in the modules, which TLC evaluates on the runs. They say no
more than the code does: limits, capacities, budgets, windows and buffers are
natural numbers, positive where the code makes them so (`MaxOpenAssumption`,
`CapsAssumption`, `BudgetsAssumption`, `WindowAssumption`, `HubAssumption`,
`TransportAssumption`); the values that stand for "nobody" or "nothing" are no
members (`CallsAssumption`, `WindowsAssumption`, `CertsAssumption`); goroutines
of different kinds are different (`CallersAssumption`); and what is enumerated
is what the code has (`PipelineAssumption`: protocols, kinds of body, and hooks
that answer with results of the code; `WebSocketAssumption`,
`SettingsAssumption`, `ListenerAssumption`, `RuleBookAssumption`,
`RequestsBounded`). `PagingAssumption` has a largest word and a default page
size that fits, `TextsAssumption` the empty text, `ScriptAssumption` headers of
names and sequences of values, `FlowsAreMet` flows as the reader of a request
leaves them (host and path are those of the URL), `RulesArePlaced` and
`TextsAreTexts` rules, letters and texts of their types, `LinesAreLines` and
`EditsAreValues` lines and what hooks set. `PluginsAssumption` says besides that
the plugins are finitely many and that there are instances enough for those a
start loads.

**Breakpoints** (`BreakpointProofs`). The invariant is built in layers, each
inductive relative to the ones before: the types; the map (`OpenBound` with the
finiteness of `Open`, and `ListedWhilePaused`); "a pause that is still open has
no ending yet"; "what is in a slot was sent by an accepted call". The last two
are needed because `AnswersComeFromCalls` and `AcceptedAccounted` are not
inductive: a receive moves an answer from the slot to the handler, and the
counting must know that the handler had none before. Theorems: `TypeCorrect`,
`MapStaysSound`, `OnlyCallsAnswer`, `EveryAcceptedCallCounts`,
`ResolvedAfterUnlisting`.

**Hooks and exchanges** (`FlowPipelineProofs`). The loops over the hooks are
folds, and a stage (`RequestStage`, `ResponseStage`, `MessageStage`) says what
such a loop has found after n hooks: who took the decision, whether it stopped,
whether a breakpoint was asked for before. `ChainsDecideAlways` follows for
chains of any length, and with it `ChainsAlwaysDecide`, whose formula the run
checks up to five hooks. `PipelineInv` follows each exchange on its own. `Guarded` says where the
manager may be at work for it: a handler is inside `Pause` only at the point
where it waits for it, so that no write of `f.State` and no second `Pause` can
meet it, and `HandlersUseTheManager` follows. `Course` says what has been
received, written and recorded at each point; its core is `Replies`, which
lists the six ways in which the calls still to be made, the record and the wire
can stand. `Kept` carries the state of a buffered answer or a mock across the
pause, which overwrites and restores it. `Obeyed` says what is left to do after
an abort: nothing, or to record it and close. Theorems:
`HandlersUseTheManager`, `ManagerSoundInPipeline` (by instantiating
`BreakpointProofs`), `AbortsStopBytes`, `RecordsTell`, `ExchangesEndCleanly`,
`ExchangesStaySound` (with the types, whose verdict comes from the stages).
`ScriptsOnlyEdit` is about what a plugin's script sees of an exchange: its
invariant is the types of `exchange` and `result`, and `MergedHeaders` says what
the headers are once the flat ones are merged back, name by name.

`RulesAlwaysMean` is about a list of rules of any length. The insertion of the
engine keeps what is sorted sorted (`PlacedInOrder`), so the list that is used
is in order of priority and, among equals, of creation (`RulesAreSorted`). A
run on the first k rules is the run on all of them as far as it came
(`RunOnPrefix`); hence the first verdict stays (`VerdictStays`), and leaving
rules out that cannot match yet changes nothing (`RunWithout`). Of the flow at
each point `Engine` says that it is the one that came in unless it is marked as
modified, and that host and path are those of its URL, or the host one that a
rule has set (`WellAddressed`). For patterns, the invariant of the loop over the
letters is the set of ends of a way through the text (`Way`, `GlobPasses`);
`CoversPasses` turns a way into stretches of the stars and back, and a plugin's
list, which compares with what is between the stars at the two ends, finds such
a way exactly when the list says so (`MiddlePasses`, `ListsMatch`).

**Store and recording** (`RecordingProofs`). `StoreInv` (types, order = map, no
duplicates, bound) is inductive as it stands; the work is in what trimming and
removal do to a sequence (`SequenceLemmas`). Theorems: `StoreTypeCorrect`,
`StoreStaysSound`, `StoreStaysKept`; then
`RecordingUsesStore` (every step of the service is a store operation or leaves
the store alone) and, from it, `RecordingKeepsStore`. `RecordingInv` adds what
is known of each flow (`FlowTold`): where handler and resolver are when it is
counted (`Staged`), that it is in the store but between the check that missed
it and the put that follows (`StaysIn`), that nothing uncaptured was counted
(`CameFrom`) and the order of its events (`Told`). It is preserved flow by
flow, since a put changes what is said of the others only by what it evicts.
Theorem: `RecordingStaysAgreed`. `PagesStaySound`: the product of page and size
may wrap to anything, and what it gives is an index or is caught; a sum of two
words that does not fit wraps to something negative (`WrapsBelow`), which is
caught as well, so the bounds are in the list (`BoundsWithin`). The
invariant (`Read`) is that a client has seen all of the old flows up to the
place where the next page begins; an arrival moves them away from the newest
end, so a page may repeat some but skips none.

**Bodies** (`CachedBodiesProofs`). The key of `CacheInv` is `Doomed`: a file
that somebody is about to delete belongs to a flow that is committed and not
registered, so it cannot be written or registered again and a late deletion
hits nobody. That a goroutine deletes what it took out before it does anything
else (`Idle`) is how the code is written: `os.Remove` comes before the return.
Theorems: `FilesStaySound`, `BodiesUseCache`, `BodiesKeepFiles`. `AccountsInv`
adds the amounts: `total` is the sum of the registered sizes and within the
budget. What a sum over a set satisfies (`SumStep`, `SumOfParts`) is proved in
`SequenceLemmas` by induction on the set; an eviction takes the shortest prefix
that makes room, so that with its last copy the budget would be exceeded.
Theorems: `AccountsStaySound`, `OldestAreEvicted`, `BodiesKeepAccounts`.
`CopyInv` is about the composition: who still has to call `onEvict` (`duty`) is
what ties copies and flows together (`Duties`, `Returned`), a path is published
once, after the commit (`Published`), a flow that never left the store loses
its copy to the budget or `Clear` only (`Kept`), and a copy that outlives its
flow is on somebody's list or belongs to a flow whose completion was not
recorded (`Owned`). Theorem: `CopiesStayWithFlows`.

**Upstream** (`UpstreamProofs`). `PoolInv` is the types and `Owners`. What
makes it inductive is what a trip whose guard is still armed knows (`Holders`):
nobody has closed its connection and nobody is about to; so it stays when
`CloseBody` has disarmed the guard. `DrainEnds` puts a connection back on no
other evidence, and the pool must hold only such ones
(`Stacks`). Theorem: `PoolStaysSound`. `AnswerInv` adds that a connection no
trip uses is silent (`Rested`), and that what is on the connection of a trip is
the exchange of that trip, as far as it has come (`Talking`). A connection with
a 1xx answer is exempt, and finding 3 shows that it has to be. `Sending`
counts: a trip that may not be replayed has sent nothing until its write.
Theorem: `AnswersStayMatched`. `StreamInv` counts, for each direction, what was
read, recorded and passed on; at each point of a relay these differ by one at
most (`Relayed`). The session counts what was added and keeps its last `Window`
messages, and a number that was taken and is not recorded yet is free
(`Numbered`, `Fresh`), which is what two directions with one counter need.
Theorem: `StreamsStaySound`.

`ReadsNeverMatter` is about the scanners, whose loops are recursive functions.
What a loop computes is put without recursion: `Reaches(S, take, done, s, t)`
says that t lies in every set that holds s and is closed under the step `take`,
until `done`. A loop reaches one state of `done` only (`ReachesOnce`), and a
step commutes with bytes that arrive later, since they change neither where the
first event ends nor what a frame's prefix says (`ReachesAlong`). So the loop
over the whole stream passes through what the loop over the first reads came to
(`SSEReached`, `GRPCReached`), and both end in the same scanner. For the head
of a message the same is said of the first end of its lines (`HeadPeeked`).
The theorem is for reads of any number and length, and any largest message.

`WireAlwaysSound` is about messages of any lines, values and edits. What is
collected, replayed or added line by line is put as a function of the number of
lines (`ValuesInOrder`, `ReplayInOrder`, `AddedInOrder`), and what holds of all
sequences is shown by adding a last line to a shorter one
(`SequenceInduction`). The invariant of the replay is `ReplaySplits`: for every
name, the values that were sent followed by those that are left are the
table's. So, once what is left was added name by name (`AddsLeft`), the lines
that are sent have the values of the table, each once (`ReconciledValues`).
`ReplayedKeeps` says that the lines replayed are received ones, in their order
and with their spelling, and `Follows` that those added come after them. When
the values of the table are those of the received lines, each line finds its
own value first (`PrefixValues`, `SameRest`), which gives `Verbatim`. What a
message's table is before it is written is said by `FinalTable`, and what the
transport makes of its lines by `Agree`; framing follows from these two.

**Connections** (`NetworkProofs`).

* `ListenerStaysSound`: `Rounded` ties `Start` and `Stop` to their round and its
  context, `Refusing` says that nothing is tracked while the listener is down,
  `Holding` that an accepted connection has one holder, first its accept loop,
  then its handler. `running` is a cardinality, of the loops and the handlers.
* `InterruptsStayOwn`: the flag of the VM is the watchdog's of the running job
  until it is cleared, or that of one that came late (`Interrupted`).
* `ConnStaysSound`: past the check a request has shown its credentials and they
  were taken out (`Checked`); where a request is read no body is left, because
  what leaves one closes the connection (`BodyRead`).
* `WebSocketStaysSound`: each pump on its own (`PumpOf`): what was passed on is
  what was sent, recorded and not aborted (`Faithful`), in order and without
  a gap but for what was aborted or is in hand (`Gapless`).
* `HubStaysOrdered`: what a subscriber has taken followed by what its buffer
  holds is in order, numbered as its publishers count and complete but for
  `missed` (`DeliveredTo`); a browser's part is a run of what the hub took
  (`FedClient`). Both are said of the concatenation, which a receive leaves as
  it is. No closed channel is met because `Cancel` waits for the publishers
  (`TodoOpen`).

**Behind the user interfaces** (`ManagementProofs`).

* `WindowsStayLive`: a window whose destruction is under way or certain was not
  reopened, unless two calls overlapped on it (`Doomed`); the epochs of timers
  and callbacks are at most the window's (`Epochs`).
* `SettingsStayAgreed`: during an update, what it does not have to apply any
  more is in force (`Agreed`), but for an upstream address that the engine could
  not parse; the file is behind only while it is being saved or after that
  failed, in an update or at a start (`SavedOrSaving`).
* `CertsStayAgreed`: a call that is alone read the list as it is, and the last
  one settles what is offered (`Handing`); the certificate a handshake picks
  fits, and does so by name if any of those that fit does (`BestCert`).
* `BookStaysSound`: order, items and file are the same rules (`RulesKept`,
  `FileKept`); a breakpoint is as its user last said, however old the copy that
  was sent back (`BreaksKept`).
* `PluginsStaySound`: `PluginInv` says that at most one request is under way
  (the others wait for `opMu`) and that `Stands(r)` holds of it, or of no
  request. `Owned`: an instance that is not closed is in the table or is the
  request's own, which rules out leaks. `Piped`: outside of a rebuild the
  pipeline has what the table has, and besides it only the closed instance of a
  directory that could not be removed. `Restartable`: the files are those of
  the table but for the one that is being filled. `Promised` and `Knows`: what
  was copied is in the new instance when the swap closes the old one, whose
  last flush the new state overwrites; on disk it is there when an instance was
  closed, but for a plugin whose store could not be saved then (`unflushed`). `Clean` keeps a deleted plugin's writes
  from its namesake; it needs `Dated`, that a flow or request whose write is
  anywhere has begun, and that the instances of the deleted one are closed.
  The steps of the flusher, which may run at any moment, are one lemma
  (`FlusherKeeps`), since none touches the table, the pipeline or a request.
* `AccountStaysKept`: `Normalized` says what normalising leaves in each field,
  `Settled` that normalising it again changes nothing; two configurations that
  agree field by field are one (`SameAccount`), which is how a view that was
  sent back is shown to have the same effect.

**Lemmas** (`SequenceLemmas`): sequences without repetitions, trimming, filters,
sums and folds. The prover cannot instantiate an induction theorem that takes
an operator; `SetInduction` and `SubsetInduction` state induction for sets of
numbers and of sets instead, from the well-foundedness of the natural numbers,
and everything inductive rests on them. For the same reason filters are written
with `Only` (module `Selection`), a recursive function: the prover knows nothing
of `SelectSeq`.

**Only model-checked**: the liveness properties (`ExchangesEnd`,
`CancelledEnds`, `RelayEnds`, `ConnectionsEnd`, `ServantsEnd`), since fairness
and ENABLED are out of the prover's reach, and the four runs that end in a
counterexample. Every other property of a run is a theorem.

## 6. Findings

1. `flow_mock`: a mock that the user aborts at the response breakpoint is sent
   all the same and recorded as `paused_at_breakpoint` for ever, because the
   mock branch ignores the decision of `OnResponse`.
2. `stream_final`: the recorder hands a copy of the session to the store after
   it has released the lock. The pump's copy, taken before the close, can
   arrive after the closed one: the session stays open in the store for ever.
3. `upstream_informed`: `readResponse` takes a 1xx answer (103 Early Hints) for
   the answer. The final one stays on the connection, which is reused: the next
   request gets the answer of the one before.
4. `plugin_reload`: what a script stores between the snapshot of its store and
   the swap is lost when the user saves the plugin, although the store is said
   to survive that.

**Met on the way**, and part of the models (a property exempts or names each
where it bites), without a run of their own:

* Breakpoints: an `Abort` that was answered with 200 is not always obeyed, the
  timer can win between the lookup and the receive (`breakpoint.go:355`).
* Exchanges: the error of a response body that breaks off while it is read into
  memory is ignored (`flow/http.go:167`). What came of it is given its own
  length, sent as a whole reply and recorded as completed, and the connection
  goes on: neither the client nor the record can tell (`short` in
  `FlowPipeline`). Streams and large bodies are different, there the cut is
  seen. A comment says that `WriteByteTimeout` ends a response that is blocked
  on the flow control window (`h2.go:32`); it is the time to get bytes that may
  be written onto the socket, and the model does not take it for more.
* Recording: while it is off, a flow whose process is resolved enters the store
  (`service.go:150`). The eviction callback of a flow that is put back removes
  the copy of a flow that is in the store (`service.go:139`). The comment at
  `sessions.go:18` says a page whose offset overflows is empty; an offset that
  wraps to a small positive number shows a page of the list.
* Streams: the request pump ends the pipe regularly whatever ended the client's
  body (`streaming.go:896`), so that a client that fails in the middle of a
  gRPC request looks like one that has finished. What is left of a gRPC frame
  or an SSE event when the body ends, and everything after a frame that is too
  large, passes unrecorded and past the hooks (`streaming.go:642`, `:682`,
  `:744`, `:893`); the messages of `StreamRelay` are whole ones.
* Transport: the idle connections of a key that is never asked for again are
  never closed, since expiry is looked at only when one is taken.
* Rules: a structured `Host` header does not reach `Request.Host`
  (`engine.go:107`); `Action.Enabled` is never read.
* Scripts: of a result that does not unmarshal, because one header, body or
  status has the wrong type, every edit is dropped and so is the decision, also
  an abort (`plugin.go:846`); nobody is told. A binary body comes back from the VM with its bytes replaced, also
  when the script did not touch it (`plugin.go:842`). The top level of a script
  runs without a watchdog under `opMu`; `LoadAll` builds under `mu` despite the
  comment at `manager.go:60`; after a failed save the close of the instance
  that was not used overwrites `state.json`; when a directory cannot be
  removed, its closed hook stays registered; `Close` takes only `mu`, so a
  request under way may still load an instance.
* The store of a plugin: `flushStore` clears the dirty mark, then ignores that
  the store cannot be marshalled (a script may put a function or NaN into it,
  despite the comment at `plugin.go:726`), written or renamed; also the last
  save of `Close` may so be lost without a word. `Snapshot` of a store that
  cannot be marshalled is empty, and a save of the plugin then drops all of it.
  `PluginsSound` exempts the first and takes the copy as it is.
* Configuration: a file that was being written when the program died cannot be
  decoded and is read as the factory settings (`config.go:302`): every setting
  is lost, which the model has (`Torn`) and `SettingsAgree` does not forbid. An
  upstream address that cannot be parsed is stored all the same (`config.go:418`):
  the update that brings it leaves the old proxy in force, the next start
  connects directly and only logs it (`bootstrap.go:72`). Failed saves are not
  reported to anybody.
* Configuration: two certificate imports that overlap may leave the older list
  in use until the next change (`service.go:532`).
* Windows: two simultaneous `OpenWindow` create a window that is hidden for
  ever; a closing that overlaps a reopening leaves a timer on a visible window.
* Hub: an event that cannot be encoded is skipped (`ws_hub.go:66`), which the
  model leaves out. `writePump` has no deadline, so that a client that reads nothing keeps
  it waiting until the connection breaks.
* Listener: `Stop` releases its lock before it closes the connections; a
  `Start` at that moment would leave connections of the round before open.
* Connections: the peeks that detect the protocol, first and after CONNECT,
  have no deadline; the 502 of a failed upgrade announces 28 bytes and has 27;
  `Expect: 100-continue` is never answered; plain HTTP in a tunnel is recognised
  only by a first byte of G or P; an upgrade is recognised only when the
  `Connection` header is exactly `Upgrade`.
* WebSocket: the abort of one fragment leaves continuations without a
  beginning; reserved bits are cleared (`frame.go:50`); the end of one
  direction cuts what the other one has in flight; a late push of the process
  can leave a stored session open.

## 7. Not modelled

* **Throttle**: delays by a token bucket; real time without a decision that
  depends on it.
* **Process resolver**: a cache before the operating system's tables.
  `Recording` and `WebSocket` take its answer, and when it comes, as arbitrary.
* **Certificate authority**: keys and encodings, data with hardly any control.
* **Operating system integration**: calls of system tools without a state of
  their own; what is left of it, the proxy setting, is in `Settings`.
* **Web frontend**: TypeScript, a client of the API and of the events.
* **Parts of modelled components**: the order of the core hooks in a snapshot;
  HTTP/2 and what the forward transport leaves to the standard one (outcomes);
  decoding of compressed streams; lengths and masks of WebSocket frames; export
  formats and the token check of the API; menus and tray of the desktop;
  seeding and import of plugins; the functions offered to scripts.

## 8. Plan

Done: the plan's modules, in the order breakpoints, exchanges, recording and
bodies, streams, then transport, connections, listener, hub, WebSocket,
configuration, certificates, rules, plugins, windows. What would add most next:

1. Composition of `ClientConn` with `FlowPipeline`, and of `Plugins` with
   `PluginCalls`, in place of outcomes.
2. HTTP/2 sessions, the server's loop over streams.

## 9. Running

    tlc -workers 2 -config Breakpoint.cfg MCBreakpoint.tla
    tlapm BreakpointProofs.tla

`PROJECT.json` lists the module and the configuration of every run. The longest
runs (`upstream`, `network`) take about two minutes on two cores, `algorithms`
one and a half, and the others one or less.
