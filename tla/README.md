# Verification of rust_netx

rust_netx is a two-way RPC framework over TCP. A server (`netx_server`) keeps a
session token per client that outlives its connections; a client
(`netx_client`) keeps one connection, reconnects on demand and resumes its
session; both sides call each other by numbered commands (`netx_builder`
generates the dispatch). This directory models the parts where tasks, locks and
timeouts meet, from the sockets' tasks to the generated dispatch and the chat
example, checks them with TLC, and proves every safety property that the passing runs
check, for all values of the constants, with TLAPS.

## The system

| part | state | operations | talks to |
|---|---|---|---|
| session manager, `async_token_manager.rs` | `dict`, `request_disconnect_clear_queue` | `create_token`, `get_token`, `get_all_tokens`, `peer_disconnect`, two periodic checks (50 ms) | tokens, under its own lock |
| session token, `async_token.rs` | `peer`, `controller`, `result_dict`, `request_queue`, serial | `set_peer`, `is_disconnect`, `call`, `set_result`, `check_request_timeout`, `get_token` | manager (weak), peer |
| connection task, `impl_server.rs` | its token | verify, resolve the session, attach, read frames 2000/2400/2500, detach, queue | manager, token, controller |
| client, `impl_client.rs` | `net`, `connect_stats`, `result_dict`, `mode`, session, serial | `connect_network`, `call`, `run`, `close`; reader: frames 1000/2000/2400/2500, clean-up | RequestManager, connection |
| RequestManager, `request_manager.rs` | queue of (serial, time) | `set`, `check` (500 ms) | client, under both locks |
| dispatch, `netx_builder` | none | `(tt, tag)` to method | controller |
| results, `result.rs`, `get_result_buff` | none | encode, decode | wire |
| chat server, `examples/msg/msgserver` | users | `login`, `get_users`, `talk`, `to`, `ping`, `close` | tokens, manager |
| chat client, `examples/msg/msgclient_tui` | views, a bounded channel | buttons, one task that makes the calls | client |

Every token, the manager, the client and the RequestManager is an
`aqueue::Actor`: `inner_call` runs one closure at a time, **across its awaits**.
So an `inner_call` is a critical section under a FIFO lock, and `deref_inner` goes
around that lock. What is hard here is what happens between two critical sections,
and critical sections that wait for each other.

What makes each part correct:

- session core: a session in `dict` without connection is on its way to be removed
  and never forgotten; it is not removed before its time; the Closed function runs
  exactly once; the controller, which holds an `Arc` of the token, goes with the
  session; a token answers on a live connection.
- client calls: every call gets exactly one outcome, its own answer or an error,
  however answers, timeouts, reconnects and dropped calls interleave; nothing stays
  in `result_dict` for ever.
- client connection: no connection is forgotten open, a caller that waits for a
  handshake is woken and told the truth, what it then sends is framed as the server
  reads it; the clean-up of an old connection leaves the new one alone (it does not).
- dispatch and results: a function runs for a call only if both sides agree on it, a
  success was earned, every call that waits is answered.
- chat: names are unique but for races, a closed session leaves the list, messages
  reach whom they are for; the client sends what it shows and does not block for good.

## Modules

| module | models |
|---|---|
| `SessionLifecycle` | what the manager promises about a session: created once, removed once, Closed once, one removal at a time |
| `ServerSessions` | manager, tokens (peer and controller), connection tasks, handlers in `get_token`, the checker; the clients only as far as they choose a session id and go away |
| `RpcCalls` | what a caller may rely on: one outcome per call, an answer only for a call that was run |
| `ClientCalls` | callers, readers, RequestManager, the client's lock during `connect_network`, a network that loses frames |
| `TokenCalls` | the server's calls to its clients: `AsyncToken::call`, `set_result`, the checker's walk over the tokens, removal |
| `ClientConnect` | `connect_network`, the handshake in `read_buffer`, `clean_connect`, `close`, the sending half of `call` and `run`, and the server's side of the handshake |
| `CallPath` | one remote call from the caller's macro to the callee's function and back: what `netx_builder` generates, `call!` and `call_peer!`, frame 2400, `RetResult` |
| `ChatUsers` | the chat server: the user list behind its actor, the handlers, the sessions' ends |
| `ChatTui` | the terminal client: the drawing thread, the channel, the task behind it |
| `...Proofs` | the theorems about the module of that name |
| `SequenceFacts` | lemmas on sequences and least elements that three of the proof modules share |
| `MC...` | instances for TLC; `MCOrder` has the order in which `MCServerSessions` and `MCTokenCalls` use interchangeable connections, sessions and calls |

How they compose: each module takes one side of an interaction whole and leaves the
other as wide as it can be. `ClientCalls` allows any connection history, `ClientConnect`
says which there are; `TokenCalls` removes any detached token, `ServerSessions` says
when; `CallPath` lets any waiting call time out, the two call modules say when;
`ChatUsers` uses sessions that end at any time, `ChatTui` calls that end in any way.
`SessionLifecycle` and `RpcCalls` are what the detailed modules are shown to
implement; `RpcCalls` is implemented twice, by either side's pending calls.

Definitions whose name ends in a suffix like `_keeps` or `_drops` and whose comment
starts with "Mutant" are not part of a specification. Each is a plausible bug of the
action it precedes; put in its place it violates the property it is meant for, which
shows that the property depends on the code.

### ServerSessions and the code

One action is one critical section, or one step between two awaits. The program
counter of a connection follows the closure given to `set_input_event`:

    verify -> lookup -> create -> attach -> connect -> reading -> detach -> disconnect -> enqueue -> done
              (get_peer_token)   set_peer(Some)  Connect fn       set_peer(None) Disconnect fn  peer_disconnect

`failed` is a task whose Disconnect function returned an error: the `?` leaves the
closure before `peer_disconnect`. `get_token` and `create_token` are two
acquisitions of the manager's lock, hence two actions.

The checker (`sweep`) holds the manager's lock from `StartSweep` to `EndSweep`,
across `is_disconnect`, the Closed function and `clear_controller_fun_maps`. Its
position between these awaits is kept, because other tasks set and take the peer
there. The queue is the code's `VecDeque` read from its back: `push_front` is
`Append`, `pop_back` is `Head`. The step "pop, see it is not due, push it back"
leaves no trace and is the guard of `EndSweep`.

A handler (`runs`, `holding`) stands for a controller method spawned for a 2400 frame
that calls `token.get_token` or `get_all_tokens` on its own token, as the chat
example does: it holds the token's lock and waits for the manager's.

Time is counted in ticks and an age stops at `SaveTime`, where it is as good as any
later one. `idle` is a history variable: ticks since a connection of the session last
detached.

The peer's own `is_disconnect` (crate `tcpserver`) is true once the connection's task
is over or the application has shut the peer down. The first is excluded by
`PeerIsServed`; nothing under `netx_server/src` does the second, so it is not
modelled. Session ids are fresh; see hazards in PROJECT.json for the clock.

### ClientCalls and the code

A call draws a serial (`NewSerial`), enters its oneshot sender into `result_dict`
under the client's lock (`Insert`), enters the serial into the RequestManager's queue
under the other lock (`Enqueue`), sends and waits. `tx` says where the sender is and
`rx` what the receiver holds. An answer is taken from `result_dict` under the lock
and sent outside it (`TakeResult`, `SendResult`), and so is a timeout (`TakeError`,
`SendError`), while the RequestManager's lock is held. `connecting` is the client's
lock in the hands of `connect_network`. `Cancel` drops a call's future at any await.
Frames are sets: the network reorders across connections and `Lose` takes what a
broken connection had under way.

### TokenCalls and the code

The server registers sender and queue entry in one `inner_call` (`Insert`), so
unlike the client it leaves no entry behind when a call is dropped. The checker
first walks over `dict` through `deref_inner`, without the manager's lock, and
visits each token under the token's lock (`Visit`, one action, as
`check_request_timeout` does not await); then it takes the manager's lock and
removes tokens. `create_token` may insert while the walk is suspended: the iterator
is then undefined and `Create` lets it go on over any tokens of `dict`. Removal is
abstracted from `ServerSessions`: `Sweep` is one step (that module has the sweep step
by step, with all that comes between) and takes any tokens without peer that a
connection has left, since `saved_too_short` shows that an entry may be due at any
time. A connection task
takes the sender and sends outside the lock (`TakeResult`, `SendResult`); when the
caller has gone, the error passes through `data_reading` and ends the connection.
Frames name the connection they travel on, and a connection that is over reads no
more. Handlers that hold the token's lock in `get_token` are in `ServerSessions`.

### ClientConnect and the code

A caller's program counter is its place in `connect_network`:

    lock -> dial -> install -> wait -> reset -> grab -> frame -> raw | prefixed
     inner_call on net   changed()  reset_connect_stats  run/call  get_mode  send_all

and `lock` is held from `dial` to `install`. A connection's `watch` says who holds the
sender of its channel (`reader`, then the task of the Connect function) and later
what it sent. `connect_stats` names the connection whose channel it is. The reader
goes `verify -> read -> hello -> read -> clean -> drop -> done`: the frame 1000 or
2000 that it writes, the answers, then `clean_connect`, whose 100 ms pause lies
between `Clean` and `Drop`. `mode` decides whether a frame is sent with its length
in front; the server's task reads a frame without it as garbage (`ServerReads`), and
how its reading goes on from there is left open. `told` marks a caller that waited
for the handshake and was told of a success. A `call!` of another caller that only
sees `is_connect` may write in the middle of the handshake; its frame may be misread,
and `ToldIsUnderstood` speaks only of callers that were told.

### CallPath and the code

`stub` is the method the caller was built with and `trait` the callee's list; they
come from two compilations and may differ. `Issue` is one of the forms of `call!` or
`call_peer!`; `Spawn` the task per frame 2400; `NoController`, `NoFunction`, `Rejects`,
`Runs` and `Panics` are the ways through `execute_controller` and the generated match,
and `Finish` its answer, which type 0 does not get. `from` is a result as it looks
after `get_result_buff` and `RetResult::from`, and `Verdict` what each form makes of it.
The two generated sides check the same things in the same order; each has its own
definition so that a difference between them would have its place. `get_funcs_info` is
the set of the places in the trait that have the tag, and `ArmOf` the least of them, as
the first arm of a `match` that fits is the one that runs.

### ChatUsers and ChatTui and the code

In `ChatUsers` a handler is a record with its place (`pc`), and each question to the
`UserManager` is one action, as each is one acquisition of its lock. `get_users` reads
without that lock: `before` is the list a removal found, and a reader that meets the
removal sees a prefix of it and the rest shifted. `sent` counts messages per handler
and session. In `ChatTui` the thread's `ui` is `wait` while it blocks in `recv()`; `layer`
is the dialog on top; `queue` is the channel, `hand` the request its task is at.
`MESSAGE_COUNT` and `messages` follow the code's replacement of blank lines. A call
returns unless it hangs in a handshake (`hung`), see `ClientConnect`.

## Runs

| run | bounds | distinct states | shows |
|---|---|---|---|
| `sessions` | 2 connections, 2 sessions, 1 handler, save time 1 tick | 89 thousand | the type invariant, 4 invariants, 2 action properties, the refinement of `SessionLifecycle`, and `LeftIsClosed` |
| `client_calls` | 2 callers, 2 readers, 2 calls, timeout 1 tick | 77 thousand | the type invariant, 3 invariants, the refinement of `RpcCalls`, and that every call returns |
| `token_calls` | 1 session, 2 calls, 2 connections, timeout 1 tick | 342 thousand | the same for the server's calls, and which late answers end a connection |
| `client_connect` | 2 callers, 2 connections, 1 frame | 3.7 million | 6 invariants of the handshake, the clean-up and the framing |
| `call_path` | 2 calls, 7 stubs, traits of up to 2 methods, either side | 479 thousand | 3 invariants of the dispatch, and that a call that waits is answered |
| `chat_users` | 2 sessions, 2 names, 4 requests | 975 thousand | 4 invariants of list and messages |
| `chat_tui` | 2 users, channel of 2, 3 blank lines, 6 lines | 441 thousand | 2 invariants, 1 action property, and that the thread does not wait for good |
| `get_token_deadlock`, `stale_detach`, `saved_too_short`, `removed_token_call`, `stale_clean` | 1 or 2 connections, 1 session or caller | | violated, see below |

`TypeOK` is proved of every module, and checked by the three runs whose theorems came first.

Why these bounds:

- Sessions: two connections that resume each other's session while the first cleans
  up are what `stale_detach` and `saved_too_short` need, and two sessions make the queue
  hold entries of different age and the sweep meet one session while the other moves.
  Save time 1 tells "not due" from "due". The theorems cover any number of each.
- Calls: two callers and two readers give every race over one sender and between
  two; a serial that came back shows with two calls. A walk that an insert upsets, in
  `TokenCalls`, needs a token that comes while the walk goes on: one is enough, since
  the walk may then hold it or miss it.
- Connecting: two callers wait on each other's handshake, and a second connection is
  what the reader of a first one can harm. One frame is enough to be misframed.
- Dispatch: the match looks at one arm, so a trait needs the arm, one before it, or
  none. A trait with one tag twice shows that the first arm counts.
- Chat: four requests are two logins and two of anything, or three logins and a talk. A
  removal of one of two users is the smallest that shifts the other. A channel of two
  has a full, a half full and an empty state. Three blank lines leave a `Limit` of two,
  and six lines pass it.

`ByName` lets a run of `sessions` or `token_calls` use interchangeable connections,
sessions and calls in a fixed order. Every behaviour is one of these up to names, and
no property names one, so that nothing is lost; unlike `SYMMETRY` that is sound for
liveness. The runs without liveness use `SYMMETRY`.

`ClientConnect`, `CallPath`, `ChatUsers` and `ChatTui` stop when nobody wants anything
any more, or a bound is reached: their runs do not check for deadlock. Where that could
hide a caller left behind, `WaiterHasSender`, `WaitIsAnswered` and `WaitEnds` look for it.

Fairness: tokio schedules every runnable task and the actor's lock is handed over
in FIFO order, so a task that waits for a lock which is released again and again
gets it: strong fairness per task. The clock advances and a connect attempt ends
(the code bounds it by `request_out_time_ms`): weak fairness. Clients, network and
the other side owe nothing; frames, cancellations and connects are not fair.
The user's Connect, Disconnect and Closed functions are assumed to return. In
`CallPath` the callee is at hand and the connection delivers, as the question is
whether the dispatch forgets an answer; a panic is the only way that it finds. In `ChatTui`
the channel's task and the woken thread are scheduled; the user owes nothing.
`ClientConnect` has no fairness: a handshake that the server does not answer has no
timeout, so that no liveness holds there.

`LeftIsClosed` says that a session all clients have left is closed in the end, unless
a client resumes it, its Disconnect function fails, or `Deadlocked`: the checker waits
for a token whose handler waits for the manager. No other obstacle was found.

### What the violated runs show

- `get_token_deadlock`: `get_token` holds the token's lock and waits for the
  manager; the checker holds the manager's lock and waits, in `is_disconnect` or
  `clear_controller_fun_maps`, for the token. A handler that outlives its
  connection by the save time is enough. The whole server stops accepting sessions.
- `stale_detach`: a client that reconnects before the server has noticed the loss
  of the old connection attaches first; the old task's `set_peer(None)` then takes the
  new peer. The session is in use but counts as disconnected.
- `saved_too_short`: the queue entry of a first disconnection survives the
  resumption; after a second one it removes the session before its time.
- `removed_token_call`: nobody visits a token once it is out of `dict`, and the
  caller's own reference keeps the token and the pending sender alive. With the
  default options both limits are 5 s and the walk comes first, so it takes a
  shorter `session_save_time`, a stale queue entry as in `saved_too_short`, or a few
  milliseconds between walk and sweep. `KnownCallReturns` is the part that holds.
- `stale_clean`: `close` takes `net`, the next `connect_network` installs another
  connection, and the reader of the first, which only now comes to its end, takes that
  one in `clean_connect` and disconnects it. `NoneForgotten` and `NetHasReader` are what
  holds: the new connection is closed, not leaked.

`KeptUnlessResumed` is the part of the third promise that holds, and is proved.

## Proofs

TLC checks the small instances above; the theorems hold for every value of the
constants that satisfies their assumptions: any number of connections, sessions,
callers, users or requests, any stub and trait, any capacity, any timeout, and any value
of the bounds.

| module | theorem | property |
|---|---|---|
| `ServerSessionsProofs` | `TypeCorrect` | `TypeOK` |
| | `PeerServed` | `PeerIsServed` |
| | `ControllerFollowsDict` | `ControllerLifecycle` |
| | `NoneForgotten` | `DisconnectedIsQueued` |
| | `OldestFirst` | `QueueOrdered` |
| | `NothingDueIsLeft` | `SweepLeavesNothingDue` |
| | `UnresumedIsKept` | `KeptUnlessResumed` |
| | `Refinement` | `ImplementsLifecycle` |
| `ClientCallsProofs`, `TokenCallsProofs` | `TypeCorrect` | `TypeOK` |
| | `SenderIsUnique` | `WaiterHasSender` |
| | `OwnAnswer` | `AnswerIsOwn` |
| | `TimeoutIsDue` | `PendingIsQueued` |
| | `Refinement` | `ImplementsRpc` |
| `TokenCallsProofs` | `LateAnswers` | `LateAnswerIsHarmless` |
| `ClientConnectProofs` | `TypeCorrect` | `TypeOK` |
| | `NetHolds` | `NetHasReader` |
| | `NothingForgotten` | `NoneForgotten` |
| | `JoinsTheCurrent` | `JoinsItsOwn` |
| | `SuccessIsAcceptance` | `ToldIsAccepted` |
| | `FramedForServer` | `ToldIsUnderstood` |
| | `WaitersAreServed` | `WaiterHasSender` |
| `CallPathProofs` | `TypeCorrect` | `TypeOK` |
| | `Agreement` | `RunsAsDeclared` |
| | `EarnedSuccess` | `SuccessIsEarned` |
| | `RunOrder` | `AnsweredRunFirst` |
| `ChatUsersProofs` | `TypeCorrect` | `TypeOK` |
| | `NamesClashOnlyInRaces` | `NamesClashInRaces` |
| | `ClosedSessionsLeave` | `ClosedHasLeft` |
| | `TalkReachesAll` | `TalkReaches` |
| | `PrivateReachesTheNamed` | `PrivateIsForTheNamed` |
| `ChatTuiProofs` | `TypeCorrect` | `TypeOK` |
| | `OnlyErrorsPanic` | `PanicsOnErrors` |
| | `LinesMatchRequests` | `ShownIsSent` |
| | `BlankLinesGo` | `LinesStay` |

### Assumptions

Bounds and timeouts are natural numbers (`SaveTime`, `OutTime`, `MaxSerial`, `MaxConns`,
`MaxRuns`, `MaxCalls`, `MaxLines`, zero included); `Capacity` and `Blanks` are positive, as
32 and 34 are. The values that stand for Rust's `None` (`NoSession`, `NoConn`, `NoToken`,
`NoCall`, `NoName`, `Nothing`, `None`) and for a free lock (`Free`) are none of the values
they stand beside, `None` not being a `Some` either. A user is not called GLOBAL CHAT: that
one is a restriction, see below. `TraitsAssumption` gives methods their shape: a
tag, a number of arguments, and one of three kinds of result. Nothing is assumed of the
sets of callers, sessions or connections, not even that they are finite.

### The inductive invariants

Hardly any property above is inductive alone. In each module `Typing` (`TypeOK` in
`CallPath`) is proved first and the others relative to it.

`ServerSessions`. `Typing` adds that a task past `lookup` or `create` has an issued
token (`TokensHeld`) and that the checker's target is issued, and in `dict` until it
removes it (`SweepTarget`). `KeptUnlessResumed` speaks of the moment of removal, several
steps after the queue entry was made; it rests on `Earned`: an entry of a session with
one user is no older than `idle`, its user is done, and the target inherits that from
the entry. `SweepLeavesNothingDue` follows from `QueueOrdered` and the guard of
`EndSweep`. The refinement needs `SweepTarget`: at most one session is between removal
and its Closed call.

`ClientCalls`. The argument is who holds a sender. `Numbered`: serials are the numbers of the
calls, and no two calls under way share one. `SenderIsHeld`: a sender that is not in
`result_dict` is with exactly the reader, or the RequestManager, that has its serial in
hand; without the "exactly one", a step of one reader would leave another's claim behind.
`Channels`: a receiver is empty or dropped exactly while its sender lives. `Echoed`: serials
and calls agree in frames and hands. `PendingIsQueued` needs `Numbered`, so that what
leaves the queue is not another call's entry. For the refinement, `RunsOnce`: a
request under way is of a call that has not run, so that the step that runs it is a run
of `RpcCalls` and not a second one.

`TokenCalls` has the same argument one level down: `Senders` for a call and the
`result_dict` of its own token; `Attached`, that connections serve the token whose calls
they carry; `Framed`, that a frame has the serial of its call and is on its connection. With
these, a serial that two tokens share is not mistaken: an answer reaches `result_dict` of
the token its connection serves. `LateAnswerIsHarmless` follows from `Senders`: a
sender in a task's hand has a receiver that is empty or dropped, never timed out.

`ClientConnect`. `Locking`: the lock is held exactly while a caller dials or installs;
`Installing`: `net` is empty meanwhile, so that `Install` overwrites no connection. That is the
reason why `NoneForgotten` holds although `close` and `clean_connect` take `net` at any time.
`Shaken` is the handshake of one connection, and relates the frames under way, the reader, the
watch channel and the server's task: who has the channel's sender has not been answered yet,
and whoever was told has an accepted connection. `Told` says that `mode` was 1 then, so a told
caller's frame is prefixed; `Behind` that once such a frame is under way all behind it are
calls, so the server reads it in the right state (`ToldIsUnderstood`).

`CallPath`. `Asked`, of a request on its way or in a task: it is what the call's stub
produced, and its call has no history; `Apart` and `Alone`: no call has two. `Backed`, of a reply: it
says a success only if the body did. `Ordered`: a call is issued when the earlier ones have
returned, which makes "answered before" an order. `Agreement` looks through the generated
match by `ArmOf`: that it finds the least place with the tag is `MinIn` in `SequenceFacts`.

`ChatUsers`. `Free`: two logins about to add one name have both been counted as a race;
`Alone` and `Left`: one login adds one user and close removes one, so a closed session that still has
a user logged in twice, or late. `Reaching` follows a talk along its list: whoever was there
when it began and is still known has been sent to or is in what is left, also when the list was
read in the middle of a removal. `Addressed` and `Registered` trace a private message to the login
of the name.

`ChatTui`. `Waits`: while the thread waits without an answer exactly one request that wants one
is under way (`Asked`), else none is (`Quiet`). So the answer in the task's hand is the one waited
for, a login meets an empty channel (`LoginFinds`), and only get_users and ping can drop a sender.
`Views`: no lines before the login, and after it `Blanks` less the lines shown, but never fewer
than one, are blank and in front (`Blanked`); `ShowMeans` computes from it what a redraw pushes
out. `Written`: the user's lines and the messages called, in hand and in the channel are the same,
and in one order. `ShownIsSent` and `LinesStay` are stated with sets and positions, not with
filtered sequences, as no induction over a sequence is within the prover's reach.

Each of these invariants was checked by TLC, as an invariant of the module's run, before it was
proved.

### Left to TLC

- Liveness: `LeftIsClosed`, `EveryCallReturns`, `KnownCallReturns`, `WaitIsAnswered` and
  `WaitEnds` rest on fairness, which the prover does not handle.
- The five properties that are violated.
- What a recursive definition computes. None of the modules has one: lists are read by
  position and by what they contain. `SequenceFacts` gets the least element of a set of
  naturals from the well-foundedness of their order, so no induction over data is needed.

## Not modelled

- Frames as bytes and the values of arguments; a frame without its length is only
  known to be misread. `RetResult::get`, `len` and indexing.
- TLS and streams (pure I/O): the closure of the server is written again for each TLS
  feature and differs in the stream only. The wording of errors.
- Session ids that collide: they are the wall clock's nanoseconds, and a clock set
  back could replace a live session. The models draw fresh ids.
- Undefined behaviour after `clear_controller_fun_maps`: a function under way then
  uses a controller that is gone. `CallPath` lets it end as usual or panic.
- The client's stored session id when a frame 2000 of an old connection comes late.
- `ChatUsers` leaves the deadlock of `get_token` to `ServerSessions`; a user named
  GLOBAL CHAT, whom `ChatTui` would take for everyone, is left out.
- Options other than the two timeouts, the other examples, benches and test programs.

## Plan

Every safety property of the passing runs is proved. What is worth proving next:

1. What the abstract specifications promise, from their own steps: in `RpcCalls` that an
   outcome is kept and an answer is earned, in `SessionLifecycle` that a session is closed
   once; through the refinements these hold of the detailed modules.
2. Action properties that the invariants imply: a serial is not drawn twice, a sender is
   used once, a token that has left `dict` does not come back.
3. The facts under liveness that need no fairness: which steps can disable the ones the
   fairness is about, and that each obstacle named in `LeftIsClosed` is the only one.
