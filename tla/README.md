# Cowd Edge: formal model

Cowd Edge connects the Cowd runtime to the outside. The runtime's gateway starts
*managed sidecars*, Rust processes that each own a message platform or a data
source, and talks to them over HTTP/2 on a Unix socket. The *WebUI*, TypeScript
in the browser, follows the gateway over one live event stream and keeps
projections of what it sees. The gateway itself is not in this repository.

This directory holds TLA+ models of the parts whose correctness depends on
orderings, limits, retries and failures, the TLC runs that check them, and the
theorems proved about them with TLAPS. `PROJECT.json` lists the components, the
runs, the source lines each definition stands for, the hazards and the theorems.

    tlc -workers 2 -config EdgeEvents_pass.cfg MCEdgeEvents.tla
    tlapm EdgeEventsProofs.tla
    tlapm ChatQueueProofs.tla
    tlapm ChatAnswerProofs.tla
    tlapm ChatAttachmentProofs.tla
    tlapm FeishuWsProofs.tla
    tlapm IframeBridgeProofs.tla
    tlapm MessageRuntimeProofs.tla
    tlapm ProjectionRegistryProofs.tla

## 1. The system

Paths are relative to `src/crates/edge-adapters/src` (Rust) and
`src/surfaces/webui/src` (WebUI).

| part | state it keeps | operations | what is hard | correct when |
|---|---|---|---|---|
| event path, `managed_server.rs` | replay buffer, sequence numbers, acknowledged position, `Notify`, broadcast channel | emit, number, replay, follow, acknowledge | three tasks around one lock, two bounded buffers, a gateway that reconnects | numbered once, read without a hole, freed only when read, a full buffer is only a pause |
| requests, `managed_server.rs` | bootstrap record, handler, capabilities, 256 permits | handshake, dispatch with 30 s limit, streams | dropped handlers, permits held by streams | one handshake wins, permits come back |
| connector runtime, `message_sidecar.rs` | installed adapter, flags, generation, receive task, session lanes | configure, connect, disconnect, health, send, receive loop | concurrent requests, each droppable at any await | one loop, on the installed adapter; nothing runs after disconnect |
| Feishu chat queue, `platform/feishu/processing.rs` | lock per chat, guards, shared queue, drainer flag | try_process, release, drain, hand over | drainer against callers, overflow, abort | nothing lost or handled twice, one guard per chat, order kept |
| Feishu connection, `platform/feishu/{ws,auth,proto}.rs` | socket, reader/writer/ping tasks, fragments, attempts, token | read, acknowledge, reassemble, reconnect | acknowledgement before delivery, reconnect limit, half-received messages, a receiver that goes away | an acknowledged event reaches the adapter; a reader that nobody reads from ends |
| Feishu adapter, `platform/feishu/{adapter,approval,card_handler,reactions,rules}.rs` | pending approvals, reactions, rules | send, decide, react | double decision, late timeout | one decision per card |
| WeChat iLink, `platform/wechat_ilink.rs` | sync cursor (memory and file), pending messages, seen ids, session token, backoff | connect, receive, send | cursor is saved before its messages are handed on; crash, abort | what the loop fetched is handed on, once |
| duplicate filter, `platform/dedup.rs` | bounded window of ids | is_duplicate | window against redelivery | no message twice, none suppressed |
| e-mail and WeCom, `platform/{email,wecom}.rs` | token, seen UIDs | receive, send | token refresh | - |
| source connectors, `source_sidecar.rs`, `source_db.rs` | lane per resource | read, schema, incremental read | watermark owned by the gateway, answers in chunks that may be cut | a page and its watermark agree; a watermark passes no row |
| mirror, `mirror.rs` | mirror rules | forward a message | loops | nothing comes back |
| edge contract, `crates/edge-contract` | - | validate | - | - |
| live transport, `stores/liveTransport.ts` | open sources, acknowledged subscription, stream, barrier, timer | open, close, synchronise, rebuild, consume | answers, envelopes and timers of an earlier connection; overtaking | what is served is what is open; no hole |
| projection registry, `stores/projectionRegistry.ts` | per execution: projection, consumers, flight, lease, timer, latch | acquire, release, load, connect, envelopes, login | late answers, changed authority, coalesced loads | nothing shown without authority; the end is seen |
| chat sessions, `stores/chatSessions.ts` | attachment role and lease, lane of calls, turns, preview, transcript | attach, send, stop, heartbeat, events, snapshots, reload | lease against revocation and failing calls; pieces against snapshots, pages and receipts | nothing is posted without a lease; an answer is shown once and settles |
| APP host bridge, `apps/iframeBridge.ts` | port, requests, credits, replay window | connect, request, credit, cancel, revoke, dispose | reloads and revocation amid requests, reuse of identifiers | one end or error for a request; nothing after revocation |
| presentation, `adapters/`, `utils/` | - | pure functions | - | - |

How they interact. An adapter hands inbound messages to the runtime's receive
loop, which sends them into the event path's input channel; the gateway reads
them from an event stream and acknowledges. Requests come the other way through
the managed server into the runtime and on to the adapter. In the Feishu adapter
`receive` runs the chat queue. In the WebUI the registry (and the chat store)
opens sources at the live transport and loads snapshots through the API client;
the transport calls back with envelopes. An APP runs in a frame and talks to the
gateway through the host bridge only. What the chat store may send depends on how
its session is attached (ChatAttachment); what it then shows, on the events and
snapshots of the execution (ChatAnswer).

## 2. Modules

A definition marked `mutant` is wrong on purpose. It stands before the definition
it would replace, and shows that the property it is paired with in
`PROJECT.json` notices that bug. Every module has a type invariant (`TypeOK`, or
`SourceTypeOK`, `TransportTypeOK`, `IlinkTypeOK` where a proofs module extends two
components); the runs list the properties that can really go wrong.

### EdgeEvents, EventLog, LaggingLog, EdgeEventsProofs (`managed_server.rs`)

State: `ReplayState` (`nextSequence`, `ackedSequence`, `events`), the `Notify`
(`permit`), the broadcast channel (`broadcasted`; a ring of `LiveCapacity` from
which each receiver reads at its own `rx`), the input channel (`queued`), the
owner task's control point, and per `GET /events` request a record: what it still
has to replay, `last`, its receiver, and the frames on the socket. A frame is its
sequence number.

| action | code |
|---|---|
| Emit, OwnerRecv, OwnerPush, OwnerSend, OwnerPark | `spawn_event_owner`: one action between two places where the replay lock is not held |
| AckEvents, NotifyOne | `ack_events`, split where it drops the lock, before `notify_one` |
| Subscribe, Replay | `event_stream` up to the response: subscribe to the broadcast, then read the buffer under the lock |
| YieldInitial, YieldLive, Lag, Recover | polling the body: the replayed frames, then the receiver, and what `RecvError::Lagged` leads to |
| Receive, Disconnect, acknowledgements | the gateway (external) |

`EventLog` is what the path promises: a bounded log, appended while there is room,
read in order, released only as far as it was read. `ImplementsLog` maps
`appended`, `delivered` and `released` to the last number, the gateway's position
and the acknowledged position. It is *not* what the code does with its capacities:
a lag recovers one event, and a stream that lags further loses events (section 4).
It is true only while no stream lags further, or if `ReplayCapacity <= LiveCapacity
+ 1`, and is stated here for the theorems with those hypotheses.

`LaggingLog` is the weaker promise the path keeps with the capacities of the code: its
reader may pass over an event (Skip), but only one that as many later events as the
broadcast ring has slots have followed. That is what the run checks
(`ImplementsLaggingLog`), with a buffer of 4 and a ring of 2, so that lags do lose
events; EventuallyReceived excepts exactly the events that were passed over
(`PassedOver`).

TLC runs one stream; that streams do not disturb each other is what the theorems
show, which are about any set of them.

### MessageRuntime, MessageRuntimeProofs (`message_sidecar.rs`)

State: the runtime's fields (`adapter`, `configured`, `connected`, `last_error`,
`generation`, `receive_task`), each receive-loop task with its adapter and
generation, each platform connection, and each request with its control point.
A request stops at every await (`Points`), and may be dropped there (`Drop`: the
deadline of `dispatch_frame`, or a reset HTTP/2 stream); `Awaits` says that these are
all of them, the locks and the stores of the error included. Bump and Take are the two
halves of `stop_receive`, Spawn and Keep those of `start_receive`; Previous is the
disconnect of the adapter that was replaced; Find reads the adapter to disconnect and
Unplug disconnects that one, even if another has been installed meanwhile. A loop that
failed looks at its generation (LoopFail) and then reports (LoopReport).

A send takes the installed adapter, then the lane of its session, which serialises
sends (Send, Lock, Sent). The registry refers to lanes weakly; the model keeps for
each session the lane made last, and takes it for unused when no request refers to
it. What it shows of the code: a send goes out on the adapter it took, even if a
configure has replaced and disconnected that one while it waited for its lane
(556 against 580). tokio's Mutex is fair; only that it excludes is used.

`order` is a history variable. In `turns`, requests other than sends have come one
after the other, each to its end; with one that starts while another is under way, or
that is dropped, they are `mixed`; a configuration that then replaces the adapter all
by itself mends that. ReadyReceives (one loop, the one whose handle is kept, on the
installed adapter) holds in turns and again once mended: whatever overlapped or was
dropped half way, the next configuration alone puts the runtime right. NoStrayConnection
and LossIsOwn (no loop is about to report the loss of a connection while a later one
receives) hold in turns: a request dropped before its disconnect() leaves a connection
that nothing ends, and a loop that two overlapping requests lost sight of may report
late (section 4). StrayLoopsEnd holds in all histories: a loop that was superseded, even
one whose handle was lost, ends, and so does the loop after a disconnect.

### ChatQueue, ChatQueueProofs (`feishu/processing.rs`, `feishu/adapter.rs`)

State: `pending_events`, `drain_scheduled`, the chats in `active_guards`, the
drainer tasks with the batch they hold, and for each event where it is. Each
caller of try_process moves through `call`: the queue lock is taken after the
failed `try_lock_owned`, the flag is swapped after the queue lock is dropped, and
release drops the guard before it looks at the queue. The drainer retries its
batch one event at a time. Abort is `stop_receive` aborting the task that awaits
inside `receive`.

The production adapter is built without a drain handler (`adapter.rs:184`), tests with
one; `hasHandler` is either, chosen at the start, and every run covers both. Without a
handler what is queued waits for a release, and QueuedIsHandled makes no claim.

release starts the next event of a chat *without* its lock (place `loose`), so
two events of one chat may be handled at once when a handler is set. HeldByOne is
therefore about the guard: it has one holder, nobody drops someone else's, and it
is not left behind.

### FeishuWs, FeishuWsProofs (`feishu/ws.rs`; connect, disconnect and receive of `feishu/adapter.rs`)

State per reader task (one for each successful `connect()`): its control point,
whether its connection delivers frames, its writer task, `consecutive_attempts`,
the fragment buffer, the write channel and the event channel; for the adapter,
whose receiver it holds. Each wait of the reader is a `select!` of its own with an arm
for `tx.closed()`, and each such arm is an action of its own that is enabled at that
wait only: what the reader does next, and when its writer and its connection go, follows
from where it is.

| action | code |
|---|---|
| Connect, Disconnect, Receive | the adapter; receive finds the channel closed or takes an event |
| ReadFrame, Answer, Hand | the read loop: reassemble, put the acknowledgement on the write channel, put the event on the event channel |
| ReadEnds, Stop, Backoff, Register, Dial | the end of a connection, and the reconnect loop with its limit |
| ReadClosed, AnswerClosed, HandClosed | the closed arms in `ws_read_loop` and `send_response_unless_receiver_closed`: back to `reader_loop` (Return), which stops writer and connection (Stop) |
| BackoffClosed, RegisterClosed, DialClosed | the closed arms of the reconnect loop, which end the task (Leave) |
| Write | the writer task |
| Send, Break | the server and the network (external): an event is sent, in parts, until acknowledged, and parts may come twice |

A part that comes twice counts as another one, as in the code; a part that is not
the last is never acknowledged (`ws.rs:638` has the server require it of each). Nothing is assumed of `register_pin` and `connect_async` in
the reconnect loop, which have no timeout. `runtime.connected` stays true when
the reader has ended until `receive` is asked again. Not in the model: pings,
heartbeats and other control frames, and an error of `process_webhook_event`,
which ends the receive loop although the event was acknowledged.

### WechatIlink, in ChatQueueProofs (`platform/wechat_ilink.rs`, `platform/dedup.rs`, the receive loop)

State: the messages the service has, and whether it still accepts the token; the cursor
in memory and in the file; whether the adapter is connected; the reply contexts; `pending_messages`; the window of seen ids;
what `receive` still has to look at (`batch`) and what it returned (`hand`); where
the loop is; and, as history, what was handed on and what left the window.

| action | code |
|---|---|
| Connect, StartReceiving | `connect_adapter`, split before `start_receive` |
| Disconnect, AdapterDisconnect, Disconnected | `disconnect_adapter`: stop_receive, disconnect() of the adapter, the flag; a connect that overlaps it may start a loop in between |
| LoopHead, Receive, Emit | `run_receive_loop` |
| PollAnswered, PollFails, PollRefused, SaveFails | `get_updates` with the cursor and its file |
| Parse, Parsed | the updates of one answer: echo, duplicate, or message, and the queue |
| TokenExpires, SeenExpires, Restart | the session, the window's ages, a crash of the process or another configuration |

Both modes are in one model: with a QR token the cursor is also in the file, with
a bot's secret it is not. A QR token is the one that was configured: connecting again
does not make an expired one good, only another configuration does. With a secret,
connecting gets a new token, but nothing in the loop renews one that has expired.
EventuallyHanded therefore assumes a token that stays good.

Messages are parsed in one step and each carries a context token; delays, and the
counters that only choose between delays, are abstracted. A message of Self stands for
all that `parse_ilink_message` gives up (892-898: no text and of no known type), which
happens after its id was noted. Messages without an id, which skip the window (1298),
are left out, so that HandedOnce says nothing of them.

### SourceIncremental, in EdgeEventsProofs (`source_sidecar.rs`, `source_db.rs`, permits of `managed_server.rs`)

State: the table (when each row last changed), the gateway's watermark and what it
has committed, the requests with their chunks, the lane and the permits. Accept
takes a permit and joins the lane; ReadBatch reads the page above the request's
watermark; SendChunk sends one chunk, the last one with the next watermark (a
relation, `WatermarkAfter`: which row of the page has the greatest text is left to
`LastValue`); EndStream gives the permit back one poll later; a read that fails is a
stream of one frame, which keeps the permit as long (ReadFails, then EndStream); a
request that times out leaves the lane wherever it stands in it; Commit is the gateway
(external), which commits rows and watermark together unless somebody has committed
meanwhile. ReadFails, Timeout (30 s, at the lane or in the read) and Cut (the stream)
are faults.

The next watermark is the maximum of the page's values *as texts*; `Text` is their
order, and the run gives the one of an integer column at its change of digits.
Covered says that the watermark passes no row all the same, and CatchesUp that it
gets to the last one.

Writers are not restricted (`Write`): a change may be late, have the time of other
rows, or fall into a window that is being paged. The code does lose rows then, because
pages are taken by offset from `ORDER BY` without a tie-breaker (`source_db.rs:258`; the
test at `source_sidecar.rs:1777` pages rows of one time). The history `exposed` names
the rows that are out of reach, and Covered excepts those and no others: a row written
at or below a watermark that is committed or may be next, or which other rows, leaving a
half-read window, move under its offset (`Hidden`), and rows of one time that a page
ends between (`Torn`). A row leaves `exposed` when it changes again out of their reach.

Outside the model: the strategy without a column to read by (offset, 1179-1188, which
the code reports as degraded) and columns of whose values `max_string_field` makes no
text; a row above 256 KiB, which fails every time; `expected_revision`, which compares
two fields of the same request; reading the body in `decode_json`, which has no timeout.

Bitables, which page by a token and ignore an offset (`source_sidecar.rs:794`), are
not modelled.

### LiveTransport, in ProjectionRegistryProofs (`stores/liveTransport.ts`)

State: the module-level variables of the file. JavaScript runs to completion, so
an action is one turn: a call from outside, a continuation of `synchronize()`
after an await, a timer, or an event of the `EventSource`. `Turn` keeps other
turns out while `synchronize()` runs on without an await. `flight` is the one
`synchronize()` under way, with the call it awaits and whether that was answered.
The gateway is external: subscriptions with a revision, a stream that carries a
baseline and, later, `ready` for each revision, and faults. What ran ahead of the
answer to a PATCH is handed on one envelope at a time (pc `replay`), in the turn of
the answer.

Events are numbered, and are published whether or not a stream is open; `shown.gap`
records that consumers were given an event without the one before it, or without a
baseline that covers it. Each of the two buffers has a limit: an envelope that finds it
full is kept back, and the connection is rebuilt, but only after a delay, while the
stream is read on. `shown.lost` records that this happened, or the following.

A PATCH carries a key made of the subscription and the revision it changes (513). When
its answer is lost the client sends another one under the same key: the gateway answers
it as before if the selector is the same (ServePatchAgain), and refuses it otherwise.
Envelopes that the stream brought under the new revision between the two answers were
dropped, since nobody waited for that revision; consumers have a hole then until the
connection is rebuilt.

`calls` is a history of failed calls: a failed create or PATCH asks for a rebuild
(owed), which happens (repaired), unless the stream is opened first and calls off the
timer (overlooked). EndsSynced is about all of them: the gateway ends up serving what is
open on a ready stream, or a rebuild was overlooked for good (finding 6).

### ProjectionRegistry, ProjectionRegistryProofs (`stores/projectionRegistry.ts`, `login` of `stores/app.ts`)

State: the entry of one execution together with what the store's maps hold for it
(`entry`), the execution at the gateway, and login. An operation is a function
from the entry before it to the entry after it, so that calls nest as in the
code: LoadReturned runs the continuations of everybody who awaits the flight
(`recoverProjectionSource`, `establishConnection` with its `finally`).

| action | code |
|---|---|
| Acquire, Release, Refresh | `acquire`, `release`, `load` called by a page |
| SendLoad, LoadReady, LoadNotFound, LoadSuperseded, LoadUnavailable, LoadRefused | `load` and `loadOnce`: the request, and each kind of answer |
| InitialTimer | the timer of `scheduleInitialMaterialization` |
| Delta, LiveStatus, Snapshot, ResyncRequired, Revoked | `applyProjectionEnvelope` |
| LoginBegins, LoginDone | `login` around `failClosedAuthorization` and `refreshAuthorization` |

`upset` is a history variable for the cases in which the code does not see to it
that a watcher is served; Served leaves them out:

- the retry budget was spent before the execution could be read;
- another scope was asked for while a connection load was under way:
  `establishConnection` sets `detailScope` and returns, `loadOnce` sets it back,
  and the `finally` block may find nothing to do;
- a reload failed, and nothing asks again until the next envelope;
- a snapshot that was read before the end arrives after it with the same revision
  and hides it.

### IframeBridge, IframeBridgeProofs (`apps/iframeBridge.ts`)

State: the port (which load of the frame it belongs to), `disposed`,
`authorizationValid`, `detailPromise`, the replay window, the map of active
requests, and every request accepted so far with where it is (detail, fetch, the
first wait for credit, read, post), its credit, its chunk and what was posted. One
action is one message, timer or answer with all continuations it wakes, because
an abort rejects the pending fetch or read at once: Connect, Dispose, Invalidate
(a 401 or 403, from whichever call), Request, Cancel, Credit, Deadline,
DetailAnswer, Answer, Read.

What the model shows of the code: a deadline that passes while a request waits for
credit does not end it, so that without credit it keeps its slot (318 against
368), and EveryRequestEnds assumes credit; a request cancelled in its first wait
for credit ends without a message; after `connect()` the errors of requests of the
earlier load go to the *new* port. An identifier that is used again after it left
the window of 2048, window messages, theme and locale are not covered.

### ChatAttachment, ChatAttachmentProofs (`stores/chatSessions.ts`, the epoch of `api/client.ts`)

State: one session's attachment (`role`, `writable`, `blocked`, `submitting`,
`timer`), its turn, the lane of `serializeAttachment` with the operation that runs
(`job`: the call under way, failed attempts, whether `attachmentEpoch` or the
client's authorization epoch has moved), and what the gateway has. What does not
wait for the lane (Open, Send, Command, Stop, Attach, Detach, Close, TurnStarts,
TurnEnds, Revoke, Refresh, Beat) queues or changes state at once; the rest are the
calls of the operation at the head, each answered, refused, or done with its
answer lost.

`kept` records why a lease may outlive its use; IdleHoldsNoLease lists the
reasons. What the model showed of the code, and the properties leave out:

1. `retainedWriter` is read before the lane (line 3059): a release that is queued
   already takes the lease the command counts on, the command takes one of its
   own, and does not release it.
2. The compensation after a revoked writer attach is not reached, as `client.ts`
   throws at the moved epoch first (1163).
3. Attaching as a writer again that is refused while a lease is held demotes the
   tab and leaves the lease.
4. A send that was queued before a revocation is still posted after the next
   login, and keeps its lease.
5. A send on a blocked session leaves its turn pending.
6. `close()` looks at the role before the lane: a reader attachment under way
   leaves presence and heartbeats on a closed session.
7. A mutation of the execution policy by the page keeps the writer.

### ChatAnswer, ChatAnswerProofs (`stores/chatSessions.ts`)

State: the session's stream state (`chat`: what of the answer was consumed, shown
and buffered, whether the turn is pending, cancelled, degraded, the timer, the
calls under way), the POST of send(), the receipt of stop(), the events on their
way, and the execution at the gateway with its past (`gateway`), since an answer
to a call may be any snapshot between question and answer (a projection: any
earlier one). Handlers are functions from chat to chat, so that they nest as in
the code.

| action | code |
|---|---|
| Receive | `acceptCanonicalDelta` and the other event handlers, with what they call |
| Flush | the frame that paints `deltaBuffers` |
| Step | one call of a flight (`requestCanonicalResync`, `ensureProgressRecovery`, `refreshLiveExecution`, `refreshProjection`) is answered: `applyRecoveredLive`, `recordCancellationReceipt`, `load` |
| TailAnswered | `syncTranscriptTail` |
| Tick | the interval of `ensureProgressRecovery` |
| Receipt, Stop, StopAnswered, ReceiptLost | `send` and `stop` |
| Start, Produce, Finish, Commit, Break, Cancel, Lose, Repeat, CallFails, TailFails | gateway and network (external) |

One execution of a session's first turn, whose events come with their own ids: that a
terminal names another terminal id, comes for a turn that failed or is a replay, and
that a user event is older than the latest input, cannot happen here and is left out
(2805, 2893-2908). Of the activity events only the phase that ends an execution is
there; like the others it makes the placeholder of the stream again (939-942).

`spoiled` records that the preview is
known not to be whole, and ShownIsPrefix says nothing then: a resync drops
accepted bytes and keeps the count (from 1636); a snapshot is written beside bytes
that wait for a frame and are appended after it (2315-2448); a placeholder is made
again while the count goes on. What else the model shows of the code:

- `TerminalCommitted` joins a tail flight that may have been served before the
  commit: the durable answer is not fetched then (2222-2226);
- a running snapshot that comes after the durable answer puts a preview beside it,
  and a late page of load() takes away an answer a later tail brought;
- a late receipt of the POST, or a late UserMessageCommitted, adopts an execution
  again that is over or cancelled: pending until the next recovery;
- a terminal ExecutionPhase makes the timer stop itself while the turn is still
  pending: what then ends it is the commit's event or a resync. The run has one
  fault; with the event lost and the resync failing too, the turn would stay
  pending, so Settles is a claim for one fault;
- a lost receipt takes the stream's slot: no preview while the execution runs.

## 3. Runs

A run ends within a few minutes on two cores. "Deadlock" is off in all of them:
every model stops when its bounds are used up.

| run | shows | bounds, and why they are enough |
|---|---|---|
| events_pass | no lost wake-up; no hole unless lagged; yields increase; refines LaggingLog; every frame is read or was passed over | 1 stream that reconnects, input 1, buffer 4, ring 2, 5 frames: the buffer is larger than the ring, as in the code, the ring laps the stream by more than what is recovered, and the buffer fills |
| runtime_pass | one loop, on the installed adapter, in turns and again after a configuration alone; no stray connection; no late report of a loss; the sends of a session take turns; superseded and disconnected loops end | 2 requests at once, 3 altogether and any number of sends, all droppable; sends begin while at most one other request has been accepted (`MaxWithSends`), and requests that were mixed overlap again only after one was alone (`OverlapAgain`): three are enough for two that overlap, or one that is dropped, and the one that mends; one session with two lanes, so a forgotten one would be replaced by another; 3 adapters and 3 tasks, so one can be installed, one replaced and one new |
| chat_pass | nothing lost or doubled; guards; order; queued is handled where a handler is installed | with and without a handler; 4 events of 2 chats in any assignment, 3 callers at once, queue of 2: overflow, a drainer with a batch of two while others queue, aborts, a drainer that gives up |
| live_pass | no hole, unless a full buffer kept an envelope back or a PATCH was answered again; nothing left behind; the gateway ends up serving what is open, unless a rebuild was overlooked | 2 sources, 4 subscriptions, 2 changes and one more after a failed call, 2 faults of any kind, failed and unanswered calls included, 1 event after the one that precedes the client, which overtakes baseline and answers; buffers of 2, of which the one for envelopes that run ahead of an answer overflows (for the barrier's it takes 3 events; the theorem is about any limit) |
| registry_pass | nothing runs for an unwatched, finished or latched entry; nothing shown under a lost authority; revisions increase; the end is seen | 2 consumers, 2 sessions, 2 calls, 2 revisions, 2 retries, 1 fault, 1 login |
| bridge_pass | nothing of an earlier load runs; one end or error; silence after revocation; every request ends | 3 identifiers, 2 accepted requests, 2 loads, 2 at once, window 3, a chunk of 2 against credit of 1: a request waits for credit while another is fetched, cancelled or expires |
| wechat_pass | nothing fetched is dropped but by a stop, a disconnect or a fault; handed on once; handed on in the end | 4 messages of 2 users and the account itself, window 2, 4 operations or faults, both modes, disconnects in their three steps: the window forgets, the process restarts from the file, the service sends what it sent |
| wechat_dropped | violation: the cursor covers a message nobody holds | a loop nobody stops, up to 2 failures to write the file |
| ws_pass | acknowledged is kept; a dropped reader ends; every event is received | 2 readers, one event of 2 parts, channels of 1, limit 2, 2 faults: both channels block, the limit is reached, parts repeat, the receiver is dropped at each of the reader's six waits |
| attachment_pass | posts have a lease; writable has one; idle has none; a revocation fences what was under way | 3 uses, lane of 3, 3 failures, 1 revocation: a command behind a release, a compensation that fails |
| source_pass | the watermark passes no row that writers did not put out of reach; permits and lane come back; the watermark catches up | 3 rows, pages of 2, chunks of 1, 2 requests for 2 permits, 3 times, 1 change of any row to any time (also within a half-read window, late, or to another row's time), 1 fault; tables at the start with rows apart, two of one time and all of one time: a window of two pages, two runs of one watermark, a value of fewer digits, a page that ends between equal rows |
| answer_pass | the preview is a prefix; a cancelled turn is silent; a turn settles | 2 bytes, the second one painted late, 1 event on its way, 2 calls when an event or tick comes, 1 fault of any kind |

The bounds on steps (`MaxFrames`, `AckHandlers`, `WireCapacity`, `WireCap`,
`MaxOperations`, `MaxWithSends`, `OverlapAgain`, `MaxEvents`, `MaxCallers`, `MaxChanges`, `MaxFaults`, `MaxFailures`,
`MaxActions`, `MaxLogins`, `MaxRevision`, `MaxIds`, `MaxLive`, `MaxFlights`,
`MaxPorts`, `MaxChunk`, `MaxChunks`, `MaxCredit`, `MaxReaders`, `MaxLane`,
`MaxUses`, `MaxRevokes`, `MaxTogether`, `MaxTime`, `MaxBytes`, `MaxCalls`) are the
only guards that are not the code's. No run uses symmetry. Capacities are small
where the code's are 16 to 10 000: what matters is that each is reached, and which
is the smaller of two (the ring of 256 against the buffer of 4096).

### Fairness

- EdgeEvents: tokio schedules the owner, handlers and bodies (weak fairness). The
  gateway reads what arrives and acknowledges what it has read; the latter is
  strong fairness, as its own older acknowledgements may occupy the bounded
  `AckHandlers` again and again. Adapters, connects and disconnects are not fair;
  the properties assume one stream that stays open (`StableStream`).
- MessageRuntime: a request goes on or is dropped, a loop is scheduled,
  `receive()` returns (at the latest with `Ok(None)`).
- ChatQueue: callers, handlers and the drainer are scheduled tasks; the calls to
  the platform they wait for time out. Giving up (120 s) is not fair.
- FeishuWs: the tasks run and the adapter is polled by the receive loop. The
  server sends an unacknowledged event again as often as it can (strong fairness,
  as the wire may be full in between). register_pin and connect_async may never
  return, a broken link may never fail a read or a write: neither Register, Dial nor
  ReadEnds is fair, and Write only while the link delivers.
- WechatIlink: the loop runs and operations finish; a poll that is repeated is
  answered in the end (strong fairness: other polls fail in between).
- SourceIncremental: the gateway asks again and commits; a request that got its
  turn goes on, and its stream is polled to the end. The lane is a tokio mutex, first come first served.
- LiveTransport: timers fire, calls are answered or fail, the browser retries its
  EventSource, the gateway announces the revision it serves. Changes and faults
  are not fair, and bounded.
- ProjectionRegistry: a request is answered, a timer fires, and the gateway sends
  what its source has not got yet. Snapshots, faults and logins are not fair.
- IframeBridge: the gateway answers, and the APP grants credit to a request that
  waits for it; deadlines and cancellations may or may not come.
- ChatAnswer: events are read, the POST is answered or lost, some call under way
  is answered or fails, the interval fires. Painting, the gateway's progress and
  the user are not fair; Settles assumes that the execution ends.
- ChatAttachment states no liveness: its release gives up after three attempts.

## 4. What disagrees with the repository's own words

The first one is a run that ends in a counterexample (`wechat_dropped`). The
others are behaviours the models have; where a property is named, it leaves the
case out because of them.

1. **The cursor passes messages that are lost** (`wechat_ilink.rs:748`). It is
   advanced and written to the file before the fetched messages are queued; an
   error in writing returns from `get_updates` without them, while the comment at
   551-552 has the queue hold what the cursor already covers.
2. **Lagging streams lose frames** (`managed_server.rs:455`). After a lag the
   stream yields one retained frame and goes on with the oldest frame of the
   broadcast ring; what lies between is still retained but skipped, and is freed
   when the gateway acknowledges a later frame.
   `docs/evidence/v550-edge-h2-transport.md:6` lists lag replay.
   (GapFreeUnlessLagged, ImplementsLaggingLog, EventuallyReceived)
3. **Two receive loops** (`message_sidecar.rs:109`). Two requests inside
   `start_receive` each store a handle; both loops are of the current generation.
   The comment at line 62 calls the runtime the only owner of the loop.
   (ReadyReceives)
4. **An invalid configuration replaces a healthy instance**
   (`message_sidecar.rs:373`), against `README.md:196`.
5. **A chat stays locked** (`feishu/adapter.rs:1264`): an aborted `receive` leaves
   its guard in `active_guards`; `processing.rs:86-87` says who gets `Process`
   releases. (HeldByOne, QueuedIsHandled)
6. **A failed synchronisation is not retried** (`liveTransport.ts:347`): `onopen`
   cancels the timer that a failed PATCH armed, taking it for stale (345-346).
   (EndsSynced)
7. **An unwatched entry stays latched after login** (`projectionRegistry.ts:519`):
   `refreshAuthorization` latches all entries and releases only the watched ones;
   the comment at 521-523 has a latch mean a revocation. (Served)
8. **A repeated part completes a message** (`feishu/ws.rs:729`): the buffer counts
   parts, so that one part twice stands for two; 704-705 says "once all fragments
   have arrived". What was combined does not parse, is answered with 500 and comes
   again, which is why EventuallyReceived holds all the same.

## 5. What is proved

### The event path

`EdgeEventsProofs` proves for all capacities, streams and numbers of frames, under
`CapacityAssumption` (capacities are positive):

| theorem | states |
|---|---|
| TypeCorrect | `Spec => []TypeOK` |
| ReplayIsComplete | the buffer holds exactly what is not acknowledged, and fits |
| NoWakeupIsLost | a parked owner has a full buffer or a pending notification |
| StreamsHaveNoGap | a stream that never lagged has no hole |
| StreamsGoForward | `Spec => YieldsIncrease`: what a stream yields is above all it yielded before |
| UnskippedPathIsALog | `Spec /\ []NothingSkipped => ImplementsLog` |
| PathIsALog | `Spec => ImplementsLog` if `ReplayCapacity <= LiveCapacity + 1` |
| PathIsALaggingLog | `Spec => ImplementsLaggingLog`, for all capacities |

The first four are not inductive. The invariant `Inv` adds: every emitted frame is
queued, held or numbered (`Counting`: otherwise `nextSequence` has no bound); the
broadcast is at most the one frame behind that the owner is about to send
(`InStep`); the buffer is an interval (`LogInterval`: "front of the deque" and
"all above n" then mean the same, and its size is a difference); each stream's
receiver joins on to what it replayed (`StreamOK`); and an owner on its way to
wait has a reason to, or a wake-up coming or stored (`Woken`). TLC checked `Inv`
on the instances above before it was proved. There is one lemma per action (`OwnerStep` for
the simple ones), facts about Max, Min and intervals on top, and `StreamUpdate` for
what all stream actions have in common. YieldsIncrease is read off each stream action,
with what `Inv` says of `last`.

That the path implements `EventLog` is proved step by step: emitting and numbering is
Append, what the gateway takes off a wire is Deliver, an acknowledgement is Release, all
else a stutter. The hard part is that Deliver goes up by one: the cursor is one, the
streams are several, and one opened long ago may bring what another has brought.
`Logged` says of each wire that its first number is at most one above the cursor and
each further one at most one above those before (`Chained`), and of each stream that
it goes on where its wire will have brought the gateway (`Follows`). One thing in the
code breaks it: a lag loses what the ring dropped, and recovery passes over one event
only (finding 2). `NothingSkipped` says that no lag loses more, and is the
hypothesis of UnskippedPathIsALog; `ReplayCapacity <= LiveCapacity + 1` implies it
(PathIsALog). Neither the code's 4096 and 256 nor the instance of `events_pass` meet
that: there the path is a log as long as no stream lags that far, and not otherwise.

What holds for the code's capacities without a hypothesis is `LaggingLog`: whoever
keeps within 256 events of the newest one misses nothing, and everything else
EventLog promises stands. The same lemmas show both: their parameter `lax` says
whether a wire may hold a number out of turn, and `Slack` bounds such a number by the
oldest one in the ring when the stream lagged. `events_pass` checks it where lags do
lose events and ImplementsLog fails; with `Ring <- LiveCapacity + 1` TLC refutes it, so
that the bound is exact.

### The chat queue

`ChatQueueProofs` proves, under `QueueAssumption` (bounds are natural numbers, the
queue has room for one), for any chats, events, callers and queue depth, with or
without a handler, aborts and a drainer that gives up:

| theorem | states |
|---|---|
| QueueTypeOK | `Spec => []TypeOK`: the flag is set exactly while the one drainer runs |
| AccountedForAll | an event that waits is in one list, once |
| GuardHeldByOne | a guard has one holder, and is kept exactly as long as it has one |
| WaitingInOrder | `Spec => OrderKept`: events of one chat that wait stay in the order in which they came |

The properties relate lists and locks to the places of events, one list or lock
at a time; what an action takes from one list goes to another, so `Inv` states
all of them together and event by event: `Phased` (how far the caller has come
fixes the event's place: what is pushed is not yet queued), `Lists` (queue),
`Batched` (the batch's two halves, disjoint), `OneDrainer` (two drainers could
each take the queue; a batch only exists while it is retried, so stopping loses
none), `Guarded` (owners of a chat's guard, including an aborted one, are
unique; otherwise the end of one handler could drop another's). Lemmas say what
Append, Tail, RemoveAt and concatenation do to a list without repetitions; one
lemma per action follows. The events are numbers below `MaxEvents`, which is
arbitrary. TLC checked `Inv` on the instances of `chat_pass`, with and without a
handler.

OrderKept is an action property and follows from `Inv`: what the drainer keeps, what
it has still to retry and the queue are, in this order, one list without repetitions
(`Waiting`), and each action leaves the pairs of it as they are (`Ordered`), takes
something out, or adds an event at the end. What is left are facts about
concatenations (`ThreeBefore`: where two events of three joined lists can stand).

### WeChat's messages

`ChatQueueProofs` also proves, under `WechatAssumption` (the account is no user, the
window holds one), for any messages of any users, any window, both modes and any
number of faults:

| theorem | states |
|---|---|
| IlinkTypes | `IlinkSpec => []IlinkTypeOK`; the file's cursor is never ahead of the one in memory |
| NothingIsDropped | `IlinkSpec => NothingDropped`: what becomes missing was in flight, or just answered, in a step that is a fault, stops the loop or disconnects the adapter |
| HandedOnOnce | `IlinkSpec => HandedOnce`: what is handed on again had left the window |

`IlinkInv` relates four places of a message to the cursors and to each other.
`Fetched`: nothing is known of a message the cursor has not passed, so that what an
answer brings is new and the window does not skip it; and with a QR token what is on
its way has its cursor *in the file*, so that a restart does not fetch it again.
`Once`: what is queued was looked at; what is in an answer, queued or in the loop's
hand and was handed on already, or is queued twice, had left the window. Steps are
sorted by what they do to messages (`MessageSteps`: most only let some go). The
theorem does not save what `wechat_dropped` shows to be lost: a fault after the cursor
has moved. TLC checked `IlinkInv` on the instance of `wechat_pass` first.

### Incremental reads

`EdgeEventsProofs` also proves, under `SourceAssumption` (a page, a chunk and the
server's permits are at least one), for any rows, any requests, any order of the
values' texts, page, chunk, permits, times and faults:

| theorem | states |
|---|---|
| SourceTypes | `SourceSpec => []SourceTypeOK` |
| PermitsComeBack | `SourceSpec => []NothingLeaks`: when no request is served every permit is back and nobody is in the lane |
| NoRowIsPassed | `SourceSpec => []Covered`: the watermark has passed no row, other than those writers put out of reach, that the gateway has not committed as it is |

`Served` counts: the permits out are the requests that hold one (`Permitted`, by
cardinality), and whoever is in the lane is a request that waits there or reads, once
(`Laned`). For NoRowIsPassed nothing is assumed of the rows or their texts; rows that
writers put out of reach are excepted one by one (`exposed`), not by a restriction on
writers. `CoverInv` says, of the other rows: those the committed watermark passes
(`Passed`: at or below its value, or among as many of the next as its offset) the gateway
has (`Covered`); those the *next* watermark of a request passes, the request carries or
the gateway has (`Carries`); and only a request of the committed watermark may still be
committed (`Asked`). The heart is PageCovers: a page cut off in order of value holds the
next rows but those of one time it ends between (`Torn`), whatever value the maximum of
texts then names; Place counts what lies below a row. WriteShows and WriteCovers: what a
write puts behind a watermark in use is exposed by it. TLC checked `CoverInv` before it
was proved.

### The connector runtime

`MessageRuntimeProofs` proves, under `RuntimeAssumption` (an absent identity is none,
a session can have a lane), for any requests, adapters, loops, sessions, lanes and
operations, with requests that may be dropped or may not:

| theorem | states |
|---|---|
| OneSendPerSession | `Spec => []SerialPerSession` |
| ConnectedReceives | `Spec => []ReadyReceives`: while requests came in turn, and again once one alone has replaced the adapter, a connected runtime at rest has exactly the loop it knows of |
| NoneIsLeftConnected | `Spec => []NoStrayConnection`: while requests came in turn, at rest only the installed adapter may be connected |
| LossIsReportedByItsOwn | `Spec => []LossIsOwn`: while requests came in turn, no loop is about to report a loss while a later one already receives |
| RuntimeTypes | `Spec => []TypeOK`; no loop is of a generation the runtime has not reached |

That sends take turns rests on `Laned`: whoever waits for a session's lane or has it
refers to the lane *made last*, since no other is made as long as somebody refers to
that one. Two sends of one session then are two holders of one lane. The other three
theorems are about requests that change the adapter, and `order` says how these came: in
turn; mixed, when one came while another was under way or was dropped; mending, when
after that a configuration is alone; mended, when it has replaced the adapter and those
after it take turns again. As long as they are not mixed, one at most is under way
(`Alone`), and for those in turn `Turn` says (of `Under`, or Idle) what it knows at each
await (`Fits`: that the adapter it connects is not yet the installed one, later that it
is), that no other loop counts than the one whose handle is kept, or the one it is about
to keep (`OneLoop`), when a connection is reported without a loop (`Backed`), and which
adapters may be connected (`Plugged`). `Mends` is what the mending request knows before
`swap`: the generation it has raised supersedes every loop there is, so that from then
on only loops of the current generation count (`Counts`); adapters left connected by
the mixed ones stay so, and Plugged claims nothing of them.
There is one lemma per action of a request, which derives the new turn from the old;
steps of sends leave the turn alone; a loop gives up only when it failed, was superseded
or the runtime is not connected (`TurnLoop`). TLC checked `RuntimeInv` on the instance
of `runtime_pass` first.

### The answer

`ChatAnswerProofs` proves, for an answer of any length, any pieces, any number of
events and calls under way and of faults:

| theorem | states |
|---|---|
| CancelledStaysSilent | `Spec => []CancelledIsSilent`: nothing brings the preview of a cancelled turn back |
| PreviewIsPrefix | `Spec => []ShownIsPrefix`: what is shown, with what waits for a frame, is what was accepted, unless `spoiled` |
| AnswerTypes | `Spec => []TypeOK`: only a turn that is there has a text, a progress timer has an execution, every call is at a stage of one of the four flights |

A turn is put up by `ensureStreamTurn`, wherever the stream has a place for it
(`streamTurnId`); so "not shown while cancelled" is not inductive, and `Silent` adds
that a cancelled turn has no place and that nothing is shown without one. There is
one lemma for each function the handlers are made of, then one for each action; a
function that touches neither of the three fields keeps `Silent` at once. No type
of the other fields is needed.

ShownIsPrefix needs more. `Whole` adds that no bytes wait when none were accepted
(what was accepted before a turn could show it must not begin the next one's text), and
that a turn that is not shown has no text. `WholeInv` adds that what a call will be
answered with, and what is on the stream, has the form the gateway gives it. What is
left are sequences: a frame moves the buffer behind the text (concatenation is
associative), a piece that follows on what was accepted extends `Bytes(0, n)`, a
snapshot replaces both. Every other function keeps the text and the buffer
(`SameText`), hides the turn (`HiddenWhole`) or leaves it unclaimed (`Unclaimed`:
spoiled, or not executing).

For AnswerTypes a call that was forgotten (`stopProgressRecovery` drops the flight, not
the request) is the interesting case: it goes on under the name of what it asked for,
which is a flight of its own only because progress recovery never loads and never waits
for the transcript (`Flights`). `TidyInv` adds this, and that the gateway tells of no
byte beyond the last, to `WholeInv`.

### The registry

`ProjectionRegistryProofs` proves, under `RegistryAssumption` (bounds are natural
numbers, no session is the absent one), for any consumers, sessions, revisions,
retry budgets, logins and faults:

| theorem | states |
|---|---|
| RegistryIsSound | `Spec => []RegistryInv` |
| NothingObservesInVain | `Spec => []Quiet`: no source and no timer without a watcher, after the end, or without authority |
| ShownOnOwnAuthority | `Spec => []OwnAuthority`: what is shown was read under the authority the page has |
| NothingGoesBack | `Spec => RevisionsIncrease`: a projection that stays installed never goes back in revision |
| RegistryTypes | `Spec => []TypeOK`: whatever waits for a load has a flight, a source excludes a timer, retries stay within the schedule, only a watcher is bounded |

One turn of the code changes the entry several times: an answer installs a
projection, then the continuations of everybody who waited for it connect, close or
load again. The invariant therefore is about an entry, not about a state: `Sound`
holds of it in between as well. It adds to the two properties that a live source
has a scope, a projection to continue from and no timer next to it; that recovery
is of a live source; and, the part that OwnAuthority needs, that an answer which
*will* be accepted (its flight is `fresh`) was asked for under the entry's own
authority, so that whatever changes the authority has to make the flight stale.
There is one lemma for each operation on an entry (it keeps `Sound`), SameSound for
those that touch nothing it looks at, and one for each action. For NothingGoesBack each
of these operations is shown never to lower the revision of a projection it keeps, and
the chains of them in an action compose.

RegistryTypes needs a second invariant of an entry (`Within`), with the bounds and what
an answer was asked for, and one that does not hold in between: `Attended`, that a
recovery or a connection under way has a flight that will resolve it. `LoadReturned`
takes the flight away first; its lemma shows that the continuations in the same turn
either end the wait or load again. An operation that awaits, tries and shows
nothing new (`Lesser`) keeps both.

### The live transport

`ProjectionRegistryProofs` also proves, under `TransportAssumption` (bounds are
natural numbers, a buffer holds one), for any sources, subscriptions, changes,
events, faults and buffer limit:

| theorem | states |
|---|---|
| TransportTypes | `TransportSpec => []TransportTypeOK`; no buffer exceeds its limit |
| GatewayIsCleanedUp | `TransportSpec => []NoneLeftBehind`: as long as calls are answered, a subscription the gateway serves is the client's, to be deleted, or being created |
| NothingIsSkipped | `TransportSpec => []NoGap`: consumers see no hole unless a full buffer kept an envelope back, or the gateway answered a PATCH again |

`Shape` says what the state of `synchronize()` implies for the other module variables
(the stream is of the subscription; what a call was made for still exists).
NoneLeftBehind is about the gateway, and a call under way may already have been
answered there: `Known` says, for each call and each state of its answer, what the
client's variables tell of the gateway's subscription, while no call has failed. For
NoGap the events that wait in the barrier, in the buffer for what runs ahead of an
answer and on the wire are one list: `Whole` says that it continues what was shown
without a hole (`Chained`), up to the last event published if the stream is open and
of the current revision (`Reaches`), and the same of the list that will take its place
if the answer under way changes the revision (`Adoptable`). That part is the
strengthening the code's order of operations depends on: envelopes of the next
revision may only be kept, not shown, until the answer comes. TLC checked the
invariants on the instance of `live_pass` first.

### The writer lease

`ChatAttachmentProofs` proves, under `AttachmentAssumption` (bounds are natural
numbers), for any operations queued, calls that fail or lose their answer, and
revocations:

| theorem | states |
|---|---|
| NothingAttachesRevoked | `Spec => RevokedIsFenced`: an operation that a revocation has overtaken attaches nothing |
| WritersAreAdmitted | `Spec => []AdmittedByLease`: a request goes out, and a tab at rest is writable, only with the gateway's lease, unless that was taken back |
| LeasesAreReleased | `Spec => []IdleHoldsNoLease`: a lease that is left at rest has one of the reasons in `kept` |
| AttachmentTypes | `Spec => []TypeOK`: a tab without authorization is detached and schedules no heartbeat; nothing is tried more than three times |

The epoch is compared after every call that could attach, but not by the first
step of an operation, which only looks at the role. The invariant `Fenced` closes
that: a job that a revocation has seen is under way, never about to begin. Then
each action either compares the epoch or can only take a role away.

The other two are about rest, and `Accounted` says what holds in between. `Admitted`
follows a lease from the moment the gateway confirmed the writer; `Cached` says which
calls only a tab that is not writable makes, so that no demotion is under way beside
a write. For LeasesAreReleased, call a lease *unaccounted* that none of the
reasons explains. `Leased`: while there is one, the tab's role is writer (but for the
calls that acquire), and a turn is there to release it or a release is queued:
anywhere when nothing is under way, behind the operation when a heartbeat is
(`Owned`). That is not inductive without `Promised`: an operation may have been queued
while a turn was there and count on that turn to release the lease; when it
comes to run, the turn is still there or its end has queued a release behind it. TLC
checked `Accounted` on the instance of `attachment_pass` before it was proved.

AttachmentTypes adds `Silenced` to these: without authorization there is no timer, and
a heartbeat still under way is stale. The second half is what the first needs: a
heartbeat schedules the next one when it ends, and only its epoch tells it not to.

### What Feishu was told is taken

`FeishuWsProofs` proves, under `WsAssumption` (capacities are positive, an event has
one part or two), for any events, readers, capacities, limit and faults:

| theorem | states |
|---|---|
| TakenIsKept | `Spec => []AckedIsKept`: it was received, is on its way, or went with a receiver that was dropped |
| LimitsAreKept | `Spec => []TypeOK`: channels within their capacity, attempts within the limit, a reader holds an event exactly while it answers it or hands it on |

Two things are missing from AckedIsKept. The answer is queued at the writer before
the event is handed on, and may be written much later, after its reader has
reconnected: `Kept` says of every answer *in the write channel* what the property
says of one that arrived. And what the reader holds only counts if it parsed (code
200): a repeated part (finding 8) makes the reader drop an event of which an
earlier copy is already acknowledged, and that copy is in the channel.

### The host bridge

`IframeBridgeProofs` proves, under `BridgeAssumption` (bounds) and, CapacitiesAreKept
excepted, `NeverForgotten`, for any requests, loads of the frame, credit and chunks:

| theorem | states |
|---|---|
| ReplacedEnds | `Spec => []ReplacedIsOver`: nothing of an earlier load, or of a disposed bridge, runs |
| SilentOnceRevoked | `Spec => RevokedIsSilent`: without authorization a request gets nothing but the error that says so |
| EndedOnce | `Spec => AnsweredOnce`: one end or error, and nothing after it |
| CapacitiesAreKept | `Spec => []TypeOK`: whoever waits for credit has none, credit and chunk stay within their bounds, the window within its length |

`NeverForgotten` says that no identifier leaves the window against replay (there are
no more identifiers than it holds). The code depends on it: the map of requests has
one place for an identifier, and a second request under the identifier of a first
that still runs would take its place. connect, dispose and a revocation stop what
is *in the map*; so the invariant `BridgeInv` states that every request that runs is
in the map under its identifier (`Belonging`), that the map leads to nothing else
(`Mapped`), that it belongs to this load and a valid authorization, and that it waits
for the detail only while that is being fetched. `Answered` adds that what runs has
not been told an end yet. `Moves` says what a step may do to one request; there is
a lemma for each function of one request (Stop, Fail, Pump, ...), then SettleInv: if
every request moves, the finally blocks free exactly the places of those that ended.
CapacitiesAreKept needs none of this: its invariant `CapInv` is the type invariant
with every request in `Capped`, and has a lemma per function in the same order.

### What is only model-checked

Every invariant and every safety property of the passing runs is a theorem, and so is
the type invariant of every module that models code. What TLC alone checks, on the
instances of section 3:

- liveness under fairness, and ENABLED, which the prover does not treat:
  EventuallyReceived and the other properties of that kind;
- what a fold or a recursive definition computes for every input (induction over data):
  the models of the proved components do without.

ImplementsLog is proved under its hypotheses, which the code's capacities do not meet
(finding 2), and no run checks it; ImplementsLaggingLog, proved without any, is checked.

Beyond the assumptions on constants, only the theorems of the host bridge have a
hypothesis (`NeverForgotten`); the code does not keep their properties without it.

## 6. What is not modelled, and why

- No state that outlives a call, or pure I/O: rendering, translations, styles,
  generated bindings, text formatting and parsing, the SQL of source connectors,
  file transfer, QR images, the presentation adapters.
- Time: a deadline is a step that may happen. Memory order: the atomics of the
  runtime are AcqRel/SeqCst and single variables.
- The gateway: only what the code here relies on.
- A restarted sidecar numbers its events from 1 again, while the gateway's
  position is of the process before; what the gateway then does is not in this
  repository. WechatIlink has restarts, with the cursor in its file.
- The handshake of `managed_server.rs` runs the factory before it compares
  capabilities (line 290); refused handshakes are not modelled yet.
- Approvals and reactions of the Feishu adapter, the e-mail and WeCom adapters,
  source schemas and events, root presentations, supplements and branches of the
  chat store, and the mirror (which only its tests call).

## 7. Plan

Models, each with its hazards:

1. **EdgeServer**: handshake, permits of plain requests, deadlines that drop a
   handler between two of its writes.
2. ChatAnswer with several executions and root presentations.
3. Approvals and reactions of the Feishu adapter.

Theorems: the safety properties of the models above.
