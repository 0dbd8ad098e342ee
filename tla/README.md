# TLA+ models of cppami

These modules model the concurrency and framing logic of the cppami AMI
client library (`src/`) and check it with TLC. Paths below are relative to
the repository root.

## 1. The system

A `Connection` (`src/src/Connection.cpp`) owns four parts, each with its own
thread:

| part | thread | state | operations |
|---|---|---|---|
| `net::SocketReader` | `ami_reader` | `thread_spin_` | `work_thread` polls `TcpSocket::read` and hands every non-empty chunk to the parser |
| `StreamParser` | `ami_parser` | `stream_chunks_`, `thread_run_`, `first_event_`, `event_buf_` | `add_buf` (queue + notify), `work_thread` (condition-variable wait, swap, process), `process_chunk` (greeting line, then framing on `"\r\n\r\n"`), `stop_work_thread` |
| `EventDispatcher` | `ami_dispatcher` | `events_`, `thread_run_`, `promise_map_`, `event_map_` | `add_event`, `work_thread`, `dispatch_event` (correlation by ActionID, EventList assembly), `get_event_pipe`, `set_exception_on_pipe`, `set_null_on_pipe`, `stop_work_thread`, `cleanup_object` |
| `net::SocketWriter` / `TcpSocket` | caller threads | socket fd | `write` (throws on a send error) |

Caller threads use `Connection::invoke` (register a `std::promise` under the
action's ActionID, write, block on the future), `invoke` with a timeout
(`wait_for`, then poke an exception into the promise through
`set_exception_on_pipe`) and `async_invoke` (write only; the response goes to
subscribers). Messages that correlate with no waiting pipe are passed to
`Connection::dispatch_handler`, which calls every subscriber under
`callbacks_mutex_`. `~Connection` resets the reader, writer, parser and
dispatcher in that order; `~EventDispatcher` stops its thread and then, in
`cleanup_object`, asserts that no pipe is left and sets null on those left.

The data types (`KeyValDict`, `Event`, `EventList`, `Action` and its
subclasses) are sequential. The dispatcher branches on
`Reaction::is_success`, `EventList::is_success`,
`EventList::is_list_complete` and `EventList::add_event`; `KeyValDict`
parses every message the server sends (`set_message`) and renders every
action the client sends (`Action::to_string`).

### What is hard here

* Three threads hand data along through two condition-variable queues. Both
  `stop_work_thread`s store `thread_run_ = false` and notify **without** the
  mutex, so a stop that falls between the worker's predicate test and its
  block is lost.
* Several callers' responses, including multi-message EventLists, arrive
  interleaved with unsolicited events and with each other on one stream.
* A timeout races the dispatcher completing the same promise; late messages
  of a timed-out response must go to subscribers.
* Destruction races blocked and timing-out callers.
* The parser thread writes `ami_version_` while callers may read it with no
  lock, and `dispatch_handler` calls subscribers while holding the
  non-recursive `callbacks_mutex_`.
* A read error throws inside the reader thread, where nothing catches it.
* `process_chunk` must frame correctly whatever sizes `recv` returns,
  including terminators split across chunks. It relies on `size_t`
  arithmetic (`npos + 2`).

## 2. Modules

### `StdString.tla`

This module holds the `std::string` operations that `StreamParser` and
`KeyValDict` share. Strings are sequences of symbols, and positions are
0-based as in the code.

* `Find` is `std::string::find`, and `NPOS` is `npos`.
* `SizeAdd` is `size_t` addition, which wraps, so `npos + 2` is 1.
* `Prefix` and `Drop` are `substr(0, n)` and `erase(0, n)`.
* `SEP` and `EOR` are the `": "` and `"\r\n"` constants of `KeyValDict.hpp`.
* `EOM` is the `"\r\n\r\n"` terminator of `StreamParser.hpp`.

### `StreamParser.tla` (with `MC_StreamParser.tla`)

This module models `StreamParser::process_chunk`. The parser's queue is FIFO
and is drained in order by one thread, so each `Receive` step takes the next
1..`MaxChunk` bytes of what the server sent and runs `process_chunk` on them.

* Bytes are `CR`, `LF` or `X`.
* `Find` is `std::string::find`; `NPOS` is `npos`.
* `SizeAdd` is the wrapping `eor_loc += 2`.
* `ScanStart` is the back-off of lines 108-110.
* `DispatchMessages` is the `while` loop of lines 116-133. It is RECURSIVE.
* `ProcessFirstChunk` and `ProcessChunk` are the two paths through the function.
* `version` and `out` record what the two callbacks received.
* `sent` is a history variable holding the messages the server sends.

### `AmiDispatcher.tla` (with `MC_AmiDispatcher.tla`)

This module models the `EventDispatcher` together with the parts of
`Connection` that drive it. The reader and parser are abstracted to the
server emitting whole messages, in order, into `events_`
(`ServerSends`, `ServerSendsUnsolicited` → `AddEvent`). Their framing is
checked separately by `StreamParser`.

A message is a record of the three fields the dispatcher reads:
`ActionID` (a caller, or `NoId`), `Response` and `EventList`, plus a sequence
number. `Responses(c)` is the set of response shapes AMI sends (documented
at `EventList.hpp:16-30`):

* a single message;
* a failed EventList head;
* a successful head, 0..`MaxMiddles` list items, and a `Complete` or
  `cancelled` tail.

| variable | code |
|---|---|
| `events`, `batch` | `events_` and the worker's local `events` |
| `wpc`, `run` | the worker's program counter (`loop`, `wait`, `blocking`, `blocked`, `dispatch`, `draining0`, `draining`, `done`) and `thread_run_` |
| `waiters` | the keys of `promise_map_` |
| `partial` | `event_map_` |
| `result` | each caller's promise (`pending`, `value`, `error`, `null`) |
| `unsolicited` | what reached `dispatch_handler` |
| `cpc`, `api` | each caller's position in `invoke` and which API it uses |
| `srv`, `resp`, `sentUnsol` | what the server still has to send |
| `dpc` | the lifetime: `alive`, `stopping`, `destroyed`, and the two failure ends `aborted` (debug assert) and `crashed` (use of the reset `dispatcher_`) |

Actions:

* The worker's steps split `work_thread` at each point where another thread
  can interleave:
  * `WorkerLoop` is the `while` test;
  * `WorkerWait` takes the lock and tests the predicate;
  * `WorkerBlock` blocks;
  * `SpuriousWakeup`;
  * `WorkerBatchDone`;
  * `WorkerDrain`.
* `DispatchEvent` is one iteration of the dispatch loop. Its six disjuncts
  are the six outcomes of the two `dispatch_event` overloads.
* Caller actions:
  * `Register` is `get_event_pipe`.
  * `Write` and `WriteFails` are `TcpSocket::write` succeeding or throwing.
  * `AsyncInvoke`.
  * `Get`.
  * `TimeoutExpires` is `wait_for` returning `timeout`.
  * `SetException` is `set_exception_on_pipe`.
  * `SetExceptionAfterReset` is the same call made after `dispatcher_.reset()`.
* Destructor actions: `BeginDestroy`, `StopDispatcher`, `JoinDispatcher`,
  `Cleanup`.
* Constants select the build and the environment:
  * `NDEBUG` says whether `assert` is compiled in;
  * `SendMayFail` says whether sends can fail;
  * `Destroy` says whether the Connection is destroyed;
  * `Apis` lists the caller APIs in use.

### `Correlation.tla`

This module is the abstract specification of what the correlation engine
promises its callers (spec.md sections 3 and 8). It has no threads, queues
or locks.

* The state is:
  * `pipe`: each caller's pipe, one of `none`, `open`, `value`, `error`,
    `null`;
  * `reply`: what a pipe resolved with a value holds;
  * `answer`: the server's whole response to each caller;
  * `published`: the subscribers' stream;
  * `closed`: whether shutdown has begun.
* The actions:
  * `Open` registers a pipe, only before the action is answered and before
    shutdown.
  * `Answer` is the server settling on a response.
  * `Deliver` resolves an open pipe with the whole response in one step,
    none of it published.
  * `Fail` is the timeout error.
  * `Publish` hands over a message whose ActionID has no open pipe, after
    the earlier messages of that ActionID.
  * `Shutdown` and `Release` close the Connection and null the open pipes.

`AmiDispatcher.tla` instantiates it as `Abstract` with a refinement
mapping:

* a pipe is `open` while its caller is in `promise_map_`, and otherwise is
  what was set on it;
* `published` is the stream that reached `dispatch_handler`;
* `closed` means the destructor has begun.

`CorrelationRefined == Abstract!CSpec` is checked as a property of
`dispatcher_core`. `CSpec` puts its stuttering disjunct before `CNext`, and
`Answer` first tests that `answer` changes. Both are logically redundant.
They let TLC settle the many detailed steps that leave the abstract state
alone without enumerating abstract actions, which halves the cost of the
check.

### `KeyValDict.tla` (with `MC_KeyValDict.tla`)

This module models `util::KeyValDict`, `action::Action` and the fourteen
action classes.

* A string is a sequence of symbols. `":"`, `" "`, CR and LF are the bytes
  the parser looks for. Every other symbol stands for a run of other bytes.
* Each action class is a record, built in its constructor's `.cpp`: its
  `Action` name, its ordered keys, the fields it presets, and the fields it
  takes as arguments.
* The state is:
  * `ordered` (`ordered_keys_`);
  * `values` (`values_`);
  * `action` (the action's name, or `<<>>` for a record parsed from the
    server);
  * `input` (the fields the server sent);
  * `error` (the exception the last call threw).
* `Init` is either an action after its constructor, or a record built by
  `KeyValDict(std::string)`.
* The actions are `SetValue` (`set_value`) and `Subscript` (the non-const
  `operator[]`, which inserts an empty value). Both throw for a key the
  schema does not declare.
* `ParseFields` is the loop of `set_message`. It is RECURSIVE.
  * It uses `emplace`, so a duplicate key keeps its first value.
  * It records a fault where `val_end` is `npos`.
* `DictToString` and `ActionToString` are the two `to_string`s.

### `Reaction.tla` (checked by `MC_KeyValDict.tla`)

This module models the reactions an `invoke` caller gets back:
`reaction::Event` (one record) and `reaction::EventList` (a head, the
`events_` after it and an optional `tail_`). It extends `KeyValDict.tla`
and holds pure operators only, because these objects are built once by
`dispatch_event` and are const from then on.

* A record is a parsed `KeyValDict`, `[ordered, values]`. `Record` is the
  `KeyValDict(std::string)` that `dispatch_event` runs on a framed message.
* A reaction is a record tagged with its class. `tail = <<>>` stands for a
  null `tail_`.
* `NewEvent`, `NewEventList`, `AddToList` (`add_event`), `ListIsSuccess`,
  `ListComplete`, `RecToString`, `ListToString`, `ReactionToString`,
  `EventCount` and `GetEvent` are the class members of the same names.
* `Assemble` and the RECURSIVE `Collect` are the branches of
  `dispatch_event` for one caller's records. A record without `EventList`
  makes an Event. A failed head makes a head-only list at once. Otherwise
  records go to `add_event` until it returns true.
* `ReactionRendersReply` checks these operators against a reading of the
  spec written over the fields the server sent (`ReplyEnd`).

### `Pipeline.tla` (with `MC_Pipeline.tla`)

This module models a Connection's life around its receive path. It
composes:

* the construction of the socket (`TcpSocket::open` with its `ScopeGuard`s,
  then the argument checks);
* the reader thread (`SocketReader::work_thread` over the outcomes of
  `TcpSocket::read`);
* the parser's worker thread (`StreamParser::work_thread`, the same
  condition-variable loop as the dispatcher's);
* `set_ami_version_` racing `get_ami_version`;
* `dispatch_handler`'s fan-out under `callbacks_mutex_`, with a user thread
  calling `add_callback` and `remove_callback`;
* `~Connection`, which stops and joins the members in the order of the
  constant `Teardown`.

A chunk is its position in the stream. How it is framed is
`StreamParser.tla`'s concern, and each chunk stands for one message.

| variable | code |
|---|---|
| `sent`, `spin`, `rpc`, `readLog` | unread chunks, `thread_spin_`, the reader's position, the chunks it passed to `add_buf` |
| `chunks`, `batch`, `prun`, `ppc`, `firstEvent`, `processed` | `stream_chunks_`, the worker's local batch, `thread_run_`, the worker's position, `first_event_`, the chunks `process_chunk` finished |
| `handled`, `fan`, `pending`, `called`, `callbacks` | messages `dispatch_handler` finished, its state (`idle`, `fanout`, `stuck`), the subscribers it still has to call and has called, the keys of `callbacks_` |
| `version`, `reads` | `ami_version_` (`empty`, `writing`, `set`) and what `get_ami_version` returned |
| `fdOpen`, `ctorError`, `cpc`, `di`, `phase`, `alive` | the descriptor, the constructor's exception, the Connection's lifetime, and the destructor's progress through `Teardown` |

The actions are:

* construction: `Construct`;
* the reader: `ReaderLoop`, `ReaderReceives`, `ReaderReadsNothing`
  (timeout, `POLLHUP`/`POLLERR`, EOF) and `ReaderFails` (`-1`, which
  throws);
* the parser's worker: `WorkerLoop`, `WorkerWait`, `WorkerBlock`,
  `SpuriousWakeup`, `ProcessChunk`, `VersionWritten`, `WorkerBatchDone`
  and `WorkerDrain`;
* the dispatcher: `DispatchBegin`, `DispatchCallback` and `DispatchEnd`;
* the user: `AddCallback`, `RemoveCallback` and `GetAmiVersion`;
* the destructor: `BeginDestroy`, `StopReader`, `JoinReader`, `ResetWriter`,
  `StopParser`, `JoinParser` and `ResetDispatcher`.

## 3. Runs

| run | cfg | expect | what it shows |
|---|---|---|---|
| parser_framing | `MC_StreamParser_framing.cfg` | pass | Take 3 messages drawn from 6 shapes (one or two fields, with lone CRs that make false terminator prefixes) and chunks of 1..6 bytes, with the whole greeting line in the first chunk. Every message is dispatched exactly, in order, and the version is the greeting (`FramingCorrect`). `NothingWithheld`: after every recv, each message whose last byte has arrived has already been dispatched, however many messages one chunk completes. |
| parser_split_greeting | `..._split_greeting.cfg` | violation | If the first recv holds only part of the greeting line, the version is truncated and the greeting's tail is glued to the first message. |
| dispatcher_core | `MC_AmiDispatcher_core.cfg` | pass | 2 callers with any API, EventLists with up to 1 middle item, 1 unsolicited event, spurious wake-ups, timeouts and failing sends at any moment, in a release build, and destruction. It checks seven things. `ArrivedResponseDelivered`: a caller whose whole response reached `add_event` before destruction gets that response, never the destructor's null; this depends on the drain after `work_thread`'s loop. `ReactionIsResponse`: a returned reaction is exactly the caller's response. `CorrelatedOnlyWhenUnclaimed`: a correlated message reaches subscribers only once nobody waits for it. `NoOrphanPartial`: an `event_map_` entry always has a pipe. `PipeSetOnce`: a promise is set at most once. `DestroyReleasesWaiters`: once the destructor finishes, no `invoke` caller is blocked on an unset promise. `CorrelationRefined`: the whole engine implements the abstract `Correlation` specification. This run takes about 2 to 4 minutes. |
| dispatcher_live | `MC_AmiDispatcher_live.cfg` | pass | `InvokeReturns`: every `invoke` and `invoke` with a timeout returns while the Connection lives. |
| destroy_hang | `..._destroy_hang.cfg` | violation | The destructor blocks forever in `thread_.join()` after a lost stop notification (`DestroyCompletes`). |
| timeout_crash | `..._timeout_crash.cfg` | violation | An `invoke` with a timeout whose timer expires during destruction calls through the reset `dispatcher_`. |
| send_fail_leak | `..._send_fail_leak.cfg` | violation | A throwing `write` leaves the caller's pipe in `promise_map_` (`WaitersOwned`). |
| kvd_roundtrip | `MC_KeyValDict_roundtrip.cfg` | pass | Covers every action class under every sequence of `set_value` and `operator[]` calls, and every server record of up to 3 distinct fields whose values may be empty or contain `": "`. `ParseMatchesFields`: a parsed record has exactly the fields sent, in order. `WireRoundTrip`: what `to_string` sends parses back to the same keys and values, with `Action` and `ActionID` first for an action. `ReactionRendersReply`: each of 84 replies (4 heads, then up to two middles or tails) is parsed and assembled into a reaction. That reaction completes exactly when the spec says, and with the same messages. Its `to_string` gives back the server's bytes, and `event_count` and `get_event` give the middles in arrival order. |
| pipeline | `MC_Pipeline_core.cfg` | pass | Covers construction under every failure of `socket`, `getaddrinfo` and `connect`, and for bad hosts and ports, then 3 chunks, reads that may fail, two subscribers, and `~Connection` at any moment. It checks six things. `NoChunkLost`: the parser processes chunks in arrival order, and all of them before its thread ends. `ChunksProcessed`: every chunk handed over is eventually processed. `NoFdLeak`: no descriptor is left open once the Connection fails or is destroyed. `TeardownSafe`: no thread calls into a member already reset, and the descriptor closes only after the reader is done. `NoCallAfterRemove`: no callback runs after `remove_callback` erased it. `ReaderStops`: once `stop_work_thread` clears `thread_spin_`, the reader thread ends. |
| pipeline_read_error | `MC_Pipeline_read_error.cfg` | violation | A `poll` or `recv` failure throws out of the reader thread and ends the process (`ReadErrorContained`). |
| pipeline_version_race | `MC_Pipeline_version_race.cfg` | violation | `get_ami_version` can read `ami_version_` while the parser thread assigns it (`VersionReadConsistent`). |
| subscriber_reentry | `MC_Pipeline_reentry.cfg` | violation | A subscriber whose callback calls `remove_callback` deadlocks the dispatcher thread on `callbacks_mutex_` (`DispatchReturns`). |

Each property of a passing run is paired in `PROJECT.json` with a mutant. A
mutant is a plausible bug in the mapped code, for example:

* a missing notify in `add_buf`;
* a dropped guard;
* an off-by-one in the scan back-off or in the parse loop;
* the members destroyed in the order C++ destroys them by itself;
* the completing record of an EventList appended to `events_` as well;
* an unguarded descriptor;
* a partial entry that is not erased;
* `work_thread` returning without its final drain of `events_`;
* `process_chunk` not searching again after cutting off a message.

TLC finds the property violated once the mutant is substituted.

### Bounds

* Dispatcher:
  * Two callers are enough for every interaction the dispatcher has. One
    caller's list can be interleaved with another's response, and a
    timed-out caller's late messages can meet a live caller. Callers are
    symmetric, so the safety run uses symmetry reduction.
  * `MaxMiddles = 1` separates the append branch from the completion
    branch. With 0, only the completion branch is exercised.
  * One unsolicited event exercises the `NoId` path.
* Parser: `MaxChunk = 6` exceeds the 4-byte terminator, so terminators
  straddle any boundary, and several messages can arrive in one chunk.
* KeyValDict: three values are enough to expose a value taken with its
  terminator or a key starting one byte early. They are empty, plain, and
  one containing `": "`. Three fields over the three keys the dispatcher
  reads give every order.
* Reactions: the four heads are a single response, a list head that
  succeeds, one that fails, and one without `Response`. Each may be
  followed by two messages drawn from a plain middle, a middle with a
  non-final `EventList`, and tails ending with `Complete` or `cancelled`.
  This gives lists that complete with 0 or 1 middles, lists that never
  complete, and records left over after the tail.
* Pipeline:
  * With 3 chunks, the first (the version) and two more can be split
    across two batches.
  * Two subscribers are needed, one of them re-entrant, so that a fan-out
    can be part done when `remove_callback` runs.
  * The hosts (`"asterisk"`, an unresolvable name, `""`) and ports (0,
    5038) reach every path of `open` and of the argument checks.

### Fairness

* The worker threads' steps are weakly fair: `work_thread` never stops by
  itself.
* A caller's `Write`, `Get` and `SetException` are weakly fair: a thread
  that is running proceeds.
* The server's sends and `ReaderReceives` are strongly fair. The server is
  modelled as answering every action it received. Their guard is disabled
  whenever the worker holds the queue's mutex, so the guard flickers.
* `ReaderReadsNothing` is weakly fair: `read` polls with a 500 ms timeout
  (`TcpSocket.hpp:55`), so it returns even when nothing arrives.
* The destructor's internal steps and `Construct` are weakly fair.
* Some steps have no fairness, because the code does not force them to
  happen:
  * timeouts, spurious wake-ups, send and read failures;
  * starting destruction;
  * the user's (un)subscribing and `get_ami_version`.

## 4. Findings

1. **Lost wakeup in `stop_work_thread`** (`EventDispatcher.cpp:53-54`, and
   the same at `StreamParser.cpp:44-45`). `~Connection` can hang.
2. **Use of the reset `dispatcher_` in `invoke` with a timeout**
   (`Connection.cpp:109`).
3. **Pipe leak on a failed write** (`Connection.cpp:86-89`).
4. **Greeting split across reads** (`StreamParser.cpp:83-90`). The spec
   requires correct framing for any chunking.
5. **Read errors terminate the process** (`SocketReader.cpp:46`,
   `TcpSocket.cpp:131`). The spec says the IoError reaches the caller.
6. **Data race on `ami_version_`** (`Connection.cpp:29` against
   `Connection.cpp:52-55`).
7. **Re-entrant subscriber deadlock** (`Connection.cpp:59`). The spec
   (section 4.4) requires re-entrant mutation of the table to be handled.

Some defects are recorded here, and most of them as hazards in
`PROJECT.json`, without a run of their own:

* In a debug build, `cleanup_object` aborts on
  `assert(promise_map_.empty())` whenever an `invoke` is outstanding
  (`EventDispatcher.cpp:33`). The model has the `aborted` end state, but
  the runs use `NDEBUG = TRUE`, so `timeout_crash` shows the null
  dereference of `Connection.cpp:109`, not this abort.
* `set_message` keeps the first of duplicate keys (`emplace`), where
  spec.md says the last wins (`KeyValDict.cpp:95`).
* A field without a closing `"\r\n"` makes `val_end` `npos`, and the
  `string_view` then runs past the buffer (`KeyValDict.cpp:93`).
  `ParseFields` records this as a fault.
* The parser's `stop_work_thread` has the same lost wakeup as the
  dispatcher's. `destroy_hang` shows it for the dispatcher.
* `EventList`'s copy constructor and copy assignment dereference
  `right.tail_` unconditionally (`EventList.cpp:12`, `:30`). The head-only
  list of a failed action has a null `tail_`, so copying it dereferences
  null. `Reaction.tla` builds such lists, but nothing in the library copies
  one, so the copy is not modelled.
* `reaction::Event::is_success` returns true for a record without
  `Response` (`reaction/Event.cpp:22`). spec.md (section 2) says a
  reaction succeeds iff its head's `Response` is `Success` or `Goodbye`.
  A correlated record without `EventList` and without `Response` (an event
  that carries the caller's ActionID) therefore counts as a success. No
  run checks `is_success` of a single Event.
* If the `writer_` allocation throws after `reader_` has started its
  thread (`Connection.cpp:40`), `~Connection` does not run. The members
  are then destroyed in reverse declaration order, so `stream_parser_` goes
  before `reader_`, and the reader may call `add_buf` on a destroyed
  parser. The allocation failure is not a step of `Pipeline`, so no run
  reaches this order. `TeardownSafe` rejects it only as the
  `MemberDestructionOrder` mutant.
* `TcpSocket::read` returns `""` on EOF, so after the server closes, the
  reader spins until destruction (`TcpSocket.cpp:120`). No error reaches
  the dispatcher, so every `invoke` still waiting then blocks forever.
  `ReaderStops` only checks that the spinning loop ends when the
  destructor stops it. The hung callers are not checked: the dispatcher
  models assume a server that answers.

## 5. Not modelled, and the plan

* **Not modelled:**
  * `set_null_on_pipe`: nothing calls it.
  * The move operations of `ScopeGuard`. Nothing in the library uses them.
  * `SocketWriter`: it has no thread. Its writes are modelled in
    `AmiDispatcher` as `Write`/`WriteFails`.
  * The host and port checks of `TcpSocket`'s constructor as distinct
    errors. `open` fails first, so they are never reached.
  * `EventList`'s copy and move operations, and
    `reaction::Event::is_success`. The library only moves reactions, and
    the caller owns them from then on.
  * The example program and the tests.
  * A short `send` (`TcpSocket.cpp:150`). `write` ignores the count, and
    the models treat a write as all or nothing.
* **Plan:**
  1. The liveness side of `Correlation`: every open pipe eventually
     resolves. `dispatcher_live` checks this for the detailed spec as
     `InvokeReturns`.
  2. Duplicate registration of one ActionID (`EventDispatcher.cpp:156`),
     which spec.md says must fail loudly. The ActionID is made once per
     `Action` object (`Action.cpp:15`), so invoking the same `Action`
     again reaches it. Two cases do: a retry after a failed `write`,
     whose stale pipe is still registered, and two threads sharing one
     `Action`. The second caller's `get` then throws `broken_promise`
     after its action was sent. The dispatcher models give each caller
     its own `Action`, invoked once, so the ids are distinct.
