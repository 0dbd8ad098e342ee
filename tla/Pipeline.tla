------------------------------- MODULE Pipeline -------------------------------
(***************************************************************************)
(* A Connection's life around its receive path.                           *)
(*                                                                         *)
(*  - Connection::Connection creates the TcpSocket, whose constructor     *)
(*    calls open (socket, getaddrinfo, connect, with ScopeGuards closing  *)
(*    the descriptor on every error path) and then checks its arguments.  *)
(*  - The SocketReader thread reads the socket (TcpSocket::read) and hands *)
(*    chunks to StreamParser::add_buf.                                     *)
(*  - The parser's worker thread (StreamParser::work_thread) takes them   *)
(*    off stream_chunks_ under its condition variable and processes them  *)
(*    in order; the first carries the AMI version, which the parser        *)
(*    thread writes into Connection::ami_version_ while caller threads may *)
(*    read it through get_ami_version.                                     *)
(*  - The dispatcher thread passes each message on to                     *)
(*    Connection::dispatch_handler, which calls every subscriber under    *)
(*    callbacks_mutex_, while a user thread calls add_callback and         *)
(*    remove_callback.                                                     *)
(*  - ~Connection resets reader, writer, parser and dispatcher in turn;   *)
(*    the last owner of the socket closes it.                              *)
(*                                                                         *)
(* A chunk is its position in the stream; what process_chunk makes of it *)
(* is StreamParser.tla's business, and each chunk stands for one message  *)
(* that reaches the subscribers.  How the dispatcher correlates messages  *)
(* with invoke callers is AmiDispatcher.tla's.                             *)
(***************************************************************************)
EXTENDS Naturals, Sequences, SequencesExt

CONSTANTS
    NumChunks,    \* how many chunks the server's bytes arrive in
    ReadMayFail,  \* TRUE iff poll or recv may return -1 (EINTR, ECONNRESET)
    Teardown,     \* the order in which ~Connection resets its members
    Hosts,        \* hostnames the program may pass to Connection
    Resolvable,   \* those getaddrinfo can resolve
    Ports,        \* ports the program may pass
    Subs,         \* subscription keys add_callback may return
    Reentrant     \* subscribers whose callback calls remove_callback

ASSUME NumChunks \in Nat \ {0}
ASSUME ReadMayFail \in BOOLEAN
ASSUME Resolvable \subseteq Hosts /\ Reentrant \subseteq Subs

VARIABLES
    sent,        \* chunks the server has sent that no recv has returned
    spin,        \* SocketReader::thread_spin_
    rpc,         \* the reader thread: "loop", "read", "done" or "terminated"
    readLog,     \* history: the chunks the reader passed to add_buf
    chunks,      \* StreamParser::stream_chunks_
    batch,       \* the worker's local stream_chunks it is processing
    prun,        \* StreamParser::thread_run_
    ppc,         \* the parser worker's position in work_thread
    firstEvent,  \* StreamParser::first_event_
    processed,   \* history: the chunks process_chunk finished, in order
    handled,     \* how many of them dispatch_handler has finished
    fan,         \* dispatch_handler: "idle", "fanout", or "stuck" in a callback
    pending,     \* subscribers the current fanout has still to call
    called,      \* subscribers the current fanout has called
    callbacks,   \* the keys of Connection::callbacks_
    version,     \* Connection::ami_version_: "empty", "writing" or "set"
    reads,       \* what get_ami_version calls returned
    fdOpen,      \* the socket descriptor open (is not yet closed)
    ctorError,   \* the exception Connection's constructor threw, or "none"
    cpc,         \* "constructing", "failed", "alive", "destroying", "destroyed"
    di,          \* the index in Teardown of the member being reset
    phase,       \* "stop" or "join" for the member being reset
    alive        \* the members ~Connection has not yet reset

readerVars == <<sent, spin, rpc, readLog>>
parserVars == <<chunks, batch, prun, ppc, firstEvent, processed>>
subVars    == <<handled, fan, pending, called, callbacks>>
connVars   == <<version, reads, fdOpen, ctorError, cpc, di, phase, alive>>
vars == <<readerVars, parserVars, subVars, connVars>>

Members == {"reader", "writer", "parser", "dispatcher"}

-----------------------------------------------------------------------------
(* TcpSocket::open.  Which system call fails first, if any: socket() may   *)
(* fail (EMFILE) and getaddrinfo may fail for any host; it always fails for *)
(* one it cannot resolve (the empty string included); connect fails for    *)
(* port 0 and may fail for any port.  (getaddrinfo with AF_UNSPEC and      *)
(* SOCK_STREAM only returns AF_INET and AF_INET6 addresses, with ai_addr   *)
(* set, so the two other throws of open are not reached.)                  *)
OpenFailures(host, port) ==
    {"socket", "getaddrinfo"} \cup
    IF host \in Resolvable
    THEN {"connect"} \cup (IF port # 0 THEN {"none"} ELSE {})
    ELSE {}

(* socket() returned a descriptor.                                         *)
Opened(fail) == fail # "socket"

(* sock_fd_scope's destructor runs its callback, which closes the         *)
(* descriptor unless std::exchange(sock_fd, -1) has handed it out.         *)
GuardCloses(fail) == Opened(fail) /\ fail # "none"

(* Mutation: no ScopeGuard closes the descriptor on the error paths.        *)
OpenUnguarded(fail) ==
    [fd |-> Opened(fail), error |-> IF fail = "none" THEN "none" ELSE "runtime_error"]

(* open: every failure throws runtime_error, and the descriptor is left    *)
(* open only if sock_fd_scope does not close it.                           *)
Open(fail) ==
    [fd |-> Opened(fail) /\ ~GuardCloses(fail),
     error |-> IF fail = "none" THEN "none" ELSE "runtime_error"]

(* TcpSocket::TcpSocket: sock_fd_(open(...)), then the argument checks.  A *)
(* check that throws leaves sock_fd_ open: the destructor of a partly      *)
(* constructed object does not run.                                        *)
TcpSocketCtor(host, port, fail) ==
    LET o == Open(fail) IN
    CASE o.error # "none" -> o
      [] host = ""        -> [o EXCEPT !.error = "invalid_argument"]
      [] port = 0         -> [o EXCEPT !.error = "out_of_range"]
      [] OTHER            -> o

(* Mutation: the members go in the order C++ destroys them by itself, the *)
(* reverse of their declaration in Connection.hpp (the parser before the  *)
(* reader): what happens when ~Connection's resets are missing, or when   *)
(* the constructor throws after reader_ has started its thread.           *)
MemberDestructionOrder == <<"parser", "writer", "reader", "dispatcher">>

(* ~Connection resets its members in this order.                           *)
ConnectionTeardown == <<"reader", "writer", "parser", "dispatcher">>

(* The parser's worker holds stream_chunks_mutex_ between testing its wait *)
(* predicate and blocking, and while it drains at exit.                    *)
ParserLocked == ppc \in {"blocking", "draining"}

(* thread_cv_.notify_one(): wakes the worker if it is blocked in wait.     *)
Notify == ppc' = IF ppc = "blocked" THEN "wait" ELSE ppc

(* Mutation: add_buf queues the chunk without notifying the worker.        *)
AddBufNoNotify(c) == chunks' = Append(chunks, c) /\ UNCHANGED ppc

(* add_buf: under stream_chunks_mutex_, queue the chunk and notify.        *)
AddBuf(c) == chunks' = Append(chunks, c) /\ Notify

(* dispatch_handler holds callbacks_mutex_ for its whole loop.             *)
CallbacksLocked == fan # "idle"

Resetting(m) == cpc = "destroying" /\ Teardown[di] = m

NextMember ==
    /\ di' = di + 1
    /\ phase' = "stop"
    /\ cpc' = IF di = Len(Teardown) THEN "destroyed" ELSE cpc

Running == cpc \in {"alive", "destroying"}

(* SocketReader's constructor calls start_work_thread: thread_spin_ is set *)
(* before the thread that tests it starts in work_thread.                 *)
ReaderStarted == spin = TRUE /\ rpc = "loop"

(* StreamParser::start_work_thread: thread_run_ is set before the worker   *)
(* starts in work_thread.                                                  *)
ParserStarted == prun = TRUE /\ ppc = "loop"

Init ==
    /\ sent = [i \in 1..NumChunks |-> i]
    /\ ReaderStarted
    /\ readLog = <<>>
    /\ chunks = <<>>
    /\ batch = <<>>
    /\ ParserStarted
    /\ firstEvent = TRUE
    /\ processed = <<>>
    /\ handled = 0
    /\ fan = "idle"
    /\ pending = {}
    /\ called = {}
    /\ callbacks = {}
    /\ version = "empty"
    /\ reads = {}
    /\ fdOpen = FALSE
    /\ ctorError = "none"
    /\ cpc = "constructing"
    /\ di = 1
    /\ phase = "stop"
    /\ alive = Members

-----------------------------------------------------------------------------
(* Connection::Connection: the socket first; if its constructor throws,    *)
(* nothing else is built and the exception leaves the constructor.         *)
Construct ==
    /\ cpc = "constructing"
    /\ \E h \in Hosts, p \in Ports :
         \E f \in OpenFailures(h, p) :
           LET r == TcpSocketCtor(h, p, f) IN
           /\ fdOpen' = r.fd
           /\ ctorError' = r.error
           /\ cpc' = IF r.error = "none" THEN "alive" ELSE "failed"
    /\ UNCHANGED <<readerVars, parserVars, subVars, version, reads, di, phase,
                   alive>>

-----------------------------------------------------------------------------
(* The reader thread.  work_thread tests thread_spin_, then reads.          *)
ReaderLoop ==
    /\ rpc = "loop"
    /\ rpc' = IF spin THEN "read" ELSE "done"
    /\ UNCHANGED <<sent, spin, readLog, parserVars, subVars, connVars>>

(* TcpSocket::read returns data and the callback calls add_buf.            *)
ReaderReceives ==
    /\ rpc = "read"
    /\ sent # <<>>
    /\ ~ParserLocked
    /\ AddBuf(Head(sent))
    /\ readLog' = Append(readLog, Head(sent))
    /\ sent' = Tail(sent)
    /\ rpc' = "loop"
    /\ UNCHANGED <<spin, batch, prun, firstEvent, processed, subVars, connVars>>

(* Mutation: the empty string read returns is passed to add_buf, as if    *)
(* the !buf.empty() test were missing; 0 stands for "".                    *)
ReaderReadsNothingForwarded ==
    /\ rpc = "read"
    /\ ~ParserLocked
    /\ AddBuf(0)
    /\ rpc' = "loop"
    /\ UNCHANGED <<sent, spin, readLog, batch, prun, firstEvent, processed,
                   subVars, connVars>>

(* Mutation: poll is called with no timeout (-1), so with a silent server  *)
(* read returns only once the socket is readable.                          *)
ReaderReadsNothingNoTimeout ==
    /\ rpc = "read"
    /\ sent # <<>>
    /\ rpc' = "loop"
    /\ UNCHANGED <<sent, spin, readLog, parserVars, subVars, connVars>>

(* read returns "": poll timed out (500 ms), or revents was not exactly    *)
(* POLLIN (POLLHUP, POLLERR), or recv returned 0 at end of stream.  The    *)
(* empty string is not passed on.                                          *)
ReaderReadsNothing ==
    /\ rpc = "read"
    /\ rpc' = "loop"
    /\ UNCHANGED <<sent, spin, readLog, parserVars, subVars, connVars>>

(* poll or recv returns -1 and read throws std::runtime_error.  Nothing in *)
(* SocketReader::work_thread catches it, so it leaves the thread function  *)
(* and std::terminate ends the process.                                    *)
ReaderFails ==
    /\ ReadMayFail
    /\ rpc = "read"
    /\ rpc' = "terminated"
    /\ UNCHANGED <<sent, spin, readLog, parserVars, subVars, connVars>>

-----------------------------------------------------------------------------
(* The parser's worker thread: the same loop as the dispatcher's.          *)
WorkerLoop ==
    /\ ppc = "loop"
    /\ ppc' = IF prun THEN "wait" ELSE "draining0"
    /\ UNCHANGED <<readerVars, chunks, batch, prun, firstEvent, processed,
                   subVars, connVars>>

(* Lock, test !thread_run_ || !stream_chunks_.empty(); if it holds, swap   *)
(* the queue into the local batch and unlock, otherwise go on to block.    *)
WorkerWait ==
    /\ ppc = "wait"
    /\ \/ /\ ~prun \/ chunks # <<>>
          /\ batch' = chunks
          /\ chunks' = <<>>
          /\ ppc' = "process"
       \/ /\ prun /\ chunks = <<>>
          /\ ppc' = "blocking"
          /\ UNCHANGED <<batch, chunks>>
    /\ UNCHANGED <<readerVars, prun, firstEvent, processed, subVars, connVars>>

(* The wait releases the mutex and blocks.                                 *)
WorkerBlock ==
    /\ ppc = "blocking"
    /\ ppc' = "blocked"
    /\ UNCHANGED <<readerVars, chunks, batch, prun, firstEvent, processed,
                   subVars, connVars>>

SpuriousWakeup ==
    /\ ppc = "blocked"
    /\ ppc' = "wait"
    /\ UNCHANGED <<readerVars, chunks, batch, prun, firstEvent, processed,
                   subVars, connVars>>

(* process_chunk on the next chunk of the batch.  On the first chunk it    *)
(* first calls set_ami_version_, whose assignment to ami_version_ is a     *)
(* std::string copy that other threads can observe half done.              *)
ProcessChunk ==
    /\ ppc \in {"process", "draining"}
    /\ batch # <<>>
    /\ version # "writing"
    /\ \/ /\ firstEvent
          /\ firstEvent' = FALSE
          /\ version' = "writing"
          /\ UNCHANGED <<batch, processed>>
       \/ /\ ~firstEvent
          /\ processed' = Append(processed, Head(batch))
          /\ batch' = Tail(batch)
          /\ UNCHANGED <<firstEvent, version>>
    /\ UNCHANGED <<readerVars, chunks, prun, ppc, subVars, reads, fdOpen,
                   ctorError, cpc, di, phase, alive>>

(* The version string is in place; process_chunk frames the rest of the    *)
(* first chunk.                                                            *)
VersionWritten ==
    /\ version = "writing"
    /\ version' = "set"
    /\ processed' = Append(processed, Head(batch))
    /\ batch' = Tail(batch)
    /\ UNCHANGED <<readerVars, chunks, prun, ppc, firstEvent, subVars, reads,
                   fdOpen, ctorError, cpc, di, phase, alive>>

(* The batch is done: clear it and go back to the loop test, or, when      *)
(* draining, unlock and leave the thread.                                  *)
WorkerBatchDone ==
    /\ ppc \in {"process", "draining"}
    /\ batch = <<>>
    /\ ppc' = IF ppc = "process" THEN "loop" ELSE "done"
    /\ UNCHANGED <<readerVars, chunks, batch, prun, firstEvent, processed,
                   subVars, connVars>>

(* Mutation: the worker leaves without processing what is still queued.    *)
WorkerDrainNothing ==
    /\ ppc = "draining0"
    /\ ~ParserLocked
    /\ ppc' = "draining"
    /\ chunks' = <<>>
    /\ UNCHANGED <<readerVars, batch, prun, firstEvent, processed, subVars,
                   connVars>>

(* After the loop: lock and process whatever is still in stream_chunks_.   *)
WorkerDrain ==
    /\ ppc = "draining0"
    /\ ~ParserLocked
    /\ ppc' = "draining"
    /\ batch' = chunks
    /\ chunks' = <<>>
    /\ UNCHANGED <<readerVars, prun, firstEvent, processed, subVars, connVars>>

-----------------------------------------------------------------------------
(* The dispatcher thread calls dispatch_handler for the next message: it  *)
(* takes callbacks_mutex_ and walks callbacks_.                             *)
DispatchBegin ==
    /\ fan = "idle"
    /\ handled < Len(processed)
    /\ fan' = "fanout"
    /\ pending' = callbacks
    /\ called' = {}
    /\ UNCHANGED <<readerVars, parserVars, handled, callbacks, connVars>>

(* One callback of the loop, in the map's unspecified order.  A callback   *)
(* that calls remove_callback locks callbacks_mutex_ again on the thread   *)
(* that holds it, and the thread never returns.                            *)
DispatchCallback ==
    /\ fan = "fanout"
    /\ \E k \in pending :
         /\ called' = called \cup {k}
         /\ \/ k \notin Reentrant /\ pending' = pending \ {k} /\ UNCHANGED fan
            \/ k \in Reentrant /\ fan' = "stuck" /\ UNCHANGED pending
    /\ UNCHANGED <<readerVars, parserVars, handled, callbacks, connVars>>

(* The loop is over: unlock.                                               *)
DispatchEnd ==
    /\ fan = "fanout"
    /\ pending = {}
    /\ fan' = "idle"
    /\ handled' = handled + 1
    /\ UNCHANGED <<readerVars, parserVars, pending, called, callbacks, connVars>>

(* Mutation: remove_callback erases without taking callbacks_mutex_.        *)
RemoveCallbackUnlocked(k) ==
    /\ Running
    /\ k \in callbacks
    /\ callbacks' = callbacks \ {k}
    /\ UNCHANGED <<readerVars, parserVars, handled, fan, pending, called,
                   connVars>>

(* A user thread's add_callback: a fresh key, inserted under the lock.     *)
AddCallback(k) ==
    /\ Running
    /\ k \notin callbacks
    /\ ~CallbacksLocked
    /\ callbacks' = callbacks \cup {k}
    /\ UNCHANGED <<readerVars, parserVars, handled, fan, pending, called,
                   connVars>>

(* remove_callback: erase under the lock.                                  *)
RemoveCallback(k) ==
    /\ Running
    /\ k \in callbacks
    /\ ~CallbacksLocked
    /\ callbacks' = callbacks \ {k}
    /\ UNCHANGED <<readerVars, parserVars, handled, fan, pending, called,
                   connVars>>

-----------------------------------------------------------------------------
(* A caller thread calls get_ami_version, which copies ami_version_ with   *)
(* no lock.  While the parser thread is assigning it the copy races the    *)
(* assignment (a data race): the read may see the old string, the new one  *)
(* or a torn mixture.                                                      *)
GetAmiVersion ==
    /\ cpc = "alive"
    /\ \E r \in CASE version = "empty"   -> {"empty"}
                  [] version = "set"     -> {"version"}
                  [] version = "writing" -> {"empty", "version", "torn"} :
          reads' = reads \cup {r}
    /\ UNCHANGED <<readerVars, parserVars, subVars, version, fdOpen, ctorError,
                   cpc, di, phase, alive>>

-----------------------------------------------------------------------------
(* ~Connection.                                                            *)
BeginDestroy ==
    /\ cpc = "alive"
    /\ cpc' = "destroying"
    /\ UNCHANGED <<readerVars, parserVars, subVars, version, reads, fdOpen,
                   ctorError, di, phase, alive>>

(* reader_.reset(): SocketReader::stop_work_thread clears thread_spin_ and *)
(* joins the reader, which leaves after its current read.                  *)
StopReader ==
    /\ Resetting("reader") /\ phase = "stop"
    /\ spin' = FALSE
    /\ phase' = "join"
    /\ UNCHANGED <<sent, rpc, readLog, parserVars, subVars, version, reads,
                   fdOpen, ctorError, cpc, di, alive>>

JoinReader ==
    /\ Resetting("reader") /\ phase = "join"
    /\ rpc = "done"
    /\ alive' = alive \ {"reader"}
    /\ NextMember
    /\ UNCHANGED <<readerVars, parserVars, subVars, version, reads, fdOpen,
                   ctorError>>

(* writer_.reset(): SocketWriter has no thread.  It drops the last         *)
(* shared_ptr to the socket once the reader is gone, and ~TcpSocket closes *)
(* the descriptor.                                                         *)
ResetWriter ==
    /\ Resetting("writer")
    /\ alive' = alive \ {"writer"}
    /\ fdOpen' = (fdOpen /\ "reader" \in alive)
    /\ NextMember
    /\ UNCHANGED <<readerVars, parserVars, subVars, version, reads, ctorError>>

(* stream_parser_.reset(): stop_work_thread stores thread_run_ = false and *)
(* notifies without taking stream_chunks_mutex_, then joins.               *)
StopParser ==
    /\ Resetting("parser") /\ phase = "stop"
    /\ prun' = FALSE
    /\ Notify
    /\ phase' = "join"
    /\ UNCHANGED <<readerVars, chunks, batch, firstEvent, processed, subVars,
                   version, reads, fdOpen, ctorError, cpc, di, alive>>

JoinParser ==
    /\ Resetting("parser") /\ phase = "join"
    /\ ppc = "done"
    /\ alive' = alive \ {"parser"}
    /\ NextMember
    /\ UNCHANGED <<readerVars, parserVars, subVars, version, reads, fdOpen,
                   ctorError>>

(* dispatcher_.reset(): the dispatcher drains its queue before its thread  *)
(* is joined (its own shutdown is AmiDispatcher.tla's).                    *)
ResetDispatcher ==
    /\ Resetting("dispatcher")
    /\ fan = "idle" /\ handled = Len(processed)
    /\ alive' = alive \ {"dispatcher"}
    /\ NextMember
    /\ UNCHANGED <<readerVars, parserVars, subVars, version, reads, fdOpen,
                   ctorError>>

-----------------------------------------------------------------------------
(* The constructor threw, the process has ended, the dispatcher thread is  *)
(* stuck for good, or everything has been torn down.                       *)
Finished ==
    /\ cpc \in {"failed", "destroyed"} \/ rpc = "terminated" \/ fan = "stuck"
    /\ UNCHANGED vars

Reader == ReaderLoop \/ ReaderReceives \/ ReaderReadsNothing \/ ReaderFails

Parser ==
    \/ WorkerLoop \/ WorkerWait \/ WorkerBlock \/ SpuriousWakeup
    \/ ProcessChunk \/ VersionWritten \/ WorkerBatchDone \/ WorkerDrain

Dispatcher == DispatchBegin \/ DispatchCallback \/ DispatchEnd

User ==
    \/ \E k \in Subs : AddCallback(k) \/ RemoveCallback(k)
    \/ GetAmiVersion

Destructor ==
    \/ BeginDestroy \/ StopReader \/ JoinReader \/ ResetWriter
    \/ StopParser \/ JoinParser \/ ResetDispatcher

Next ==
    \/ Construct
    \/ Running /\ rpc # "terminated" /\ (Reader \/ Parser \/ Dispatcher \/ User
                                         \/ Destructor)
    \/ Finished

(* Threads run: the reader's, the worker's and the dispatcher's steps are *)
(* weakly fair; add_buf is blocked while the worker holds the mutex, so    *)
(* delivery is strongly fair; read comes back within its 500 ms poll      *)
(* timeout even when nothing arrives; the constructor and the destructor,  *)
(* once started, proceed.  The user thread's calls, a spurious wake-up and      *)
(* starting destruction are not forced.                                    *)
Fairness ==
    /\ WF_vars(Construct)
    /\ WF_vars(ReaderLoop) /\ SF_vars(ReaderReceives) /\ WF_vars(ReaderReadsNothing)
    /\ WF_vars(WorkerLoop) /\ WF_vars(WorkerWait) /\ WF_vars(WorkerBlock)
    /\ WF_vars(ProcessChunk) /\ WF_vars(VersionWritten)
    /\ WF_vars(WorkerBatchDone) /\ WF_vars(WorkerDrain)
    /\ WF_vars(DispatchBegin) /\ WF_vars(DispatchCallback) /\ WF_vars(DispatchEnd)
    /\ WF_vars(StopReader) /\ WF_vars(JoinReader) /\ WF_vars(ResetWriter)
    /\ WF_vars(StopParser) /\ WF_vars(JoinParser) /\ WF_vars(ResetDispatcher)

Spec == Init /\ [][Next]_vars /\ Fairness

-----------------------------------------------------------------------------
TypeOK ==
    /\ rpc \in {"loop", "read", "done", "terminated"}
    /\ ppc \in {"loop", "wait", "blocking", "blocked", "process", "draining0",
                "draining", "done"}
    /\ fan \in {"idle", "fanout", "stuck"}
    /\ pending \subseteq Subs /\ called \subseteq Subs /\ callbacks \subseteq Subs
    /\ version \in {"empty", "writing", "set"}
    /\ reads \subseteq {"empty", "version", "torn"}
    /\ ctorError \in {"none", "runtime_error", "invalid_argument", "out_of_range"}
    /\ cpc \in {"constructing", "failed", "alive", "destroying", "destroyed"}
    /\ alive \subseteq Members
    /\ chunks \in Seq(1..NumChunks) /\ batch \in Seq(1..NumChunks)

(* No chunk lost or reordered: the chunks process_chunk has finished are   *)
(* the first ones the reader handed to add_buf, in order; and once the     *)
(* worker has left work_thread (after its drain at exit) every chunk the   *)
(* reader handed over has been processed.                                  *)
NoChunkLost ==
    /\ IsPrefix(processed, readLog)
    /\ ppc = "done" => processed = readLog

(* Teardown order (spec 5): no thread calls into a member ~Connection has  *)
(* already reset: the reader adds chunks only to a live parser, the parser *)
(* dispatches only to a live dispatcher, and the reader's last read is     *)
(* over before the socket is closed.                                       *)
TeardownSafe ==
    [][/\ Len(readLog') > Len(readLog) => "parser" \in alive
       /\ Len(processed') > Len(processed) => "dispatcher" \in alive
       /\ (fdOpen /\ ~fdOpen') => rpc = "done"]_vars

(* Stopping the reader ends its thread: stop_work_thread only clears       *)
(* thread_spin_ and joins, so the reader must come back from read to test   *)
(* it, whether the server is silent, has closed, or keeps sending.          *)
ReaderStops == spin = FALSE ~> rpc \in {"done", "terminated"}

(* Every chunk the reader hands over is eventually processed, unless a     *)
(* failed read has ended the process first.                                *)
ChunksProcessed ==
    \A n \in 1..NumChunks :
        Len(readLog) >= n ~> (Len(processed) >= n \/ rpc = "terminated")

(* No descriptor leaks: when the constructor has thrown, or ~Connection    *)
(* has finished, the socket's descriptor is closed (open's ScopeGuard on   *)
(* its error paths, ~TcpSocket when the last owner lets go).               *)
NoFdLeak == cpc \in {"failed", "destroyed"} => ~fdOpen

(* Subscribers (spec 4.4): a callback is never called once remove_callback *)
(* has erased it; a user who removes a subscriber may then free what its   *)
(* callback uses.                                                          *)
NoCallAfterRemove ==
    [][\A k \in called' \ called : k \in callbacks]_vars

(* A subscriber's callback may unsubscribe (spec 4.4: re-entrancy is      *)
(* handled, by deferring it or by a documented failure): every             *)
(* dispatch_handler call returns.                                          *)
DispatchReturns == fan = "fanout" ~> fan = "idle"

(* A failed read is reported and the reader thread exits (spec 7); the     *)
(* process is not ended.                                                   *)
ReadErrorContained == rpc # "terminated"

(* get_ami_version returns the empty string before the greeting is seen    *)
(* and the version after (spec 4.4), never anything else.                  *)
VersionReadConsistent == reads \subseteq {"empty", "version"}

=============================================================================
