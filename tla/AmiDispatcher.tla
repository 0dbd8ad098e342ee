--------------------------- MODULE AmiDispatcher ---------------------------
(***************************************************************************)
(* The response-correlation engine of c++ami: EventDispatcher together     *)
(* with the Connection operations that use it (invoke, invoke with a       *)
(* timeout, async_invoke) and the Connection destructor.                   *)
(*                                                                         *)
(* Threads modelled:                                                       *)
(*  - one caller thread per element of Callers, invoking its own Action   *)
(*    object once (the Action constructor gives each object a fresh uuid,  *)
(*    so the caller itself stands for its ActionID; reusing an Action,     *)
(*    which repeats its ActionID, is not modelled);                        *)
(*  - the dispatcher worker thread (EventDispatcher::work_thread);         *)
(*  - the AMI server, whose framed messages reach add_event in byte-stream *)
(*    order through SocketReader and StreamParser (StreamParser.tla checks *)
(*    that framing preserves them);                                        *)
(*  - the thread running Connection::~Connection.                          *)
(***************************************************************************)
EXTENDS Naturals, Sequences

CONSTANTS
    Callers,        \* caller threads, one action (and ActionID) each
    NoId,           \* the absent ActionID field of an unsolicited event
    MaxMiddles,     \* most middle events the server puts in an EventList
    MaxUnsolicited, \* most unsolicited events the server sends
    Apis,           \* which Connection calls the callers may make
    NDEBUG,         \* TRUE iff the build defines NDEBUG (asserts compiled out)
    SendMayFail,    \* TRUE iff TcpSocket::write may throw on a send error
    Destroy         \* TRUE iff the application may destroy the Connection

ASSUME NoId \notin Callers
ASSUME Apis \subseteq {"invoke", "timeout", "async"} /\ Apis # {}
ASSUME MaxMiddles \in Nat /\ MaxUnsolicited \in Nat
ASSUME NDEBUG \in BOOLEAN /\ SendMayFail \in BOOLEAN /\ Destroy \in BOOLEAN

VARIABLES
    events,      \* EventDispatcher::events_, the inbox filled by add_event
    batch,       \* the worker's local vector swapped out of events_
    wpc,         \* where the worker thread is in work_thread
    run,         \* EventDispatcher::thread_run_
    waiters,     \* the keys of promise_map_
    partial,     \* event_map_: the EventList being built, <<>> if none
    result,      \* the shared state of each caller's promise/future pipe
    unsolicited, \* the events handed to the Connection's dispatch_handler
    cpc,         \* where each caller thread is
    api,         \* which Connection call each caller made
    srv,         \* the part of each response the server has yet to send
    resp,        \* history: the whole response the server chose to send
    sentUnsol,   \* number of unsolicited events the server has sent
    dpc          \* where the destructor thread is

vars == <<events, batch, wpc, run, waiters, partial, result, unsolicited,
          cpc, api, srv, resp, sentUnsol, dpc>>

-----------------------------------------------------------------------------
(* Messages, as KeyValDict parses them: the ActionID, Response and         *)
(* EventList fields ("none" when the key is absent), and n, the position   *)
(* of the message in its response (or in the unsolicited stream), which   *)
(* only tells equal-looking messages apart.                                *)
Msg == [aid : Callers \cup {NoId},
        resp : {"Success", "Error", "none"},
        el : {"start", "Complete", "cancelled", "none"},
        n : Nat]

M(a, r, e, i) == [aid |-> a, resp |-> r, el |-> e, n |-> i]

(* The responses an AMI server sends to an action: a single message, an   *)
(* EventList whose head reports failure, or a successful EventList with    *)
(* its middle events and a tail carrying EventList: Complete or cancelled. *)
Responses(c) ==
    {<<M(c, "Success", "none", 1)>>, <<M(c, "Error", "start", 1)>>}
    \cup
    {<<M(c, "Success", "start", 1)>>
        \o [i \in 1..k |-> M(c, "none", "none", i + 1)]
        \o <<M(c, "none", t, k + 2)>> :
            k \in 0..MaxMiddles, t \in {"Complete", "cancelled"}}

(* Reaction::is_success and EventList::is_success on the head.             *)
SuccessStatus == {"Success", "Goodbye"}
IsSuccess(m) == m.resp \in SuccessStatus

(* EventList::is_list_complete on the EventList field of a message.        *)
IsListComplete(m) == m.el \in {"Complete", "cancelled"}

HasEventList(m) == m.el # "none"

Pending == [kind |-> "pending", val |-> <<>>]
Result == [kind : {"pending", "value", "error", "null"},
           val : Seq(Msg)]

(* notify_one on thread_cv_: wakes the worker if it is blocked in wait.    *)
Notify == wpc' = IF wpc = "blocked" THEN "wait" ELSE wpc

(* The worker holds events_mutex_ between evaluating its wait predicate    *)
(* and blocking, and for the whole drain after its loop.                   *)
EventsLocked == wpc \in {"blocking", "draining"}

-----------------------------------------------------------------------------
Init ==
    /\ events = <<>>
    /\ batch = <<>>
    /\ wpc = "loop"
    /\ run = TRUE
    /\ waiters = {}
    /\ partial = [c \in Callers |-> <<>>]
    /\ result = [c \in Callers |-> Pending]
    /\ unsolicited = <<>>
    /\ cpc = [c \in Callers |-> "idle"]
    /\ api = [c \in Callers |-> "none"]
    /\ srv = [c \in Callers |-> <<>>]
    /\ resp = [c \in Callers |-> <<>>]
    /\ sentUnsol = 0
    /\ dpc = "alive"

-----------------------------------------------------------------------------
(* The server side: the reader and parser threads call add_event with the  *)
(* next framed message; add_event appends it under events_mutex_ and       *)
(* notifies the worker.  Nothing arrives once the destructor has stopped   *)
(* the reader.                                                             *)
(* Mutation: add_event without thread_cv_.notify_one().                   *)
AddEventNoNotify(m) ==
    /\ dpc = "alive"
    /\ ~EventsLocked
    /\ events' = Append(events, m)
    /\ UNCHANGED wpc

AddEvent(m) ==
    /\ dpc = "alive"
    /\ ~EventsLocked
    /\ events' = Append(events, m)
    /\ Notify

ServerSends(c) ==
    /\ srv[c] # <<>>
    /\ AddEvent(Head(srv[c]))
    /\ srv' = [srv EXCEPT ![c] = Tail(@)]
    /\ UNCHANGED <<batch, run, waiters, partial, result, unsolicited, cpc,
                   api, resp, sentUnsol, dpc>>

ServerSendsUnsolicited ==
    /\ sentUnsol < MaxUnsolicited
    /\ AddEvent(M(NoId, "none", "none", sentUnsol + 1))
    /\ sentUnsol' = sentUnsol + 1
    /\ UNCHANGED <<batch, run, waiters, partial, result, unsolicited, cpc,
                   api, srv, resp, dpc>>

-----------------------------------------------------------------------------
(* The worker thread, EventDispatcher::work_thread.                        *)

(* Mutation: the worker returns as soon as it sees thread_run_ false,     *)
(* without the final drain of events_ (EventDispatcher.cpp:77-82).        *)
WorkerLoopNoDrain ==
    /\ wpc = "loop"
    /\ wpc' = IF run THEN "wait" ELSE "done"
    /\ UNCHANGED <<events, batch, run, waiters, partial, result, unsolicited,
                   cpc, api, srv, resp, sentUnsol, dpc>>

\* while (thread_run_)
WorkerLoop ==
    /\ wpc = "loop"
    /\ wpc' = IF run THEN "wait" ELSE "draining0"
    /\ UNCHANGED <<events, batch, run, waiters, partial, result, unsolicited,
                   cpc, api, srv, resp, sentUnsol, dpc>>

\* thread_cv_.wait(lock, pred): the predicate is evaluated under the lock;
\* when it holds the inbox is swapped out and the lock released.
WorkerWait ==
    /\ wpc = "wait"
    /\ IF ~run \/ events # <<>>
          THEN /\ batch' = events
               /\ events' = <<>>
               /\ wpc' = "dispatch"
          ELSE /\ wpc' = "blocking"
               /\ UNCHANGED <<batch, events>>
    /\ UNCHANGED <<run, waiters, partial, result, unsolicited, cpc, api, srv,
                   resp, sentUnsol, dpc>>

\* wait releases the lock and blocks in one step: a notify_one issued by a
\* thread that does not hold the lock between the predicate and this step
\* wakes nobody.
WorkerBlock ==
    /\ wpc = "blocking"
    /\ wpc' = "blocked"
    /\ UNCHANGED <<events, batch, run, waiters, partial, result, unsolicited,
                   cpc, api, srv, resp, sentUnsol, dpc>>

\* condition_variable::wait may return without a notify.
SpuriousWakeup ==
    /\ wpc = "blocked"
    /\ wpc' = "wait"
    /\ UNCHANGED <<events, batch, run, waiters, partial, result, unsolicited,
                   cpc, api, srv, resp, sentUnsol, dpc>>

\* The batch is processed: events.clear() and back to the loop head; after
\* the final drain the thread returns.
WorkerBatchDone ==
    /\ wpc \in {"dispatch", "draining"}
    /\ batch = <<>>
    /\ wpc' = IF wpc = "dispatch" THEN "loop" ELSE "done"
    /\ UNCHANGED <<events, batch, run, waiters, partial, result, unsolicited,
                   cpc, api, srv, resp, sentUnsol, dpc>>

\* After the loop: lock events_mutex_ and dispatch what is left in events_.
WorkerDrain ==
    /\ wpc = "draining0"
    /\ batch' = events
    /\ events' = <<>>
    /\ wpc' = "draining"
    /\ UNCHANGED <<run, waiters, partial, result, unsolicited, cpc, api, srv,
                   resp, sentUnsol, dpc>>

-----------------------------------------------------------------------------
(* dispatch_event on the head m of the batch.  Each case below is one      *)
(* branch of dispatch_event(action_id, dict), run under promise_map_mutex_ *)
(* and event_map_mutex_, or the fallback to the dispatch_ callback.        *)

Dispatching == wpc \in {"dispatch", "draining"} /\ batch # <<>>
Cur == Head(batch)

Fulfil(c, v) ==
    /\ result' = [result EXCEPT ![c] = [kind |-> "value", val |-> v]]
    /\ waiters' = waiters \ {c}

\* No ActionID, or nothing waits for it: hand it to dispatch_handler.
DispatchUnsolicited ==
    /\ Dispatching
    /\ Cur.aid = NoId \/ Cur.aid \notin waiters
    /\ unsolicited' = Append(unsolicited, Cur)
    /\ batch' = Tail(batch)
    /\ UNCHANGED <<events, wpc, run, waiters, partial, result, cpc, api, srv,
                   resp, sentUnsol, dpc>>

\* A waiter and no EventList in progress, no EventList key: a single Event.
DispatchSingle ==
    /\ Dispatching
    /\ Cur.aid \in waiters
    /\ partial[Cur.aid] = <<>>
    /\ ~HasEventList(Cur)
    /\ Fulfil(Cur.aid, <<Cur>>)
    /\ batch' = Tail(batch)
    /\ UNCHANGED <<events, wpc, run, partial, unsolicited, cpc, api, srv,
                   resp, sentUnsol, dpc>>

(* Mutation: the branch that creates the EventList does not return true, *)
(* so the head also falls through to dispatch_.                          *)
DispatchListStartFallsThrough ==
    /\ Dispatching
    /\ Cur.aid \in waiters
    /\ partial[Cur.aid] = <<>>
    /\ HasEventList(Cur)
    /\ IsSuccess(Cur)
    /\ partial' = [partial EXCEPT ![Cur.aid] = <<Cur>>]
    /\ unsolicited' = Append(unsolicited, Cur)
    /\ batch' = Tail(batch)
    /\ UNCHANGED <<events, wpc, run, waiters, result, cpc, api, srv, resp,
                   sentUnsol, dpc>>

\* The head of an EventList reporting success: start building it.
DispatchListStart ==
    /\ Dispatching
    /\ Cur.aid \in waiters
    /\ partial[Cur.aid] = <<>>
    /\ HasEventList(Cur)
    /\ IsSuccess(Cur)
    /\ partial' = [partial EXCEPT ![Cur.aid] = <<Cur>>]
    /\ batch' = Tail(batch)
    /\ UNCHANGED <<events, wpc, run, waiters, result, unsolicited, cpc, api,
                   srv, resp, sentUnsol, dpc>>

(* Mutation: the failed head is returned but its pipe is not erased from  *)
(* promise_map_.                                                          *)
DispatchListFailedKeepsPipe ==
    /\ Dispatching
    /\ Cur.aid \in waiters
    /\ partial[Cur.aid] = <<>>
    /\ HasEventList(Cur)
    /\ ~IsSuccess(Cur)
    /\ result' = [result EXCEPT ![Cur.aid] = [kind |-> "value", val |-> <<Cur>>]]
    /\ batch' = Tail(batch)
    /\ UNCHANGED <<events, wpc, run, waiters, partial, unsolicited, cpc, api,
                   srv, resp, sentUnsol, dpc>>

\* The head of an EventList reporting failure: return it at once.
DispatchListFailed ==
    /\ Dispatching
    /\ Cur.aid \in waiters
    /\ partial[Cur.aid] = <<>>
    /\ HasEventList(Cur)
    /\ ~IsSuccess(Cur)
    /\ Fulfil(Cur.aid, <<Cur>>)
    /\ batch' = Tail(batch)
    /\ UNCHANGED <<events, wpc, run, partial, unsolicited, cpc, api, srv,
                   resp, sentUnsol, dpc>>

\* EventList::add_event on a message that does not complete the list.
DispatchListAppend ==
    /\ Dispatching
    /\ Cur.aid \in waiters
    /\ partial[Cur.aid] # <<>>
    /\ ~IsListComplete(Cur)
    /\ partial' = [partial EXCEPT ![Cur.aid] = Append(@, Cur)]
    /\ batch' = Tail(batch)
    /\ UNCHANGED <<events, wpc, run, waiters, result, unsolicited, cpc, api,
                   srv, resp, sentUnsol, dpc>>

(* Mutation: EventList::add_event reports completion without storing the *)
(* tail in tail_.                                                         *)
DispatchListCompleteNoTail ==
    /\ Dispatching
    /\ Cur.aid \in waiters
    /\ partial[Cur.aid] # <<>>
    /\ IsListComplete(Cur)
    /\ Fulfil(Cur.aid, partial[Cur.aid])
    /\ partial' = [partial EXCEPT ![Cur.aid] = <<>>]
    /\ batch' = Tail(batch)
    /\ UNCHANGED <<events, wpc, run, unsolicited, cpc, api, srv, resp,
                   sentUnsol, dpc>>

\* EventList::add_event on the tail: return the list, erase pipe and list.
DispatchListComplete ==
    /\ Dispatching
    /\ Cur.aid \in waiters
    /\ partial[Cur.aid] # <<>>
    /\ IsListComplete(Cur)
    /\ Fulfil(Cur.aid, Append(partial[Cur.aid], Cur))
    /\ partial' = [partial EXCEPT ![Cur.aid] = <<>>]
    /\ batch' = Tail(batch)
    /\ UNCHANGED <<events, wpc, run, unsolicited, cpc, api, srv, resp,
                   sentUnsol, dpc>>

DispatchEvent ==
    \/ DispatchUnsolicited
    \/ DispatchSingle
    \/ DispatchListStart
    \/ DispatchListFailed
    \/ DispatchListAppend
    \/ DispatchListComplete

(* The caller threads: Connection::invoke, invoke with a timeout, and      *)
(* async_invoke.                                                           *)

\* get_event_pipe: a new promise is emplaced in promise_map_ under the
\* action's uuid; the caller keeps the future.
Register(c) ==
    /\ cpc[c] = "idle"
    /\ dpc = "alive"
    /\ \E a \in Apis \ {"async"} : api' = [api EXCEPT ![c] = a]
    /\ waiters' = waiters \cup {c}
    /\ cpc' = [cpc EXCEPT ![c] = "registered"]
    /\ UNCHANGED <<events, batch, wpc, run, partial, result, unsolicited, srv,
                   resp, sentUnsol, dpc>>

\* writer_->write(action.to_string()): the server receives the action and
\* chooses its response.
Write(c) ==
    /\ cpc[c] = "registered"
    /\ \E r \in Responses(c) : /\ srv' = [srv EXCEPT ![c] = r]
                               /\ resp' = [resp EXCEPT ![c] = r]
    /\ cpc' = [cpc EXCEPT ![c] = "waiting"]
    /\ UNCHANGED <<events, batch, wpc, run, waiters, partial, result,
                   unsolicited, api, sentUnsol, dpc>>

\* send returns -1: TcpSocket::write throws out of invoke, after the pipe
\* was registered and before anything waits on it.
WriteFails(c) ==
    /\ SendMayFail
    /\ cpc[c] = "registered"
    /\ cpc' = [cpc EXCEPT ![c] = "failed"]
    /\ UNCHANGED <<events, batch, wpc, run, waiters, partial, result,
                   unsolicited, api, srv, resp, sentUnsol, dpc>>

\* async_invoke: write the action without registering a pipe.
AsyncInvoke(c) ==
    /\ "async" \in Apis
    /\ cpc[c] = "idle"
    /\ dpc = "alive"
    /\ \E r \in Responses(c) : /\ srv' = [srv EXCEPT ![c] = r]
                               /\ resp' = [resp EXCEPT ![c] = r]
    /\ api' = [api EXCEPT ![c] = "async"]
    /\ cpc' = [cpc EXCEPT ![c] = "returned"]
    /\ UNCHANGED <<events, batch, wpc, run, waiters, partial, result,
                   unsolicited, sentUnsol, dpc>>

\* reaction.get() (or wait_for returning ready) once the pipe holds a value.
Get(c) ==
    /\ cpc[c] = "waiting"
    /\ result[c] # Pending
    /\ cpc' = [cpc EXCEPT ![c] = "returned"]
    /\ UNCHANGED <<events, batch, wpc, run, waiters, partial, result,
                   unsolicited, api, srv, resp, sentUnsol, dpc>>

\* wait_for(timeout) returns future_status::timeout.
TimeoutExpires(c) ==
    /\ api[c] = "timeout"
    /\ cpc[c] = "waiting"
    /\ result[c] = Pending
    /\ cpc' = [cpc EXCEPT ![c] = "timedout"]
    /\ UNCHANGED <<events, batch, wpc, run, waiters, partial, result,
                   unsolicited, api, srv, resp, sentUnsol, dpc>>

(* Mutation: set_exception_on_pipe without event_map_.erase.             *)
SetExceptionKeepsPartial(c) ==
    /\ cpc[c] = "timedout"
    /\ dpc \in {"alive", "stopping"}
    /\ IF c \in waiters
          THEN /\ result' = [result EXCEPT ![c] = [kind |-> "error", val |-> <<>>]]
               /\ waiters' = waiters \ {c}
          ELSE UNCHANGED <<result, waiters>>
    /\ cpc' = [cpc EXCEPT ![c] = "returned"]
    /\ UNCHANGED <<events, batch, wpc, run, partial, unsolicited, api, srv,
                   resp, sentUnsol, dpc>>

(* Mutation: the timeout error is poked into the caller's promise without *)
(* looking it up in promise_map_ first (the caller keeps its own handle). *)
SetExceptionUnconditional(c) ==
    /\ cpc[c] = "timedout"
    /\ dpc \in {"alive", "stopping"}
    /\ result' = [result EXCEPT ![c] = [kind |-> "error", val |-> <<>>]]
    /\ waiters' = waiters \ {c}
    /\ partial' = [partial EXCEPT ![c] = <<>>]
    /\ cpc' = [cpc EXCEPT ![c] = "returned"]
    /\ UNCHANGED <<events, batch, wpc, run, unsolicited, api, srv, resp,
                   sentUnsol, dpc>>

\* dispatcher_->set_exception_on_pipe, then reaction.get(): the error is
\* set only if the pipe is still in promise_map_; the EventList in
\* progress is erased either way; get returns whatever the pipe holds.
SetException(c) ==
    /\ cpc[c] = "timedout"
    /\ dpc \in {"alive", "stopping"}
    /\ IF c \in waiters
          THEN /\ result' = [result EXCEPT ![c] = [kind |-> "error", val |-> <<>>]]
               /\ waiters' = waiters \ {c}
          ELSE UNCHANGED <<result, waiters>>
    /\ partial' = [partial EXCEPT ![c] = <<>>]
    /\ cpc' = [cpc EXCEPT ![c] = "returned"]
    /\ UNCHANGED <<events, batch, wpc, run, unsolicited, api, srv, resp,
                   sentUnsol, dpc>>

\* The same call once the destructor has begun dispatcher_.reset(): the
\* unique_ptr is already null, and the call dereferences it.
SetExceptionAfterReset(c) ==
    /\ cpc[c] = "timedout"
    /\ dpc \notin {"alive", "stopping"}
    /\ dpc' = "crashed"
    /\ UNCHANGED <<events, batch, wpc, run, waiters, partial, result,
                   unsolicited, cpc, api, srv, resp, sentUnsol>>

-----------------------------------------------------------------------------
(* Connection::~Connection: reader_, writer_ and stream_parser_ are reset  *)
(* (no more messages reach add_event), then dispatcher_, whose destructor  *)
(* stops and joins the worker and runs cleanup_object.  Callers between    *)
(* get_event_pipe and write are still using writer_, so destruction starts *)
(* only when none is there.                                                *)
BeginDestroy ==
    /\ Destroy
    /\ dpc = "alive"
    /\ \A c \in Callers : cpc[c] # "registered"
    /\ dpc' = "stopping"
    /\ UNCHANGED <<events, batch, wpc, run, waiters, partial, result,
                   unsolicited, cpc, api, srv, resp, sentUnsol>>

\* stop_work_thread: thread_run_ = false and notify_one, without the lock.
StopDispatcher ==
    /\ dpc = "stopping"
    /\ run' = FALSE
    /\ Notify
    /\ dpc' = "joining"
    /\ UNCHANGED <<events, batch, waiters, partial, result, unsolicited, cpc,
                   api, srv, resp, sentUnsol>>

\* thread_.join()
JoinDispatcher ==
    /\ dpc = "joining"
    /\ wpc = "done"
    /\ dpc' = "cleanup"
    /\ UNCHANGED <<events, batch, wpc, run, waiters, partial, result,
                   unsolicited, cpc, api, srv, resp, sentUnsol>>

(* Mutation: cleanup_object without the loop that sets null on pipes.    *)
CleanupNoNull ==
    /\ dpc = "cleanup"
    /\ waiters' = {}
    /\ partial' = [c \in Callers |-> <<>>]
    /\ dpc' = IF ~NDEBUG /\ (waiters # {} \/ \E c \in Callers : partial[c] # <<>>)
                 THEN "aborted" ELSE "destroyed"
    /\ UNCHANGED <<events, batch, wpc, run, result, unsolicited, cpc, api, srv,
                   resp, sentUnsol>>

\* cleanup_object: assert(promise_map_.empty()), null on every pipe left,
\* assert(event_map_.empty()); the maps are then destroyed.
Cleanup ==
    /\ dpc = "cleanup"
    /\ result' = [c \in Callers |->
                    IF c \in waiters THEN [kind |-> "null", val |-> <<>>]
                                     ELSE result[c]]
    /\ waiters' = {}
    /\ partial' = [c \in Callers |-> <<>>]
    /\ dpc' = IF ~NDEBUG /\ (waiters # {} \/ \E c \in Callers : partial[c] # <<>>)
                 THEN "aborted" ELSE "destroyed"
    /\ UNCHANGED <<events, batch, wpc, run, unsolicited, cpc, api, srv, resp,
                   sentUnsol>>

-----------------------------------------------------------------------------
(* The process is gone once an assert or a null dereference killed it.     *)
Dead == dpc \in {"aborted", "crashed"}

(* Nothing is left to do: every call has returned and the server has      *)
(* sent everything, or the Connection is destroyed, or the process died.   *)
Finished ==
    \/ Dead
    \/ /\ dpc = "destroyed"
       /\ \A c \in Callers : cpc[c] \in {"idle", "returned", "failed"}
    \/ /\ dpc = "alive"
       /\ \A c \in Callers : cpc[c] \in {"returned", "failed"} /\ srv[c] = <<>>
       /\ sentUnsol = MaxUnsolicited
       /\ events = <<>>
       /\ wpc = "blocked"

Worker ==
    \/ WorkerLoop \/ WorkerWait \/ WorkerBlock \/ SpuriousWakeup
    \/ WorkerBatchDone \/ WorkerDrain \/ DispatchEvent

Caller(c) ==
    \/ Register(c) \/ Write(c) \/ WriteFails(c) \/ AsyncInvoke(c)
    \/ Get(c) \/ TimeoutExpires(c) \/ SetException(c)
    \/ SetExceptionAfterReset(c)

Destructor == BeginDestroy \/ StopDispatcher \/ JoinDispatcher \/ Cleanup

Server == ServerSendsUnsolicited \/ \E c \in Callers : ServerSends(c)

Next ==
    \/ /\ ~Dead
       /\ \/ Worker
          \/ Server
          \/ Destructor
          \/ \E c \in Callers : Caller(c)
    \/ Finished /\ UNCHANGED vars

(* The worker, the destructor once started and every unblocked caller are  *)
(* threads the scheduler keeps running.  The server keeps sending, and the *)
(* reader/parser thread, repeatedly contending for events_mutex_, gets it  *)
(* eventually (strong fairness).  A caller choosing to call, the timeout   *)
(* elapsing, spurious wakeups, send failures and destruction are not       *)
(* assumed to happen.                                                      *)
Fairness ==
    /\ WF_vars(WorkerLoop) /\ WF_vars(WorkerWait) /\ WF_vars(WorkerBlock)
    /\ WF_vars(WorkerBatchDone) /\ WF_vars(WorkerDrain)
    /\ WF_vars(DispatchEvent)
    /\ SF_vars(ServerSendsUnsolicited)
    /\ \A c \in Callers : /\ SF_vars(ServerSends(c))
                          /\ WF_vars(Write(c)) /\ WF_vars(Get(c))
                          /\ WF_vars(SetException(c))
    /\ WF_vars(StopDispatcher) /\ WF_vars(JoinDispatcher) /\ WF_vars(Cleanup)

Spec == Init /\ [][Next]_vars /\ Fairness

-----------------------------------------------------------------------------
(* A response that reached add_event before the Connection was destroyed *)
(* is delivered: the destructor's null goes only to a caller whose        *)
(* response the server had not finished sending (or whose write failed).  *)
(* Messages queued in events_ when stop_work_thread clears thread_run_,   *)
(* after the worker's last batch, must still be dispatched by the drain   *)
(* after the loop, before cleanup_object nulls the pipes left.            *)
ArrivedResponseDelivered ==
    \A c \in Callers :
        result[c].kind = "null" => srv[c] # <<>> \/ resp[c] = <<>>

(* Correlation: a caller that gets a reaction from its pipe gets exactly   *)
(* the response the server sent for its ActionID, every message of it in  *)
(* order (a single Event, a failed EventList head alone, or head, all the  *)
(* middles and the tail).  This is what dispatch_event's six branches,     *)
(* interleaved with other callers' responses, unsolicited events, batching *)
(* in work_thread and timeouts, must together get right.                   *)
ReactionIsResponse ==
    \A c \in Callers : result[c].kind = "value" => result[c].val = resp[c]

(* A message carrying a caller's ActionID reaches the subscribers only     *)
(* when that caller stopped waiting for it: it used async_invoke, or its   *)
(* invoke timed out (set_exception_on_pipe) or the destructor closed its   *)
(* pipe.  Never while invoke still waits.                                  *)
CorrelatedOnlyWhenUnclaimed ==
    \A i \in DOMAIN unsolicited :
        LET a == unsolicited[i].aid
        IN  a # NoId => \/ api[a] = "async"
                       \/ result[a].kind \in {"error", "null"}

(* No EventList is left in event_map_ for an ActionID whose pipe is gone:  *)
(* completing, failing or timing out a pipe also drops its partial list    *)
(* (otherwise cleanup_object's assert(event_map_.empty()) fires).          *)
NoOrphanPartial ==
    \A c \in Callers : partial[c] # <<>> => c \in waiters

(* A promise is satisfied at most once: once a pipe holds a value, an      *)
(* error or null, no later step of the dispatcher, the timeout path or the *)
(* destructor replaces it (a second set_value would throw                  *)
(* promise_already_satisfied on the dispatcher thread).                    *)
PipeSetOnce ==
    [][\A c \in Callers : result[c] # Pending => result'[c] = result[c]]_vars

(* Every invoke returns: a caller blocked on its pipe eventually gets a    *)
(* reaction or the timeout error.                                          *)
InvokeReturns ==
    \A c \in Callers : cpc[c] = "waiting" ~> cpc[c] = "returned"

(* Destroying the Connection releases every caller still blocked in        *)
(* invoke: once the destructor has finished, no pipe a caller waits on is  *)
(* still empty.                                                            *)
DestroyReleasesWaiters ==
    dpc = "destroyed" =>
        \A c \in Callers : cpc[c] = "waiting" => result[c] # Pending

(* Destroying the Connection while calls are outstanding neither aborts    *)
(* the process nor crashes it.                                             *)
DestroySurvives == ~Dead

(* Once started, the destructor finishes: the dispatcher's worker is      *)
(* joined and its pipes released.                                          *)
DestroyCompletes == dpc = "stopping" ~> dpc \in {"destroyed", "aborted", "crashed"}

(* promise_map_ only holds pipes some caller still waits on (is between    *)
(* get_event_pipe and get); a pipe nobody will read is a leak.             *)
WaitersOwned ==
    \A c \in waiters : cpc[c] \in {"registered", "waiting", "timedout"}

-----------------------------------------------------------------------------
(* The refinement mapping onto Correlation.tla: a caller's pipe is open    *)
(* while it is in promise_map_, and otherwise holds what was set on it;    *)
(* the subscribers' stream is what reached dispatch_handler; the           *)
(* Connection is closed once its destructor has begun.                     *)
PipeState(c) ==
    IF c \in waiters THEN "open"
    ELSE IF result[c].kind = "pending" THEN "none" ELSE result[c].kind

ServerMsgs ==
    UNION {{r[i] : i \in DOMAIN r} : r \in UNION {Responses(c) : c \in Callers}}
    \cup {M(NoId, "none", "none", i) : i \in 1..MaxUnsolicited}

Abstract == INSTANCE Correlation WITH
    pipe      <- [c \in Callers |-> PipeState(c)],
    reply     <- [c \in Callers |-> result[c].val],
    answer    <- resp,
    published <- unsolicited,
    closed    <- dpc # "alive",
    Msgs      <- ServerMsgs

(* The dispatcher, its worker thread, the callers' invoke, invoke with a   *)
(* timeout and async_invoke, and ~Connection together implement the        *)
(* promise of Correlation.tla: each pipe resolves once, with the caller's  *)
(* whole response (none of it leaked to subscribers), the timeout error or *)
(* null at shutdown, and subscribers get only unclaimed messages, in the   *)
(* server's order for each ActionID.                                       *)
CorrelationRefined == Abstract!CSpec

=============================================================================
