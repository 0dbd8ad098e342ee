---------------------------- MODULE StreamParser ----------------------------
(***************************************************************************)
(* StreamParser::process_chunk: the framing of the AMI byte stream into    *)
(* the greeting line and messages ended by "\r\n\r\n".  The socket reader  *)
(* cuts the stream into chunks wherever recv returns; add_buf queues them  *)
(* and the parser thread processes them one at a time in order, so the     *)
(* queue is left out and each step feeds the next chunk to process_chunk.  *)
(*                                                                         *)
(* Bytes are abstracted to CR, LF and X (any other byte); the string      *)
(* operations are those of StdString.                                      *)
(***************************************************************************)
EXTENDS StdString

CONSTANTS
    Greeting,             \* the greeting line, "\r\n" included
    Messages,             \* the messages the server may send, EOM included
    NumMessages,          \* how many messages follow the greeting
    MaxChunk,             \* most bytes one recv returns
    GreetingInFirstChunk  \* TRUE iff the first recv holds the whole greeting

X  == "X"   \* any byte other than CR and LF

ASSUME MaxChunk \in Nat \ {0}
ASSUME GreetingInFirstChunk \in BOOLEAN

VARIABLES
    rest,        \* the bytes the server sent that no recv has returned yet
    firstEvent,  \* StreamParser::first_event_
    eventBuf,    \* StreamParser::event_buf_
    version,     \* the last string passed to the version callback, or <<>>
    out,         \* the messages passed to the dispatch callback, in order
    sent         \* history: the messages the server sends after the greeting

vars == <<rest, firstEvent, eventBuf, version, out, sent>>

-----------------------------------------------------------------------------
(* Mutation: after a message is cut off the front of event_buf_, the     *)
(* search for the next EOM (StreamParser.cpp:131) is left out, so one     *)
(* process_chunk dispatches at most one message.                          *)
DispatchMessagesOnce(buf, eom, msgs) ==
    IF eom = NPOS
    THEN [buf |-> buf, msgs |-> msgs]
    ELSE LET end == eom + Len(EOM)
         IN  IF end = Len(buf)
             THEN [buf |-> <<>>, msgs |-> Append(msgs, buf)]
             ELSE [buf |-> Drop(buf, end), msgs |-> Append(msgs, Prefix(buf, end))]

(* The while loop of process_chunk: dispatch every message of buf that    *)
(* ends at or before eom.  When the message is the whole buffer,          *)
(* dispatch_(std::move(event_buf_)) leaves event_buf_ empty (what the      *)
(* libstdc++ and libc++ move constructors do).                             *)
RECURSIVE DispatchMessages(_, _, _)
DispatchMessages(buf, eom, msgs) ==
    IF eom = NPOS
    THEN [buf |-> buf, msgs |-> msgs]
    ELSE LET end == eom + Len(EOM)
         IN  IF end = Len(buf)
             THEN [buf |-> <<>>, msgs |-> Append(msgs, buf)]
             ELSE DispatchMessages(Drop(buf, end), Find(Drop(buf, end), EOM, 0),
                                   Append(msgs, Prefix(buf, end)))

(* Mutation: the scan resumes EOM length - 2 bytes before the old end.    *)
ScanStartLate(buf) == IF Len(buf) < Len(EOM) THEN 0 ELSE Len(buf) - Len(EOM) + 2

(* The EOM search of process_chunk after the chunk is added to the buffer: *)
(* an empty buffer takes the chunk and is searched from 0; otherwise the   *)
(* chunk is appended and the search starts EOM length - 1 bytes before the *)
(* old end of the buffer.                                                  *)
ScanStart(buf) == IF Len(buf) < Len(EOM) THEN 0 ELSE Len(buf) - Len(EOM) + 1

Frame(buf, chunk) ==
    IF buf = <<>>
    THEN DispatchMessages(chunk, Find(chunk, EOM, 0), <<>>)
    ELSE DispatchMessages(buf \o chunk, Find(buf \o chunk, EOM, ScanStart(buf)), <<>>)

-----------------------------------------------------------------------------
Init ==
    /\ sent \in [1..NumMessages -> Messages]
    /\ rest = Greeting \o FlattenSeq(sent)
    /\ firstEvent = TRUE
    /\ eventBuf = <<>>
    /\ version = <<>>
    /\ out = <<>>

(* The first chunk: the greeting is whatever precedes the first "\r\n"     *)
(* (the whole chunk if there is none); the chunk is then cut 2 bytes past  *)
(* that point, and the rest, if any, is framed.                            *)
ProcessFirstChunk(chunk) ==
    LET eor  == Find(chunk, EOR, 0)
        cut  == SizeAdd(eor, 2)
        f    == Frame(eventBuf, Drop(chunk, cut))
    IN  /\ firstEvent
        /\ firstEvent' = FALSE
        /\ version' = Prefix(chunk, eor)
        /\ IF Len(chunk) = cut
              THEN UNCHANGED <<eventBuf, out>>
              ELSE /\ eventBuf' = f.buf
                   /\ out' = out \o f.msgs

ProcessChunk(chunk) ==
    LET f == Frame(eventBuf, chunk)
    IN  /\ ~firstEvent
        /\ eventBuf' = f.buf
        /\ out' = out \o f.msgs
        /\ UNCHANGED <<firstEvent, version>>

(* SocketReader reads the next chunk (recv returns between 1 and MaxChunk  *)
(* bytes) and the parser thread runs process_chunk on it.                  *)
Receive ==
    \E k \in 1..MaxChunk :
        /\ k <= Len(rest)
        /\ ~GreetingInFirstChunk \/ ~firstEvent \/ Find(Prefix(rest, k), EOR, 0) # NPOS
        /\ rest' = Drop(rest, k)
        /\ \/ ProcessFirstChunk(Prefix(rest, k))
           \/ ProcessChunk(Prefix(rest, k))
        /\ UNCHANGED sent

Done == rest = <<>> /\ UNCHANGED vars

Next == Receive \/ Done

Spec == Init /\ [][Next]_vars /\ WF_vars(Receive)

-----------------------------------------------------------------------------
(* The number of bytes recv has returned so far.                          *)
Received == Len(Greeting) + Len(FlattenSeq(sent)) - Len(rest)

(* No complete message is withheld: after every process_chunk, each       *)
(* message whose last byte has been received has been passed to the       *)
(* dispatch callback, however many messages one chunk completes.  A       *)
(* message left in event_buf_ waits for the next recv, which may never    *)
(* come if the server is waiting for the client, so its invoke hangs.     *)
NothingWithheld ==
    ~firstEvent =>
        \A k \in 1..NumMessages :
            Len(Greeting) + Len(FlattenSeq(SubSeq(sent, 1, k))) <= Received
                => Len(out) >= k

(* Framing: whatever sizes recv returns, the dispatch callback receives    *)
(* the server's messages one by one, byte for byte, in order, the version  *)
(* callback receives the greeting line without its "\r\n", and once the   *)
(* whole stream is read every message has been dispatched and nothing is   *)
(* left in event_buf_.                                                     *)
FramingCorrect ==
    /\ IsPrefix(out, sent)
    /\ ~firstEvent => version = SubSeq(Greeting, 1, Len(Greeting) - 2)
    /\ rest = <<>> => out = sent /\ eventBuf = <<>>

=============================================================================
