---------------------------- MODULE Correlation ----------------------------
(***************************************************************************)
(* What the response-correlation engine promises its callers, with no     *)
(* threads, queues or locks: spec.md sections 3 (Connection API) and 8    *)
(* (properties 3 to 6, and the ordering guarantees).                        *)
(*                                                                         *)
(*  - A caller opens a pipe for its ActionID before its action is sent,   *)
(*    and only while the Connection is not shutting down.                 *)
(*  - The server answers each action once, with a whole response.         *)
(*  - An open pipe is resolved exactly once, in one step: with the whole   *)
(*    response, none of whose messages went to the subscribers; with an    *)
(*    error (timeout); or with null when the Connection shuts down.        *)
(*  - A message goes to the subscribers only when no pipe for its ActionID *)
(*    is open, and the subscribers see the messages of one ActionID in the *)
(*    order the server sent them, each at most once.                       *)
(*                                                                         *)
(* AmiDispatcher.tla is shown to implement this specification.             *)
(***************************************************************************)
EXTENDS Naturals, Sequences, SequencesExt

CONSTANTS
    Callers,       \* caller threads, one ActionID each
    NoId,          \* the ActionID of a message that carries none
    Msgs,          \* the messages the server may send
    Responses(_)   \* the whole responses the server may give a caller

VARIABLES
    pipe,       \* each caller's pipe: "none", "open", "value", "error", "null"
    reply,      \* what a pipe resolved with a value holds
    answer,     \* the response the server gave each caller, <<>> if none yet
    published,  \* the messages handed to the subscribers, in order
    closed      \* TRUE once the Connection has begun shutting down

cvars == <<pipe, reply, answer, published, closed>>

-----------------------------------------------------------------------------
CInit ==
    /\ pipe = [c \in Callers |-> "none"]
    /\ reply = [c \in Callers |-> <<>>]
    /\ answer = [c \in Callers |-> <<>>]
    /\ published = <<>>
    /\ closed = FALSE

(* invoke registers its pipe before it writes the action.                  *)
Open(c) ==
    /\ ~closed
    /\ pipe[c] = "none"
    /\ answer[c] = <<>>
    /\ pipe' = [pipe EXCEPT ![c] = "open"]
    /\ UNCHANGED <<reply, answer, published, closed>>

(* The action reaches the server, which settles on its whole response.     *)
Answer(c) ==
    /\ answer'[c] # answer[c]
    /\ answer[c] = <<>>
    /\ \E r \in Responses(c) : answer' = [answer EXCEPT ![c] = r]
    /\ UNCHANGED <<pipe, reply, published, closed>>

(* The pipe resolves with the whole response, none of it published.        *)
Deliver(c) ==
    /\ pipe[c] = "open"
    /\ answer[c] # <<>>
    /\ \A i \in DOMAIN published : published[i].aid # c
    /\ pipe' = [pipe EXCEPT ![c] = "value"]
    /\ reply' = [reply EXCEPT ![c] = answer[c]]
    /\ UNCHANGED <<answer, published, closed>>

(* A timeout deposits its error into the pipe.                             *)
Fail(c) ==
    /\ pipe[c] = "open"
    /\ pipe' = [pipe EXCEPT ![c] = "error"]
    /\ UNCHANGED <<reply, answer, published, closed>>

(* A message nobody waits for goes to the subscribers: one without an      *)
(* ActionID, or one of a response whose pipe is not open, after every      *)
(* message of its ActionID published so far.                               *)
Publishable(m) ==
    /\ \/ m.aid = NoId
       \/ pipe[m.aid] # "open" /\ m \in Range(answer[m.aid])
    /\ \A i \in DOMAIN published : published[i].aid = m.aid => published[i].n < m.n

Publish ==
    /\ published' # published
    /\ \E m \in Msgs : published' = Append(published, m) /\ Publishable(m)
    /\ UNCHANGED <<pipe, reply, answer, closed>>

(* Shutdown begins: no pipe is opened any more.                             *)
Shutdown ==
    /\ ~closed
    /\ closed' = TRUE
    /\ UNCHANGED <<pipe, reply, answer, published>>

(* Shutdown resolves every pipe still open with null.                      *)
Release ==
    /\ closed
    /\ \E c \in Callers : pipe[c] = "open"
    /\ pipe' = [c \in Callers |-> IF pipe[c] = "open" THEN "null" ELSE pipe[c]]
    /\ UNCHANGED <<reply, answer, published, closed>>

CNext ==
    \/ \E c \in Callers : Open(c) \/ Answer(c) \/ Deliver(c) \/ Fail(c)
    \/ Publish
    \/ Shutdown
    \/ Release

(* The stuttering step is written first so that a checker evaluating the  *)
(* disjuncts in order settles most steps of a refining spec on it.        *)
CSpec == CInit /\ [][UNCHANGED cvars \/ CNext]_cvars

=============================================================================
