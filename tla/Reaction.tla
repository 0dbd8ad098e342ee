------------------------------- MODULE Reaction -------------------------------
(***************************************************************************)
(* The reactions the dispatcher hands an invoke caller: reaction::Event    *)
(* (one record) and reaction::EventList (a head, the events_ that follow  *)
(* it and an optional tail_), built from the records KeyValDict parses out *)
(* of the server's messages, with the operations a caller reads them      *)
(* through: is_success, to_string, event_count and get_event.             *)
(*                                                                         *)
(* A record is a KeyValDict, [ordered, values]; a reaction is a tagged     *)
(* record whose kind says which class it is, and whose tail is <<>> while *)
(* tail_ is null.  The operators are pure: the objects are built once by   *)
(* dispatch_event and are const from then on.                             *)
(***************************************************************************)
EXTENDS KeyValDict

CONSTANT
    Replies   \* the message sequences the server may answer one action with

Key(s) == <<s>>

(* dispatch_event(std::string): the KeyValDict(std::string) constructor    *)
(* parses a framed message into a record.                                  *)
Record(buf) == LET r == SetMessage(buf) IN [ordered |-> r.ordered, values |-> r.values]

(* Reaction::is_success(status).                                           *)
StatusIsSuccess(v) == v \in {<<"Success">>, <<"Goodbye">>}

(* reaction::Event(KeyValDict): the record is the whole reaction.          *)
NewEvent(rec) == [kind |-> "event", head |-> rec, events |-> <<>>, tail |-> <<>>]

(* EventList(KeyValDict): the head, no events_, tail_ null.                *)
NewEventList(rec) == [kind |-> "list", head |-> rec, events |-> <<>>, tail |-> <<>>]

(* EventList::is_success: the head has a Response, and it is a success.    *)
ListIsSuccess(l) ==
    /\ HasValue(l.head.values, Key("Response"))
    /\ StatusIsSuccess(GetValue(l.head.values, Key("Response")))

(* EventList::is_list_complete.                                            *)
ListComplete(v) == v \in {<<"Complete">>, <<"cancelled">>}

(* Mutation: the completing record is also appended to events_.           *)
AddToListAlsoAppends(l, rec) ==
    IF HasValue(rec.values, Key("EventList"))
       /\ ListComplete(GetValue(rec.values, Key("EventList")))
    THEN [list |-> [l EXCEPT !.tail = <<rec>>, !.events = Append(@, rec)], done |-> TRUE]
    ELSE [list |-> [l EXCEPT !.events = Append(@, rec)], done |-> FALSE]

(* EventList::add_event: a record whose EventList value completes the list *)
(* becomes tail_ and add_event returns true; any other is appended to      *)
(* events_ and it returns false.                                           *)
AddToList(l, rec) ==
    IF HasValue(rec.values, Key("EventList"))
       /\ ListComplete(GetValue(rec.values, Key("EventList")))
    THEN [list |-> [l EXCEPT !.tail = <<rec>>], done |-> TRUE]
    ELSE [list |-> [l EXCEPT !.events = Append(@, rec)], done |-> FALSE]

(* event::Event::to_string and reaction::Event::to_string, which are       *)
(* KeyValDict::to_string.                                                  *)
RecToString(rec) == DictToString(rec.ordered, rec.values)

(* EventList::to_string: the head, every event in order, then the tail if *)
(* tail_ is set.                                                           *)
ListToString(l) ==
    LET parts == <<l.head>> \o l.events \o l.tail
    IN  FlattenSeq([i \in DOMAIN parts |-> RecToString(parts[i])])

(* Reaction::to_string, dispatched on the class.                           *)
ReactionToString(x) == IF x.kind = "event" THEN RecToString(x.head) ELSE ListToString(x)

(* EventList::event_count and get_event(event_idx), whose assert keeps     *)
(* event_idx below event_count.                                            *)
EventCount(l) == Len(l.events)
GetEvent(l, idx) == l.events[idx + 1]

(* dispatch_event for an action whose list is open: each record after the *)
(* head goes to add_event until it reports the list complete.  The result *)
(* says how many records the reaction took and whether it completed.      *)
RECURSIVE Collect(_, _, _)
Collect(l, recs, i) ==
    IF i > Len(recs)
    THEN [reaction |-> l, used |-> i - 1, complete |-> FALSE]
    ELSE LET a == AddToList(l, recs[i])
         IN  IF a.done
             THEN [reaction |-> a.list, used |-> i, complete |-> TRUE]
             ELSE Collect(a.list, recs, i + 1)

(* dispatch_event's branches for a caller's first record: without an       *)
(* EventList key it resolves the pipe with a reaction::Event; with one it  *)
(* makes an EventList, which resolves the pipe at once when is_success is  *)
(* false and otherwise waits in event_map_ for the records that follow.    *)
Assemble(recs) ==
    LET head == recs[1]
    IN  IF ~HasKey(head.ordered, Key("EventList"))
        THEN [reaction |-> NewEvent(head), used |-> 1, complete |-> TRUE]
        ELSE IF ~ListIsSuccess(NewEventList(head))
        THEN [reaction |-> NewEventList(head), used |-> 1, complete |-> TRUE]
        ELSE Collect(NewEventList(head), recs, 2)

-----------------------------------------------------------------------------
(* The reading of a reply in spec.md (sections 2 and 5), over the fields   *)
(* the server sent: a head without EventList is a single reaction; a head *)
(* with EventList and no successful Response completes alone; otherwise   *)
(* the first later message whose EventList is Complete or cancelled ends  *)
(* it (0: the reply never completes).                                     *)
HasField(fs, k) == \E i \in DOMAIN fs : fs[i][1] = k
FieldIs(fs, k, S) == HasField(fs, k) /\ LastValue(fs, k) \in S

ReplyEnd(rep) ==
    LET ends == {i \in 2..Len(rep) :
                    FieldIs(rep[i], Key("EventList"), {<<"Complete">>, <<"cancelled">>})}
    IN  IF \/ ~HasField(rep[1], Key("EventList"))
           \/ ~FieldIs(rep[1], Key("Response"), {<<"Success">>, <<"Goodbye">>})
        THEN 1
        ELSE IF ends = {} THEN 0 ELSE Min(ends)

(* What a caller reads from its reaction (spec scenario S3 and testable    *)
(* property 4): parsed from the server's bytes and assembled by            *)
(* dispatch_event and add_event, the reaction completes exactly when the   *)
(* spec's reading of the reply does and with the same messages; its        *)
(* to_string gives back the bytes of those messages in arrival order;      *)
(* event_count counts the middles, get_event(i) is the i-th middle, and a  *)
(* list's is_success is its head's Response.  It is stated of the states  *)
(* in which KeyValDict has read a record off the wire.                     *)
ReactionRendersReply ==
    Parsed => \A rep \in Replies :
        LET a == Assemble([i \in DOMAIN rep |-> Record(Wire(rep[i]))])
            n == ReplyEnd(rep)
        IN  /\ a.complete <=> n # 0
            /\ a.complete =>
                 /\ a.used = n
                 /\ ReactionToString(a.reaction) = FlattenSeq([i \in 1..n |-> Wire(rep[i])])
                 /\ a.reaction.kind = "list" =>
                      /\ EventCount(a.reaction) = IF n = 1 THEN 0 ELSE n - 2
                      /\ \A i \in 0..(EventCount(a.reaction) - 1) :
                            RecToString(GetEvent(a.reaction, i)) = Wire(rep[i + 2])
                      /\ ListIsSuccess(a.reaction) <=>
                            FieldIs(rep[1], Key("Response"), {<<"Success">>, <<"Goodbye">>})

=============================================================================
