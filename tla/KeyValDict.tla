------------------------------ MODULE KeyValDict ------------------------------
(***************************************************************************)
(* util::KeyValDict, the AMI record: its parser (set_message), its wire    *)
(* form (to_string) and its setters; action::Action, which renders the     *)
(* Action and ActionID fields before the record; and the action classes,  *)
(* each a schema of ordered keys handed to the Action constructor.         *)
(*                                                                         *)
(* A string is a sequence of symbols.  ":", " ", CR and LF are the bytes   *)
(* the parser looks for; every other symbol stands for a run of bytes      *)
(* without them, so a key such as "Username" is the one-symbol string      *)
(* <<"Username">>.  The object is either an action built through its       *)
(* constructor and set_value, or a record parsed from what the server      *)
(* sent; the server's message is given as a list of fields and rendered   *)
(* on the wire by the constant operator Wire.                              *)
(***************************************************************************)
EXTENDS StdString, TLC

CONSTANTS
    Classes,  \* the action classes (schemas below) the program constructs
    Values,   \* values a caller or the server may give a field
    BadKey,   \* a key no action class declares
    Inputs,   \* field lists <<key, value>> the server may send
    Wire(_),  \* the bytes the server sends for a field list
    Id        \* the symbol standing for an action's uuid

VARIABLES
    ordered,  \* KeyValDict::ordered_keys_
    values,   \* KeyValDict::values_, a function from keys to values
    action,   \* Action::action_, or <<>> for a record parsed from the wire
    input,    \* the field list a parsed record was read from
    error     \* the exception the last operation threw, or "none"

vars == <<ordered, values, action, input, error>>

-----------------------------------------------------------------------------
(* An action class: the Action(name, ordered_keys) its constructor calls,  *)
(* the fields its constructor sets to constants, and the fields it sets    *)
(* from its arguments.                                                     *)
Schema(name, keys, preset, params) ==
    [action |-> <<name>>, keys |-> [i \in DOMAIN keys |-> <<keys[i]>>],
     preset |-> preset, params |-> {<<p>> : p \in params}]

Challenge           == Schema("Challenge", <<"AuthType">>, <<"AuthType">> :> <<"MD5">>, {})
DeviceStateList     == Schema("DeviceStateList", <<>>, <<>>, {})
Events              == Schema("Events", <<"EventMask">>, <<"EventMask">> :> <<"on">>, {})
ExtensionState      == Schema("ExtensionState", <<"Exten", "Context">>, <<>>, {})
Getvar              == Schema("Getvar", <<"Channel", "Variable">>, <<>>, {})
ListCommands        == Schema("ListCommands", <<>>, <<>>, {})
LoginKeys           == <<"Username", "AuthType", "Secret", "Key", "Events">>
LoginDefault        == Schema("Login", LoginKeys, <<>>, {})
Login               == Schema("Login", LoginKeys, <<>>, {"Username", "Secret"})
MailboxCount        == Schema("MailboxCount", <<"Mailbox">>, <<>>, {"Mailbox"})
MailboxStatus       == Schema("MailboxStatus", <<"Mailbox">>, <<>>, {"Mailbox"})
ParkedCalls         == Schema("ParkedCalls", <<"ParkingLot">>, <<>>, {})
Ping                == Schema("Ping", <<>>, <<>>, {})
VoicemailBoxSummary == Schema("VoicemailBoxSummary", <<"Context", "Mailbox">>, <<>>,
                              {"Context", "Mailbox"})
VoicemailRefresh    == Schema("VoicemailRefresh", <<"Context", "Mailbox">>, <<>>, {})

-----------------------------------------------------------------------------
(* has_key: the key is in ordered_keys_.                                   *)
HasKey(keys, k) == \E i \in DOMAIN keys : keys[i] = k

(* get_value: the value of k, or <<>> standing in for std::nullopt when    *)
(* HasValue is false.                                                      *)
HasValue(vals, k) == k \in DOMAIN vals
GetValue(vals, k) == IF HasValue(vals, k) THEN vals[k] ELSE <<>>

(* values_.emplace(key, val): no effect when the key is already present.   *)
Emplace(vals, k, v) == IF HasValue(vals, k) THEN vals ELSE vals @@ (k :> v)

(* Mutation: the value is taken with the "\r\n" that ends it.              *)
RECURSIVE ParseFieldsWithEOR(_, _, _, _)
ParseFieldsWithEOR(buf, key_beg, keys, vals) ==
    LET key_end == Find(buf, SEP, key_beg)
    IN  IF key_beg >= Len(buf) \/ key_end = NPOS
        THEN [ordered |-> keys, values |-> vals, fault |-> FALSE]
        ELSE LET key     == SubSeq(buf, key_beg + 1, key_end)
                 val_beg == key_end + 2
                 val_end == Find(buf, EOR, val_beg)
             IN  IF val_end = NPOS
                 THEN [ordered |-> Append(keys, key), values |-> vals, fault |-> TRUE]
                 ELSE ParseFieldsWithEOR(buf, val_end + 2, Append(keys, key),
                          Emplace(vals, key, SubSeq(buf, val_beg + 1, val_end + 2)))

(* Mutation: the next key starts one byte early, at the LF of the line.    *)
RECURSIVE ParseFieldsEarly(_, _, _, _)
ParseFieldsEarly(buf, key_beg, keys, vals) ==
    LET key_end == Find(buf, SEP, key_beg)
    IN  IF key_beg >= Len(buf) \/ key_end = NPOS
        THEN [ordered |-> keys, values |-> vals, fault |-> FALSE]
        ELSE LET key     == SubSeq(buf, key_beg + 1, key_end)
                 val_beg == key_end + 2
                 val_end == Find(buf, EOR, val_beg)
             IN  IF val_end = NPOS
                 THEN [ordered |-> Append(keys, key), values |-> vals, fault |-> TRUE]
                 ELSE ParseFieldsEarly(buf, val_end + 1, Append(keys, key),
                          Emplace(vals, key, SubSeq(buf, val_beg + 1, val_end)))

(* The loop of set_message from position key_beg: find ": ", take the key *)
(* before it, take the value up to the next "\r\n", and go on after it;    *)
(* stop at the end or when no ": " is left.  When a ": " has no "\r\n"     *)
(* after it, val_end is npos and the string_view of npos - val_beg bytes   *)
(* runs past the buffer: emplace then throws std::length_error (or reads   *)
(* out of bounds, the access being undefined); fault records that.        *)
RECURSIVE ParseFields(_, _, _, _)
ParseFields(buf, key_beg, keys, vals) ==
    LET key_end == Find(buf, SEP, key_beg)
    IN  IF key_beg >= Len(buf) \/ key_end = NPOS
        THEN [ordered |-> keys, values |-> vals, fault |-> FALSE]
        ELSE LET key     == SubSeq(buf, key_beg + 1, key_end)
                 val_beg == key_end + 2
                 val_end == Find(buf, EOR, val_beg)
             IN  IF val_end = NPOS
                 THEN [ordered |-> Append(keys, key), values |-> vals, fault |-> TRUE]
                 ELSE ParseFields(buf, val_end + 2, Append(keys, key),
                          Emplace(vals, key, SubSeq(buf, val_beg + 1, val_end)))

(* set_message: clear the record and parse the buffer from the start.      *)
SetMessage(buf) == ParseFields(buf, 0, <<>>, <<>>)

(* to_string: "key: value\r\n" for every key in order, a key without a     *)
(* value written with an empty one, then the empty line.                   *)
DictToString(keys, vals) ==
    FlattenSeq([i \in DOMAIN keys |-> keys[i] \o SEP \o GetValue(vals, keys[i]) \o EOR])
        \o EOR

(* Mutation: the ActionID line is not ended by "\r\n".                      *)
ActionToStringNoEOR(name, id, keys, vals) ==
    <<"Action">> \o SEP \o name \o EOR \o <<"ActionID">> \o SEP \o id
        \o DictToString(keys, vals)

(* Action::to_string: the Action and ActionID lines, then the record.      *)
ActionToString(name, id, keys, vals) ==
    <<"Action">> \o SEP \o name \o EOR \o <<"ActionID">> \o SEP \o id \o EOR
        \o DictToString(keys, vals)

-----------------------------------------------------------------------------
(* An action is constructed: Action(name, ordered_keys) leaves values_     *)
(* empty, then the class's constructor sets its constant fields and those  *)
(* given as arguments; or a record is constructed from a message of the    *)
(* server (KeyValDict(std::string) calls set_message), which throws when   *)
(* the parse faults.                                                       *)
Init ==
    \/ \E cl \in Classes : \E args \in [cl.params -> Values] :
          /\ ordered = cl.keys
          /\ values = cl.preset @@ args
          /\ action = cl.action
          /\ input = <<>>
          /\ error = "none"
    \/ \E fs \in Inputs :
          LET r == SetMessage(Wire(fs))
          IN  /\ ordered = r.ordered
              /\ values = r.values
              /\ action = <<>>
              /\ input = fs
              /\ error = IF r.fault THEN "length_error" ELSE "none"

(* set_value (and operator[] followed by an assignment, which does the     *)
(* same): a key the schema does not declare throws std::runtime_error and  *)
(* leaves the object alone.  Only actions are written to: the records the  *)
(* library hands out are const.                                            *)
SetValue(k, v) ==
    /\ action # <<>>
    /\ \/ /\ HasKey(ordered, k)
          /\ values' = [x \in DOMAIN values \cup {k} |-> IF x = k THEN v ELSE values[x]]
          /\ error' = "none"
       \/ /\ ~HasKey(ordered, k)
          /\ error' = "unknown_key"
          /\ UNCHANGED values
    /\ UNCHANGED <<ordered, action, input>>

(* The non-const operator[]: a key the schema does not declare throws      *)
(* std::runtime_error; values_[key] otherwise inserts the empty string for *)
(* a key without a value, so get_value no longer returns std::nullopt for  *)
(* it.  Assigning through the reference it returns does what set_value     *)
(* does.                                                                   *)
Subscript(k) ==
    /\ action # <<>>
    /\ \/ /\ HasKey(ordered, k)
          /\ values' = Emplace(values, k, <<>>)
          /\ error' = "none"
       \/ /\ ~HasKey(ordered, k)
          /\ error' = "unknown_key"
          /\ UNCHANGED values
    /\ UNCHANGED <<ordered, action, input>>

Parsed == action = <<>>

SchemaKeys == UNION {{cl.keys[i] : i \in DOMAIN cl.keys} : cl \in Classes}

(* A record parsed from the wire is only read from then on.               *)
Finished == Parsed /\ UNCHANGED vars

Next ==
    \/ \E k \in SchemaKeys \cup {BadKey}, v \in Values : SetValue(k, v)
    \/ \E k \in SchemaKeys \cup {BadKey} : Subscript(k)
    \/ Finished

Spec == Init /\ [][Next]_vars

-----------------------------------------------------------------------------
Symbol == STRING

TypeOK ==
    /\ ordered \in Seq(Seq(Symbol))
    /\ \A k \in DOMAIN values : values[k] \in Seq(Symbol \ {CR, LF})
    /\ error \in {"none", "unknown_key", "length_error"}

(* The keys of a field list, in order, and the value its last field with  *)
(* key k gives.                                                            *)
FieldKeys(fs) == [i \in DOMAIN fs |-> fs[i][1]]
LastValue(fs, k) ==
    fs[CHOOSE i \in DOMAIN fs : fs[i][1] = k /\ \A j \in DOMAIN fs : fs[j][1] = k => j <= i][2]
Occurrences(fs, k) == Cardinality({i \in DOMAIN fs : fs[i][1] = k})

(* Parsing (set_message): a record read from a well-formed message lists  *)
(* every key of the message in order, and a key the message gives once    *)
(* has the value the message gives it (what dispatch_event reads through   *)
(* get_value for ActionID, Response and EventList).                        *)
ParseMatchesFields ==
    Parsed /\ error = "none" =>
        /\ ordered = FieldKeys(input)
        /\ \A k \in Range(FieldKeys(input)) :
              Occurrences(input, k) = 1 => GetValue(values, k) = LastValue(input, k)

(* Round trip (the spec's testable property 2): to_string of the object    *)
(* parses back to the same keys and re-serialises to the same bytes; and   *)
(* the wire form of an action, Action::to_string, parses to the Action and *)
(* ActionID fields followed by the record, so the ActionID the dispatcher  *)
(* correlates on is the action's own.                                      *)
WireRoundTrip ==
    /\ LET w == DictToString(ordered, values)
           p == SetMessage(w)
       IN  ~p.fault /\ p.ordered = ordered /\ DictToString(p.ordered, p.values) = w
    /\ ~Parsed =>
          LET p == SetMessage(ActionToString(action, <<Id>>, ordered, values))
          IN  /\ p.ordered = <<<<"Action">>, <<"ActionID">>>> \o ordered
              /\ GetValue(p.values, <<"ActionID">>) = <<Id>>
              /\ GetValue(p.values, <<"Action">>) = action

=============================================================================
