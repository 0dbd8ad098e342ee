---------------------------- MODULE MC_KeyValDict ----------------------------
(* KeyValDict over every action class, values that are empty, plain or    *)
(* contain ": ", and server messages of up to three fields over the keys   *)
(* the dispatcher reads.                                                   *)
EXTENDS Reaction

MC_Classes ==
    {Challenge, DeviceStateList, Events, ExtensionState, Getvar, ListCommands,
     LoginDefault, Login, MailboxCount, MailboxStatus, ParkedCalls, Ping,
     VoicemailBoxSummary, VoicemailRefresh}

MC_Values == {<<>>, <<"v">>, <<"v", ":", " ", "v">>}

MC_Keys == {<<"Response">>, <<"ActionID">>, <<"EventList">>}

(* The spec's wire grammar: "<key>: <value>\r\n" per field, then "\r\n".  *)
MC_Wire(fs) ==
    FlattenSeq([i \in DOMAIN fs |-> fs[i][1] \o <<":", " ">> \o fs[i][2] \o <<CR, LF>>])
        \o <<CR, LF>>

Field == MC_Keys \X MC_Values

(* Messages whose keys are pairwise distinct.                              *)
MC_UniqueInputs ==
    {fs \in BoundedSeq(Field, 3) :
        \A i, j \in DOMAIN fs : i # j => fs[i][1] # fs[j][1]}

(* Answers to one action: a single response, an EventList head that      *)
(* succeeds, fails or has no Response, then up to two messages, each a     *)
(* middle (with or without an EventList field) or a tail that ends the     *)
(* list with Complete or cancelled.                                        *)
F(k, v) == <<<<k>>, <<v>>>>

ReplyHeads ==
    {<<F("Response", "Success")>>,
     <<F("Response", "Success"), F("EventList", "start")>>,
     <<F("Response", "Error"), F("EventList", "start")>>,
     <<F("EventList", "start")>>}

ReplyRest ==
    {<<F("Event", "v")>>,
     <<F("Event", "v"), F("EventList", "start")>>,
     <<F("Event", "v"), F("EventList", "Complete")>>,
     <<F("EventList", "cancelled")>>}

MC_Replies == {<<h>> \o r : h \in ReplyHeads, r \in BoundedSeq(ReplyRest, 2)}

=============================================================================
