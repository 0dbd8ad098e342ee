\* Every action class with every sequence of set_value calls, and every
\* well-formed server message with distinct keys of up to three fields;
\* and every answer of up to three messages assembled into a reaction.
CONSTANTS
    Classes <- MC_Classes
    Values <- MC_Values
    BadKey = BadKey
    Inputs <- MC_UniqueInputs
    Wire <- MC_Wire
    Id = Id
    Replies <- MC_Replies

SPECIFICATION Spec

INVARIANT TypeOK
INVARIANT ParseMatchesFields
INVARIANT WireRoundTrip
INVARIANT ReactionRendersReply
