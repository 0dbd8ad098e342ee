\* Framing of the greeting and three messages, recv returning 1 to 6 bytes,
\* the greeting line may be split across recv calls.
CONSTANTS
    Greeting <- MC_Greeting
    Messages <- MC_Messages
    NumMessages = 3
    MaxChunk = 6
    GreetingInFirstChunk = FALSE

SPECIFICATION Spec


INVARIANT FramingCorrect
