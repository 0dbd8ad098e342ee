\* Framing of the greeting and three messages, recv returning 1 to 6 bytes,
\* the first recv holding the whole greeting line.
CONSTANTS
    Greeting <- MC_Greeting
    Messages <- MC_Messages
    NumMessages = 3
    MaxChunk = 6
    GreetingInFirstChunk = TRUE

SPECIFICATION Spec

INVARIANT NothingWithheld
INVARIANT FramingCorrect
