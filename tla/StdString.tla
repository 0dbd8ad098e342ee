------------------------------ MODULE StdString ------------------------------
(***************************************************************************)
(* The std::string operations the AMI framing and parsing code relies on,  *)
(* over strings as sequences of symbols, and the protocol's separators     *)
(* (CppAmiDefs.h).  Positions are 0-based as in std::string; NPOS is       *)
(* std::string::npos.                                                      *)
(***************************************************************************)
EXTENDS Integers, Sequences, SequencesExt

CR == "CR"
LF == "LF"

EOR == <<CR, LF>>
EOM == <<CR, LF, CR, LF>>
SEP == <<":", " ">>

NPOS == -1

(* std::string::find(pat, pos): the least index i >= pos at which pat      *)
(* occurs in s, or npos.                                                   *)
Find(s, pat, pos) ==
    LET hits == {i \in pos..(Len(s) - Len(pat)) :
                    SubSeq(s, i + 1, i + Len(pat)) = pat}
    IN  IF hits = {} THEN NPOS ELSE Min(hits)

(* size_t addition of a small k: npos + k wraps around to k - 1.           *)
SizeAdd(x, k) == IF x = NPOS THEN k - 1 ELSE x + k

(* s.substr(0, n) and s.erase(0, n) (n clamped to the length).             *)
Prefix(s, n) == IF n = NPOS \/ n >= Len(s) THEN s ELSE SubSeq(s, 1, n)
Drop(s, n)   == IF n >= Len(s) THEN <<>> ELSE SubSeq(s, n + 1, Len(s))

=============================================================================
