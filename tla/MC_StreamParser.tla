-------------------------- MODULE MC_StreamParser --------------------------
(* StreamParser on a greeting "X\r\n" followed by the messages, each of    *)
(* one or two fields whose value is X or a lone CR (a CR that is not part  *)
(* of "\r\n" is legal inside a value and makes false EOM prefixes).        *)
EXTENDS StreamParser

MC_Greeting == <<X, CR, LF>>

Field == {<<X, CR, LF>>, <<CR, CR, LF>>}

MC_Messages ==
    {f \o EOR : f \in Field} \cup {f \o g \o EOR : f, g \in Field}

=============================================================================
