------------------------------ MODULE MCRequest ------------------------------
(* Instances for TLC of what handles the bytes of a request: HttpReq, and      *)
(* with it HttpParse, and Normalize.                                           *)
EXTENDS HttpReq, Normalize

-----------------------------------------------------------------------------
(* The head of the request. *)

\* Whole lines, good and bad, ending in LF or CR LF; an empty value and a
\* request line with a space at its end, for which the decoder takes up the
\* line end; and an empty line that comes in one batch with the first line of
\* the next request.
Lines ==
    LET eol == {<<"LF">>, <<"CR", "LF">>}
        text == {<<"X", "SP", "X">>, <<"X", "SP", "X", "SP", "X">>, <<"X">>,
                 <<"X", "SP", "X", "SP">>,
                 <<"X", "COLON", "X">>, <<"X", "COLON", "SP", "X">>,
                 <<"COLON", "SP">>, <<>>}
    IN  {t \o e : t \in text, e \in eol} \cup {<<"LF", "X", "SP", "X", "LF">>}

\* Lines that come whole, and bytes that come one at a time, of those that
\* http_parse_incremental() tells apart.
Batches == Lines \cup {<<"X">>, <<"CR">>, <<"LF">>}

MCDigests == {<<0, 11>>, <<10, 11>>, <<0, 12>>}

Value(len, low, tag, num) == [len |-> len, low |-> low, tag |-> tag, num |-> num]
Tagged(d) == Value(Len(d), 0, PrintEtag(d), -1)

\* Headers of the table, others of the same length and shorter ones, and a tag
\* that is cut short.
MCHeaderLines ==
    {[name |-> n, value |-> Value(5, v, <<>>, 1)]
        : n \in {Connection, ContentLength, Host, Name(4, 6), Name(10, 9), Name(2, 1)}, v \in {2}}
    \cup {[name |-> Host, value |-> Value(5, 4, <<>>, -1)]}
    \cup {[name |-> IfNoneMatch, value |-> Tagged(d)] : d \in MCDigests}
    \cup {[name |-> IfNoneMatch, value |-> Value(1, 0, <<0>>, -1)]}

-----------------------------------------------------------------------------
(* Its URI. *)

Letter == <<97>>
\* a / . \ ? /.. %2e %2F %00 %, the overlong encoding of a dot, and the UTF-8 of
\* e with an acute accent, of the euro sign and a part of the latter
PathPieces == {Letter, <<Slash>>, <<Dot>>, <<Backslash>>, <<Question>>,
               <<Slash, Dot, Dot>>,
               <<Percent, 50, 101>>, <<Percent, 50, 70>>, <<Percent, 48, 48>>,
               <<Percent>>, <<192, 174>>, <<195, 169>>, <<226, 130, 172>>, <<130>>}

\* The mask may have all of its bits but the sign.
PlainStray == [b \in 128..191 |-> b - 128]

-----------------------------------------------------------------------------

\* The two side by side: what the parsers make of a request does not depend on
\* the bytes of its URI, nor the URI that is looked up on the other words.  So
\* a behaviour is about the one or the other.
RequestInit == ReqInit /\ UriInit

HeadNext == pieces = 0 /\ ReqNext /\ UNCHANGED <<uri, pieces>>
PathNext == buf = <<>> /\ lines = <<>> /\ UriNext /\ UNCHANGED <<pvars, reqVars>>

RequestSpec ==
    RequestInit /\ [][HeadNext \/ PathNext]_<<pvars, reqVars, uri, pieces>>
=============================================================================
