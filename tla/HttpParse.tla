------------------------------ MODULE HttpParse -----------------------------
(***************************************************************************)
(* The two parsers a request goes through.  http_parse_incremental() looks  *)
(* at each batch of bytes as it arrives, in order to tell when the headers  *)
(* are complete; http_decode_buf() then parses the whole buffer, and says   *)
(* how much of it was the request.  What is left is taken to be the next    *)
(* request, so the two have to agree.                                       *)
(***************************************************************************)
EXTENDS Integers, Sequences, FiniteSets

CONSTANTS Pieces,   \* the batches of bytes a peer may send
          MaxLen    \* bound: the bytes received

Bytes == {"X", "SP", "COLON", "CR", "LF"}

ASSUME PieceAssumption ==
    /\ MaxLen \in Nat
    /\ \A p \in Pieces : p \in Seq(Bytes) /\ p # <<>>

VARIABLES buf,      \* the request buffer
          rstate,   \* h_rstate
          rptr      \* h_rptr: the number of bytes before it

pvars == <<buf, rstate, rptr>>

-----------------------------------------------------------------------------
(* http_parse_incremental() *)

Terminal(st) == st \in {"LFLF", "CRLFLF", "LFCRLF", "CRLFCRLF"}

\* Mutant: what came before a carriage return is forgotten.
CrMapForgets(st) == "CR"

CrMap(st) == CASE st = "LF" -> "LFCR"
               [] st = "CRLF" -> "CRLFCR"
               [] OTHER -> "CR"

LfMap(st) == CASE st = "INITIAL" -> "LF"
               [] st = "CR" -> "CRLF"
               [] st = "LF" -> "LFLF"
               [] st = "CRLF" -> "CRLFLF"
               [] st = "LFCR" -> "LFCRLF"
               [] st = "CRLFCR" -> "CRLFCRLF"

IncStep(st, b) == CASE b = "CR" -> CrMap(st)
                    [] b = "LF" -> LfMap(st)
                    [] OTHER -> "INITIAL"

\* From state st at byte p of q on.  The loop is left on a terminal state
\* before *rptr is incremented.
Incremental(st, p, q) ==
    LET scan[j \in p..Len(q)] ==
            IF j = p THEN [state |-> st, rptr |-> p]
            ELSE LET last == scan[j - 1]
                     new == IncStep(last.state, q[j])
                 IN  IF Terminal(last.state) THEN last
                     ELSE [state |-> new,
                           rptr |-> IF Terminal(new) THEN j - 1 ELSE j]
    IN  scan[Len(q)]

-----------------------------------------------------------------------------
(* http_decode_buf() *)

\* Mutant: the newline is counted off as well.
TrimmedTwice(q, start, j) ==
    LET n == j - start IN IF n > 0 /\ q[j - 1] = "CR" THEN n - 2 ELSE n

\* The length of what begins at start and ends before the newline at j,
\* less a carriage return.
Trimmed(q, start, j) ==
    LET n == j - start IN IF n > 0 /\ q[j - 1] = "CR" THEN n - 1 ELSE n

\* st is the computed goto's target (5: out of the loop), i the word of the request line, hv the
\* lengths of the three words; mark is where the word, the key or the value
\* began; hdrs collects what dispatch_hdr() is called with.
DecodeInit == [st |-> 0, i |-> 1, hv |-> <<0, 0, 0>>, mark |-> 0, klen |-> 0,
               ret |-> 0, hdrs |-> <<>>]

DecodeStep(d, q, j) ==
    LET b == q[j] IN
    CASE d.st = 0 /\ b # "SP" ->
            [d EXCEPT !.st = 1, !.mark = j, !.hv[d.i] = 0]
      [] d.st = 1 /\ b = "SP" /\ d.i < 3 ->
            [d EXCEPT !.st = 0, !.hv[d.i] = j - d.mark, !.i = @ + 1]
      [] d.st = 1 /\ b = "LF" ->
            [d EXCEPT !.st = 2, !.hv[d.i] = Trimmed(q, d.mark, j),
                      !.mark = j + 1, !.ret = j]
      [] d.st = 2 /\ b = "COLON" ->
            [d EXCEPT !.st = 3, !.klen = j - d.mark]
      [] d.st = 2 /\ b = "LF" ->
            [d EXCEPT !.st = 5, !.ret = j]
      [] d.st = 3 /\ b # "SP" ->
            [d EXCEPT !.st = 4, !.mark = j]
      [] d.st = 4 /\ b = "LF" ->
            [d EXCEPT !.st = 2, !.mark = j + 1,
                      !.hdrs = Append(@, <<d.klen, Trimmed(q, d.mark, j)>>)]
      [] OTHER -> d

\* Mutant: the newline of the empty line is left for the next request.
DecodeShort(q) ==
    LET run[j \in 0..Len(q)] ==
            IF j = 0 THEN DecodeInit ELSE DecodeStep(run[j - 1], q, j)
        d == run[Len(q)]
    IN  [hlen |-> IF d.hv[1] = 0 \/ d.hv[2] = 0 THEN 0 ELSE d.ret - 1,
         hdrs |-> d.hdrs]

Decode(q) ==
    LET run[j \in 0..Len(q)] ==
            IF j = 0 THEN DecodeInit ELSE DecodeStep(run[j - 1], q, j)
        d == run[Len(q)]
    IN  [hlen |-> IF d.hv[1] = 0 \/ d.hv[2] = 0 THEN 0 ELSE d.ret,
         hdrs |-> d.hdrs]

-----------------------------------------------------------------------------
(* http_read(), as far as the request buffer is concerned. *)

Init == buf = <<>> /\ rstate = "INITIAL" /\ rptr = 0

Receive(p) ==
    /\ ~Terminal(rstate) /\ Len(buf) + Len(p) <= MaxLen
    /\ buf' = buf \o p
    /\ LET r == Incremental(rstate, rptr, buf')
       IN  rstate' = r.state /\ rptr' = r.rptr

\* handle_request() took n bytes of a complete request off the buffer, and
\* starts over on what is left.
NextRequest ==
    /\ Terminal(rstate)
    /\ LET n == Decode(buf).hlen
       IN  n > 0 /\ buf' = SubSeq(buf, n + 1, Len(buf))
    /\ rstate' = "INITIAL" /\ rptr' = 0

Next == NextRequest \/ \E p \in Pieces : Receive(p)

Spec == Init /\ [][Next]_pvars

-----------------------------------------------------------------------------
(* Reference definitions and properties. *)

\* Byte e of q ends an empty line.
EndsEmptyLine(q, e) ==
    /\ q[e] = "LF"
    /\ \/ e > 1 /\ q[e - 1] = "LF"
       \/ e > 2 /\ q[e - 1] = "CR" /\ q[e - 2] = "LF"

\* The ends of empty lines among the first n bytes.
Ends(q, n) == {e \in 1..n : EndsEmptyLine(q, e)}
First(S) == CHOOSE e \in S : \A f \in S : e <= f

Newlines(q, n) == {j \in 1..n : q[j] = "LF"}

\* The request line has two words and does not end in a space, and every header
\* line up to the end e of the empty line has a colon and then something other
\* than spaces: a line feed where http_decode_buf() looks for the third word
\* or for a value is taken for its first byte, and the next line for the rest.
WellFormed(q, e) ==
    LET f == First(Newlines(q, e)) IN
    /\ q[1] # "SP"
    /\ \E i \in 2..(f - 2) :
          q[i] = "SP" /\ \E j \in (i + 1)..(f - 1) : q[j] \notin {"SP", "CR"}
    /\ q[f - 1] # "SP"
    /\ \A n \in Newlines(q, e) : \A m \in Newlines(q, e) :
          (n < m /\ ~EndsEmptyLine(q, m)
             /\ ~\E k \in Newlines(q, e) : n < k /\ k < m)
          => \E i \in (n + 1)..(m - 1) :
                q[i] = "COLON" /\ \E j \in (i + 1)..(m - 1) : q[j] # "SP"

\* However the bytes were split into batches, http_parse_incremental() stops
\* at the first empty line, and not before it: rptr is left on its newline.
IncrementalExact ==
    rptr > 0 \/ Terminal(rstate) =>
        IF Ends(buf, Len(buf)) = {}
        THEN ~Terminal(rstate) /\ rptr = Len(buf)
        ELSE Terminal(rstate) /\ rptr + 1 = First(Ends(buf, Len(buf)))

\* The parsers agree: of a well-formed request http_decode_buf() takes what
\* http_parse_incremental() had found to be complete, to the byte, and finds
\* every header line in it; so the next request begins where this one ends.
ParsersAgree ==
    Terminal(rstate) /\ WellFormed(buf, rptr + 1) =>
        /\ Decode(buf).hlen = rptr + 1
        /\ Len(Decode(buf).hdrs) + 2 = Cardinality(Newlines(buf, rptr + 1))

\* On no input does http_decode_buf() claim more than it was given, or hand
\* on a key or a value of negative length.
DecodeBounded ==
    LET d == Decode(buf) IN
    /\ d.hlen \in 0..Len(buf)
    /\ \A i \in 1..Len(d.hdrs) : d.hdrs[i][1] >= 0 /\ d.hdrs[i][2] >= 0

=============================================================================
