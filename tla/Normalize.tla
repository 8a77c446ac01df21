------------------------------ MODULE Normalize ------------------------------
(***************************************************************************)
(* What becomes of a request's URI before it is looked up: the query is     *)
(* split off, %XX decoded, UTF-8 encoded ASCII decoded and the path         *)
(* resolved, all in one buffer (normalize.c).  handle_get() looks up what   *)
(* is in the buffer afterwards, also when normalisation failed half way, so *)
(* every function returns its outcome and the string it leaves.             *)
(*                                                                         *)
(* A string is a sequence of bytes.  The state is a URI a client composes   *)
(* piece by piece.  The only flag nads_ws() knows is CASE_SENSITIVE.        *)
(***************************************************************************)
EXTENDS Integers, Sequences, SequencesExt

CONSTANTS
    UriPieces,  \* byte sequences URIs are composed of
    MaxPieces,  \* bound: how many of them
    Stray       \* what n_utf8() makes of a byte 10xxxxxx that starts a sequence

Byte == 1..255
ASSUME UriPieceAssumption == UriPieces \subseteq Seq(Byte) /\ MaxPieces \in Nat
ASSUME StrayAssumption == Stray \in [128..191 -> 0..255]

Percent == 37
Dot == 46
Slash == 47
Question == 63
Backslash == 92

VARIABLES uri,     \* what the client has composed
          pieces   \* of how many pieces

UriInit == uri = <<>> /\ pieces = 0
UriNext ==
    /\ pieces < MaxPieces /\ pieces' = pieces + 1
    /\ \E p \in UriPieces : uri' = uri \o p
UriSpec == UriInit /\ [][UriNext]_<<uri, pieces>>

-----------------------------------------------------------------------------

\* What a loop that writes out over the string it reads leaves when it stops
\* early.
HalfWritten(out, buf) == out \o SubSeq(buf, Len(out) + 1, Len(buf))

\* The bytes of s before the first b.
Before(s, b) ==
    LET i == SelectInSeq(s, LAMBDA x : x = b) IN IF i = 0 THEN s ELSE SubSeq(s, 1, i - 1)

\* A string in C ends with the first NUL.
CString(s) == Before(s, 0)

-----------------------------------------------------------------------------
(* n_split() *)

SplitUri(buf) == Before(buf, Question)
\* Empty if there is none: decoding it succeeds either way.
SplitQuery(buf) == SubSeq(buf, Len(SplitUri(buf)) + 2, Len(buf))

-----------------------------------------------------------------------------
(* n_hex() *)

\* Mutant: the letters in upper case count from 0.
HexCharUpper == [c \in (48..57) \cup (97..102) \cup (65..70) |->
               IF c <= 57 THEN c - 48 ELSE IF c >= 97 THEN c - 97 + 10 ELSE c - 65]

\* chartype() and hexchar()
HexChar == [c \in (48..57) \cup (97..102) \cup (65..70) |->
               IF c <= 57 THEN c - 48 ELSE IF c >= 97 THEN c - 97 + 10 ELSE c - 65 + 10]

\* One turn of the loop.
HexStep(s, c) ==
    CASE ~s.ok -> s
      [] s.ok /\ s.state = 0 ->
           IF c = Percent THEN [s EXCEPT !.state = 1, !.hbuf = <<>>]
           ELSE [s EXCEPT !.out = Append(@, c)]
      [] s.ok /\ s.state = 1 /\ c \notin DOMAIN HexChar -> [s EXCEPT !.ok = FALSE]
      [] OTHER ->
           IF s.hbuf = <<>> THEN [s EXCEPT !.hbuf = <<c>>]
           ELSE LET d1 == HexChar[s.hbuf[1]] * 16 + HexChar[c]
                IN  IF d1 = 0 THEN [s EXCEPT !.ok = FALSE]
                    ELSE [s EXCEPT !.state = 0, !.out = Append(@, d1)]

Hex == INSTANCE Loops WITH Turn <- HexStep

NHex(buf) ==
    LET s == Hex!After([ok |-> TRUE, state |-> 0, hbuf |-> <<>>, out |-> <<>>], buf)
    IN  IF s.ok /\ s.state = 0 THEN [ok |-> TRUE, str |-> s.out]
        ELSE [ok |-> FALSE, str |-> HalfWritten(s.out, buf)]

-----------------------------------------------------------------------------
(* n_utf8() *)

\* How long the sequence that starts with b says it is.  (For 254 and 255 it is
\* one more than chr has room for.)
Utf8Len(b) == CASE b >= 254 -> 7 [] b \in 252..253 -> 6 [] b \in 248..251 -> 5
                [] b \in 240..247 -> 4 [] b \in 224..239 -> 3
                [] b \in 192..223 -> 2 [] OTHER -> 1

\* n_ucs4(), in 32 bits
Ucs4Step(n, b) == (n % 2^26) * 64 + (b % 64)
Ucs4 == INSTANCE Loops WITH Turn <- Ucs4Step

NUcs4(chr) == Ucs4!After(chr[1] % (2^(7 - Len(chr))), Tail(chr))

\* What is written for a sequence.  For the length 1 n_ucs4() reads a mask that
\* is not in its table; it comes to one byte, and the one after it is dropped.
Utf8Char(chr) ==
    IF Utf8Len(chr[1]) = 1 THEN <<Stray[chr[1]]>>
    ELSE IF NUcs4(chr) > 255 THEN chr ELSE <<NUcs4(chr)>>

\* One turn of the loop.  As a char is signed, *in == 0xff never holds.
Utf8Step(s, b) ==
    IF s.chr = <<>>
    THEN IF b >= 128 THEN [s EXCEPT !.chr = <<b>>] ELSE [s EXCEPT !.out = Append(@, b)]
    ELSE LET chr == Append(s.chr, b)
         IN  IF Len(chr) < Utf8Len(chr[1]) THEN [s EXCEPT !.chr = chr]
             ELSE [chr |-> <<>>, out |-> s.out \o Utf8Char(chr)]

Utf8 == INSTANCE Loops WITH Turn <- Utf8Step

NUtf8(buf) ==
    LET s == Utf8!After([chr |-> <<>>, out |-> <<>>], buf)
    IN  [ok |-> s.chr = <<>>,
         str |-> CString(IF s.chr = <<>> THEN s.out ELSE HalfWritten(s.out, buf))]

-----------------------------------------------------------------------------
(* n_path() *)

\* Mutant: backslashes are left as they are.
PcountStepPlain(out, b) ==
    IF b = Slash /\ out # <<>> /\ Last(out) = Slash THEN out ELSE Append(out, b)

\* One turn of the loop in n_pcount().
PcountStep(out, b) ==
    LET c == IF b = Backslash THEN Slash ELSE b
    IN  IF c = Slash /\ out # <<>> /\ Last(out) = Slash THEN out ELSE Append(out, c)

\* What n_pcount() leaves: slashes for backslashes, and one for several.
Pcount == INSTANCE Loops WITH Turn <- PcountStep
NPcount(buf) == Pcount!After(<<>>, buf)

\* The components: each starts after a slash.
ComponentStep(c, b) ==
    IF b = Slash THEN Append(c, <<>>)
    ELSE IF c = <<>> THEN c
    ELSE [c EXCEPT ![Len(c)] = Append(@, b)]

Grab == INSTANCE Loops WITH Turn <- ComponentStep
Components(buf) == Grab!After(<<>>, buf)

\* Mutant: the check that .. stays within the web root is off by one.
StripDotsLate(s, c) ==
    CASE ~s.ok \/ c = <<Dot>> -> s
      [] s.ok /\ c = <<Dot, Dot>> ->
           IF Len(s.out) = 0 THEN s ELSE [s EXCEPT !.out = Front(@)]
      [] OTHER -> [s EXCEPT !.out = Append(@, c)]

\* One turn of the loop that strips /./ and /../
StripDots(s, c) ==
    CASE ~s.ok \/ c = <<Dot>> -> s
      [] s.ok /\ c = <<Dot, Dot>> ->
           IF Len(s.out) = 0 THEN [s EXCEPT !.ok = FALSE] ELSE [s EXCEPT !.out = Front(@)]
      [] OTHER -> [s EXCEPT !.out = Append(@, c)]

Strip == INSTANCE Loops WITH Turn <- StripDots
Stripped(c) == Strip!After([ok |-> TRUE, out |-> <<>>], c)

\* The reconstruction of the URI.
JoinStep(out, c) == out \o <<Slash>> \o c
Join == INSTANCE Loops WITH Turn <- JoinStep
Joined(c) == IF c = <<>> THEN <<Slash>> ELSE Join!After(<<>>, c)

\* When a path leads out of the web root, its first slash is a NUL by then.
NPath(buf) ==
    LET p == NPcount(buf)
        s == Stripped(Components(p))
    IN  [ok |-> s.ok, str |-> IF s.ok THEN Joined(s.out) ELSE Before(p, Slash)]

\* What n_path() leaves of the query: an empty path becomes a slash, and the NUL
\* after it goes over the query's first byte.
QueryLeft(buf) == IF SplitUri(buf) = <<>> THEN <<>> ELSE SplitQuery(buf)

-----------------------------------------------------------------------------

\* nads_normalize(): n->uri is what each function leaves to the next.
NadsNormalize(buf) ==
    LET h == NHex(SplitUri(buf))
        u == NUtf8(h.str)
        p == NPath(u.str)
    IN  IF ~h.ok THEN [ok |-> FALSE, uri |-> h.str]
        ELSE IF ~u.ok THEN [ok |-> FALSE, uri |-> u.str]
        ELSE [ok |-> p.ok /\ NHex(QueryLeft(buf)).ok, uri |-> p.str]

-----------------------------------------------------------------------------
(* Properties. *)

IsDots(c) == c \in {<<Dot>>, <<Dot, Dot>>}

IsNormal(str) ==
    LET c == Components(str)
    IN  /\ str # <<>> /\ str[1] = Slash
        /\ ~Contains(str, Backslash)
        /\ \A i \in DOMAIN c : ~IsDots(c[i]) /\ (c[i] = <<>> => i = Len(c))

\* However the client wrote a path (with escapes, overlong UTF-8, backslashes
\* or several slashes), a URI that was normalised starts with a slash and has
\* neither an empty component before the last nor one that is . or .. : it is
\* of the form of the URIs that mkroot puts in a web root.
NormalForm == LET n == NadsNormalize(uri) IN n.ok => IsNormal(n.uri)

\* How many directories down from the top the first k components c lead.
Depth(c, k) ==
    Cardinality({i \in 1..k : ~IsDots(c[i])}) - Cardinality({i \in 1..k : c[i] = <<Dot, Dot>>})

\* The names that none of the first k components takes back.
Kept(c, k) ==
    {i \in 1..k : ~IsDots(c[i]) /\ \A j \in (i + 1)..k : Depth(c, j) >= Depth(c, i)}

\* n_path() resolves a path as walking it from the top directory would: it
\* fails just when some step leads above the top, and keeps just the names
\* that no later .. takes back, each at the depth at which it was met.
ResolvesPath(path) ==
    LET c == Components(NPcount(path))
        n == Len(c)
        within == \A k \in 1..n : Depth(c, k) >= 0
    IN  /\ NPath(path).ok = within
        /\ within => NPath(path).str =
              Joined([d \in 1..Depth(c, n) |-> c[CHOOSE i \in Kept(c, n) : Depth(c, i) = d]])

\* It does so whatever decoding left of the client's URI.
Resolved == ResolvesPath(NUtf8(NHex(SplitUri(uri)).str).str)

\* A byte as a client escapes it.
Escape(b) ==
    LET Digit(d) == IF d < 10 THEN 48 + d ELSE 65 + d - 10
    IN  <<Percent, Digit(b \div 16), Digit(b % 16)>>

EscapeStep(out, b) == out \o Escape(b)
Esc == INSTANCE Loops WITH Turn <- EscapeStep
Escaped(str) == Esc!After(<<>>, str)

\* The characters of str beyond ASCII are whole UTF-8 sequences, and n_utf8()
\* has no single byte for them: their codes are from 256 up.
Sequence(str, i) == SubSeq(str, i, i + Utf8Len(str[i]) - 1)
IsUtf8(str) ==
    \A i \in DOMAIN str :
        /\ str[i] \in 192..255 =>
              /\ i + Utf8Len(str[i]) - 1 <= Len(str)
              /\ \A j \in (i + 1)..(i + Utf8Len(str[i]) - 1) : str[j] \in 128..191
              /\ NUcs4(Sequence(str, i)) > 255
        /\ str[i] \in 128..191 =>
              \E j \in 1..(i - 1) : str[j] \in 192..255 /\ i < j + Utf8Len(str[j])

\* Every object of a web root can be asked for: whatever characters its URI
\* has, question marks, percent signs and escapes among them, the URI with
\* every byte escaped is normalised to the URI itself.  The exceptions are
\* names with a backslash and with characters that n_utf8() decodes.  It is about
\* normalisation alone: escaping makes a URI three times as long, and a request
\* has to fit into the 2048 bytes of its buffer.
RoundTrip ==
    IsNormal(uri) /\ IsUtf8(uri) =>
        NadsNormalize(Escaped(uri)) = [ok |-> TRUE, uri |-> uri]

=============================================================================
