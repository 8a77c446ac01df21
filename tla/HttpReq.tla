------------------------------ MODULE HttpReq -------------------------------
(***************************************************************************)
(* What the server makes of a request's header lines: dispatch_hdr() looks  *)
(* each name up in the table of http_req() by a binary search, and          *)
(* handle_get() compares the tag of If-None-Match with that of the file.    *)
(* This is done whenever the parsers of HttpParse have a request complete.  *)
(*                                                                         *)
(* A text is [len, low]: its length and a number for its letters, the same  *)
(* for both cases and in the order tolower() gives.  tag has the hex digits *)
(* of a text that is an ETag, num its value if it starts with a number.     *)
(***************************************************************************)
EXTENDS HttpParse, SequencesExt

CONSTANTS
    HeaderLines,   \* header lines a client may send: [name, value]
    Digests,       \* digests of files, as sequences of nibbles
    EtagLen        \* 40: ETAG_SZ * 2

ASSUME DigestAssumption ==
    /\ EtagLen \in Nat \ {0}
    /\ \A d \in Digests : d \in Seq(0..15) /\ Len(d) = EtagLen
ASSUME LineAssumption ==
    \A l \in HeaderLines :
        /\ {l.name.len, l.name.low} \subseteq Nat
        /\ l.value.tag # <<>> => l.value.len = Len(l.value.tag)

VARIABLES lines,   \* history: the header lines of the last request
          req      \* the struct http_request of handle_request()

reqVars == <<lines, req>>

-----------------------------------------------------------------------------
(* vec.c *)

\* vcasecmp_fast() and vstrcmp_fast(): the shorter one is less.
VcasecmpFast(a, b) == IF a.len # b.len THEN a.len - b.len ELSE a.low - b.low

-----------------------------------------------------------------------------
(* The table of header lines. *)

Name(len, low) == [len |-> len, low |-> low]
Connection == Name(10, 3)
ContentType == Name(12, 5)
ContentLength == Name(14, 4)
Host == Name(4, 7)
IfNoneMatch == Name(13, 8)

\* Mutant: the entry for Content-Type is compiled in.
HcbWithType == <<Connection, ContentType, ContentLength, Host, IfNoneMatch>>

\* hcb[3] and on
Hcb == <<Connection, ContentLength, Host, IfNoneMatch>>

\* One turn of the binary search of dispatch_hdr() for k: d entries are behind
\* it, n are left, and at is the entry it found.
Probe(k, s) ==
    LET i == s.n \div 2
        ret == VcasecmpFast(k, Hcb[s.d + i + 1])
    IN  IF s.n = 0 \/ s.at # 0 THEN s
        ELSE IF ret < 0 THEN [s EXCEPT !.n = i]
        ELSE IF ret > 0 THEN [s EXCEPT !.d = @ + i + 1, !.n = @ - (i + 1)]
        ELSE [s EXCEPT !.at = s.d + i + 1]

\* The place in the table where it finds k, or 0.
Lookup(k) ==
    LET search[t \in 0..Len(Hcb)] ==
            IF t = 0 THEN [d |-> 0, n |-> Len(Hcb), at |-> 0]
            ELSE Probe(k, search[t - 1])
    IN  search[Len(Hcb)].at

NoText == [len |-> 0, low |-> 0, tag |-> <<>>, num |-> -1]
CloseToken == Name(5, 2)

NoRequest == [connection |-> NoText, clen |-> -1, host |-> NoText, etag |-> NoText]

\* dispatch_hdr(), with htype_string() and htype_int()
DispatchHdr(r, line) ==
    LET at == Lookup(line.name) IN
    IF at = 0 THEN r
    ELSE CASE Hcb[at] = Connection -> [r EXCEPT !.connection = line.value]
           [] Hcb[at] = ContentLength -> [r EXCEPT !.clen = line.value.num]
           [] Hcb[at] = Host -> [r EXCEPT !.host = line.value]
           [] Hcb[at] = IfNoneMatch -> [r EXCEPT !.etag = line.value]
           [] OTHER -> r

\* http_req(): what matters to handle_request()
HttpRequest(ls) ==
    LET after[i \in 0..Len(ls)] ==
            IF i = 0 THEN NoRequest ELSE DispatchHdr(after[i - 1], ls[i])
        r == after[Len(ls)]
    IN  [host |-> r.host, etag |-> r.etag,
         content_len |-> IF r.clen > 0 THEN r.clen ELSE 0,
         conn_close |-> VcasecmpFast(r.connection, CloseToken) = 0]

-----------------------------------------------------------------------------
(* Validators. *)

\* print_etag(): a nibble as the place of its first occurrence in hex[], which
\* has two zeroes, at 0 and at 10.
PrintEtag(d) == [i \in DOMAIN d |-> IF d[i] = 10 THEN 0 ELSE d[i]]

\* Mutant: only what the client sent is compared.
NotModifiedPrefix(r, d) ==
    \A i \in DOMAIN r.etag.tag : r.etag.tag[i] = PrintEtag(d)[i]

\* handle_get(): the answer is 304.
NotModified(r, d) == r.etag.len = EtagLen /\ r.etag.tag = PrintEtag(d)

-----------------------------------------------------------------------------

ReqInit == Init /\ lines = <<>> /\ req = HttpRequest(<<>>)

\* handle_request() of a complete request, whose lines may say anything.
Request ==
    /\ NextRequest
    /\ \E ls \in [1..Len(Decode(buf).hdrs) -> HeaderLines] :
          lines' = ls /\ req' = HttpRequest(ls)

\* The next batch arrives; the last request is forgotten.
Batch(p) == Receive(p) /\ lines' = <<>> /\ req' = HttpRequest(<<>>)

ReqNext == Request \/ \E p \in Pieces : Batch(p)

ReqSpec == ReqInit /\ [][ReqNext]_<<pvars, reqVars>>

-----------------------------------------------------------------------------
(* Properties. *)

LastOf(name) ==
    LET i == SelectLastInSeq(lines, LAMBDA l : VcasecmpFast(l.name, name) = 0)
    IN  IF i = 0 THEN NoText ELSE lines[i].value

\* The headers that choose what is served are found: though the table is in
\* the order of the alphabet and the search goes by length first, the host and
\* the validator are those of the last line of that name, in any case and
\* among any other lines, and no line is taken for another.
FieldsExact ==
    /\ req.host = LastOf(Host) /\ req.etag = LastOf(IfNoneMatch)
    /\ req.conn_close => LastOf(Connection).low = CloseToken.low
    /\ req.content_len # 0 => LastOf(ContentLength).num = req.content_len

\* "the reliable use of strong cache validators (ETags)" (README.md): whatever
\* digest the file has by now, a client that names the tag it was given with
\* those contents is told 304, and a client that is told 304 has a copy of
\* that digest, but for nibbles 0 and 10, which hex[] prints alike.
Revalidated ==
    \A digest \in Digests :
        LET copies == {d \in Digests : PrintEtag(d) = LastOf(IfNoneMatch).tag} IN
        /\ digest \in copies => NotModified(req, digest)
        /\ NotModified(req, digest) =>
              /\ copies # {}
              /\ \A d \in copies, i \in 1..EtagLen :
                    d[i] = digest[i] \/ {d[i], digest[i]} = {0, 10}

=============================================================================
