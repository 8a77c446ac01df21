-------------------------- MODULE HttpParseProofs ---------------------------
(***************************************************************************)
(* The parser and what is made of a request, whatever the bytes, batches    *)
(* and header lines.                                                        *)
(*                                                                         *)
(* Both parsers are loops, written as functions defined by recursion.  Such *)
(* a definition is a choice among solutions, so each loop is first shown to *)
(* have one (ScanExists, RunExists, LinesRead); an invariant of the loop    *)
(* then gives what it computes.  Climb is the induction: a set that has 0   *)
(* and the successor of each of its members has all numbers up to a limit.  *)
(*                                                                         *)
(* The argument for the scanner: its state says which of the last bytes are *)
(* part of a line end, so the state kept between two reads loses nothing    *)
(* (Remembers).  The one for the decoder: on a well-formed request it is    *)
(* within the request line until the first line feed (InLine) and in the    *)
(* header lines from then on, having counted each line feed it has passed   *)
(* (InHeaders); it leaves them at the empty line and not before, which is   *)
(* where the scanner stopped.  The one for the fields: dispatch_hdr() finds *)
(* Host and If-None-Match in its table, so each field has the last line of  *)
(* its name (IsLastOf).                                                     *)
(***************************************************************************)
EXTENDS HttpReq, FiniteSetTheorems, SequenceTheorems, WellFoundedInduction, TLAPS

-----------------------------------------------------------------------------
(* Induction. *)

\* A set of natural numbers with a member has a least one.
LEMMA LeastMember ==
    ASSUME NEW T \in SUBSET Nat, T # {}
    PROVE  \E m \in T : \A n \in T : m <= n
<1> DEFINE R == OpToRel(<, Nat)
<1>1. IsWellFoundedOn(R, Nat)
  BY NatLessThanWellFounded
<1>2. \A m, n \in Nat : <<m, n>> \in R <=> m < n
  BY DEF OpToRel
<1> HIDE DEF R
<1>3. PICK m \in T : \A n \in T : ~(<<n, m>> \in R)
  BY <1>1, WFMin
<1>4. ASSUME NEW n \in T PROVE m <= n
  <2>1. m \in Nat /\ n \in Nat /\ ~(n < m)
    BY <1>2, <1>3
  <2> QED BY <2>1
<1> QED BY <1>4

\* What holds at a and is passed on from each number to the next holds up to b.
LEMMA Climb ==
    ASSUME NEW a \in Nat, NEW b \in Nat, NEW S, a \in S,
           \A n \in a..(b - 1) : n \in S => n + 1 \in S
    PROVE  \A n \in a..b : n \in S
<1> DEFINE T == {n \in a..b : n \notin S}
<1> SUFFICES ASSUME T # {} PROVE FALSE
  OBVIOUS
<1>1. T \in SUBSET Nat
  OBVIOUS
<1>2. PICK m \in T : \A n \in T : m <= n
  <2> HIDE DEF T
  <2> QED BY <1>1, LeastMember
<1>3. m \in a..b /\ m # a /\ m - 1 \in a..(b - 1) /\ ~(m <= m - 1)
  BY <1>2
<1>4. m - 1 \in T
  BY <1>2, <1>3
<1> QED BY <1>2, <1>3, <1>4

-----------------------------------------------------------------------------
(* The loop of http_parse_incremental(). *)

\* One turn of it.
ScanStep(last, q, j) ==
    LET new == IncStep(last.state, q[j])
    IN  IF Terminal(last.state) THEN last
        ELSE [state |-> new, rptr |-> IF Terminal(new) THEN j - 1 ELSE j]

Scans(f, st, p, q, n) ==
    f = [j \in p..n |-> IF j = p THEN [state |-> st, rptr |-> p]
                        ELSE ScanStep(f[j - 1], q, j)]

\* The recursive definition has a solution.
LEMMA ScanExists ==
    ASSUME NEW st, NEW q, NEW p \in Nat, NEW n \in Nat, p <= n
    PROVE  \E f : Scans(f, st, p, q, n)
<1> DEFINE S == {m \in Nat : \E f : Scans(f, st, p, q, m)}
<1>1. p \in S
  <2> DEFINE f == [j \in p..p |-> [state |-> st, rptr |-> p]]
  <2>1. \A j \in p..p : j = p
    OBVIOUS
  <2>2. Scans(f, st, p, q, p)
    BY <2>1 DEF Scans
  <2> QED BY <2>2
<1>2. ASSUME NEW m \in p..(n - 1), m \in S
      PROVE  m + 1 \in S
  <2>1. PICK f : Scans(f, st, p, q, m)
    BY <1>2
  <2> DEFINE g == [j \in p..(m + 1) |->
                     IF j = m + 1 THEN ScanStep(f[m], q, m + 1) ELSE f[j]]
  <2>2. ASSUME NEW j \in p..(m + 1)
        PROVE  g[j] = IF j = p THEN [state |-> st, rptr |-> p]
                      ELSE ScanStep(g[j - 1], q, j)
    <3>1. CASE j = m + 1
      <4>1. j # p /\ j - 1 = m /\ m \in p..(m + 1) /\ m # m + 1
        BY <3>1
      <4>2. g[j - 1] = f[m] /\ g[j] = ScanStep(f[m], q, m + 1)
        BY <3>1, <4>1
      <4> QED BY <3>1, <4>1, <4>2
    <3>2. CASE j # m + 1
      <4>1. j \in p..m /\ g[j] = f[j]
        BY <3>2
      <4>2. CASE j = p
        BY <2>1, <4>1, <4>2 DEF Scans
      <4>3. CASE j # p
        <5>1. j - 1 \in p..(m + 1) /\ j - 1 # m + 1
          BY <4>1, <4>3
        <5>2. g[j - 1] = f[j - 1]
          BY <5>1
        <5>3. f[j] = ScanStep(f[j - 1], q, j)
          BY <2>1, <4>1, <4>3 DEF Scans
        <5> QED BY <4>1, <4>3, <5>2, <5>3
      <4> QED BY <4>2, <4>3
    <3> QED BY <3>1, <3>2
  <2>3. g = [j \in p..(m + 1) |-> g[j]]
    OBVIOUS
  <2> HIDE DEF g
  <2>4. Scans(g, st, p, q, m + 1)
    BY <2>2, <2>3 DEF Scans
  <2> QED BY <1>2, <2>4
<1>3. \A m \in p..n : m \in S
  <2> HIDE DEF S
  <2> QED BY <1>1, <1>2, Climb
<1> QED BY <1>3

\* The loop as a sequence of turns.
LEMMA Scanned ==
    ASSUME NEW st, NEW q \in Seq(Bytes), NEW p \in 0..Len(q)
    PROVE  \E f : /\ Scans(f, st, p, q, Len(q))
                  /\ Incremental(st, p, q) = f[Len(q)]
<1> DEFINE f == CHOOSE f : Scans(f, st, p, q, Len(q))
<1>1. Len(q) \in Nat /\ p \in Nat /\ p <= Len(q)
  BY LenProperties
<1>2. Scans(f, st, p, q, Len(q))
  <2>1. \E g : Scans(g, st, p, q, Len(q))
    BY <1>1, ScanExists
  <2> QED BY <2>1, Zenon
<1>3. Incremental(st, p, q) = f[Len(q)]
  BY DEF Incremental, Scans, ScanStep
<1> QED BY <1>2, <1>3

NoEnds(q, n) == \A e \in 1..n : ~EndsEmptyLine(q, e)

\* What a state that is not terminal remembers of the first p bytes.  Whether
\* a carriage return came before a line feed does not matter.
Remembers(st, q, p) ==
    /\ st \in {"INITIAL", "CR", "LF", "CRLF", "LFCR", "CRLFCR"}
    /\ st \in {"LF", "CRLF"} <=> p > 0 /\ q[p] = "LF"
    /\ st \in {"LFCR", "CRLFCR"} <=> p > 1 /\ q[p] = "CR" /\ q[p - 1] = "LF"

\* Nothing has been found in the first p bytes.
Searching(st, p, q) == Remembers(st, q, p) /\ NoEnds(q, p)

\* The newline of the first empty line has been found at r + 1.
Found(st, r, q) ==
    /\ Terminal(st) /\ r \in Nat /\ r + 1 \in 1..Len(q)
    /\ EndsEmptyLine(q, r + 1) /\ NoEnds(q, r)

ScanInv(r, q, j) ==
    \/ Found(r.state, r.rptr, q)
    \/ r.rptr = j /\ Searching(r.state, j, q)

\* No state is both.
LEMMA TerminalStates ==
    ASSUME NEW st
    PROVE  \A q, p : Remembers(st, q, p) => ~Terminal(st)
BY DEF Remembers, Terminal

\* A byte is looked at.
LEMMA TurnKeeps ==
    ASSUME NEW q \in Seq(Bytes), NEW j \in 1..Len(q), NEW r,
           ScanInv(r, q, j - 1)
    PROVE  ScanInv(ScanStep(r, q, j), q, j)
<1> DEFINE new == IncStep(r.state, q[j])
<1>1. CASE Found(r.state, r.rptr, q)
  BY <1>1 DEF Found, ScanStep, ScanInv
<1>2. CASE r.rptr = j - 1 /\ Searching(r.state, j - 1, q)
  <2>1. Len(q) \in Nat /\ j \in Nat /\ j > 0
    BY LenProperties
  <2>2. Remembers(r.state, q, j - 1) /\ NoEnds(q, j - 1) /\ ~Terminal(r.state)
    BY <1>2, TerminalStates DEF Searching
  <2>3. ScanStep(r, q, j) =
           [state |-> new, rptr |-> IF Terminal(new) THEN j - 1 ELSE j]
    BY <2>2 DEF ScanStep
  <2>4. EndsEmptyLine(q, j) <=>
           q[j] = "LF" /\ r.state \in {"LF", "CRLF", "LFCR", "CRLFCR"}
    <3>1. /\ r.state \in {"LF", "CRLF"} <=> j - 1 > 0 /\ q[j - 1] = "LF"
          /\ r.state \in {"LFCR", "CRLFCR"} <=>
                j - 1 > 1 /\ q[j - 1] = "CR" /\ q[(j - 1) - 1] = "LF"
      BY <2>2 DEF Remembers
    <3>2. (j - 1) - 1 = j - 2 /\ (j - 1 > 0 <=> j > 1) /\ (j - 1 > 1 <=> j > 2)
      BY <2>1
    <3> QED BY <3>1, <3>2 DEF EndsEmptyLine
  <2>5. Terminal(new) <=> EndsEmptyLine(q, j)
    <3>1. r.state \in {"INITIAL", "CR", "LF", "CRLF", "LFCR", "CRLFCR"}
      BY <2>2 DEF Remembers
    <3>2. CASE q[j] = "LF"
      <4>1. new = LfMap(r.state)
        BY <3>2 DEF IncStep
      <4>2. Terminal(new) <=> r.state \in {"LF", "CRLF", "LFCR", "CRLFCR"}
        BY <3>1, <4>1 DEF LfMap, Terminal
      <4> QED BY <2>4, <3>2, <4>2
    <3>3. CASE q[j] # "LF"
      <4>1. new \in {"CR", "LFCR", "CRLFCR", "INITIAL"}
        BY <3>1, <3>3 DEF IncStep, CrMap
      <4> QED BY <2>4, <3>3, <4>1 DEF Terminal
    <3> QED BY <3>2, <3>3
  <2>6. CASE EndsEmptyLine(q, j)
    <3>1. (j - 1) + 1 = j /\ j - 1 \in Nat
      BY <2>1
    <3> HIDE DEF new
    <3>2. Found(new, j - 1, q)
      BY <2>2, <2>5, <2>6, <3>1 DEF Found
    <3> QED BY <2>3, <2>5, <2>6, <3>2 DEF ScanInv
  <2>7. CASE ~EndsEmptyLine(q, j)
    <3>1. NoEnds(q, j)
      <4>1. \A e \in 1..j : e = j \/ e \in 1..(j - 1)
        BY <2>1
      <4> QED BY <2>2, <2>7, <4>1 DEF NoEnds
    <3>2. Remembers(new, q, j)
      <4>1. r.state \in {"INITIAL", "CR", "LF", "CRLF", "LFCR", "CRLFCR"}
            /\ (r.state \in {"LF", "CRLF"} <=> j - 1 > 0 /\ q[j - 1] = "LF")
            /\ (j - 1 > 0 <=> j > 1)
        BY <2>1, <2>2 DEF Remembers
      <4>2. CASE q[j] = "LF"
        <5>1. r.state \in {"INITIAL", "CR"}
          BY <2>4, <2>7, <4>1, <4>2
        <5>2. new \in {"LF", "CRLF"}
          BY <4>2, <5>1 DEF IncStep, LfMap
        <5> HIDE DEF new
        <5> QED BY <2>1, <4>2, <5>2 DEF Remembers
      <4>3. CASE q[j] = "CR"
        <5>1. /\ new \in {"CR", "LFCR", "CRLFCR"}
              /\ new \in {"LFCR", "CRLFCR"} <=> r.state \in {"LF", "CRLF"}
          BY <4>1, <4>3 DEF IncStep, CrMap
        <5> HIDE DEF new
        <5> QED BY <2>1, <4>1, <4>3, <5>1 DEF Remembers
      <4>4. CASE q[j] \notin {"LF", "CR"}
        <5>1. new = "INITIAL"
          BY <4>4 DEF IncStep
        <5> HIDE DEF new
        <5> QED BY <2>1, <4>4, <5>1 DEF Remembers
      <4> QED BY <4>2, <4>3, <4>4
    <3> HIDE DEF new
    <3> QED BY <2>3, <2>5, <2>7, <3>1, <3>2 DEF ScanInv, Searching
  <2> QED BY <2>6, <2>7
<1> QED BY <1>1, <1>2 DEF ScanInv

\* http_parse_incremental() takes the search up at p, and finds the first empty
\* line or that there is none.
LEMMA IncrementalFinds ==
    ASSUME NEW q \in Seq(Bytes), NEW p \in 0..Len(q), NEW st,
           Searching(st, p, q), NEW r, r = Incremental(st, p, q)
    PROVE  ScanInv(r, q, Len(q))
<1>1. PICK f : Scans(f, st, p, q, Len(q)) /\ r = f[Len(q)]
  BY Scanned
<1>2. Len(q) \in Nat /\ p \in Nat /\ p <= Len(q)
  BY LenProperties
<1> DEFINE S == {j \in Nat : ScanInv(f[j], q, j)}
<1>3. p \in S
  <2>1. f[p] = [state |-> st, rptr |-> p]
    BY <1>1, <1>2 DEF Scans
  <2>2. ScanInv(f[p], q, p)
    BY <2>1 DEF ScanInv
  <2> QED BY <1>2, <2>2
<1>4. ASSUME NEW j \in p..(Len(q) - 1), j \in S
      PROVE  j + 1 \in S
  <2>1. j + 1 \in p..Len(q) /\ j + 1 # p /\ j + 1 \in 1..Len(q)
        /\ (j + 1) - 1 = j /\ j + 1 \in Nat
    BY <1>2
  <2>2. f[j + 1] = ScanStep(f[(j + 1) - 1], q, j + 1)
    BY <1>1, <2>1 DEF Scans
  <2>3. ScanInv(f[(j + 1) - 1], q, (j + 1) - 1)
    BY <1>4, <2>1
  <2>4. ScanInv(f[j + 1], q, j + 1)
    BY <2>1, <2>2, <2>3, TurnKeeps
  <2> QED BY <2>1, <2>4
<1>5. \A j \in p..Len(q) : j \in S
  <2> HIDE DEF S
  <2> QED BY <1>2, <1>3, <1>4, Climb
<1> QED BY <1>1, <1>2, <1>5

-----------------------------------------------------------------------------
(* The loop of http_decode_buf(). *)

Runs(f, q, n) ==
    f = [j \in 0..n |-> IF j = 0 THEN DecodeInit ELSE DecodeStep(f[j - 1], q, j)]

\* The recursive definition has a solution.
LEMMA RunExists ==
    ASSUME NEW q, NEW n \in Nat
    PROVE  \E f : Runs(f, q, n)
<1> DEFINE S == {m \in Nat : \E f : Runs(f, q, m)}
<1>1. 0 \in S
  <2> DEFINE f == [j \in 0..0 |-> DecodeInit]
  <2>1. \A j \in 0..0 : j = 0
    OBVIOUS
  <2>2. Runs(f, q, 0)
    BY <2>1 DEF Runs
  <2> QED BY <2>2
<1>2. ASSUME NEW m \in 0..(n - 1), m \in S
      PROVE  m + 1 \in S
  <2>1. PICK f : Runs(f, q, m)
    BY <1>2
  <2> DEFINE g == [j \in 0..(m + 1) |->
                     IF j = m + 1 THEN DecodeStep(f[m], q, m + 1) ELSE f[j]]
  <2>2. ASSUME NEW j \in 0..(m + 1)
        PROVE  g[j] = IF j = 0 THEN DecodeInit ELSE DecodeStep(g[j - 1], q, j)
    <3>1. CASE j = m + 1
      <4>1. j # 0 /\ j - 1 = m /\ m \in 0..(m + 1) /\ m # m + 1
        BY <3>1
      <4>2. g[j - 1] = f[m] /\ g[j] = DecodeStep(f[m], q, m + 1)
        BY <3>1, <4>1
      <4> QED BY <3>1, <4>1, <4>2
    <3>2. CASE j # m + 1
      <4>1. j \in 0..m /\ g[j] = f[j]
        BY <3>2
      <4>2. CASE j = 0
        BY <2>1, <4>1, <4>2 DEF Runs
      <4>3. CASE j # 0
        <5>1. j - 1 \in 0..(m + 1) /\ j - 1 # m + 1
          BY <4>1, <4>3
        <5>2. g[j - 1] = f[j - 1]
          BY <5>1
        <5>3. f[j] = DecodeStep(f[j - 1], q, j)
          BY <2>1, <4>1, <4>3 DEF Runs
        <5> QED BY <4>1, <4>3, <5>2, <5>3
      <4> QED BY <4>2, <4>3
    <3> QED BY <3>1, <3>2
  <2>3. g = [j \in 0..(m + 1) |-> g[j]]
    OBVIOUS
  <2> HIDE DEF g
  <2>4. Runs(g, q, m + 1)
    BY <2>2, <2>3 DEF Runs
  <2> QED BY <1>2, <2>4
<1>3. \A m \in 0..n : m \in S
  <2> HIDE DEF S
  <2> QED BY <1>1, <1>2, Climb
<1> QED BY <1>3

\* What http_decode_buf() makes of the state its loop ends in.
Result(d) == [hlen |-> IF d.hv[1] = 0 \/ d.hv[2] = 0 THEN 0 ELSE d.ret,
              hdrs |-> d.hdrs]

\* The loop as a sequence of turns.
LEMMA Decoded ==
    ASSUME NEW q \in Seq(Bytes)
    PROVE  \E f : Runs(f, q, Len(q)) /\ Decode(q) = Result(f[Len(q)])
<1> DEFINE f == CHOOSE f : Runs(f, q, Len(q))
<1>1. Len(q) \in Nat
  BY LenProperties
<1>2. Runs(f, q, Len(q))
  <2>1. \E g : Runs(g, q, Len(q))
    BY <1>1, RunExists
  <2> QED BY <2>1, Zenon
<1>3. Decode(q) = Result(f[Len(q)])
  BY DEF Decode, Runs, Result
<1> QED BY <1>2, <1>3

Lengths == [1..3 -> Nat]
Headers == Seq(Nat \X Nat)
DecodeStates ==
    [st : 0..5, i : 1..3, hv : Lengths, mark : Nat, klen : Nat, ret : Nat,
     hdrs : Headers]

State(st, i, hv, mark, klen, ret, hdrs) ==
    [st |-> st, i |-> i, hv |-> hv, mark |-> mark, klen |-> klen, ret |-> ret,
     hdrs |-> hdrs]

\* The pointers of the loop are into what it has seen.
Decoding(d, j) ==
    /\ d \in DecodeStates /\ d.ret \in 0..j
    /\ d.st \in {1, 4} => d.mark \in 1..j
    /\ d.st = 2 => d.mark \in 1..(j + 1)

\* The turns of the loop, one by one: from d to n at byte j.
Measured(d, len) == [d.hv EXCEPT ![d.i] = len]

TakesWord(d, n, j) ==
    n = State(1, d.i, Measured(d, 0), j, d.klen, d.ret, d.hdrs)
EndsWord(d, n, j) ==
    n = State(0, d.i + 1, Measured(d, j - d.mark), d.mark, d.klen, d.ret, d.hdrs)
EndsLine(d, n, q, j) ==
    n = State(2, d.i, Measured(d, Trimmed(q, d.mark, j)), j + 1, d.klen, j, d.hdrs)
EndsKey(d, n, j) ==
    n = State(3, d.i, d.hv, d.mark, j - d.mark, d.ret, d.hdrs)
EndsAll(d, n, j) ==
    n = State(5, d.i, d.hv, d.mark, d.klen, j, d.hdrs)
TakesValue(d, n, j) ==
    n = State(4, d.i, d.hv, j, d.klen, d.ret, d.hdrs)
EndsValue(d, n, q, j) ==
    n = State(2, d.i, d.hv, j + 1, d.klen, d.ret,
              Append(d.hdrs, <<d.klen, Trimmed(q, d.mark, j)>>))

Turn(d, n, q, j) ==
    LET b == q[j] IN
    /\ d.st = 0 => IF b # "SP" THEN TakesWord(d, n, j) ELSE n = d
    /\ d.st = 1 => IF b = "SP" /\ d.i < 3 THEN EndsWord(d, n, j)
                   ELSE IF b = "LF" THEN EndsLine(d, n, q, j) ELSE n = d
    /\ d.st = 2 => IF b = "COLON" THEN EndsKey(d, n, j)
                   ELSE IF b = "LF" THEN EndsAll(d, n, j) ELSE n = d
    /\ d.st = 3 => IF b # "SP" THEN TakesValue(d, n, j) ELSE n = d
    /\ d.st = 4 => IF b = "LF" THEN EndsValue(d, n, q, j) ELSE n = d
    /\ d.st = 5 => n = d

\* DecodeStep is one of them.
LEMMA Turns ==
    ASSUME NEW d \in DecodeStates, NEW q, NEW j
    PROVE  Turn(d, DecodeStep(d, q, j), q, j)
<1> DEFINE n == DecodeStep(d, q, j)
<1>1. d.st = 0 => IF q[j] # "SP" THEN TakesWord(d, n, j) ELSE n = d
  <2>1. CASE d.st = 0 /\ q[j] # "SP"
    <3>1. n = [d EXCEPT !.st = 1, !.mark = j, !.hv = Measured(d, 0)]
      BY <2>1 DEF DecodeStep, Measured
    <3> HIDE DEF n
    <3> QED BY <2>1, <3>1 DEF DecodeStates, State, TakesWord
  <2>2. CASE d.st = 0 /\ q[j] = "SP"
    BY <2>2 DEF DecodeStep
  <2> QED BY <2>1, <2>2
<1>2. d.st = 1 => IF q[j] = "SP" /\ d.i < 3 THEN EndsWord(d, n, j)
                  ELSE IF q[j] = "LF" THEN EndsLine(d, n, q, j) ELSE n = d
  <2>1. CASE d.st = 1 /\ q[j] = "SP" /\ d.i < 3
    <3>1. n = [d EXCEPT !.st = 0, !.hv = Measured(d, j - d.mark), !.i = d.i + 1]
      BY <2>1 DEF DecodeStep, Measured
    <3> HIDE DEF n
    <3> QED BY <2>1, <3>1 DEF DecodeStates, State, EndsWord
  <2>2. CASE d.st = 1 /\ q[j] = "LF"
    <3>1. n = [d EXCEPT !.st = 2, !.hv = Measured(d, Trimmed(q, d.mark, j)),
                        !.mark = j + 1, !.ret = j]
      BY <2>2 DEF DecodeStep, Measured
    <3> HIDE DEF n
    <3> QED BY <2>2, <3>1 DEF DecodeStates, State, EndsLine
  <2>3. CASE d.st = 1 /\ ~(q[j] = "SP" /\ d.i < 3) /\ q[j] # "LF"
    BY <2>3 DEF DecodeStep
  <2> QED BY <2>1, <2>2, <2>3
<1>3. d.st = 2 => IF q[j] = "COLON" THEN EndsKey(d, n, j)
                  ELSE IF q[j] = "LF" THEN EndsAll(d, n, j) ELSE n = d
  <2>1. CASE d.st = 2 /\ q[j] = "COLON"
    <3>1. n = [d EXCEPT !.st = 3, !.klen = j - d.mark]
      BY <2>1 DEF DecodeStep
    <3> HIDE DEF n
    <3> QED BY <2>1, <3>1 DEF DecodeStates, State, EndsKey
  <2>2. CASE d.st = 2 /\ q[j] = "LF"
    <3>1. n = [d EXCEPT !.st = 5, !.ret = j]
      BY <2>2 DEF DecodeStep
    <3> HIDE DEF n
    <3> QED BY <2>2, <3>1 DEF DecodeStates, State, EndsAll
  <2>3. CASE d.st = 2 /\ q[j] \notin {"COLON", "LF"}
    BY <2>3 DEF DecodeStep
  <2> QED BY <2>1, <2>2, <2>3
<1>4. d.st = 3 => IF q[j] # "SP" THEN TakesValue(d, n, j) ELSE n = d
  <2>1. CASE d.st = 3 /\ q[j] # "SP"
    <3>1. n = [d EXCEPT !.st = 4, !.mark = j]
      BY <2>1 DEF DecodeStep
    <3> HIDE DEF n
    <3> QED BY <2>1, <3>1 DEF DecodeStates, State, TakesValue
  <2>2. CASE d.st = 3 /\ q[j] = "SP"
    BY <2>2 DEF DecodeStep
  <2> QED BY <2>1, <2>2
<1>5. d.st = 4 => IF q[j] = "LF" THEN EndsValue(d, n, q, j) ELSE n = d
  <2>1. CASE d.st = 4 /\ q[j] = "LF"
    <3> DEFINE h == Append(d.hdrs, <<d.klen, Trimmed(q, d.mark, j)>>)
    <3>1. n = [d EXCEPT !.st = 2, !.mark = j + 1, !.hdrs = h]
      BY <2>1 DEF DecodeStep
    <3>2. EndsValue(d, n, q, j) <=>
             n = State(2, d.i, d.hv, j + 1, d.klen, d.ret, h)
      BY DEF EndsValue
    <3> HIDE DEF n, h
    <3> QED BY <2>1, <3>1, <3>2 DEF DecodeStates, State
  <2>2. CASE d.st = 4 /\ q[j] # "LF"
    BY <2>2 DEF DecodeStep
  <2> QED BY <2>1, <2>2
<1>6. d.st = 5 => n = d
  BY DEF DecodeStep
<1> QED BY <1>1, <1>2, <1>3, <1>4, <1>5, <1>6 DEF Turn

\* A length is not negative, and is zero only for nothing or for one carriage
\* return.
LEMMA TrimmedLength ==
    ASSUME NEW q, NEW j \in Nat, NEW start \in 1..j
    PROVE  /\ Trimmed(q, start, j) \in Nat
           /\ Trimmed(q, start, j) = 0 =>
                 start = j \/ (start = j - 1 /\ q[j - 1] = "CR")
BY DEF Trimmed

\* A byte is looked at.
LEMMA TurnDecodes ==
    ASSUME NEW q, NEW j \in Nat \ {0}, NEW d, Decoding(d, j - 1),
           NEW n, Turn(d, n, q, j)
    PROVE  Decoding(n, j)
<1>1. /\ d \in DecodeStates /\ d.st \in 0..5 /\ d.i \in 1..3
      /\ d.hv \in Lengths /\ d.mark \in Nat /\ d.klen \in Nat
      /\ d.ret \in Nat /\ d.ret <= j /\ d.hdrs \in Headers
      /\ d.st \in {1, 4} => d.mark \in 1..(j - 1) /\ d.mark \in 1..j
      /\ d.st = 2 => d.mark \in 1..j
  BY DEF Decoding, DecodeStates
<1>2. \A len \in Nat : Measured(d, len) \in Lengths
  BY <1>1 DEF Measured, Lengths
<1>3. CASE n = d
  BY <1>1, <1>3 DEF Decoding
<1>4. ASSUME TakesWord(d, n, j) PROVE Decoding(n, j)
  <2>1. n \in DecodeStates
    <3>1. Measured(d, 0) \in Lengths
      BY <1>2
    <3> QED BY <1>1, <1>4, <3>1 DEF TakesWord, State, DecodeStates
  <2>2. n.st = 1 /\ n.mark = j /\ n.ret = d.ret
    BY <1>4 DEF TakesWord, State
  <2> QED BY <1>1, <2>1, <2>2 DEF Decoding
<1>5. ASSUME EndsWord(d, n, j), d.st = 1, d.i < 3 PROVE Decoding(n, j)
  <2>1. j - d.mark \in Nat /\ d.i + 1 \in 1..3
    BY <1>1, <1>5
  <2>2. n \in DecodeStates
    <3>1. Measured(d, j - d.mark) \in Lengths
      BY <1>2, <2>1
    <3> QED BY <1>1, <1>5, <2>1, <3>1 DEF EndsWord, State, DecodeStates
  <2>3. n.st = 0 /\ n.ret = d.ret
    BY <1>5 DEF EndsWord, State
  <2> QED BY <1>1, <2>2, <2>3 DEF Decoding
<1>6. ASSUME EndsLine(d, n, q, j), d.st = 1 PROVE Decoding(n, j)
  <2>1. Trimmed(q, d.mark, j) \in Nat
    <3>1. d.mark \in 1..j /\ j \in Nat
      BY <1>1, <1>6
    <3> QED BY <3>1, TrimmedLength
  <2>2. n \in DecodeStates
    <3>1. Measured(d, Trimmed(q, d.mark, j)) \in Lengths
      BY <1>2, <2>1
    <3> QED BY <1>1, <1>6, <3>1 DEF EndsLine, State, DecodeStates
  <2>3. n.st = 2 /\ n.mark = j + 1 /\ n.ret = j
    BY <1>6 DEF EndsLine, State
  <2> QED BY <2>2, <2>3 DEF Decoding
<1>7. ASSUME EndsKey(d, n, j), d.st = 2 PROVE Decoding(n, j)
  <2>1. j - d.mark \in Nat
    BY <1>1, <1>7
  <2>2. n \in DecodeStates
    BY <1>1, <1>7, <2>1 DEF EndsKey, State, DecodeStates
  <2>3. n.st = 3 /\ n.ret = d.ret
    BY <1>7 DEF EndsKey, State
  <2> QED BY <1>1, <2>2, <2>3 DEF Decoding
<1>8. ASSUME EndsAll(d, n, j) PROVE Decoding(n, j)
  <2>1. n \in DecodeStates
    BY <1>1, <1>8 DEF EndsAll, State, DecodeStates
  <2>2. n.st = 5 /\ n.ret = j
    BY <1>8 DEF EndsAll, State
  <2> QED BY <2>1, <2>2 DEF Decoding
<1>9. ASSUME TakesValue(d, n, j) PROVE Decoding(n, j)
  <2>1. n \in DecodeStates
    BY <1>1, <1>9 DEF TakesValue, State, DecodeStates
  <2>2. n.st = 4 /\ n.mark = j /\ n.ret = d.ret
    BY <1>9 DEF TakesValue, State
  <2> QED BY <1>1, <2>1, <2>2 DEF Decoding
<1>10. ASSUME EndsValue(d, n, q, j), d.st = 4 PROVE Decoding(n, j)
  <2>1. Trimmed(q, d.mark, j) \in Nat
    <3>1. d.mark \in 1..j /\ j \in Nat
      BY <1>1, <1>10
    <3> QED BY <3>1, TrimmedLength
  <2>2. Append(d.hdrs, <<d.klen, Trimmed(q, d.mark, j)>>) \in Headers
    BY <1>1, <2>1, AppendProperties DEF Headers
  <2>3. n \in DecodeStates
    BY <1>1, <1>10, <2>1, <2>2 DEF EndsValue, State, DecodeStates
  <2>4. n.st = 2 /\ n.mark = j + 1 /\ n.ret = d.ret
    BY <1>10 DEF EndsValue, State
  <2> QED BY <1>1, <2>3, <2>4 DEF Decoding
<1> QED BY <1>1, <1>3, <1>4, <1>5, <1>6, <1>7, <1>8, <1>9, <1>10 DEF Turn

\* The loop begins and goes on in a good state, whatever the bytes.
LEMMA RunDecodes ==
    ASSUME NEW q \in Seq(Bytes), NEW f, Runs(f, q, Len(q))
    PROVE  /\ f[0] = DecodeInit
           /\ \A j \in 0..Len(q) : Decoding(f[j], j)
           /\ \A j \in 0..(Len(q) - 1) : Turn(f[j], f[j + 1], q, j + 1)
<1>1. Len(q) \in Nat
  BY LenProperties
<1>2. f[0] = DecodeInit
  BY <1>1 DEF Runs
<1>3. ASSUME NEW j \in 0..(Len(q) - 1), Decoding(f[j], j)
      PROVE  Turn(f[j], f[j + 1], q, j + 1)
  <2>1. j + 1 \in 0..Len(q) /\ j + 1 # 0 /\ (j + 1) - 1 = j
    BY <1>1
  <2>2. f[j + 1] = DecodeStep(f[j], q, j + 1)
    BY <2>1 DEF Runs
  <2>3. f[j] \in DecodeStates
    BY <1>3 DEF Decoding
  <2> QED BY <2>2, <2>3, Turns
<1> DEFINE S == {j \in Nat : Decoding(f[j], j)}
<1>4. 0 \in S
  <2>1. DecodeInit \in DecodeStates
    <3>1. <<0, 0, 0>> \in Lengths
      BY DEF Lengths
    <3>2. <<>> \in Headers
      BY EmptySeq DEF Headers
    <3> QED BY <3>1, <3>2 DEF DecodeInit, DecodeStates
  <2>2. DecodeInit.ret = 0 /\ DecodeInit.st = 0
    BY DEF DecodeInit
  <2> QED BY <1>2, <2>1, <2>2 DEF Decoding
<1>5. ASSUME NEW j \in 0..(Len(q) - 1), j \in S
      PROVE  j + 1 \in S
  <2>1. Decoding(f[j], j) /\ Turn(f[j], f[j + 1], q, j + 1)
    BY <1>3, <1>5
  <2>2. j + 1 \in Nat \ {0} /\ (j + 1) - 1 = j
    BY <1>1
  <2>3. Decoding(f[j], (j + 1) - 1)
    BY <2>1, <2>2
  <2>4. Decoding(f[j + 1], j + 1)
    BY <2>1, <2>2, <2>3, TurnDecodes
  <2> QED BY <2>2, <2>4
<1>6. \A j \in 0..Len(q) : j \in S
  <2> HIDE DEF S
  <2> QED BY <1>1, <1>4, <1>5, Climb
<1>7. \A j \in 0..Len(q) : Decoding(f[j], j)
  BY <1>6
<1>8. \A j \in 0..(Len(q) - 1) : j \in 0..Len(q)
  BY <1>1
<1> QED BY <1>2, <1>3, <1>7, <1>8

\* What http_decode_buf() returns, whatever the bytes.
LEMMA DecodeInBounds ==
    ASSUME NEW q \in Seq(Bytes)
    PROVE  /\ Decode(q).hlen \in 0..Len(q) /\ Decode(q).hdrs \in Seq(Nat \X Nat)
           /\ \A i \in 1..Len(Decode(q).hdrs) :
                 Decode(q).hdrs[i][1] >= 0 /\ Decode(q).hdrs[i][2] >= 0
<1>1. PICK f : Runs(f, q, Len(q)) /\ Decode(q) = Result(f[Len(q)])
  BY Decoded
<1>2. Len(q) \in Nat
  BY LenProperties
<1> DEFINE d == f[Len(q)]
<1>3. Decoding(d, Len(q))
  BY <1>1, <1>2, RunDecodes
<1> HIDE DEF d
<1>4. d.ret \in 0..Len(q) /\ d.hdrs \in Seq(Nat \X Nat)
  BY <1>3 DEF Decoding, DecodeStates, Headers
<1>5. Decode(q) = Result(d)
  BY <1>1 DEF d
<1>6. Decode(q).hlen \in {0, d.ret} /\ Decode(q).hdrs = d.hdrs
  BY <1>5 DEF Result
<1>7. \A i \in 1..Len(d.hdrs) : d.hdrs[i] \in Nat \X Nat
  BY <1>4, ElementOfSeq
<1> QED BY <1>2, <1>4, <1>6, <1>7

-----------------------------------------------------------------------------
(* The request buffer. *)

\* The scanner stands on the end of the first empty line, or has seen none of
\* the bytes or all of them and found no empty line.
ParseInv ==
    /\ buf \in Seq(Bytes) /\ rptr \in 0..Len(buf)
    /\ \/ Found(rstate, rptr, buf)
       \/ rptr \in {0, Len(buf)} /\ Searching(rstate, rptr, buf)

\* A number that is the first is the first.
LEMMA FirstIs ==
    ASSUME NEW S \in SUBSET Nat, NEW e \in S, \A f \in S : e <= f
    PROVE  First(S) = e
<1>1. \E x \in S : \A f \in S : x <= f
  OBVIOUS
<1>2. First(S) \in S /\ \A f \in S : First(S) <= f
  BY <1>1 DEF First
<1>3. First(S) <= e /\ e <= First(S) /\ First(S) \in Nat /\ e \in Nat
  BY <1>2
<1> QED BY <1>3

\* A set of numbers has a first.
LEMMA FirstExists ==
    ASSUME NEW S \in SUBSET Nat, S # {}
    PROVE  First(S) \in S /\ \A f \in S : First(S) <= f
BY LeastMember DEF First

\* What was found out about the first p bytes stands when more come.
LEMMA SearchStands ==
    ASSUME NEW st, NEW p \in Nat, NEW q, NEW t, Searching(st, p, q),
           \A i \in 1..p : t[i] = q[i]
    PROVE  Searching(st, p, t)
<1>1. p > 0 => t[p] = q[p]
  OBVIOUS
<1>2. p > 1 => t[p - 1] = q[p - 1]
  OBVIOUS
<1>3. Remembers(st, t, p)
  BY <1>1, <1>2 DEF Searching, Remembers
<1>4. ASSUME NEW e \in 1..p PROVE ~EndsEmptyLine(t, e)
  <2>1. /\ t[e] = q[e] /\ e > 1 => t[e - 1] = q[e - 1]
        /\ e > 2 => t[e - 1] = q[e - 1] /\ t[e - 2] = q[e - 2]
    OBVIOUS
  <2>2. ~EndsEmptyLine(q, e)
    BY DEF Searching, NoEnds
  <2> QED BY <2>1, <2>2 DEF EndsEmptyLine
<1> QED BY <1>3, <1>4 DEF Searching, NoEnds

\* Nothing has been looked at.
LEMMA SearchBegins == \A q : Searching("INITIAL", 0, q)
BY DEF Searching, Remembers, NoEnds

\* http_read() appends a batch and looks at it.
LEMMA ReceiveKeeps ==
    ASSUME ParseInv, NEW p \in Pieces, Receive(p)
    PROVE  ParseInv'
<1>1. buf \in Seq(Bytes) /\ p \in Seq(Bytes) /\ buf' = buf \o p
  BY PieceAssumption DEF ParseInv, Receive
<1>2. /\ buf' \in Seq(Bytes) /\ Len(buf') = Len(buf) + Len(p)
      /\ \A i \in 1..Len(buf) : buf'[i] = buf[i]
  <2>1. Len(buf) \in Nat /\ Len(p) \in Nat
    BY <1>1, LenProperties
  <2>2. /\ buf \o p \in Seq(Bytes) /\ Len(buf \o p) = Len(buf) + Len(p)
        /\ \A i \in 1..(Len(buf) + Len(p)) : (buf \o p)[i] =
              IF i <= Len(buf) THEN buf[i] ELSE p[i - Len(buf)]
    BY <1>1, ConcatProperties
  <2>3. \A i \in 1..Len(buf) : i \in 1..(Len(buf) + Len(p)) /\ i <= Len(buf)
    BY <2>1
  <2> QED BY <1>1, <2>2, <2>3
<1>3. /\ rptr \in Nat /\ rptr <= Len(buf) /\ rptr \in 0..Len(buf')
      /\ Len(buf') \in Nat
  <2>1. Len(buf) \in Nat /\ Len(p) \in Nat
    BY <1>1, LenProperties
  <2>2. rptr \in 0..Len(buf)
    BY DEF ParseInv
  <2> QED BY <1>2, <2>1, <2>2
<1>4. Searching(rstate, rptr, buf)
  BY DEF ParseInv, Receive, Found
<1>5. Searching(rstate, rptr, buf')
  <2>1. \A i \in 1..rptr : buf'[i] = buf[i]
    BY <1>2, <1>3
  <2> QED BY <1>3, <1>4, <2>1, SearchStands
<1> DEFINE r == Incremental(rstate, rptr, buf')
<1>6. rstate' = r.state /\ rptr' = r.rptr
  BY DEF Receive
<1>7. ScanInv(r, buf', Len(buf'))
  BY <1>2, <1>3, <1>5, IncrementalFinds
<1> HIDE DEF r
<1>8. CASE Found(rstate', rptr', buf')
  <2>1. rptr' \in 0..Len(buf')
    BY <1>3, <1>8 DEF Found
  <2> QED BY <1>2, <1>8, <2>1 DEF ParseInv
<1>9. CASE rptr' = Len(buf') /\ Searching(rstate', Len(buf'), buf')
  <2>1. rptr' \in 0..Len(buf')
    BY <1>3, <1>9
  <2> QED BY <1>2, <1>9, <2>1 DEF ParseInv
<1> QED BY <1>6, <1>7, <1>8, <1>9 DEF ScanInv

\* handle_request() takes the request off the buffer.
LEMMA NextRequestKeeps ==
    ASSUME ParseInv, NextRequest
    PROVE  ParseInv'
<1> DEFINE n == Decode(buf).hlen
<1>1. buf \in Seq(Bytes)
  BY DEF ParseInv
<1>2. n \in 0..Len(buf)
  BY <1>1, DecodeInBounds
<1>3. n > 0 /\ buf' = SubSeq(buf, n + 1, Len(buf)) /\ rstate' = "INITIAL" /\ rptr' = 0
  BY DEF NextRequest
<1> HIDE DEF n
<1>4. Len(buf) \in Nat
  BY <1>1, LenProperties
<1>5. buf' \in Seq(Bytes)
  <2>1. /\ n + 1 \in Int /\ Len(buf) \in Int
        /\ \A i \in (n + 1)..Len(buf) : i \in 1..Len(buf)
    BY <1>2, <1>4
  <2>2. \A i \in (n + 1)..Len(buf) : buf[i] \in Bytes
    BY <1>1, <2>1, ElementOfSeq
  <2> QED BY <1>3, <2>1, <2>2, SubSeqProperties
<1>6. 0 \in 0..Len(buf')
  <2>1. Len(buf') \in Nat
    BY <1>5, LenProperties
  <2> QED BY <2>1
<1>7. Searching(rstate', rptr', buf')
  BY <1>3, SearchBegins
<1> QED BY <1>3, <1>5, <1>6, <1>7 DEF ParseInv

\* Whatever a peer sends, and however it is split: http_parse_incremental() has
\* found the first empty line of the request buffer, or it has found that there
\* is none so far and its state says how the bytes it has seen end.
THEOREM ParseInductive == Spec => []ParseInv
<1>1. Init => ParseInv
  <2> SUFFICES ASSUME Init PROVE ParseInv
    OBVIOUS
  <2>1. buf \in Seq(Bytes) /\ Len(buf) = 0 /\ rptr = 0 /\ rstate = "INITIAL"
    BY EmptySeq DEF Init
  <2>2. Searching(rstate, rptr, buf)
    BY <2>1, SearchBegins
  <2> QED BY <2>1, <2>2 DEF ParseInv
<1>2. ParseInv /\ [Next]_pvars => ParseInv'
  <2> SUFFICES ASSUME ParseInv, [Next]_pvars PROVE ParseInv'
    OBVIOUS
  <2>1. CASE NextRequest
    BY <2>1, NextRequestKeeps
  <2>2. ASSUME NEW p \in Pieces, Receive(p) PROVE ParseInv'
    BY <2>2, ReceiveKeeps
  <2>3. CASE UNCHANGED pvars
    BY <2>3 DEF ParseInv, pvars
  <2> QED BY <2>1, <2>2, <2>3 DEF Next
<1> QED BY <1>1, <1>2, PTL DEF Spec

\* However the bytes were split into batches, http_parse_incremental() stops at
\* the newline of the first empty line, and goes on while there is none.
THEOREM IncrementalIsExact == Spec => []IncrementalExact
<1>1. ParseInv => IncrementalExact
  <2> SUFFICES ASSUME ParseInv PROVE IncrementalExact
    OBVIOUS
  <2> DEFINE E == Ends(buf, Len(buf))
  <2>1. buf \in Seq(Bytes) /\ Len(buf) \in Nat /\ rptr \in Nat
    BY LenProperties DEF ParseInv
  <2>2. CASE Found(rstate, rptr, buf)
    <3>1. rptr + 1 \in E /\ E \in SUBSET Nat /\ Terminal(rstate)
      BY <2>1, <2>2 DEF Found, Ends
    <3>2. \A e \in E : rptr + 1 <= e
      <4> SUFFICES ASSUME NEW e \in E PROVE rptr + 1 <= e
        OBVIOUS
      <4>1. e \in 1..Len(buf) /\ EndsEmptyLine(buf, e)
        BY DEF Ends
      <4>2. e \notin 1..rptr
        BY <2>2, <4>1 DEF Found, NoEnds
      <4> QED BY <2>1, <4>1, <4>2
    <3> HIDE DEF E
    <3>3. First(E) = rptr + 1
      BY <3>1, <3>2, FirstIs
    <3>4. E # {} /\ Terminal(rstate) /\ rptr + 1 = First(E)
      BY <3>1, <3>3
    <3> QED BY <3>4 DEF IncrementalExact, E
  <2>3. CASE rptr \in {0, Len(buf)} /\ Searching(rstate, rptr, buf)
    <3>1. ~Terminal(rstate)
      BY <2>3, TerminalStates DEF Searching
    <3>2. CASE rptr = 0
      BY <3>1, <3>2 DEF IncrementalExact
    <3>3. CASE rptr = Len(buf)
      <4>1. E = {}
        BY <2>3, <3>3 DEF Ends, Searching, NoEnds
      <4> QED BY <3>1, <3>3, <4>1 DEF IncrementalExact
    <3> QED BY <2>3, <3>2, <3>3
  <2> QED BY <2>2, <2>3 DEF ParseInv
<1> QED BY <1>1, ParseInductive, PTL

\* http_decode_buf() never claims more than the buffer holds, and hands on no
\* key or value of negative length, on any input.
THEOREM DecodeIsBounded == Spec => []DecodeBounded
<1>1. ParseInv => DecodeBounded
  <2> SUFFICES ASSUME ParseInv PROVE DecodeBounded
    OBVIOUS
  <2>1. buf \in Seq(Bytes)
    BY DEF ParseInv
  <2> QED BY <2>1, DecodeInBounds DEF DecodeBounded
<1> QED BY <1>1, ParseInductive, PTL

-----------------------------------------------------------------------------
(* The parsers agree: http_decode_buf() on a well-formed request. *)

Without(q, b, lo, hi) == \A x \in lo..hi : q[x] # b
Spaces(q, lo, hi) == \A x \in lo..hi : q[x] = "SP"

\* The first byte that is no space after the first space begins the second word.
SecondWord(d, q, j) ==
    \E s \in 1..j :
        /\ q[s] = "SP" /\ Without(q, "SP", 1, s - 1)
        /\ IF d.st = 0 THEN Spaces(q, s + 1, j)
           ELSE d.mark \in (s + 1)..j /\ Spaces(q, s + 1, d.mark - 1)

\* The loop after j bytes of the request line.
InLine(d, q, j) ==
    /\ d.st \in {0, 1} /\ d.hdrs = <<>>
    /\ d.st = 0 => q[j] = "SP"
    /\ d.i = 1 => d.st = 1 /\ Without(q, "SP", 1, j)
    /\ d.i = 2 => d.hv[1] # 0 /\ SecondWord(d, q, j)
    /\ d.i = 3 => d.hv[1] # 0 /\ d.hv[2] # 0

\* One length is set and the others are kept.
LEMMA OneMeasured ==
    ASSUME NEW d \in DecodeStates, NEW len
    PROVE  \A k \in 1..3 : Measured(d, len)[k] = IF k = d.i THEN len ELSE d.hv[k]
BY DEF DecodeStates, Measured, Lengths

\* A byte of the request line other than its newline.
LEMMA LineTurn ==
    ASSUME NEW q, NEW j \in Nat \ {0}, NEW d, Decoding(d, j), InLine(d, q, j),
           q[j + 1] # "LF", NEW n, Turn(d, n, q, j + 1)
    PROVE  InLine(n, q, j + 1)
<1>1. /\ d \in DecodeStates /\ d.i \in 1..3 /\ d.mark \in Nat
      /\ d.st = 1 => d.mark \in 1..j
  BY DEF Decoding, DecodeStates
<1>2. CASE d.st = 0 /\ q[j + 1] = "SP"
  <2>1. n = d
    BY <1>2 DEF Turn
  <2>2. SecondWord(d, q, j) => SecondWord(n, q, j + 1)
    <3> SUFFICES ASSUME NEW s \in 1..j, q[s] = "SP", Without(q, "SP", 1, s - 1),
                        Spaces(q, s + 1, j)
                 PROVE  s \in 1..(j + 1) /\ Spaces(q, s + 1, j + 1)
      BY <1>2, <2>1 DEF SecondWord
    <3>1. \A x \in (s + 1)..(j + 1) : x = j + 1 \/ x \in (s + 1)..j
      OBVIOUS
    <3> QED BY <1>2, <3>1 DEF Spaces
  <2> QED BY <1>1, <1>2, <2>1, <2>2 DEF InLine
<1>3. CASE d.st = 0 /\ q[j + 1] # "SP"
  <2>1. TakesWord(d, n, j + 1)
    BY <1>3 DEF Turn
  <2>2. /\ n.st = 1 /\ n.i = d.i /\ n.hv = Measured(d, 0) /\ n.mark = j + 1
        /\ n.hdrs = d.hdrs
    BY <2>1 DEF TakesWord, State
  <2>3. d.i # 1
    BY <1>3 DEF InLine
  <2>4. CASE d.i = 2
    <3>1. n.hv[1] = d.hv[1]
      BY <1>1, <2>2, <2>4, OneMeasured
    <3>2. PICK s \in 1..j : /\ q[s] = "SP" /\ Without(q, "SP", 1, s - 1)
                            /\ Spaces(q, s + 1, j)
      BY <1>3, <2>4 DEF InLine, SecondWord
    <3>3. s \in 1..(j + 1) /\ n.mark \in (s + 1)..(j + 1) /\ n.mark - 1 = j
      BY <2>2
    <3>4. SecondWord(n, q, j + 1)
      BY <2>2, <3>2, <3>3 DEF SecondWord
    <3> QED BY <2>2, <2>4, <3>1, <3>4 DEF InLine
  <2>5. CASE d.i = 3
    <3>1. n.hv[1] = d.hv[1] /\ n.hv[2] = d.hv[2]
      BY <1>1, <2>2, <2>5, OneMeasured
    <3> QED BY <2>2, <2>5, <3>1 DEF InLine
  <2> QED BY <1>1, <2>3, <2>4, <2>5
<1>4. CASE d.st = 1 /\ q[j + 1] = "SP" /\ d.i < 3
  <2>1. EndsWord(d, n, j + 1)
    BY <1>4 DEF Turn
  <2>2. /\ n.st = 0 /\ n.i = d.i + 1 /\ n.hv = Measured(d, (j + 1) - d.mark)
        /\ n.hdrs = d.hdrs
    BY <2>1 DEF EndsWord, State
  <2>3. (j + 1) - d.mark # 0
    BY <1>1, <1>4
  <2>4. CASE d.i = 1
    <3>1. n.hv[1] # 0
      BY <1>1, <2>2, <2>3, <2>4, OneMeasured
    <3>2. Without(q, "SP", 1, (j + 1) - 1)
      BY <2>4 DEF InLine
    <3>3. Spaces(q, (j + 1) + 1, j + 1)
      BY DEF Spaces
    <3>4. SecondWord(n, q, j + 1)
      BY <1>4, <2>2, <3>2, <3>3 DEF SecondWord
    <3> QED BY <1>4, <2>2, <2>4, <3>1, <3>4 DEF InLine
  <2>5. CASE d.i = 2
    <3>1. n.hv[1] = d.hv[1] /\ n.hv[2] # 0
      BY <1>1, <2>2, <2>3, <2>5, OneMeasured
    <3> QED BY <1>4, <2>2, <2>5, <3>1 DEF InLine
  <2> QED BY <1>1, <1>4, <2>4, <2>5
<1>5. CASE d.st = 1 /\ ~(q[j + 1] = "SP" /\ d.i < 3)
  <2>1. n = d
    BY <1>5 DEF Turn
  <2>2. d.i = 1 => Without(q, "SP", 1, j + 1)
    <3>1. \A x \in 1..(j + 1) : x = j + 1 \/ x \in 1..j
      OBVIOUS
    <3> QED BY <1>5, <3>1 DEF InLine, Without
  <2>3. SecondWord(d, q, j) => SecondWord(n, q, j + 1)
    <3> SUFFICES ASSUME NEW s \in 1..j, d.mark \in (s + 1)..j
                 PROVE  s \in 1..(j + 1) /\ d.mark \in (s + 1)..(j + 1)
      BY <1>5, <2>1 DEF SecondWord
    <3> QED OBVIOUS
  <2> QED BY <1>1, <1>5, <2>1, <2>2, <2>3 DEF InLine
<1> QED BY <1>2, <1>3, <1>4, <1>5 DEF InLine

\* The request line of a well-formed request has been read up to its newline f.
HasLine(q, f) ==
    /\ f \in Nat /\ q[f] = "LF" /\ Without(q, "LF", 1, f - 1)
    /\ q[1] # "SP" /\ q[f - 1] # "SP"
    /\ \E i \in 2..(f - 2) :
          q[i] = "SP" /\ \E j \in (i + 1)..(f - 1) : q[j] \notin {"SP", "CR"}

\* Its first byte.
LEMMA LineBegins ==
    ASSUME NEW q, q[1] # "SP", NEW n, Turn(DecodeInit, n, q, 1)
    PROVE  InLine(n, q, 1)
<1>1. DecodeInit.st = 0 /\ DecodeInit.i = 1 /\ DecodeInit.hdrs = <<>>
  BY DEF DecodeInit
<1>2. TakesWord(DecodeInit, n, 1)
  BY <1>1 DEF Turn
<1>3. n.st = 1 /\ n.i = 1 /\ n.hdrs = <<>>
  BY <1>1, <1>2 DEF TakesWord, State
<1>4. Without(q, "SP", 1, 1)
  BY DEF Without
<1> QED BY <1>3, <1>4 DEF InLine

\* Its newline: both words that http_decode_buf() asks for are there.
LEMMA LineEnds ==
    ASSUME NEW q, NEW f, HasLine(q, f), NEW d, Decoding(d, f - 1),
           InLine(d, q, f - 1), NEW n, Turn(d, n, q, f)
    PROVE  n.st = 2 /\ n.hv[1] # 0 /\ n.hv[2] # 0 /\ n.hdrs = <<>>
<1>1. /\ f \in Nat /\ q[f] = "LF" /\ q[f - 1] # "SP"
      /\ d \in DecodeStates /\ d.i \in 1..3 /\ d.mark \in Nat
      /\ d.st = 1 => d.mark \in 1..(f - 1)
  BY DEF HasLine, Decoding, DecodeStates
<1>2. PICK i \in 2..(f - 2) :
         q[i] = "SP" /\ \E j \in (i + 1)..(f - 1) : q[j] \notin {"SP", "CR"}
  BY DEF HasLine
<1>3. PICK j \in (i + 1)..(f - 1) : q[j] \notin {"SP", "CR"}
  BY <1>2
<1>4. i \in 1..(f - 1) /\ i \in Nat /\ j \in Nat /\ i < j /\ j <= f - 1
  BY <1>1, <1>2, <1>3
<1>5. d.st = 1 /\ d.hdrs = <<>>
  BY <1>1 DEF InLine
<1>6. EndsLine(d, n, q, f)
  BY <1>1, <1>5 DEF Turn
<1>7. /\ n.st = 2 /\ n.hv = Measured(d, Trimmed(q, d.mark, f))
      /\ n.hdrs = <<>>
  BY <1>5, <1>6 DEF EndsLine, State
<1>8. d.i # 1
  BY <1>2, <1>4 DEF InLine, Without
<1>9. CASE d.i = 2
  <2>1. n.hv[1] = d.hv[1] /\ n.hv[2] = Trimmed(q, d.mark, f) /\ d.hv[1] # 0
    BY <1>1, <1>7, <1>9, OneMeasured DEF InLine
  <2>2. PICK s \in 1..(f - 1) :
           /\ Without(q, "SP", 1, s - 1)
           /\ d.mark \in (s + 1)..(f - 1) /\ Spaces(q, s + 1, d.mark - 1)
    BY <1>5, <1>9 DEF InLine, SecondWord
  <2>3. s <= i
    <3>1. i \notin 1..(s - 1)
      BY <1>2, <2>2 DEF Without
    <3> QED BY <1>4, <3>1
  <2>4. d.mark <= j
    <3>1. j \notin (s + 1)..(d.mark - 1)
      BY <1>3, <2>2 DEF Spaces
    <3> QED BY <1>1, <1>4, <2>2, <2>3, <3>1
  <2>5. d.mark \in 1..f /\ d.mark # f
    BY <1>1, <1>5
  <2>6. ~(d.mark = f - 1 /\ q[f - 1] = "CR")
    BY <1>1, <1>3, <1>4, <2>4
  <2>7. Trimmed(q, d.mark, f) # 0
    BY <1>1, <2>5, <2>6, TrimmedLength
  <2> QED BY <1>7, <2>1, <2>7
<1>10. CASE d.i = 3
  BY <1>1, <1>7, <1>10, OneMeasured DEF InLine
<1> QED BY <1>1, <1>8, <1>9, <1>10

\* The loop after j bytes, of which n is the last newline: before the colon of
\* the line, in the spaces after its first colon, or in the value.
AfterLine(d, q, n, j) ==
    /\ q[n] = "LF" /\ Without(q, "LF", n + 1, j)
    /\ \/ d.st = 2 /\ Without(q, "COLON", n + 1, j)
       \/ /\ d.st = 3
          /\ \E c \in (n + 1)..j :
                /\ q[c] = "COLON" /\ Without(q, "COLON", n + 1, c - 1)
                /\ Spaces(q, c + 1, j)
       \/ d.st = 4 /\ \E c \in (n + 1)..(j - 1) : q[c] = "COLON"

\* The loop among the header lines.
InHeaders(d, q, j) ==
    /\ d.hv[1] # 0 /\ d.hv[2] # 0
    /\ Len(d.hdrs) + 1 = Cardinality(Newlines(q, j))
    /\ \E n \in 1..j : AfterLine(d, q, n, j)

\* The newlines are counted one by one.
LEMMA NewlineCount ==
    ASSUME NEW q, NEW j \in Nat
    PROVE  /\ Cardinality(Newlines(q, j)) \in Nat
           /\ Cardinality(Newlines(q, j + 1)) =
                 Cardinality(Newlines(q, j)) + (IF q[j + 1] = "LF" THEN 1 ELSE 0)
<1>1. IsFiniteSet(1..j) /\ Newlines(q, j) \in SUBSET (1..j)
  BY FS_Interval DEF Newlines
<1>2. IsFiniteSet(Newlines(q, j)) /\ Cardinality(Newlines(q, j)) \in Nat
  BY <1>1, FS_Subset, FS_CardinalityType
<1>3. \A x \in 1..(j + 1) : x = j + 1 \/ x \in 1..j
  OBVIOUS
<1>4. CASE q[j + 1] = "LF"
  <2>1. Newlines(q, j + 1) = Newlines(q, j) \cup {j + 1}
    BY <1>3, <1>4 DEF Newlines
  <2>2. j + 1 \notin Newlines(q, j)
    BY DEF Newlines
  <2>3. Cardinality(Newlines(q, j) \cup {j + 1}) = Cardinality(Newlines(q, j)) + 1
    BY <1>2, <2>2, FS_AddElement
  <2> QED BY <1>2, <1>4, <2>1, <2>3
<1>5. CASE q[j + 1] # "LF"
  <2>1. Newlines(q, j + 1) = Newlines(q, j)
    BY <1>3, <1>5 DEF Newlines
  <2> QED BY <1>2, <1>5, <2>1
<1> QED BY <1>4, <1>5

\* A byte other than a newline.
LEMMA HeaderTurn ==
    ASSUME NEW q, NEW j \in Nat, NEW d, InHeaders(d, q, j), q[j + 1] # "LF",
           NEW n, Turn(d, n, q, j + 1)
    PROVE  InHeaders(n, q, j + 1)
<1>1. PICK l \in 1..j : AfterLine(d, q, l, j)
  BY DEF InHeaders
<1>2. /\ l \in Nat /\ l \in 1..(j + 1)
      /\ \A x \in (l + 1)..(j + 1) : x = j + 1 \/ x \in (l + 1)..j
  OBVIOUS
<1>3. Without(q, "LF", l + 1, j + 1) /\ q[l] = "LF"
  BY <1>1, <1>2 DEF AfterLine, Without
<1>4. Cardinality(Newlines(q, j + 1)) = Cardinality(Newlines(q, j))
  BY NewlineCount
<1>5. ASSUME n.hv = d.hv, n.hdrs = d.hdrs, AfterLine(n, q, l, j + 1)
      PROVE  InHeaders(n, q, j + 1)
  BY <1>2, <1>4, <1>5 DEF InHeaders
<1>6. CASE d.st = 2
  <2>1. Without(q, "COLON", l + 1, j)
    BY <1>1, <1>6 DEF AfterLine
  <2>2. CASE q[j + 1] = "COLON"
    <3>1. EndsKey(d, n, j + 1)
      BY <1>6, <2>2 DEF Turn
    <3>2. n.st = 3 /\ n.hv = d.hv /\ n.hdrs = d.hdrs
      BY <3>1 DEF EndsKey, State
    <3>3. j + 1 \in (l + 1)..(j + 1) /\ (j + 1) - 1 = j
          /\ Spaces(q, (j + 1) + 1, j + 1)
      BY DEF Spaces
    <3>4. \E c \in (l + 1)..(j + 1) :
             /\ q[c] = "COLON" /\ Without(q, "COLON", l + 1, c - 1)
             /\ Spaces(q, c + 1, j + 1)
      BY <2>1, <2>2, <3>3
    <3>5. AfterLine(n, q, l, j + 1)
      BY <1>3, <3>2, <3>4 DEF AfterLine
    <3> QED BY <1>5, <3>2, <3>5
  <2>3. CASE q[j + 1] # "COLON"
    <3>1. n = d
      BY <1>6, <2>3 DEF Turn
    <3>2. Without(q, "COLON", l + 1, j + 1)
      BY <1>2, <2>1, <2>3 DEF Without
    <3>3. AfterLine(n, q, l, j + 1)
      BY <1>3, <1>6, <3>1, <3>2 DEF AfterLine
    <3> QED BY <1>5, <3>1, <3>3
  <2> QED BY <2>2, <2>3
<1>7. CASE d.st = 3
  <2>1. PICK c \in (l + 1)..j :
           /\ q[c] = "COLON" /\ Without(q, "COLON", l + 1, c - 1)
           /\ Spaces(q, c + 1, j)
    BY <1>1, <1>7 DEF AfterLine
  <2>2. CASE q[j + 1] = "SP"
    <3>1. n = d
      BY <1>7, <2>2 DEF Turn
    <3>2. \A x \in (c + 1)..(j + 1) : x = j + 1 \/ x \in (c + 1)..j
      OBVIOUS
    <3>3. Spaces(q, c + 1, j + 1) /\ c \in (l + 1)..(j + 1)
      BY <2>1, <2>2, <3>2 DEF Spaces
    <3>4. AfterLine(n, q, l, j + 1)
      BY <1>3, <1>7, <2>1, <3>1, <3>3 DEF AfterLine
    <3> QED BY <1>5, <3>1, <3>4
  <2>3. CASE q[j + 1] # "SP"
    <3>1. TakesValue(d, n, j + 1)
      BY <1>7, <2>3 DEF Turn
    <3>2. n.st = 4 /\ n.hv = d.hv /\ n.hdrs = d.hdrs
      BY <3>1 DEF TakesValue, State
    <3>3. c \in (l + 1)..((j + 1) - 1)
      OBVIOUS
    <3>4. AfterLine(n, q, l, j + 1)
      BY <1>3, <2>1, <3>2, <3>3 DEF AfterLine
    <3> QED BY <1>5, <3>2, <3>4
  <2> QED BY <2>2, <2>3
<1>8. CASE d.st = 4
  <2>1. n = d
    BY <1>8 DEF Turn
  <2>2. PICK c \in (l + 1)..(j - 1) : q[c] = "COLON"
    BY <1>1, <1>8 DEF AfterLine
  <2>3. c \in (l + 1)..((j + 1) - 1)
    OBVIOUS
  <2>4. AfterLine(n, q, l, j + 1)
    BY <1>3, <1>8, <2>1, <2>2, <2>3 DEF AfterLine
  <2> QED BY <1>5, <2>1, <2>4
<1> QED BY <1>1, <1>6, <1>7, <1>8 DEF AfterLine

\* Every line of q up to e that is not empty has a colon and a value.
HasHeaders(q, e) ==
    \A n, m \in Newlines(q, e) :
        n < m /\ ~EndsEmptyLine(q, m) /\ Without(q, "LF", n + 1, m - 1) =>
            \E i \in (n + 1)..(m - 1) :
                q[i] = "COLON" /\ \E j \in (i + 1)..(m - 1) : q[j] # "SP"

\* The newline of a header line: dispatch_hdr() is called.
LEMMA HeaderEnds ==
    ASSUME NEW q, NEW e \in Nat, HasHeaders(q, e), NEW j \in Nat, j + 1 < e,
           NEW d, Decoding(d, j), InHeaders(d, q, j), q[j + 1] = "LF",
           ~EndsEmptyLine(q, j + 1), NEW n, Turn(d, n, q, j + 1)
    PROVE  InHeaders(n, q, j + 1)
<1>1. PICK l \in 1..j : AfterLine(d, q, l, j)
  BY DEF InHeaders
<1>2. (j + 1) - 1 = j
  OBVIOUS
<1>3. PICK i \in (l + 1)..j : q[i] = "COLON" /\ \E k \in (i + 1)..j : q[k] # "SP"
  <2>1. l \in Newlines(q, e) /\ j + 1 \in Newlines(q, e) /\ l < j + 1
    BY <1>1 DEF Newlines, AfterLine
  <2>2. Without(q, "LF", l + 1, (j + 1) - 1)
    BY <1>1, <1>2 DEF AfterLine
  <2>3. \E x \in (l + 1)..((j + 1) - 1) :
           q[x] = "COLON" /\ \E k \in (x + 1)..((j + 1) - 1) : q[k] # "SP"
    BY <2>1, <2>2 DEF HasHeaders
  <2> QED BY <1>2, <2>3
<1>4. PICK k \in (i + 1)..j : q[k] # "SP"
  BY <1>3
<1>5. d.st = 4
  <2>1. d.st # 2
    BY <1>1, <1>3 DEF AfterLine, Without
  <2>2. ASSUME d.st = 3 PROVE FALSE
    <3>1. PICK c \in (l + 1)..j : /\ Without(q, "COLON", l + 1, c - 1)
                                  /\ Spaces(q, c + 1, j)
      BY <1>1, <2>2 DEF AfterLine
    <3>2. i \notin (l + 1)..(c - 1) /\ k \notin (c + 1)..j
      BY <1>3, <1>4, <3>1 DEF Without, Spaces
    <3> QED BY <3>2
  <2> QED BY <1>1, <2>1, <2>2 DEF AfterLine
<1>6. EndsValue(d, n, q, j + 1)
  BY <1>5 DEF Turn
<1> DEFINE h == <<d.klen, Trimmed(q, d.mark, j + 1)>>
<1>7. n.st = 2 /\ n.hv = d.hv /\ n.hdrs = Append(d.hdrs, h)
  BY <1>6 DEF EndsValue, State
<1>8. Len(n.hdrs) = Len(d.hdrs) + 1 /\ Len(d.hdrs) \in Nat
  <2>1. d.hdrs \in Seq(Nat \X Nat)
    BY DEF Decoding, DecodeStates, Headers
  <2>2. Len(Append(d.hdrs, h)) = Len(d.hdrs) + 1
    BY <2>1
  <2> QED BY <1>7, <2>1, <2>2, LenProperties
<1>9. Cardinality(Newlines(q, j + 1)) = Cardinality(Newlines(q, j)) + 1
  BY NewlineCount
<1>10. Len(n.hdrs) + 1 = Cardinality(Newlines(q, j + 1))
  <2>1. Len(d.hdrs) + 1 = Cardinality(Newlines(q, j))
    BY DEF InHeaders
  <2> QED BY <1>8, <1>9, <2>1
<1>11. j + 1 \in 1..(j + 1) /\ AfterLine(n, q, j + 1, j + 1)
  BY <1>7 DEF AfterLine, Without
<1>12. n.hv[1] # 0 /\ n.hv[2] # 0
  BY <1>7 DEF InHeaders
<1> QED BY <1>10, <1>11, <1>12 DEF InHeaders

\* The newline of the empty line: the loop is left there.
LEMMA AllEnds ==
    ASSUME NEW q, NEW e \in Nat \ {0}, EndsEmptyLine(q, e), NEW d,
           Decoding(d, e - 1), InHeaders(d, q, e - 1), NEW n, Turn(d, n, q, e)
    PROVE  /\ n.st = 5 /\ n.hv[1] # 0 /\ n.hv[2] # 0 /\ n.ret = e
           /\ Len(n.hdrs) + 2 = Cardinality(Newlines(q, e))
<1>1. PICK l \in 1..(e - 1) : AfterLine(d, q, l, e - 1)
  BY DEF InHeaders
<1>2. q[e] = "LF" /\ (q[e - 1] = "LF" \/ (e > 2 /\ q[e - 1] = "CR" /\ q[e - 2] = "LF"))
  BY DEF EndsEmptyLine
<1>3. l = e - 1 \/ (l = e - 2 /\ q[e - 1] = "CR")
  <2>1. \A x \in (l + 1)..(e - 1) : q[x] # "LF"
    BY <1>1 DEF AfterLine, Without
  <2>2. CASE q[e - 1] = "LF"
    <3>1. e - 1 \notin (l + 1)..(e - 1)
      BY <2>1, <2>2
    <3> QED BY <3>1
  <2>3. CASE e > 2 /\ q[e - 1] = "CR" /\ q[e - 2] = "LF"
    <3>1. e - 2 \notin (l + 1)..(e - 1)
      BY <2>1, <2>3
    <3>2. l \in Nat /\ l <= e - 1 /\ l >= e - 2
      BY <2>3, <3>1
    <3> QED BY <2>3, <3>2
  <2> QED BY <1>2, <2>2, <2>3
<1>4. d.st = 2
  <2>1. ASSUME NEW c \in (l + 1)..(e - 1) PROVE q[c] # "COLON" /\ c = e - 1
    BY <1>3
  <2>2. \A c \in (l + 1)..((e - 1) - 1) : FALSE
    BY <1>3
  <2> QED BY <1>1, <2>1, <2>2 DEF AfterLine
<1>5. EndsAll(d, n, e)
  BY <1>2, <1>4 DEF Turn
<1>6. n.st = 5 /\ n.hv = d.hv /\ n.ret = e /\ n.hdrs = d.hdrs
  BY <1>5 DEF EndsAll, State
<1>7. Len(d.hdrs) \in Nat
  BY LenProperties DEF Decoding, DecodeStates, Headers
<1>8. Cardinality(Newlines(q, e)) = Cardinality(Newlines(q, e - 1)) + 1
  <2>1. e - 1 \in Nat /\ (e - 1) + 1 = e
    OBVIOUS
  <2>2. Cardinality(Newlines(q, (e - 1) + 1)) =
           Cardinality(Newlines(q, e - 1)) + (IF q[(e - 1) + 1] = "LF" THEN 1 ELSE 0)
    BY <2>1, NewlineCount
  <2> QED BY <1>2, <2>1, <2>2
<1>9. Len(d.hdrs) + 1 = Cardinality(Newlines(q, e - 1))
  BY DEF InHeaders
<1>10. Len(n.hdrs) + 2 = Cardinality(Newlines(q, e))
  BY <1>6, <1>7, <1>8, <1>9
<1> QED BY <1>6, <1>10 DEF InHeaders

\* What it is for a request to be well-formed, line by line.
LEMMA WellFormedParts ==
    ASSUME NEW q, NEW e \in Nat \ {0}, EndsEmptyLine(q, e), WellFormed(q, e),
           NEW f, f = First(Newlines(q, e))
    PROVE  /\ HasLine(q, f) /\ HasHeaders(q, e)
           /\ f \in 4..(e - 1)
<1> DEFINE N == Newlines(q, e)
<1>1. q[e] = "LF" /\ e \in N /\ N \in SUBSET Nat
  BY DEF EndsEmptyLine, Newlines
<1>2. f \in N /\ \A m \in N : f <= m
  BY <1>1, FirstExists
<1>3. f \in 1..e /\ f \in Nat /\ q[f] = "LF"
  BY <1>2 DEF Newlines
<1>4. Without(q, "LF", 1, f - 1)
  <2> SUFFICES ASSUME NEW x \in 1..(f - 1), q[x] = "LF" PROVE FALSE
    BY DEF Without
  <2>1. x \in N
    BY <1>3 DEF Newlines
  <2> QED BY <1>2, <1>3, <2>1
<1>5. /\ q[1] # "SP" /\ q[f - 1] # "SP"
      /\ \E i \in 2..(f - 2) :
            q[i] = "SP" /\ \E j \in (i + 1)..(f - 1) : q[j] \notin {"SP", "CR"}
  BY DEF WellFormed
<1>6. HasLine(q, f)
  BY <1>3, <1>4, <1>5 DEF HasLine
<1>7. f >= 4
  BY <1>3, <1>5
<1>8. f <= e - 1
  <2>1. \/ e > 1 /\ q[e - 1] = "LF"
        \/ e > 2 /\ q[e - 2] = "LF"
    BY DEF EndsEmptyLine
  <2>2. e - 1 \in N \/ e - 2 \in N
    BY <2>1 DEF Newlines
  <2> QED BY <1>2, <1>3, <2>2
<1>9. HasHeaders(q, e)
  <2> SUFFICES ASSUME NEW n \in N, NEW m \in N, n < m, ~EndsEmptyLine(q, m),
                      Without(q, "LF", n + 1, m - 1)
               PROVE  \E i \in (n + 1)..(m - 1) :
                         q[i] = "COLON" /\ \E j \in (i + 1)..(m - 1) : q[j] # "SP"
    BY DEF HasHeaders
  <2>1. ~\E k \in N : n < k /\ k < m
    <3> SUFFICES ASSUME NEW k \in N, n < k, k < m PROVE FALSE
      OBVIOUS
    <3>1. q[k] = "LF" /\ k \in (n + 1)..(m - 1)
      BY <1>1 DEF Newlines
    <3> QED BY <3>1 DEF Without
  <2> QED BY <2>1 DEF WellFormed
<1> QED BY <1>3, <1>6, <1>7, <1>8, <1>9

\* http_decode_buf() takes a well-formed request to the byte.
LEMMA DecodesWhole ==
    ASSUME NEW q \in Seq(Bytes), NEW e \in 1..Len(q), EndsEmptyLine(q, e),
           NoEnds(q, e - 1), WellFormed(q, e)
    PROVE  /\ Decode(q).hlen = e
           /\ Len(Decode(q).hdrs) + 2 = Cardinality(Newlines(q, e))
<1>1. PICK g : Runs(g, q, Len(q)) /\ Decode(q) = Result(g[Len(q)])
  BY Decoded
<1>2. Len(q) \in Nat /\ e \in Nat \ {0} /\ e <= Len(q)
  BY LenProperties
<1>3. /\ g[0] = DecodeInit
      /\ \A j \in 0..Len(q) : Decoding(g[j], j)
      /\ \A j \in 0..(Len(q) - 1) : Turn(g[j], g[j + 1], q, j + 1)
  BY <1>1, RunDecodes
<1> DEFINE f == First(Newlines(q, e))
<1>4. HasLine(q, f) /\ HasHeaders(q, e) /\ f \in 4..(e - 1)
  BY <1>2, WellFormedParts
<1>5. /\ f \in Nat /\ f - 1 \in Nat /\ 4 <= f /\ f <= e - 1 /\ e - 1 \in Nat
      /\ q[f] = "LF" /\ Without(q, "LF", 1, f - 1) /\ q[1] # "SP"
  BY <1>2, <1>4 DEF HasLine
<1> HIDE DEF f
<1>6. InLine(g[f - 1], q, f - 1)
  <2> DEFINE S == {j \in Nat : InLine(g[j], q, j)}
  <2>1. 1 \in S
    <3>1. Turn(g[0], g[0 + 1], q, 0 + 1)
      BY <1>2, <1>3
    <3>2. InLine(g[1], q, 1)
      BY <1>3, <1>5, <3>1, LineBegins
    <3> QED BY <3>2
  <2>2. ASSUME NEW j \in 1..((f - 1) - 1), j \in S
        PROVE  j + 1 \in S
    <3>1. /\ j \in Nat \ {0} /\ j \in 0..(Len(q) - 1) /\ j \in 0..Len(q)
          /\ j + 1 \in 1..(f - 1) /\ j + 1 \in Nat
      BY <1>2, <1>5
    <3>2. q[j + 1] # "LF" /\ InLine(g[j], q, j)
      BY <1>5, <2>2, <3>1 DEF Without
    <3>3. InLine(g[j + 1], q, j + 1)
      BY <1>3, <3>1, <3>2, LineTurn
    <3> QED BY <3>1, <3>3
  <2>3. \A j \in 1..(f - 1) : j \in S
    <3> HIDE DEF S
    <3> QED BY <1>5, <2>1, <2>2, Climb
  <2>4. f - 1 \in 1..(f - 1)
    BY <1>5
  <2> QED BY <2>3, <2>4
<1>7. InHeaders(g[f], q, f)
  <2>1. /\ f - 1 \in 0..(Len(q) - 1) /\ f - 1 \in 0..Len(q) /\ (f - 1) + 1 = f
    BY <1>2, <1>5
  <2>2. Turn(g[f - 1], g[f], q, f) /\ Decoding(g[f - 1], f - 1)
    BY <1>3, <2>1
  <2>3. g[f].st = 2 /\ g[f].hv[1] # 0 /\ g[f].hv[2] # 0 /\ g[f].hdrs = <<>>
    BY <1>4, <1>6, <2>2, LineEnds
  <2>4. Cardinality(Newlines(q, f)) = 1
    <3>1. Newlines(q, f) = {f}
      BY <1>5 DEF Newlines, Without
    <3> QED BY <3>1, FS_Singleton
  <2>5. f \in 1..f /\ AfterLine(g[f], q, f, f)
    BY <1>5, <2>3 DEF AfterLine, Without
  <2>6. Len(g[f].hdrs) = 0
    BY <2>3
  <2> QED BY <2>3, <2>4, <2>5, <2>6 DEF InHeaders
<1>8. InHeaders(g[e - 1], q, e - 1)
  <2> DEFINE S == {j \in Nat : InHeaders(g[j], q, j)}
  <2>1. f \in S
    BY <1>5, <1>7
  <2>2. ASSUME NEW j \in f..((e - 1) - 1), j \in S
        PROVE  j + 1 \in S
    <3>1. /\ j \in Nat /\ j \in 0..(Len(q) - 1) /\ j \in 0..Len(q)
          /\ j + 1 \in 1..(e - 1) /\ j + 1 \in Nat /\ j + 1 < e
      BY <1>2, <1>5
    <3>2. /\ ~EndsEmptyLine(q, j + 1) /\ InHeaders(g[j], q, j)
          /\ Decoding(g[j], j) /\ Turn(g[j], g[j + 1], q, j + 1)
      BY <1>3, <2>2, <3>1 DEF NoEnds
    <3>3. CASE q[j + 1] = "LF"
      <4>1. InHeaders(g[j + 1], q, j + 1)
        BY <1>2, <1>4, <3>1, <3>2, <3>3, HeaderEnds
      <4> QED BY <3>1, <4>1
    <3>4. CASE q[j + 1] # "LF"
      <4>1. InHeaders(g[j + 1], q, j + 1)
        BY <3>1, <3>2, <3>4, HeaderTurn
      <4> QED BY <3>1, <4>1
    <3> QED BY <3>3, <3>4
  <2>3. \A j \in f..(e - 1) : j \in S
    <3> HIDE DEF S
    <3> QED BY <1>5, <2>1, <2>2, Climb
  <2>4. e - 1 \in f..(e - 1)
    BY <1>2, <1>5
  <2> QED BY <2>3, <2>4
<1>9. /\ g[e].st = 5 /\ g[e].hv[1] # 0 /\ g[e].hv[2] # 0 /\ g[e].ret = e
      /\ Len(g[e].hdrs) + 2 = Cardinality(Newlines(q, e))
  <2>1. e - 1 \in 0..(Len(q) - 1) /\ e - 1 \in 0..Len(q) /\ (e - 1) + 1 = e
    BY <1>2
  <2>2. Turn(g[e - 1], g[e], q, e) /\ Decoding(g[e - 1], e - 1)
    BY <1>3, <2>1
  <2> QED BY <1>2, <1>8, <2>2, AllEnds
<1>10. g[Len(q)] = g[e]
  <2> DEFINE S == {j \in Nat : g[j] = g[e]}
  <2>1. e \in S
    BY <1>2
  <2>2. ASSUME NEW j \in e..(Len(q) - 1), j \in S
        PROVE  j + 1 \in S
    <3>1. j \in 0..(Len(q) - 1) /\ j + 1 \in Nat
      BY <1>2
    <3>2. Turn(g[j], g[j + 1], q, j + 1) /\ g[j].st = 5
      BY <1>3, <1>9, <2>2, <3>1
    <3>3. g[j + 1] = g[j]
      BY <3>2 DEF Turn
    <3> QED BY <2>2, <3>1, <3>3
  <2>3. \A j \in e..Len(q) : j \in S
    <3> HIDE DEF S
    <3> QED BY <1>2, <2>1, <2>2, Climb
  <2>4. Len(q) \in e..Len(q)
    BY <1>2
  <2> QED BY <2>3, <2>4
<1>11. Decode(q).hlen = g[e].ret /\ Decode(q).hdrs = g[e].hdrs
  BY <1>1, <1>9, <1>10 DEF Result
<1> QED BY <1>9, <1>11

\* Of a well-formed request http_decode_buf() takes exactly the bytes that
\* http_parse_incremental() found to be complete, with every header line, so
\* that the next request begins where this one ends; whatever follows it in
\* the buffer and however it was split.
THEOREM ParsersDoAgree == Spec => []ParsersAgree
<1>1. ParseInv => ParsersAgree
  <2> SUFFICES ASSUME ParseInv, Terminal(rstate), WellFormed(buf, rptr + 1)
               PROVE  /\ Decode(buf).hlen = rptr + 1
                      /\ Len(Decode(buf).hdrs) + 2
                            = Cardinality(Newlines(buf, rptr + 1))
    BY DEF ParsersAgree
  <2>1. buf \in Seq(Bytes) /\ Found(rstate, rptr, buf)
    BY TerminalStates DEF ParseInv, Searching
  <2>2. /\ rptr + 1 \in 1..Len(buf) /\ EndsEmptyLine(buf, rptr + 1)
        /\ NoEnds(buf, (rptr + 1) - 1)
    <3>1. rptr \in Nat /\ NoEnds(buf, rptr) /\ (rptr + 1) - 1 = rptr
      BY <2>1 DEF Found
    <3> QED BY <2>1, <3>1 DEF Found
  <2> QED BY <2>1, <2>2, DecodesWhole
<1> QED BY <1>1, ParseInductive, PTL

-----------------------------------------------------------------------------
(* The header lines. *)

\* The table of http_req(), which is not in the order of the search: it goes
\* by length first.
LEMMA Table ==
    /\ Len(Hcb) = 4
    /\ Hcb[1] = Connection /\ Hcb[2] = ContentLength
    /\ Hcb[3] = Host /\ Hcb[4] = IfNoneMatch
    /\ Connection.len = 10 /\ ContentLength.len = 14
    /\ Host.len = 4 /\ Host.low = 7 /\ IfNoneMatch.len = 13 /\ IfNoneMatch.low = 8
BY DEF Hcb, Connection, ContentLength, Host, IfNoneMatch, Name

Place(d, n, at) == [d |-> d, n |-> n, at |-> at]

\* The search goes on in one of three ways.
LEMMA Probes ==
    ASSUME NEW k, NEW d \in Nat, NEW n \in Nat, NEW at \in Nat,
           NEW i \in Nat, i = n \div 2, NEW ret \in Int,
           n # 0 /\ at = 0 => ret = VcasecmpFast(k, Hcb[d + i + 1])
    PROVE  Probe(k, Place(d, n, at)) =
              IF n = 0 \/ at # 0 THEN Place(d, n, at)
              ELSE IF ret < 0 THEN Place(d, i, 0)
              ELSE IF ret > 0 THEN Place(d + i + 1, n - (i + 1), 0)
              ELSE Place(d, n, d + i + 1)
<1> DEFINE s == Place(d, n, at)
<1>1. s.d = d /\ s.n = n /\ s.at = at
  BY DEF Place
<1>2. CASE n = 0 \/ at # 0
  BY <1>1, <1>2 DEF Probe
<1>3. CASE n # 0 /\ at = 0
  <2>1. Probe(k, s) = IF ret < 0 THEN [s EXCEPT !.n = i]
                      ELSE IF ret > 0 THEN [s EXCEPT !.d = d + i + 1, !.n = n - (i + 1)]
                      ELSE [s EXCEPT !.at = d + i + 1]
    BY <1>1, <1>3 DEF Probe
  <2> QED BY <1>3, <2>1 DEF Place
<1> QED BY <1>2, <1>3

\* The order of vstrcmp_fast() on the lengths of the table.
LEMMA Compares ==
    ASSUME NEW k, k.len \in Nat, k.low \in Nat
    PROVE  /\ \A i \in 1..4 : VcasecmpFast(k, Hcb[i]) \in Int
           /\ VcasecmpFast(k, Host) < 0 =>
                 VcasecmpFast(k, Connection) < 0 /\ VcasecmpFast(k, ContentLength) < 0
           /\ VcasecmpFast(k, IfNoneMatch) = 0 => VcasecmpFast(k, Host) > 0
BY DEF VcasecmpFast, Hcb, Connection, ContentLength, Host, IfNoneMatch, Name

\* The four turns of the search.
LEMMA Searched ==
    ASSUME NEW k
    PROVE  Lookup(k) =
              Probe(k, Probe(k, Probe(k, Probe(k, Place(0, 4, 0))))).at
<1> DEFINE s0 == Place(0, 4, 0)
           s1 == Probe(k, s0)
           s2 == Probe(k, s1)
           s3 == Probe(k, s2)
           s4 == Probe(k, s3)
           g == [t \in 0..4 |-> IF t = 0 THEN s0 ELSE IF t = 1 THEN s1
                                ELSE IF t = 2 THEN s2 ELSE IF t = 3 THEN s3 ELSE s4]
           Solves(f) == f = [t \in 0..4 |-> IF t = 0 THEN s0 ELSE Probe(k, f[t - 1])]
           f == CHOOSE f : Solves(f)
<1>1. Solves(g)
  <2>1. g[0] = s0 /\ g[1] = s1 /\ g[2] = s2 /\ g[3] = s3 /\ g[4] = s4
    OBVIOUS
  <2> HIDE DEF s0, s1, s2, s3, s4
  <2>2. s1 = Probe(k, s0) /\ s2 = Probe(k, s1) /\ s3 = Probe(k, s2) /\ s4 = Probe(k, s3)
    BY DEF s1, s2, s3, s4
  <2>3. \A t \in 0..4 : t = 0 \/ t = 1 \/ t = 2 \/ t = 3 \/ t = 4
    OBVIOUS
  <2>4. ASSUME NEW t \in 0..4
        PROVE  g[t] = IF t = 0 THEN s0 ELSE Probe(k, g[t - 1])
    <3> HIDE DEF g
    <3>1. CASE t = 0
      BY <2>1, <3>1
    <3>2. CASE t = 1
      BY <2>1, <2>2, <3>2
    <3>3. CASE t = 2
      BY <2>1, <2>2, <3>3
    <3>4. CASE t = 3
      BY <2>1, <2>2, <3>4
    <3>5. CASE t = 4
      BY <2>1, <2>2, <3>5
    <3> QED BY <2>3, <3>1, <3>2, <3>3, <3>4, <3>5
  <2>5. g = [t \in 0..4 |-> g[t]]
    OBVIOUS
  <2> HIDE DEF g
  <2> QED BY <2>4, <2>5
<1>2. Solves(f)
  <2> HIDE DEF g, Solves
  <2> QED BY <1>1, Zenon
<1>3. Lookup(k) = f[4].at
  <2>1. Len(Hcb) = 4
    BY Table
  <2> HIDE DEF f
  <2>2. f = CHOOSE x : x = [t \in 0..Len(Hcb) |->
                             IF t = 0 THEN [d |-> 0, n |-> Len(Hcb), at |-> 0]
                             ELSE Probe(k, x[t - 1])]
    BY <2>1 DEF f, Place
  <2> QED BY <2>1, <2>2 DEF Lookup
<1> HIDE DEF f
<1>4. f[0] = s0 /\ f[1] = Probe(k, f[0]) /\ f[2] = Probe(k, f[1])
      /\ f[3] = Probe(k, f[2]) /\ f[4] = Probe(k, f[3])
  BY <1>2
<1> QED BY <1>3, <1>4

\* dispatch_hdr() finds Host and If-None-Match, and nothing else.
LEMMA LookupFinds ==
    ASSUME NEW k, k.len \in Nat, k.low \in Nat
    PROVE  Lookup(k) = IF VcasecmpFast(k, Host) = 0 THEN 3
                       ELSE IF VcasecmpFast(k, IfNoneMatch) = 0 THEN 4 ELSE 0
<1> DEFINE cmp(i) == VcasecmpFast(k, Hcb[i])
<1>1. \A i \in 1..4 : cmp(i) \in Int
  BY Compares
<1>2. /\ cmp(3) = VcasecmpFast(k, Host) /\ cmp(4) = VcasecmpFast(k, IfNoneMatch)
      /\ cmp(3) < 0 => cmp(1) < 0 /\ cmp(2) < 0
      /\ cmp(4) = 0 => cmp(3) > 0
  BY Table, Compares
<1> HIDE DEF cmp
<1>3. Probe(k, Place(0, 4, 0)) = IF cmp(3) < 0 THEN Place(0, 2, 0)
                                 ELSE IF cmp(3) > 0 THEN Place(3, 1, 0)
                                 ELSE Place(0, 4, 3)
  <2>1. cmp(3) = VcasecmpFast(k, Hcb[0 + 2 + 1]) /\ 2 = 4 \div 2 /\ cmp(3) \in Int
    BY <1>1 DEF cmp
  <2> QED BY <2>1, Probes
<1>4. \A d \in {0, 3, 4}, at \in {0, 3, 4} : Probe(k, Place(d, 0, at)) = Place(d, 0, at)
  <2>1. 0 = 0 \div 2
    OBVIOUS
  <2> QED BY <2>1, Probes
<1>5. \A d \in {0, 3}, n \in {1, 4}, at \in {3, 4} :
         Probe(k, Place(d, n, at)) = Place(d, n, at)
  <2> SUFFICES ASSUME NEW d \in {0, 3}, NEW n \in {1, 4}, NEW at \in {3, 4}
               PROVE  Probe(k, Place(d, n, at)) = Place(d, n, at)
    OBVIOUS
  <2>1. PICK i \in Nat : i = n \div 2
    OBVIOUS
  <2> QED BY <2>1, Probes
<1>6. CASE cmp(3) = 0
  <2>1. Probe(k, Place(0, 4, 0)) = Place(0, 4, 3)
    BY <1>3, <1>6
  <2>2. Probe(k, Place(0, 4, 3)) = Place(0, 4, 3)
    BY <1>5
  <2>3. Lookup(k) = Place(0, 4, 3).at
    BY <2>1, <2>2, Searched
  <2> QED BY <1>2, <1>6, <2>3 DEF Place
<1>7. CASE cmp(3) < 0
  <2>1. Probe(k, Place(0, 4, 0)) = Place(0, 2, 0)
    BY <1>3, <1>7
  <2>2. Probe(k, Place(0, 2, 0)) = Place(0, 1, 0)
    <3>1. cmp(2) = VcasecmpFast(k, Hcb[0 + 1 + 1]) /\ 1 = 2 \div 2 /\ cmp(2) \in Int
      BY <1>1 DEF cmp
    <3> QED BY <1>2, <1>7, <3>1, Probes
  <2>3. Probe(k, Place(0, 1, 0)) = Place(0, 0, 0)
    <3>1. cmp(1) = VcasecmpFast(k, Hcb[0 + 0 + 1]) /\ 0 = 1 \div 2 /\ cmp(1) \in Int
      BY <1>1 DEF cmp
    <3> QED BY <1>2, <1>7, <3>1, Probes
  <2>4. Lookup(k) = Place(0, 0, 0).at
    BY <1>4, <2>1, <2>2, <2>3, Searched
  <2>5. cmp(3) # 0 /\ cmp(4) # 0
    BY <1>1, <1>2, <1>7
  <2> QED BY <1>2, <2>4, <2>5 DEF Place
<1>8. CASE cmp(3) > 0
  <2>1. Probe(k, Place(0, 4, 0)) = Place(3, 1, 0) /\ cmp(3) # 0
    BY <1>1, <1>3, <1>8
  <2>2. Probe(k, Place(3, 1, 0)) = IF cmp(4) < 0 THEN Place(3, 0, 0)
                                   ELSE IF cmp(4) > 0 THEN Place(4, 0, 0)
                                   ELSE Place(3, 1, 4)
    <3>1. cmp(4) = VcasecmpFast(k, Hcb[3 + 0 + 1]) /\ 0 = 1 \div 2 /\ cmp(4) \in Int
      BY <1>1 DEF cmp
    <3> QED BY <3>1, Probes
  <2>3. CASE cmp(4) = 0
    <3>1. Probe(k, Place(3, 1, 0)) = Place(3, 1, 4)
      BY <2>2, <2>3
    <3>2. Probe(k, Place(3, 1, 4)) = Place(3, 1, 4)
      BY <1>5
    <3>3. Lookup(k) = Place(3, 1, 4).at
      BY <2>1, <3>1, <3>2, Searched
    <3> QED BY <1>2, <2>1, <2>3, <3>3 DEF Place
  <2>4. CASE cmp(4) # 0
    <3>1. PICK d \in {3, 4} : Probe(k, Place(3, 1, 0)) = Place(d, 0, 0)
      BY <1>1, <2>2, <2>4
    <3>2. Probe(k, Place(d, 0, 0)) = Place(d, 0, 0)
      BY <1>4
    <3>3. Lookup(k) = Place(d, 0, 0).at
      BY <2>1, <3>1, <3>2, Searched
    <3> QED BY <1>2, <2>1, <2>4, <3>3 DEF Place
  <2> QED BY <2>3, <2>4
<1> QED BY <1>1, <1>6, <1>7, <1>8

Matches(line, name) == VcasecmpFast(line.name, name) = 0

\* What has been read: connection and clen are never found.
Fields(host, etag) ==
    [connection |-> NoText, clen |-> -1, host |-> host, etag |-> etag]

\* dispatch_hdr() stores the value of a line whose name it finds.
LEMMA DispatchStores ==
    ASSUME NEW line \in HeaderLines, NEW host, NEW etag
    PROVE  DispatchHdr(Fields(host, etag), line) =
              Fields(IF Matches(line, Host) THEN line.value ELSE host,
                     IF Matches(line, IfNoneMatch) THEN line.value ELSE etag)
<1> DEFINE r == Fields(host, etag)
           at == Lookup(line.name)
<1>1. line.name.len \in Nat /\ line.name.low \in Nat
  BY LineAssumption
<1>2. at = IF Matches(line, Host) THEN 3
           ELSE IF Matches(line, IfNoneMatch) THEN 4 ELSE 0
  BY <1>1, LookupFinds DEF Matches
<1>3. Matches(line, IfNoneMatch) => ~Matches(line, Host)
  <2>1. VcasecmpFast(line.name, IfNoneMatch) = 0 => VcasecmpFast(line.name, Host) > 0
    BY <1>1, Compares
  <2> QED BY <2>1 DEF Matches
<1>4. /\ Host # Connection /\ Host # ContentLength /\ Host # IfNoneMatch
      /\ IfNoneMatch # Connection /\ IfNoneMatch # ContentLength
  BY Table
<1>5. CASE Matches(line, Host)
  <2>1. at = 3 /\ Hcb[at] = Host
    BY <1>2, <1>5, Table
  <2>2. DispatchHdr(r, line) = [r EXCEPT !.host = line.value]
    BY <1>4, <2>1 DEF DispatchHdr
  <2> QED BY <1>3, <1>5, <2>2 DEF Fields
<1>6. CASE Matches(line, IfNoneMatch)
  <2>1. at = 4 /\ Hcb[at] = IfNoneMatch
    BY <1>2, <1>3, <1>6, Table
  <2>2. DispatchHdr(r, line) = [r EXCEPT !.etag = line.value]
    BY <1>4, <2>1 DEF DispatchHdr
  <2> QED BY <1>3, <1>6, <2>2 DEF Fields
<1>7. CASE ~Matches(line, Host) /\ ~Matches(line, IfNoneMatch)
  <2>1. at = 0
    BY <1>2, <1>7
  <2>2. DispatchHdr(r, line) = r
    BY <2>1 DEF DispatchHdr
  <2> QED BY <1>7, <2>2
<1> QED BY <1>5, <1>6, <1>7

\* v is the value of the last of the first n lines of that name.
IsLastOf(v, ls, name, n) ==
    \/ v = NoText /\ \A y \in 1..n : ~Matches(ls[y], name)
    \/ \E x \in 1..n : /\ Matches(ls[x], name) /\ v = ls[x].value
                       /\ \A y \in (x + 1)..n : ~Matches(ls[y], name)

\* One more line.
LEMMA LastMoves ==
    ASSUME NEW v, NEW ls, NEW name, NEW n \in Nat, IsLastOf(v, ls, name, n),
           NEW w, w = IF Matches(ls[n + 1], name) THEN ls[n + 1].value ELSE v
    PROVE  IsLastOf(w, ls, name, n + 1)
<1>1. CASE Matches(ls[n + 1], name)
  <2>1. n + 1 \in 1..(n + 1) /\ \A y \in ((n + 1) + 1)..(n + 1) : FALSE
    OBVIOUS
  <2> QED BY <1>1, <2>1 DEF IsLastOf
<1>2. CASE ~Matches(ls[n + 1], name)
  <2>1. CASE v = NoText /\ \A y \in 1..n : ~Matches(ls[y], name)
    <3>1. \A y \in 1..(n + 1) : y = n + 1 \/ y \in 1..n
      OBVIOUS
    <3> QED BY <1>2, <2>1, <3>1 DEF IsLastOf
  <2>2. ASSUME NEW x \in 1..n, Matches(ls[x], name), v = ls[x].value,
               \A y \in (x + 1)..n : ~Matches(ls[y], name)
        PROVE  IsLastOf(w, ls, name, n + 1)
    <3>1. x \in 1..(n + 1) /\ \A y \in (x + 1)..(n + 1) : y = n + 1 \/ y \in (x + 1)..n
      OBVIOUS
    <3>2. \A y \in (x + 1)..(n + 1) : ~Matches(ls[y], name)
      BY <1>2, <2>2, <3>1
    <3> QED BY <1>2, <2>2, <3>1, <3>2 DEF IsLastOf
  <2> QED BY <2>1, <2>2 DEF IsLastOf
<1> QED BY <1>1, <1>2

Reads(f, ls, n) ==
    f = [i \in 0..n |-> IF i = 0 THEN NoRequest ELSE DispatchHdr(f[i - 1], ls[i])]

\* After n lines the last of each name counts, and the recursive definition has
\* a solution.
LEMMA LinesRead ==
    ASSUME NEW ls \in Seq(HeaderLines)
    PROVE  \E f, host, etag :
              /\ Reads(f, ls, Len(ls)) /\ f[Len(ls)] = Fields(host, etag)
              /\ IsLastOf(host, ls, Host, Len(ls))
              /\ IsLastOf(etag, ls, IfNoneMatch, Len(ls))
<1> DEFINE Good(n) == \E f, host, etag :
              /\ Reads(f, ls, n) /\ f[n] = Fields(host, etag)
              /\ IsLastOf(host, ls, Host, n) /\ IsLastOf(etag, ls, IfNoneMatch, n)
           S == {n \in Nat : Good(n)}
<1>1. Len(ls) \in Nat
  BY LenProperties
<1>2. 0 \in S
  <2> DEFINE f == [i \in 0..0 |-> NoRequest]
  <2>1. \A i \in 0..0 : i = 0
    OBVIOUS
  <2>2. Reads(f, ls, 0) /\ f[0] = NoRequest
    BY <2>1 DEF Reads
  <2>3. NoRequest = Fields(NoText, NoText)
    BY DEF NoRequest, Fields
  <2>4. \A name : IsLastOf(NoText, ls, name, 0)
    BY DEF IsLastOf
  <2> HIDE DEF f
  <2>5. Good(0)
    BY <2>2, <2>3, <2>4
  <2> QED BY <2>5
<1>3. ASSUME NEW n \in 0..(Len(ls) - 1), n \in S
      PROVE  n + 1 \in S
  <2>1. PICK f, host, etag :
              /\ Reads(f, ls, n) /\ f[n] = Fields(host, etag)
              /\ IsLastOf(host, ls, Host, n) /\ IsLastOf(etag, ls, IfNoneMatch, n)
    BY <1>3
  <2>2. n \in Nat /\ n + 1 \in 1..Len(ls) /\ n + 1 \in Nat
    BY <1>1
  <2>3. ls[n + 1] \in HeaderLines
    BY <2>2, ElementOfSeq
  <2> DEFINE h == IF Matches(ls[n + 1], Host) THEN ls[n + 1].value ELSE host
             e == IF Matches(ls[n + 1], IfNoneMatch) THEN ls[n + 1].value ELSE etag
             g == [i \in 0..(n + 1) |->
                     IF i = n + 1 THEN DispatchHdr(f[n], ls[n + 1]) ELSE f[i]]
  <2>4. IsLastOf(h, ls, Host, n + 1) /\ IsLastOf(e, ls, IfNoneMatch, n + 1)
    BY <2>1, <2>2, LastMoves
  <2>5. g[n + 1] = Fields(h, e)
    <3>1. g[n + 1] = DispatchHdr(f[n], ls[n + 1])
      BY <2>2
    <3> QED BY <2>1, <2>3, <3>1, DispatchStores
  <2>6. ASSUME NEW i \in 0..(n + 1)
        PROVE  g[i] = IF i = 0 THEN NoRequest ELSE DispatchHdr(g[i - 1], ls[i])
    <3>1. CASE i = n + 1
      <4>1. i # 0 /\ i - 1 = n /\ n \in 0..(n + 1) /\ n # n + 1
        BY <3>1
      <4>2. g[i - 1] = f[n] /\ g[i] = DispatchHdr(f[n], ls[n + 1])
        BY <3>1, <4>1
      <4> QED BY <3>1, <4>1, <4>2
    <3>2. CASE i # n + 1
      <4>1. i \in 0..n /\ g[i] = f[i]
        BY <3>2
      <4>2. CASE i = 0
        BY <2>1, <4>1, <4>2 DEF Reads
      <4>3. CASE i # 0
        <5>1. i - 1 \in 0..(n + 1) /\ i - 1 # n + 1
          BY <4>1, <4>3
        <5>2. g[i - 1] = f[i - 1]
          BY <5>1
        <5>3. f[i] = DispatchHdr(f[i - 1], ls[i])
          BY <2>1, <4>1, <4>3 DEF Reads
        <5> QED BY <4>1, <4>3, <5>2, <5>3
      <4> QED BY <4>2, <4>3
    <3> QED BY <3>1, <3>2
  <2>7. g = [i \in 0..(n + 1) |-> g[i]]
    OBVIOUS
  <2> HIDE DEF g, h, e
  <2>8. Reads(g, ls, n + 1)
    BY <2>6, <2>7 DEF Reads
  <2>9. Good(n + 1)
    BY <2>4, <2>5, <2>8
  <2> QED BY <2>2, <2>9
<1>4. \A n \in 0..Len(ls) : n \in S
  <2> HIDE DEF S
  <2> QED BY <1>1, <1>2, <1>3, Climb
<1>5. Len(ls) \in S
  BY <1>1, <1>4
<1> QED BY <1>5

\* A recursive definition has but one solution.
LEMMA OneReading ==
    ASSUME NEW ls, NEW n \in Nat, NEW f, Reads(f, ls, n), NEW g, Reads(g, ls, n)
    PROVE  f[n] = g[n]
<1> DEFINE S == {i \in Nat : f[i] = g[i]}
<1>1. 0 \in S
  BY DEF Reads
<1>2. ASSUME NEW i \in 0..(n - 1), i \in S PROVE i + 1 \in S
  <2>1. i + 1 \in 0..n /\ i + 1 # 0 /\ (i + 1) - 1 = i /\ i + 1 \in Nat
    OBVIOUS
  <2>2. f[i + 1] = DispatchHdr(f[i], ls[i + 1]) /\ g[i + 1] = DispatchHdr(g[i], ls[i + 1])
    BY <2>1 DEF Reads
  <2> QED BY <1>2, <2>1, <2>2
<1>3. \A i \in 0..n : i \in S
  <2> HIDE DEF S
  <2> QED BY <1>1, <1>2, Climb
<1> QED BY <1>3

\* The request that http_req() makes of the lines.
LEMMA RequestIs ==
    ASSUME NEW ls \in Seq(HeaderLines), NEW r, r = HttpRequest(ls)
    PROVE  /\ IsLastOf(r.host, ls, Host, Len(ls))
           /\ IsLastOf(r.etag, ls, IfNoneMatch, Len(ls))
           /\ r.content_len = 0 /\ r.conn_close = FALSE
<1>1. PICK g, host, etag :
         /\ Reads(g, ls, Len(ls)) /\ g[Len(ls)] = Fields(host, etag)
         /\ IsLastOf(host, ls, Host, Len(ls))
         /\ IsLastOf(etag, ls, IfNoneMatch, Len(ls))
  BY LinesRead
<1> DEFINE f == CHOOSE f : Reads(f, ls, Len(ls))
<1>2. Len(ls) \in Nat
  BY LenProperties
<1>3. Reads(f, ls, Len(ls))
  BY <1>1, Zenon
<1>4. HttpRequest(ls) =
         [host |-> f[Len(ls)].host, etag |-> f[Len(ls)].etag,
          content_len |-> IF f[Len(ls)].clen > 0 THEN f[Len(ls)].clen ELSE 0,
          conn_close |-> VcasecmpFast(f[Len(ls)].connection, CloseToken) = 0]
  BY DEF HttpRequest, Reads
<1> HIDE DEF f
<1>5. f[Len(ls)] = Fields(host, etag)
  BY <1>1, <1>2, <1>3, OneReading
<1>6. /\ Fields(host, etag).host = host /\ Fields(host, etag).etag = etag
      /\ Fields(host, etag).clen = -1 /\ Fields(host, etag).connection = NoText
  BY DEF Fields
<1>7. VcasecmpFast(NoText, CloseToken) # 0
  BY DEF VcasecmpFast, NoText, CloseToken, Name
<1>8. r.host = host /\ r.etag = etag /\ r.content_len = 0
  BY <1>4, <1>5, <1>6
<1>9. r.conn_close = FALSE
  <2> DEFINE closes == VcasecmpFast(f[Len(ls)].connection, CloseToken) = 0
  <2>1. closes = FALSE
    BY <1>5, <1>6, <1>7, Zenon
  <2>2. HttpRequest(ls) =
           [host |-> f[Len(ls)].host, etag |-> f[Len(ls)].etag,
            content_len |-> IF f[Len(ls)].clen > 0 THEN f[Len(ls)].clen ELSE 0,
            conn_close |-> closes]
    BY <1>4
  <2> HIDE DEF closes
  <2>3. HttpRequest(ls) =
           [host |-> f[Len(ls)].host, etag |-> f[Len(ls)].etag,
            content_len |-> IF f[Len(ls)].clen > 0 THEN f[Len(ls)].clen ELSE 0,
            conn_close |-> FALSE]
    BY <2>1, <2>2, Zenon
  <2> QED BY <2>3
<1> QED BY <1>1, <1>8, <1>9

\* The buffer, the header lines, and the request made of them.
ReqInv == ParseInv /\ lines \in Seq(HeaderLines) /\ req = HttpRequest(lines)

\* The last line of a name, found from the end or from the beginning.
LEMMA LastIs ==
    ASSUME lines \in Seq(HeaderLines), NEW name, NEW v,
           IsLastOf(v, lines, name, Len(lines))
    PROVE  LastOf(name) = v
<1> DEFINE I == {i \in 1..Len(lines) : Matches(lines[i], name)}
           last == IF I # {} THEN Max(I) ELSE 0
<1>1. Len(lines) \in Nat
  BY LenProperties
<1>2. LastOf(name) = IF last = 0 THEN NoText ELSE lines[last].value
  BY DEF LastOf, SelectLastInSeq, Matches
<1>3. CASE v = NoText /\ \A y \in 1..Len(lines) : ~Matches(lines[y], name)
  <2>1. I = {}
    BY <1>3
  <2> QED BY <1>2, <1>3, <2>1
<1>4. ASSUME NEW x \in 1..Len(lines), Matches(lines[x], name), v = lines[x].value,
             \A y \in (x + 1)..Len(lines) : ~Matches(lines[y], name)
      PROVE  LastOf(name) = v
  <2>1. x \in I /\ \A y \in I : x >= y
    <3> SUFFICES ASSUME NEW y \in I PROVE x >= y
      BY <1>4
    <3>1. y \in 1..Len(lines) /\ y \notin (x + 1)..Len(lines)
      BY <1>4
    <3> QED BY <1>1, <3>1
  <2>2. I \in SUBSET Nat
    BY <1>1
  <2> HIDE DEF I
  <2>3. Max(I) \in I /\ \A y \in I : Max(I) >= y
    <3>1. \E z \in I : \A y \in I : z >= y
      BY <2>1
    <3> QED BY <3>1 DEF Max
  <2>4. Max(I) \in Nat /\ x \in Nat /\ Max(I) >= x /\ x >= Max(I)
    BY <2>1, <2>2, <2>3
  <2>5. Max(I) = x
    BY <2>4
  <2>6. last = x /\ x # 0
    BY <2>1, <2>5
  <2> QED BY <1>2, <1>4, <2>6
<1> QED BY <1>3, <1>4 DEF IsLastOf

\* The steps of ReqSpec are steps of Spec.
LEMMA ReqSteps ==
    /\ ReqInit => Init
    /\ [ReqNext]_<<pvars, reqVars>> => [Next]_pvars
BY DEF ReqInit, ReqNext, Request, Batch, Next

\* What holds of http_parse.c and its buffer holds in the composition with
\* http_req() too, whatever is made of the requests that are taken from it.
THEOREM RequestsAreParsed ==
    ReqSpec => [](IncrementalExact /\ ParsersAgree /\ DecodeBounded)
<1>1. ReqSpec => Spec
  BY ReqSteps, PTL DEF ReqSpec, Spec
<1> QED BY <1>1, IncrementalIsExact, ParsersDoAgree, DecodeIsBounded, PTL

\* The struct that http_req() fills is at all times the one made of the header
\* lines of the request, next to a buffer that satisfies ParseInv.
THEOREM ReqInductive == ReqSpec => []ReqInv
<1>1. ReqInit => ReqInv
  <2> SUFFICES ASSUME ReqInit PROVE ReqInv
    OBVIOUS
  <2>1. buf \in Seq(Bytes) /\ Len(buf) = 0 /\ rptr = 0 /\ rstate = "INITIAL"
    BY EmptySeq DEF ReqInit, Init
  <2>2. Searching(rstate, rptr, buf)
    BY <2>1, SearchBegins
  <2>3. ParseInv
    BY <2>1, <2>2 DEF ParseInv
  <2>4. lines \in Seq(HeaderLines) /\ req = HttpRequest(lines)
    BY EmptySeq DEF ReqInit
  <2> QED BY <2>3, <2>4 DEF ReqInv
<1>2. ReqInv /\ [ReqNext]_<<pvars, reqVars>> => ReqInv'
  <2> SUFFICES ASSUME ReqInv, [ReqNext]_<<pvars, reqVars>> PROVE ReqInv'
    OBVIOUS
  <2>1. CASE Request
    <3>1. ParseInv'
      BY <2>1, NextRequestKeeps DEF ReqInv, Request
    <3>2. Decode(buf).hdrs \in Seq(Nat \X Nat)
      BY DecodeInBounds DEF ReqInv, ParseInv
    <3> DEFINE n == Len(Decode(buf).hdrs)
    <3>3. n \in Nat
      BY <3>2, LenProperties
    <3>4. PICK ls \in [1..n -> HeaderLines] : lines' = ls /\ req' = HttpRequest(ls)
      BY <2>1 DEF Request
    <3> HIDE DEF n
    <3>5. ls \in Seq(HeaderLines)
      BY <3>3, <3>4
    <3> QED BY <3>1, <3>4, <3>5 DEF ReqInv
  <2>2. ASSUME NEW p \in Pieces, Batch(p) PROVE ReqInv'
    <3>1. ParseInv'
      BY <2>2, ReceiveKeeps DEF ReqInv, Batch
    <3>2. lines' \in Seq(HeaderLines) /\ req' = HttpRequest(lines')
      BY <2>2, EmptySeq DEF Batch
    <3> QED BY <3>1, <3>2 DEF ReqInv
  <2>3. CASE UNCHANGED <<pvars, reqVars>>
    BY <2>3 DEF ReqInv, ParseInv, pvars, reqVars
  <2> QED BY <2>1, <2>2, <2>3 DEF ReqNext
<1> QED BY <1>1, <1>2, PTL DEF ReqSpec

\* What is found in the lines.
LEMMA FieldsFound ==
    ASSUME ReqInv
    PROVE  /\ FieldsExact
           /\ req.etag = LastOf(IfNoneMatch)
           /\ req.etag.tag # <<>> => req.etag.len = Len(req.etag.tag)
<1>1. lines \in Seq(HeaderLines) /\ req = HttpRequest(lines)
  BY DEF ReqInv
<1>2. /\ IsLastOf(req.host, lines, Host, Len(lines))
      /\ IsLastOf(req.etag, lines, IfNoneMatch, Len(lines))
      /\ req.content_len = 0 /\ req.conn_close = FALSE
  BY <1>1, RequestIs
<1>3. req.host = LastOf(Host) /\ req.etag = LastOf(IfNoneMatch)
  BY <1>1, <1>2, LastIs
<1>4. FieldsExact
  BY <1>2, <1>3 DEF FieldsExact
<1>5. req.etag.tag # <<>> => req.etag.len = Len(req.etag.tag)
  <2>1. CASE req.etag = NoText
    BY <2>1 DEF NoText
  <2>2. ASSUME NEW x \in 1..Len(lines), req.etag = lines[x].value
        PROVE  req.etag.tag # <<>> => req.etag.len = Len(req.etag.tag)
    <3>1. lines[x] \in HeaderLines
      BY <1>1, ElementOfSeq
    <3> QED BY <2>2, <3>1, LineAssumption
  <2> QED BY <1>2, <2>1, <2>2 DEF IsLastOf
<1> QED BY <1>3, <1>4, <1>5

\* The host and the validator of a request are those of the last lines of
\* these names, though the table dispatch_hdr() searches is not in the order of
\* the search, and no line is taken for another.
THEOREM FieldsAreExact == ReqSpec => []FieldsExact
<1>1. ReqInv => FieldsExact
  BY FieldsFound
<1> QED BY <1>1, ReqInductive, PTL

\* A client that names the tag of the contents it has is told 304, and only
\* such a client, but for nibbles 0 and 10, which print_etag() prints alike.
THEOREM RevalidatesExactly == ReqSpec => []Revalidated
<1>1. ReqInv => Revalidated
  <2> SUFFICES ASSUME ReqInv, NEW digest \in Digests
               PROVE  LET copies == {d \in Digests :
                                       PrintEtag(d) = LastOf(IfNoneMatch).tag} IN
                      /\ digest \in copies => NotModified(req, digest)
                      /\ NotModified(req, digest) =>
                            /\ copies # {}
                            /\ \A d \in copies, i \in 1..EtagLen :
                                  d[i] = digest[i] \/ {d[i], digest[i]} = {0, 10}
    BY DEF Revalidated
  <2> DEFINE tag == req.etag.tag
  <2>1. /\ LastOf(IfNoneMatch).tag = tag
        /\ tag # <<>> => req.etag.len = Len(tag)
    BY FieldsFound
  <2>2. /\ EtagLen \in Nat \ {0}
        /\ \A d \in Digests : d \in Seq(0..15) /\ Len(d) = EtagLen
                              /\ DOMAIN d = 1..EtagLen
    BY DigestAssumption, LenProperties
  <2>3. ASSUME PrintEtag(digest) = tag PROVE NotModified(req, digest)
    <3>1. PrintEtag(digest) \in [1..EtagLen -> 0..15]
      BY <2>2 DEF PrintEtag
    <3>2. tag \in Seq(0..15) /\ Len(tag) = EtagLen
      BY <2>2, <2>3, <3>1
    <3>3. tag # <<>>
      BY <2>2, <3>2
    <3> QED BY <2>1, <2>3, <3>2, <3>3 DEF NotModified
  <2>4. ASSUME NotModified(req, digest), NEW d \in Digests, PrintEtag(d) = tag,
               NEW i \in 1..EtagLen
        PROVE  d[i] = digest[i] \/ {d[i], digest[i]} = {0, 10}
    <3>1. PrintEtag(d)[i] = PrintEtag(digest)[i]
      BY <2>4 DEF NotModified
    <3>2. (IF d[i] = 10 THEN 0 ELSE d[i]) = (IF digest[i] = 10 THEN 0 ELSE digest[i])
      BY <2>2, <3>1 DEF PrintEtag
    <3> QED BY <3>2
  <2>5. NotModified(req, digest) => PrintEtag(digest) = tag
    BY DEF NotModified
  <2> HIDE DEF tag
  <2> QED BY <2>1, <2>3, <2>4, <2>5
<1> QED BY <1>1, ReqInductive, PTL

=============================================================================
