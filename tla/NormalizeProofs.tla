-------------------------- MODULE NormalizeProofs ---------------------------
(***************************************************************************)
(* That what normalisation accepts has the form of the URIs in a web root,  *)
(* that paths are resolved as walking them would, and that the escaped URI  *)
(* of an object is normalised to the URI: for every URI a client may        *)
(* compose of any pieces, and any outcome of n_ucs4() for a stray byte.     *)
(*                                                                         *)
(* There is one argument for each loop: what is left after a turn follows   *)
(* from what was left before it (the lemmas named ...Turn), so it holds     *)
(* after the last (Climb, on the Trace of the loop).  NormalForm needs that *)
(* components put together are grabbed again (JoinComponents), Resolved     *)
(* that what the loop that strips the dots has kept are the names that the  *)
(* walk has not taken back (Walked, of which there is one at each depth),   *)
(* and RoundTrip that each loop leaves what needs no change as it is        *)
(* (Unescaped, Utf8Same, PcountSame, StripSame, JoinSame).                  *)
(***************************************************************************)
EXTENDS Normalize, FiniteSetTheorems, SequenceTheorems, TLAPS

-----------------------------------------------------------------------------
(* Strings. *)

\* The bytes before the first b: all of them if there is no b.
LEMMA BeforeSeq ==
    ASSUME NEW X, NEW s \in Seq(X), NEW b
    PROVE  /\ Before(s, b) \in Seq(X)
           /\ (\A i \in 1..Len(s) : s[i] # b) => Before(s, b) = s
<1> DEFINE I == {i \in 1..Len(s) : s[i] = b}
           k == SelectInSeq(s, LAMBDA x : x = b)
<1>1. k = IF I # {} THEN Min(I) ELSE 0
  BY DEF SelectInSeq
<1>2. Before(s, b) = IF k = 0 THEN s ELSE SubSeq(s, 1, k - 1)
  BY DEF Before
<1>3. CASE I = {}
  BY <1>1, <1>2, <1>3
<1>4. CASE I # {}
  <2>1. I \in SUBSET Nat
    OBVIOUS
  <2>2. \E m \in I : \A n \in I : m <= n
    <3> HIDE DEF I
    <3> QED BY <1>4, <2>1, Grab!LeastMember
  <2>3. Min(I) \in I
    BY <2>2 DEF Min
  <2>4. k \in 1..Len(s) /\ s[k] = b
    BY <1>1, <1>4, <2>3
  <2> HIDE DEF k
  <2>5. SubSeq(s, 1, k - 1) \in Seq(X)
    BY <2>4
  <2> QED BY <1>2, <2>4, <2>5
<1> QED BY <1>3, <1>4

\* The first n members of a sequence.
LEMMA Taken ==
    ASSUME NEW X, NEW s \in Seq(X), NEW n \in 0..Len(s)
    PROVE  /\ SubSeq(s, 1, n) \in Seq(X) /\ Len(SubSeq(s, 1, n)) = n
           /\ \A i \in 1..n : SubSeq(s, 1, n)[i] = s[i]
<1>1. \A i \in 1..n : s[i] \in X
  OBVIOUS
<1> QED BY <1>1, SubSeqProperties

\* Taking one more member, and taking them all.
LEMMA TakenMore ==
    ASSUME NEW X, NEW s \in Seq(X)
    PROVE  /\ SubSeq(s, 1, 0) = <<>> /\ SubSeq(s, 1, Len(s)) = s
           /\ \A n \in 0..(Len(s) - 1) :
                 SubSeq(s, 1, n + 1) = Append(SubSeq(s, 1, n), s[n + 1])
<1>1. SubSeq(s, 1, 0) = <<>>
  BY SubSeqEmpty
<1>2. SubSeq(s, 1, Len(s)) = s
  BY SubSeqFull
<1>3. ASSUME NEW n \in 0..(Len(s) - 1)
      PROVE  SubSeq(s, 1, n + 1) = Append(SubSeq(s, 1, n), s[n + 1])
  <2>1. n \in 0..Len(s) /\ n + 1 \in 0..Len(s) /\ s[n + 1] \in X
    OBVIOUS
  <2> DEFINE t == SubSeq(s, 1, n)
             u == SubSeq(s, 1, n + 1)
  <2>2. t \in Seq(X) /\ Len(t) = n /\ \A i \in 1..n : t[i] = s[i]
    BY <2>1, Taken
  <2>3. u \in Seq(X) /\ Len(u) = n + 1 /\ \A i \in 1..(n + 1) : u[i] = s[i]
    BY <2>1, Taken
  <2> HIDE DEF t, u
  <2>4. /\ Append(t, s[n + 1]) \in Seq(X) /\ Len(Append(t, s[n + 1])) = n + 1
        /\ \A i \in 1..(n + 1) : Append(t, s[n + 1])[i] = s[i]
    BY <2>1, <2>2
  <2>5. u = Append(t, s[n + 1])
    BY <2>3, <2>4, SeqEqual
  <2> QED BY <2>5 DEF t, u
<1> QED BY <1>1, <1>2, <1>3

\* What is left when a loop stops early is a string.
LEMMA HalfSeq ==
    ASSUME NEW X, NEW out \in Seq(X), NEW buf \in Seq(X)
    PROVE  HalfWritten(out, buf) \in Seq(X)
<1>1. SubSeq(buf, Len(out) + 1, Len(buf)) \in Seq(X)
  OBVIOUS
<1> QED BY <1>1 DEF HalfWritten

-----------------------------------------------------------------------------
(* Decoding leaves a string. *)

HexState == [ok : BOOLEAN, state : {0, 1}, out : Seq(Byte),
             hbuf : {<<>>} \cup {<<c>> : c \in DOMAIN HexChar}]

\* Two digits are a byte.
LEMMA HexValue ==
    /\ DOMAIN HexChar \subseteq Byte
    /\ \A c \in DOMAIN HexChar : HexChar[c] \in 0..15
BY DEF HexChar, Byte

\* The assignments in n_hex()
LEMMA HexAssign ==
    ASSUME NEW s \in HexState
    PROVE  /\ [s EXCEPT !.ok = FALSE] \in HexState
           /\ [s EXCEPT !.state = 1, !.hbuf = <<>>] \in HexState
           /\ \A c \in Byte : [s EXCEPT !.out = Append(@, c)] \in HexState
           /\ \A c \in DOMAIN HexChar : [s EXCEPT !.hbuf = <<c>>] \in HexState
           /\ \A c \in Byte : [s EXCEPT !.state = 0, !.out = Append(@, c)] \in HexState
<1> DEFINE D == DOMAIN HexChar
           H == {<<>>} \cup {<<c>> : c \in D}
<1>1. HexState = [ok : BOOLEAN, state : {0, 1}, out : Seq(Byte), hbuf : H]
  BY DEF HexState
<1>2. <<>> \in H /\ \A c \in D : <<c>> \in H
  OBVIOUS
<1>3. \A out \in Seq(Byte), c \in Byte : Append(out, c) \in Seq(Byte)
  OBVIOUS
<1>4. s.out \in Seq(Byte)
  BY <1>1
<1> HIDE DEF H, D
<1>5. \A c \in Byte : Append(s.out, c) \in Seq(Byte)
  BY <1>3, <1>4
<1>6. [s EXCEPT !.ok = FALSE] \in HexState
  BY <1>1
<1>7. [s EXCEPT !.state = 1, !.hbuf = <<>>] \in HexState
  BY <1>1, <1>2
<1>8. ASSUME NEW t \in Seq(Byte)
      PROVE  /\ [s EXCEPT !.out = t] \in HexState
             /\ [s EXCEPT !.state = 0, !.out = t] \in HexState
  BY <1>1
<1>9. ASSUME NEW t \in H PROVE [s EXCEPT !.hbuf = t] \in HexState
  BY <1>1
<1> QED BY <1>2, <1>5, <1>6, <1>7, <1>8, <1>9 DEF D

\* A turn of n_hex()
LEMMA HexTurn ==
    ASSUME NEW s \in HexState, NEW c \in Byte
    PROVE  HexStep(s, c) \in HexState
<1>1. /\ s.ok \in BOOLEAN /\ s.state \in {0, 1}
      /\ s.hbuf \in {<<>>} \cup {<<x>> : x \in DOMAIN HexChar}
  BY DEF HexState
<1>2. CASE s.ok = FALSE
  BY <1>2 DEF HexStep
<1>3. CASE s.ok = TRUE /\ s.state = 0
  BY <1>3, HexAssign DEF HexStep
<1>4. CASE s.ok = TRUE /\ s.state = 1 /\ c \notin DOMAIN HexChar
  <2>1. HexStep(s, c) = [s EXCEPT !.ok = FALSE]
    BY <1>4 DEF HexStep
  <2> QED BY <2>1, HexAssign
<1>5. CASE s.ok = TRUE /\ s.state = 1 /\ c \in DOMAIN HexChar /\ s.hbuf = <<>>
  <2>1. HexStep(s, c) = [s EXCEPT !.hbuf = <<c>>]
    BY <1>5 DEF HexStep
  <2> QED BY <1>5, <2>1, HexAssign
<1>6. CASE s.ok = TRUE /\ s.state = 1 /\ c \in DOMAIN HexChar /\ s.hbuf # <<>>
  <2>1. PICK x \in DOMAIN HexChar : s.hbuf = <<x>>
    BY <1>1, <1>6
  <2> DEFINE d1 == HexChar[x] * 16 + HexChar[c]
  <2>2. d1 \in 0..255
    <3>1. HexChar[x] \in 0..15 /\ HexChar[c] \in 0..15
      BY <1>6, HexValue
    <3>2. \A a, b \in 0..15 : a * 16 + b \in 0..255
      OBVIOUS
    <3> QED BY <3>1, <3>2
  <2> HIDE DEF d1
  <2>3. HexStep(s, c) = IF d1 = 0 THEN [s EXCEPT !.ok = FALSE]
                        ELSE [s EXCEPT !.state = 0, !.out = Append(@, d1)]
    BY <1>6, <2>1 DEF HexStep, d1
  <2>4. d1 # 0 => d1 \in Byte
    BY <2>2 DEF Byte
  <2> QED BY <2>3, <2>4, HexAssign
<1> QED BY <1>1, <1>2, <1>3, <1>4, <1>5, <1>6

\* n_hex()
LEMMA HexSeq ==
    ASSUME NEW s \in Seq(Byte)
    PROVE  NHex(s).str \in Seq(Byte)
<1> DEFINE start == [ok |-> TRUE, state |-> 0, hbuf |-> <<>>, out |-> <<>>]
           r == Hex!After(start, s)
<1>1. start \in HexState
  BY DEF HexState
<1>2. PICK f : Hex!Trace(f, start, s)
  BY Hex!LoopRuns
<1> HIDE DEF start
<1> DEFINE S == {n \in Nat : f[n] \in HexState}
<1>3. 0 \in S
  BY <1>1, <1>2 DEF Hex!Trace
<1>4. \A n \in 0..(Len(s) - 1) : n \in S => n + 1 \in S
  <2> SUFFICES ASSUME NEW n \in 0..(Len(s) - 1), n \in S PROVE n + 1 \in S
    OBVIOUS
  <2>1. n + 1 \in 1..Len(s) /\ (n + 1) - 1 = n /\ s[n + 1] \in Byte
    OBVIOUS
  <2>2. f[n + 1] = HexStep(f[n], s[n + 1])
    BY <1>2, <2>1 DEF Hex!Trace
  <2> QED BY <2>1, <2>2, HexTurn
<1>5. \A n \in 0..Len(s) : n \in S
  <2>1. Len(s) \in Nat
    OBVIOUS
  <2> HIDE DEF S
  <2> QED BY <1>3, <1>4, <2>1, Hex!Climb
<1>6. r \in HexState
  BY <1>2, <1>5 DEF Hex!Trace
<1>7. NHex(s) = IF r.ok /\ r.state = 0 THEN [ok |-> TRUE, str |-> r.out]
                ELSE [ok |-> FALSE, str |-> HalfWritten(r.out, s)]
  BY DEF NHex, start
<1> HIDE DEF r
<1>8. r.out \in Seq(Byte)
  BY <1>6 DEF HexState
<1>9. HalfWritten(r.out, s) \in Seq(Byte)
  BY <1>8, HalfSeq
<1> QED BY <1>7, <1>8, <1>9

\* What n_utf8() may write: a byte, or what a sequence comes to.
Chars == 0..255 \cup {NUcs4(chr) : chr \in Seq(Byte)}

Utf8State == {s \in [chr : Seq(Byte), out : Seq(Chars)] : s.chr # <<>> => s.chr[1] >= 128}

\* The length that the first byte of a sequence says.
LEMMA SequenceLen ==
    ASSUME NEW b \in Byte
    PROVE  Utf8Len(b) \in 1..7 /\ (Utf8Len(b) = 1 <=> b < 192)
BY DEF Utf8Len, Byte

\* What is written for a sequence is a string.
LEMMA CharSeq ==
    ASSUME NEW chr \in Seq(Byte), chr # <<>>, chr[1] >= 128
    PROVE  Utf8Char(chr) \in Seq(Chars)
<1>1. PICK b \in Byte : b = chr[1]
  OBVIOUS
<1>2. b >= 128
  BY <1>1
<1>3. Utf8Char(chr) = IF Utf8Len(b) = 1 THEN <<Stray[b]>>
                      ELSE IF NUcs4(chr) > 255 THEN chr ELSE <<NUcs4(chr)>>
  BY <1>1 DEF Utf8Char
<1>4. Utf8Len(b) = 1 => Stray[b] \in Chars
  <2>1. Utf8Len(b) = 1 => b \in 128..191
    <3>1. Utf8Len(b) = 1 <=> b < 192
      BY SequenceLen
    <3> HIDE <1>1, <1>3
    <3> QED BY <1>2, <3>1 DEF Byte
  <2>2. \A x \in 128..191 : Stray[x] \in 0..255
    BY StrayAssumption
  <2> QED BY <2>1, <2>2 DEF Chars
<1>5. NUcs4(chr) \in Chars
  BY DEF Chars
<1>6. chr \in Seq(Chars)
  <2>1. Byte \subseteq Chars
    BY DEF Byte, Chars
  <2> QED BY <2>1
<1>7. \A x \in Chars : <<x>> \in Seq(Chars)
  OBVIOUS
<1> QED BY <1>3, <1>4, <1>5, <1>6, <1>7

\* A turn of n_utf8()
LEMMA Utf8Turn ==
    ASSUME NEW s \in Utf8State, NEW b \in Byte
    PROVE  Utf8Step(s, b) \in Utf8State
<1>1. /\ s.chr \in Seq(Byte) /\ s.out \in Seq(Chars)
      /\ s.chr # <<>> => s.chr[1] >= 128
      /\ s = [chr |-> s.chr, out |-> s.out]
  BY DEF Utf8State
<1>2. \A chr \in Seq(Byte), out \in Seq(Chars) :
         (chr # <<>> => chr[1] >= 128) => [chr |-> chr, out |-> out] \in Utf8State
  BY DEF Utf8State
<1>3. CASE s.chr = <<>> /\ b >= 128
  <2>1. Utf8Step(s, b) = [chr |-> <<b>>, out |-> s.out]
    BY <1>1, <1>3 DEF Utf8Step
  <2>2. <<b>> \in Seq(Byte) /\ <<b>>[1] >= 128
    BY <1>3
  <2> QED BY <1>1, <1>2, <2>1, <2>2
<1>4. CASE s.chr = <<>> /\ ~(b >= 128)
  <2>1. Utf8Step(s, b) = [chr |-> <<>>, out |-> Append(s.out, b)]
    BY <1>1, <1>4 DEF Utf8Step
  <2>2. b \in Chars
    BY DEF Chars, Byte
  <2>3. Append(s.out, b) \in Seq(Chars) /\ <<>> \in Seq(Byte)
    BY <1>1, <2>2
  <2> QED BY <1>2, <2>1, <2>3
<1>5. CASE s.chr # <<>>
  <2> DEFINE chr == Append(s.chr, b)
  <2>1. chr \in Seq(Byte) /\ chr # <<>> /\ chr[1] = s.chr[1]
    BY <1>1, <1>5
  <2> HIDE DEF chr
  <2>2. Utf8Char(chr) \in Seq(Chars)
    BY <1>1, <1>5, <2>1, CharSeq
  <2>3. s.out \o Utf8Char(chr) \in Seq(Chars) /\ <<>> \in Seq(Byte)
    BY <1>1, <2>2
  <2>4. Utf8Step(s, b) = IF Len(chr) < Utf8Len(chr[1]) THEN [chr |-> chr, out |-> s.out]
                         ELSE [chr |-> <<>>, out |-> s.out \o Utf8Char(chr)]
    <3>1. Utf8Step(s, b) = IF Len(chr) < Utf8Len(chr[1]) THEN [s EXCEPT !.chr = chr]
                           ELSE [chr |-> <<>>, out |-> s.out \o Utf8Char(chr)]
      BY <1>5 DEF Utf8Step, chr
    <3>2. [s EXCEPT !.chr = chr] = [chr |-> chr, out |-> s.out]
      BY <1>1
    <3> QED BY <3>1, <3>2
  <2> QED BY <1>1, <1>2, <1>5, <2>1, <2>3, <2>4
<1> QED BY <1>3, <1>4, <1>5

\* n_utf8()
LEMMA Utf8Seq ==
    ASSUME NEW s \in Seq(Byte)
    PROVE  NUtf8(s).str \in Seq(Chars)
<1> DEFINE start == [chr |-> <<>>, out |-> <<>>]
           r == Utf8!After(start, s)
<1>1. start \in Utf8State
  BY DEF Utf8State
<1>2. PICK f : Utf8!Trace(f, start, s)
  BY Utf8!LoopRuns
<1> HIDE DEF start
<1> DEFINE S == {n \in Nat : f[n] \in Utf8State}
<1>3. 0 \in S
  BY <1>1, <1>2 DEF Utf8!Trace
<1>4. \A n \in 0..(Len(s) - 1) : n \in S => n + 1 \in S
  <2> SUFFICES ASSUME NEW n \in 0..(Len(s) - 1), n \in S PROVE n + 1 \in S
    OBVIOUS
  <2>1. n + 1 \in 1..Len(s) /\ (n + 1) - 1 = n /\ s[n + 1] \in Byte
    OBVIOUS
  <2>2. f[n + 1] = Utf8Step(f[n], s[n + 1])
    BY <1>2, <2>1 DEF Utf8!Trace
  <2> QED BY <2>1, <2>2, Utf8Turn
<1>5. \A n \in 0..Len(s) : n \in S
  <2>1. Len(s) \in Nat
    OBVIOUS
  <2> HIDE DEF S
  <2> QED BY <1>3, <1>4, <2>1, Utf8!Climb
<1>6. r \in Utf8State
  BY <1>2, <1>5 DEF Utf8!Trace
<1>7. NUtf8(s).str = CString(IF r.chr = <<>> THEN r.out ELSE HalfWritten(r.out, s))
  BY DEF NUtf8, start
<1> HIDE DEF r
<1>8. r.out \in Seq(Chars)
  BY <1>6 DEF Utf8State
<1>9. s \in Seq(Chars)
  <2>1. Byte \subseteq Chars
    BY DEF Byte, Chars
  <2> QED BY <2>1
<1>10. HalfWritten(r.out, s) \in Seq(Chars)
  BY <1>8, <1>9, HalfSeq
<1> QED BY <1>7, <1>8, <1>10, BeforeSeq DEF CString

-----------------------------------------------------------------------------
(* n_path(), for a string of any characters X. *)

\* No backslash, and no two slashes together.
Clean(p) ==
    /\ \A i \in 1..Len(p) : p[i] # Backslash
    /\ \A i \in 1..(Len(p) - 1) : ~(p[i] = Slash /\ p[i + 1] = Slash)

\* n_pcount() leaves no backslash, and of several slashes one.
LEMMA PcountClean ==
    ASSUME NEW X, Slash \in X, NEW s \in Seq(X)
    PROVE  NPcount(s) \in Seq(X) /\ Clean(NPcount(s))
<1>1. PICK f : Pcount!Trace(f, <<>>, s)
  BY Pcount!LoopRuns
<1> DEFINE S == {n \in Nat : f[n] \in Seq(X) /\ Clean(f[n])}
<1>2. 0 \in S
  <2>1. f[0] = <<>>
    BY <1>1 DEF Pcount!Trace
  <2>2. <<>> \in Seq(X) /\ Clean(<<>>)
    BY DEF Clean
  <2> QED BY <2>1, <2>2
<1>3. ASSUME NEW out \in Seq(X), Clean(out), NEW b \in X
      PROVE  PcountStep(out, b) \in Seq(X) /\ Clean(PcountStep(out, b))
  <2> DEFINE c == IF b = Backslash THEN Slash ELSE b
  <2>1. c \in X /\ c # Backslash
    BY DEF Slash, Backslash
  <2>2. PcountStep(out, b) = IF c = Slash /\ out # <<>> /\ Last(out) = Slash THEN out
                             ELSE Append(out, c)
    BY DEF PcountStep
  <2> HIDE DEF c
  <2>3. CASE c = Slash /\ out # <<>> /\ Last(out) = Slash
    BY <1>3, <2>2, <2>3
  <2>4. CASE ~(c = Slash /\ out # <<>> /\ Last(out) = Slash)
    <3>1. PcountStep(out, b) = Append(out, c) /\ Append(out, c) \in Seq(X)
      BY <2>1, <2>2, <2>4
    <3>2. Clean(Append(out, c))
      <4> DEFINE p == Append(out, c)
      <4>1. /\ Len(p) = Len(out) + 1 /\ p[Len(out) + 1] = c /\ Len(out) \in Nat
            /\ \A i \in 1..Len(out) : p[i] = out[i]
        OBVIOUS
      <4>2. Len(out) > 0 => ~(out[Len(out)] = Slash /\ c = Slash)
        BY <2>4 DEF Last
      <4> HIDE DEF p
      <4>3. \A i \in 1..Len(p) : p[i] # Backslash
        <5>1. \A i \in 1..Len(p) : i \in 1..Len(out) \/ i = Len(out) + 1
          BY <4>1
        <5> QED BY <1>3, <2>1, <4>1, <5>1 DEF Clean
      <4>4. ASSUME NEW i \in 1..(Len(p) - 1) PROVE ~(p[i] = Slash /\ p[i + 1] = Slash)
        <5>1. CASE i = Len(out)
          BY <4>1, <4>2, <5>1
        <5>2. CASE i # Len(out)
          <6>1. i \in 1..(Len(out) - 1) /\ i \in 1..Len(out) /\ i + 1 \in 1..Len(out)
            BY <4>1, <5>2
          <6> QED BY <1>3, <4>1, <6>1 DEF Clean
        <5> QED BY <5>1, <5>2
      <4> QED BY <4>3, <4>4 DEF Clean, p
    <3> QED BY <3>1, <3>2
  <2> QED BY <2>3, <2>4
<1>4. \A n \in 0..(Len(s) - 1) : n \in S => n + 1 \in S
  <2> SUFFICES ASSUME NEW n \in 0..(Len(s) - 1), n \in S PROVE n + 1 \in S
    OBVIOUS
  <2>1. n + 1 \in 1..Len(s) /\ (n + 1) - 1 = n /\ s[n + 1] \in X
    OBVIOUS
  <2>2. f[n + 1] = PcountStep(f[n], s[n + 1])
    BY <1>1, <2>1 DEF Pcount!Trace
  <2>3. PICK out, b : out = f[n] /\ b = s[n + 1]
    OBVIOUS
  <2>4. PcountStep(out, b) \in Seq(X) /\ Clean(PcountStep(out, b))
    BY <1>3, <2>1, <2>3
  <2> QED BY <2>1, <2>2, <2>3, <2>4
<1>5. \A n \in 0..Len(s) : n \in S
  <2>1. Len(s) \in Nat
    OBVIOUS
  <2> HIDE DEF S
  <2> QED BY <1>2, <1>4, <2>1, Pcount!Climb
<1>6. NPcount(s) = f[Len(s)] /\ Len(s) \in 0..Len(s)
  BY <1>1 DEF Pcount!Trace, NPcount
<1> QED BY <1>5, <1>6

Parts(X) == Seq(Seq(X))

\* What a turn of the loop that grabs the components makes of c.
Grabs(c, b, d) ==
    /\ b = Slash => /\ Len(d) = Len(c) + 1 /\ d[Len(c) + 1] = <<>>
                    /\ \A i \in 1..Len(c) : d[i] = c[i]
    /\ b # Slash /\ c = <<>> => d = <<>>
    /\ b # Slash /\ c # <<>> =>
          /\ Len(d) = Len(c) /\ Len(c) \in 1..Len(c)
          /\ d[Len(c)] = Append(c[Len(c)], b) /\ d[Len(c)] # <<>>
          /\ \A i \in 1..Len(c) : i # Len(c) => d[i] = c[i]

\* One turn of that loop.
LEMMA GrabTurn ==
    ASSUME NEW X, NEW c \in Parts(X), NEW b \in X
    PROVE  ComponentStep(c, b) \in Parts(X) /\ Grabs(c, b, ComponentStep(c, b))
<1> DEFINE Y == Seq(X)
           d == ComponentStep(c, b)
<1>0. c \in Seq(Y) /\ <<>> \in Y /\ \A x \in Y : Append(x, b) \in Y /\ Append(x, b) # <<>>
  <2>1. c \in Seq(Y) /\ <<>> \in Y
    BY DEF Parts
  <2>2. ASSUME NEW x \in Seq(X) PROVE Append(x, b) \in Seq(X) /\ Append(x, b) # <<>>
    <3>1. Append(x, b) \in Seq(X) /\ Len(Append(x, b)) = Len(x) + 1 /\ Len(x) \in Nat
      OBVIOUS
    <3> QED BY <3>1
  <2> QED BY <2>1, <2>2
<1>1. CASE b = Slash
  <2>1. d = Append(c, <<>>)
    BY <1>1 DEF ComponentStep
  <2> HIDE DEF Y, d
  <2>2. d \in Seq(Y)
    BY <1>0, <2>1
  <2>3. /\ Len(d) = Len(c) + 1 /\ d[Len(c) + 1] = <<>>
        /\ \A i \in 1..Len(c) : d[i] = c[i]
    BY <1>0, <2>1
  <2> QED BY <1>1, <2>2, <2>3 DEF Grabs, Parts, Y, d
<1>2. CASE b # Slash /\ c = <<>>
  <2>1. d = <<>>
    BY <1>2 DEF ComponentStep
  <2>2. <<>> \in Parts(X)
    BY DEF Parts
  <2> HIDE DEF d
  <2> QED BY <1>2, <2>1, <2>2 DEF Grabs, d
<1>3. CASE b # Slash /\ c # <<>>
  <2>1. d = [c EXCEPT ![Len(c)] = Append(c[Len(c)], b)]
    BY <1>3 DEF ComponentStep
  <2> HIDE DEF Y, d
  <2>2. Len(c) \in 1..Len(c) /\ c[Len(c)] \in Y
    BY <1>0, <1>3
  <2>3. PICK x \in Y : x = Append(c[Len(c)], b) /\ x # <<>>
    BY <1>0, <2>2
  <2>4. PICK m \in 1..Len(c) : m = Len(c)
    BY <2>2
  <2>5. d = [c EXCEPT ![m] = x]
    BY <2>1, <2>3, <2>4
  <2>6. d \in Seq(Y) /\ Len(d) = Len(c) /\ d[m] = x
           /\ \A i \in 1..Len(c) : i # m => d[i] = c[i]
    BY <1>0, <2>5
  <2>7. Grabs(c, b, d)
    BY <1>3, <2>3, <2>4, <2>6 DEF Grabs
  <2> QED BY <2>6, <2>7 DEF Parts, Y, d
<1> QED BY <1>1, <1>2, <1>3

\* No slash and no backslash is part of a component.
Plain(x) == \A i \in 1..Len(x) : x[i] \notin {Slash, Backslash}
AllPlain(c) == \A i \in 1..Len(c) : Plain(c[i])

\* A turn leaves plain components.
LEMMA PlainTurn ==
    ASSUME NEW X, NEW c \in Parts(X), NEW b \in X, NEW d, Grabs(c, b, d),
           AllPlain(c), b # Backslash
    PROVE  AllPlain(d)
<1>1. Plain(<<>>) /\ c \in Seq(Seq(X)) /\ Len(c) \in Nat
  BY DEF Plain, Parts
<1>2. CASE b = Slash
  <2>1. Len(d) = Len(c) + 1 /\ d[Len(c) + 1] = <<>> /\ \A i \in 1..Len(c) : d[i] = c[i]
    BY <1>2 DEF Grabs
  <2>2. \A i \in 1..Len(d) : i \in 1..Len(c) \/ i = Len(c) + 1
    BY <1>1, <2>1
  <2> QED BY <1>1, <2>1, <2>2 DEF AllPlain
<1>3. CASE b # Slash /\ c = <<>>
  BY <1>3 DEF Grabs
<1>4. CASE b # Slash /\ c # <<>>
  <2>1. /\ Len(d) = Len(c) /\ Len(c) \in 1..Len(c) /\ d[Len(c)] = Append(c[Len(c)], b)
        /\ \A i \in 1..Len(c) : i # Len(c) => d[i] = c[i]
    BY <1>4 DEF Grabs
  <2>2. PICK x \in Seq(X) : x = c[Len(c)] /\ Plain(x)
    BY <1>1, <2>1 DEF AllPlain
  <2>3. Plain(Append(x, b))
    BY <1>4, <2>2 DEF Plain
  <2> QED BY <2>1, <2>2, <2>3 DEF AllPlain
<1> QED BY <1>2, <1>3, <1>4

\* The components are strings, and those of a URI without backslash are plain.
LEMMA GrabPlain ==
    ASSUME NEW X, NEW s \in Seq(X)
    PROVE  /\ Components(s) \in Parts(X)
           /\ (\A i \in 1..Len(s) : s[i] # Backslash) => AllPlain(Components(s))
<1>1. PICK f : Grab!Trace(f, <<>>, s)
  BY Grab!LoopRuns
<1>2. PICK P \in BOOLEAN : P <=> \A i \in 1..Len(s) : s[i] # Backslash
  OBVIOUS
<1> DEFINE S == {n \in Nat : f[n] \in Parts(X) /\ (P => AllPlain(f[n]))}
<1>3. 0 \in S
  <2>1. f[0] = <<>>
    BY <1>1 DEF Grab!Trace
  <2>2. <<>> \in Parts(X) /\ AllPlain(<<>>)
    BY DEF AllPlain, Parts
  <2> QED BY <2>1, <2>2
<1>4. \A n \in 0..(Len(s) - 1) : n \in S => n + 1 \in S
  <2> SUFFICES ASSUME NEW n \in 0..(Len(s) - 1), n \in S PROVE n + 1 \in S
    OBVIOUS
  <2>1. n + 1 \in 1..Len(s) /\ (n + 1) - 1 = n
    OBVIOUS
  <2>2. f[n + 1] = ComponentStep(f[n], s[n + 1])
    BY <1>1, <2>1 DEF Grab!Trace
  <2>3. PICK c, b, d : c \in Parts(X) /\ b \in X /\ c = f[n] /\ b = s[n + 1] /\ d = f[n + 1]
    BY <2>1
  <2>4. d \in Parts(X) /\ Grabs(c, b, d)
    BY <2>2, <2>3, GrabTurn
  <2>5. P => AllPlain(c) /\ b # Backslash
    BY <1>2, <2>1, <2>3
  <2>6. P => AllPlain(d)
    BY <2>3, <2>4, <2>5, PlainTurn
  <2> QED BY <2>1, <2>3, <2>4, <2>6
<1>5. \A n \in 0..Len(s) : n \in S
  <2>1. Len(s) \in Nat
    OBVIOUS
  <2> HIDE DEF S
  <2> QED BY <1>3, <1>4, <2>1, Grab!Climb
<1>6. Components(s) = f[Len(s)] /\ Len(s) \in 0..Len(s)
  BY <1>1 DEF Grab!Trace, Components
<1> QED BY <1>2, <1>5, <1>6

\* Only the last component may be empty.
Filled(c) == \A i \in 1..Len(c) : c[i] = <<>> => i = Len(c)
LastEmpty(c) == c # <<>> /\ c[Len(c)] = <<>>

\* A turn leaves no empty component behind but at a slash.
LEMMA FilledTurn ==
    ASSUME NEW X, NEW c \in Parts(X), NEW b \in X, NEW d, Grabs(c, b, d),
           Filled(c), b = Slash => ~LastEmpty(c)
    PROVE  Filled(d) /\ (LastEmpty(d) => b = Slash)
<1>1. c \in Seq(Seq(X)) /\ Len(c) \in Nat /\ (c = <<>> <=> Len(c) = 0)
  BY DEF Parts
<1>2. CASE b = Slash
  <2>1. Len(d) = Len(c) + 1 /\ \A i \in 1..Len(c) : d[i] = c[i]
    BY <1>2 DEF Grabs
  <2>2. \A i \in 1..Len(c) : c[i] # <<>>
    BY <1>1, <1>2 DEF Filled, LastEmpty
  <2>3. \A i \in 1..Len(d) : i \in 1..Len(c) \/ i = Len(d)
    BY <1>1, <2>1
  <2> QED BY <1>2, <2>1, <2>2, <2>3 DEF Filled
<1>3. CASE b # Slash /\ c = <<>>
  BY <1>3 DEF Grabs, Filled, LastEmpty
<1>4. CASE b # Slash /\ c # <<>>
  <2>1. /\ Len(d) = Len(c) /\ d[Len(c)] # <<>>
        /\ \A i \in 1..Len(c) : i # Len(c) => d[i] = c[i]
    BY <1>4 DEF Grabs
  <2> QED BY <2>1 DEF Filled, LastEmpty
<1> QED BY <1>2, <1>3, <1>4

\* With no two slashes together, only what follows the last slash is empty.
LEMMA GrabFilled ==
    ASSUME NEW X, NEW p \in Seq(X), Clean(p)
    PROVE  Filled(Components(p))
<1>1. PICK f : Grab!Trace(f, <<>>, p)
  BY Grab!LoopRuns
<1> DEFINE S == {n \in Nat : /\ f[n] \in Parts(X) /\ Filled(f[n])
                             /\ LastEmpty(f[n]) => n \in 1..Len(p) /\ p[n] = Slash}
<1>2. 0 \in S
  <2>1. f[0] = <<>>
    BY <1>1 DEF Grab!Trace
  <2>2. <<>> \in Parts(X) /\ Filled(<<>>) /\ ~LastEmpty(<<>>)
    BY DEF Filled, LastEmpty, Parts
  <2> QED BY <2>1, <2>2
<1>3. \A n \in 0..(Len(p) - 1) : n \in S => n + 1 \in S
  <2> SUFFICES ASSUME NEW n \in 0..(Len(p) - 1), n \in S PROVE n + 1 \in S
    OBVIOUS
  <2>1. n + 1 \in 1..Len(p) /\ (n + 1) - 1 = n
    OBVIOUS
  <2>2. f[n + 1] = ComponentStep(f[n], p[n + 1])
    BY <1>1, <2>1 DEF Grab!Trace
  <2>3. PICK c, b, d : c \in Parts(X) /\ b \in X /\ c = f[n] /\ b = p[n + 1] /\ d = f[n + 1]
    BY <2>1
  <2>4. d \in Parts(X) /\ Grabs(c, b, d)
    BY <2>2, <2>3, GrabTurn
  <2>5. b = Slash => ~LastEmpty(c)
    <3> SUFFICES ASSUME b = Slash, LastEmpty(c) PROVE FALSE
      OBVIOUS
    <3>1. n \in 1..(Len(p) - 1) /\ p[n] = Slash /\ p[n + 1] = Slash
      BY <2>3
    <3> QED BY <3>1 DEF Clean
  <2>6. Filled(c)
    BY <2>3
  <2>7. Filled(d) /\ (LastEmpty(d) => b = Slash)
    BY <2>3, <2>4, <2>5, <2>6, FilledTurn
  <2> QED BY <2>1, <2>3, <2>4, <2>7
<1>4. \A n \in 0..Len(p) : n \in S
  <2>1. Len(p) \in Nat
    OBVIOUS
  <2> HIDE DEF S
  <2> QED BY <1>2, <1>3, <2>1, Grab!Climb
<1>5. Components(p) = f[Len(p)] /\ Len(p) \in 0..Len(p)
  BY <1>1 DEF Grab!Trace, Components
<1> QED BY <1>4, <1>5

-----------------------------------------------------------------------------
(* Stripping the dots. *)

StripState(X) == [ok : BOOLEAN, out : Parts(X)]

\* What a turn of the loop that strips the dots makes of s.
Strips(s, c, t) ==
    /\ s.ok = FALSE => t = s
    /\ s.ok = TRUE /\ c = <<Dot>> => t = s
    /\ s.ok = TRUE /\ c = <<Dot, Dot>> /\ s.out = <<>> => t = [ok |-> FALSE, out |-> <<>>]
    /\ s.ok = TRUE /\ c = <<Dot, Dot>> /\ s.out # <<>> =>
          t = [ok |-> TRUE, out |-> SubSeq(s.out, 1, Len(s.out) - 1)]
    /\ s.ok = TRUE /\ ~IsDots(c) => t = [ok |-> TRUE, out |-> Append(s.out, c)]

\* One turn of that loop.
LEMMA StripTurn ==
    ASSUME NEW X, NEW s \in StripState(X), NEW c \in Seq(X)
    PROVE  StripDots(s, c) \in StripState(X) /\ Strips(s, c, StripDots(s, c))
<1> DEFINE Y == Seq(X)
           t == StripDots(s, c)
<1>1. PICK ok \in BOOLEAN, out \in Seq(Y) : s = [ok |-> ok, out |-> out]
  BY DEF StripState, Parts
<1>2. c \in Y /\ <<Dot>> # <<Dot, Dot>>
  OBVIOUS
<1>3. \A k \in BOOLEAN, o \in Seq(Y) : [ok |-> k, out |-> o] \in StripState(X)
  BY DEF StripState, Parts
<1> HIDE DEF Y
<1>4. /\ s.ok = ok /\ s.out = out
      /\ \A k, o : [s EXCEPT !.ok = k] = [ok |-> k, out |-> out]
                   /\ [s EXCEPT !.out = o] = [ok |-> ok, out |-> o]
  BY <1>1
<1>5. CASE ok = FALSE \/ c = <<Dot>>
  <2>1. t = s
    BY <1>2, <1>4, <1>5 DEF StripDots
  <2>2. Strips(s, c, t)
    BY <1>2, <1>4, <1>5, <2>1 DEF Strips, IsDots
  <2> QED BY <2>1, <2>2
<1>6. CASE ok = TRUE /\ c = <<Dot, Dot>> /\ out = <<>>
  <2>1. t = [ok |-> FALSE, out |-> <<>>]
    <3>1. t = [s EXCEPT !.ok = FALSE]
      BY <1>2, <1>4, <1>6 DEF StripDots
    <3> QED BY <1>4, <1>6, <3>1
  <2>2. Strips(s, c, t)
    <3> HIDE DEF t
    <3> QED BY <1>2, <1>4, <1>6, <2>1 DEF Strips, IsDots
  <2>3. <<>> \in Seq(Y)
    OBVIOUS
  <2> QED BY <1>3, <2>1, <2>2, <2>3
<1>7. CASE ok = TRUE /\ c = <<Dot, Dot>> /\ out # <<>>
  <2>0. SubSeq(out, 1, Len(out) - 1) \in Seq(Y)
    OBVIOUS
  <2>1. PICK o \in Seq(Y) : o = SubSeq(out, 1, Len(out) - 1)
    BY <2>0, Zenon
  <2>2. t = [ok |-> TRUE, out |-> o]
    <3>1. Len(out) # 0 /\ Front(out) = o
      BY <1>7, <2>1 DEF Front
    <3>2. t = [s EXCEPT !.out = Front(out)]
      BY <1>2, <1>4, <1>7, <3>1 DEF StripDots
    <3> QED BY <1>4, <1>7, <3>1, <3>2
  <2>3. Strips(s, c, t)
    <3> HIDE DEF t
    <3> QED BY <1>2, <1>4, <1>7, <2>1, <2>2 DEF Strips, IsDots
  <2> QED BY <1>3, <2>2, <2>3
<1>8. CASE ok = TRUE /\ ~IsDots(c)
  <2>0. Append(out, c) \in Seq(Y)
    BY <1>2
  <2>1. PICK o \in Seq(Y) : o = Append(out, c)
    BY <2>0, Zenon
  <2>2. c # <<Dot>> /\ c # <<Dot, Dot>>
    BY <1>8 DEF IsDots
  <2>3. t = [ok |-> TRUE, out |-> o]
    <3>1. t = [s EXCEPT !.out = Append(out, c)]
      BY <1>4, <1>8, <2>2 DEF StripDots
    <3> QED BY <1>4, <1>8, <2>1, <3>1
  <2>4. Strips(s, c, t)
    <3> HIDE DEF t
    <3> QED BY <1>4, <1>8, <2>1, <2>2, <2>3 DEF Strips
  <2> QED BY <1>3, <2>3, <2>4
<1> QED BY <1>5, <1>6, <1>7, <1>8 DEF IsDots

\* What the components that are kept are like.
Sound(out, filled) ==
    /\ AllPlain(out)
    /\ \A i \in 1..Len(out) : ~IsDots(out[i]) /\ (out[i] = <<>> => i = Len(out) /\ filled)

\* A turn keeps them so; if the component is empty then filled is true after it.
LEMMA SoundTurn ==
    ASSUME NEW X, NEW s \in StripState(X), NEW c \in Seq(X), NEW t, Strips(s, c, t),
           Sound(s.out, FALSE), Plain(c), NEW filled \in BOOLEAN, c = <<>> => filled
    PROVE  Sound(t.out, filled)
<1> DEFINE Y == Seq(X)
<1>1. PICK out \in Seq(Y) : out = s.out
  BY DEF StripState, Parts
<1> HIDE DEF Y
<1>2. s.ok \in BOOLEAN
  BY DEF StripState
<1>3. Sound(out, FALSE) /\ Sound(out, filled)
  BY <1>1 DEF Sound
<1>4. t.out = out \/ t.out = <<>> \/ (out # <<>> /\ t.out = SubSeq(out, 1, Len(out) - 1))
          \/ (~IsDots(c) /\ t.out = Append(out, c))
  BY <1>1, <1>2 DEF Strips, IsDots
<1>5. CASE t.out = <<>>
  BY <1>5 DEF Sound, AllPlain
<1>6. CASE out # <<>> /\ t.out = SubSeq(out, 1, Len(out) - 1)
  <2> DEFINE o == SubSeq(out, 1, Len(out) - 1)
  <2>1. /\ Len(o) = Len(out) - 1 /\ Len(out) \in Nat
        /\ \A i \in 1..Len(o) : i \in 1..Len(out) /\ i # Len(out) /\ o[i] = out[i]
    <3>1. Len(out) \in Nat /\ Len(out) # 0
      BY <1>6
    <3>0. Len(out) - 1 \in 0..Len(out)
      BY <3>1
    <3>2. PICK k \in 0..Len(out) : k = Len(out) - 1
      BY <3>0, Zenon
    <3>3. Len(o) = k /\ \A i \in 1..k : o[i] = out[i]
      BY <3>2, Taken
    <3> QED BY <3>1, <3>2, <3>3
  <2> HIDE DEF o
  <2>2. Sound(o, filled)
    BY <1>3, <2>1 DEF Sound, AllPlain
  <2> QED BY <1>6, <2>2 DEF o
<1>7. CASE ~IsDots(c) /\ t.out = Append(out, c)
  <2> DEFINE o == Append(out, c)
  <2>1. /\ Len(o) = Len(out) + 1 /\ Len(out) \in Nat /\ o[Len(out) + 1] = c
        /\ \A i \in 1..Len(out) : o[i] = out[i]
    OBVIOUS
  <2>2. \A i \in 1..Len(o) : i \in 1..Len(out) \/ i = Len(o)
    BY <2>1
  <2> HIDE DEF o
  <2>3. Sound(o, filled)
    BY <1>3, <1>7, <2>1, <2>2 DEF Sound, AllPlain
  <2> QED BY <1>7, <2>3 DEF o
<1> QED BY <1>3, <1>4, <1>5, <1>6, <1>7

\* Of plain components of which only the last may be empty, stripping keeps
\* such that are neither . nor ..
LEMMA StripSound ==
    ASSUME NEW X, NEW c \in Parts(X), AllPlain(c), Filled(c)
    PROVE  Stripped(c) \in StripState(X) /\ Sound(Stripped(c).out, TRUE)
<1> DEFINE Y == Seq(X)
           start == [ok |-> TRUE, out |-> <<>>]
<1>0. c \in Seq(Y) /\ start \in StripState(X)
  BY DEF Parts, StripState
<1>1. PICK f : Strip!Trace(f, start, c)
  <2> HIDE DEF Y, start
  <2> QED BY <1>0, Strip!LoopRuns
<1> DEFINE S == {n \in Nat : f[n] \in StripState(X) /\ Sound(f[n].out, n = Len(c))}
<1>2. 0 \in S
  <2>1. f[0] = start /\ start.out = <<>>
    BY <1>1 DEF Strip!Trace
  <2>2. Sound(<<>>, 0 = Len(c))
    BY DEF Sound, AllPlain
  <2> HIDE DEF start
  <2> QED BY <1>0, <2>1, <2>2
<1>3. \A n \in 0..(Len(c) - 1) : n \in S => n + 1 \in S
  <2> SUFFICES ASSUME NEW n \in 0..(Len(c) - 1), n \in S PROVE n + 1 \in S
    OBVIOUS
  <2>1. n + 1 \in 1..Len(c) /\ (n + 1) - 1 = n /\ n # Len(c) /\ c[n + 1] \in Y
    BY <1>0
  <2>2. f[n + 1] = StripDots(f[n], c[n + 1])
    BY <1>1, <2>1 DEF Strip!Trace
  <2>3. PICK s \in StripState(X), x \in Seq(X), filled \in BOOLEAN :
            s = f[n] /\ x = c[n + 1] /\ (filled <=> n + 1 = Len(c))
    BY <2>1
  <2>4. PICK t : t = f[n + 1]
    OBVIOUS
  <2>5. t \in StripState(X) /\ Strips(s, x, t)
    BY <2>2, <2>3, <2>4, StripTurn
  <2>6. Sound(s.out, FALSE)
    BY <2>1, <2>3 DEF Sound
  <2>7. Plain(x) /\ (x = <<>> => filled)
    BY <2>1, <2>3 DEF AllPlain, Filled
  <2>8. Sound(t.out, filled)
    BY <2>5, <2>6, <2>7, SoundTurn
  <2>9. Sound(t.out, n + 1 = Len(c))
    BY <2>3, <2>8 DEF Sound
  <2> QED BY <2>1, <2>4, <2>5, <2>9
<1>4. \A n \in 0..Len(c) : n \in S
  <2>1. Len(c) \in Nat
    BY <1>0
  <2> HIDE DEF S
  <2> QED BY <1>2, <1>3, <2>1, Strip!Climb
<1>5. Stripped(c) = f[Len(c)] /\ Len(c) \in 0..Len(c)
  BY <1>0, <1>1 DEF Strip!Trace, Stripped
<1>6. Sound(f[Len(c)].out, Len(c) = Len(c)) /\ f[Len(c)] \in StripState(X)
  BY <1>4, <1>5
<1> QED BY <1>5, <1>6 DEF Sound

-----------------------------------------------------------------------------
(* Putting the URI together again. *)

\* The components of a string with one more byte.
LEMMA GrabAppend ==
    ASSUME NEW X, NEW s \in Seq(X), NEW b \in X
    PROVE  /\ Components(<<>>) = <<>>
           /\ Components(Append(s, b)) = ComponentStep(Components(s), b)
<1>1. /\ Grab!After(<<>>, <<>>) = <<>>
      /\ Grab!After(<<>>, Append(s, b)) = ComponentStep(Grab!After(<<>>, s), b)
  BY Grab!LoopAppend
<1> QED BY <1>1, Zenon DEF Components

\* A turn that grabs a byte of the last component.
LEMMA GrabByte ==
    ASSUME NEW X, NEW c \in Parts(X), NEW y \in Seq(X), NEW b \in X
    PROVE  /\ ComponentStep(c, Slash) = Append(c, <<>>)
           /\ b # Slash => ComponentStep(Append(c, y), b) = Append(c, Append(y, b))
<1> DEFINE Y == Seq(X)
<1>1. c \in Seq(Y) /\ y \in Y
  BY DEF Parts
<1>2. PICK z \in Y : z = Append(y, b)
  <2>1. Append(y, b) \in Y
    OBVIOUS
  <2> QED BY <2>1, Zenon
<1> HIDE DEF Y
<1>3. ComponentStep(c, Slash) = Append(c, <<>>)
  BY DEF ComponentStep
<1>4. ASSUME b # Slash PROVE ComponentStep(Append(c, y), b) = Append(c, Append(y, b))
  <2>1. PICK d \in Seq(Y) : d = Append(c, y)
    <3>1. Append(c, y) \in Seq(Y)
      BY <1>1
    <3> QED BY <3>1, Zenon
  <2>2. Len(d) = Len(c) + 1 /\ d[Len(d)] = y /\ d # <<>> /\ \A i \in 1..Len(c) : d[i] = c[i]
    BY <1>1, <2>1
  <2>3. ComponentStep(d, b) = [d EXCEPT ![Len(d)] = z]
    BY <1>2, <1>4, <2>2 DEF ComponentStep
  <2>4. [d EXCEPT ![Len(d)] = z] = Append(c, z)
    <3> DEFINE e == [d EXCEPT ![Len(d)] = z]
               a == Append(c, z)
    <3>1. Len(c) \in Nat
      BY <1>1
    <3>2. e \in Seq(Y) /\ Len(e) = Len(d) /\ e[Len(d)] = z /\ \A i \in 1..Len(c) : e[i] = d[i]
      BY <2>2, <3>1
    <3>3. a \in Seq(Y) /\ Len(a) = Len(c) + 1 /\ a[Len(c) + 1] = z /\ \A i \in 1..Len(c) : a[i] = c[i]
      BY <1>1
    <3> HIDE DEF e, a
    <3>4. \A i \in 1..Len(e) : i \in 1..Len(c) \/ i = Len(c) + 1
      BY <2>2, <3>1, <3>2
    <3>5. Len(e) = Len(a) /\ \A i \in 1..Len(e) : e[i] = a[i]
      BY <2>2, <3>2, <3>3, <3>4
    <3>6. e = a
      BY <3>2, <3>3, <3>5, SeqEqual
    <3> QED BY <3>6 DEF e, a
  <2> QED BY <1>2, <2>1, <2>3, <2>4
<1> QED BY <1>3, <1>4

\* A slash and a plain string are one more component.
LEMMA GrabOver ==
    ASSUME NEW X, Slash \in X, NEW s \in Seq(X), NEW x \in Seq(X), Plain(x)
    PROVE  /\ s \o <<Slash>> \o x \in Seq(X)
           /\ Components(s \o <<Slash>> \o x) = Append(Components(s), x)
<1> DEFINE c == Components(s)
           u == s \o <<Slash>>
           t(k) == u \o SubSeq(x, 1, k)
           S == {k \in Nat : Components(t(k)) = Append(c, SubSeq(x, 1, k))}
<1>1. u \in Seq(X) /\ u = Append(s, Slash)
  OBVIOUS
<1>2. c \in Parts(X)
  BY GrabPlain
<1>3. Len(x) \in Nat
  OBVIOUS
<1> HIDE DEF c, u
<1>4. 0 \in S
  <2>1. SubSeq(x, 1, 0) = <<>>
    BY TakenMore
  <2>2. t(0) = u
    BY <1>1, <2>1
  <2>3. Components(u) = ComponentStep(c, Slash)
    BY <1>1, GrabAppend DEF c
  <2>4. ComponentStep(c, Slash) = Append(c, <<>>)
    BY <1>2, GrabByte
  <2> QED BY <2>1, <2>2, <2>3, <2>4
<1>5. \A k \in 0..(Len(x) - 1) : k \in S => k + 1 \in S
  <2> SUFFICES ASSUME NEW k \in 0..(Len(x) - 1), k \in S PROVE k + 1 \in S
    OBVIOUS
  <2>1. k \in 0..Len(x) /\ k + 1 \in 1..Len(x) /\ k + 1 \in Nat /\ x[k + 1] \in X
    OBVIOUS
  <2>2. PICK y \in Seq(X), b \in X : y = SubSeq(x, 1, k) /\ b = x[k + 1]
    BY <2>1, Taken
  <2>3. SubSeq(x, 1, k + 1) = Append(y, b)
    BY <2>2, TakenMore
  <2>4. PICK v \in Seq(X) : v = u \o y /\ t(k + 1) = Append(v, b)
    <3>1. t(k + 1) = u \o Append(y, b)
      BY <2>3
    <3>2. u \o Append(y, b) = Append(u \o y, b) /\ u \o y \in Seq(X)
      BY <1>1
    <3> QED BY <3>1, <3>2
  <2>5. Components(t(k + 1)) = ComponentStep(Components(v), b)
    <3>1. Components(Append(v, b)) = ComponentStep(Components(v), b)
      BY GrabAppend
    <3> QED BY <2>4, <3>1
  <2>6. Components(v) = Append(c, y)
    BY <2>2, <2>4
  <2>7. b # Slash
    BY <2>1, <2>2 DEF Plain
  <2>8. ComponentStep(Append(c, y), b) = Append(c, Append(y, b))
    BY <1>2, <2>7, GrabByte
  <2> QED BY <2>1, <2>3, <2>5, <2>6, <2>8
<1>6. \A k \in 0..Len(x) : k \in S
  <2> HIDE DEF S
  <2> QED BY <1>3, <1>4, <1>5, Grab!Climb
<1>7. Components(t(Len(x))) = Append(c, SubSeq(x, 1, Len(x)))
  BY <1>3, <1>6
<1>8. SubSeq(x, 1, Len(x)) = x
  BY TakenMore
<1>9. u \o x \in Seq(X)
  BY <1>1
<1>10. Components(u \o x) = Append(c, x)
  BY <1>7, <1>8, Zenon
<1> QED BY <1>9, <1>10 DEF c, u

\* A string that begins with a slash and has no backslash.
Path(str) ==
    str # <<>> /\ str[1] = Slash /\ \A i \in 1..Len(str) : str[i] # Backslash

\* A slash and a plain component more.
LEMMA JoinPath ==
    ASSUME NEW X, Slash \in X, NEW s \in Seq(X), s = <<>> \/ Path(s), NEW x \in Seq(X), Plain(x)
    PROVE  Path(s \o <<Slash>> \o x)
<1>0. s \o <<Slash>> \in Seq(X)
  OBVIOUS
<1>1. PICK u \in Seq(X) : u = s \o <<Slash>>
  BY <1>0, Zenon
<1>2. u # <<>> /\ u[1] = Slash /\ \A i \in 1..Len(u) : u[i] # Backslash
  <2>1. /\ Len(u) = Len(s) + 1 /\ Len(s) \in Nat /\ u[Len(s) + 1] = Slash
        /\ \A i \in 1..Len(s) : u[i] = s[i]
    BY <1>1
  <2>2. \A i \in 1..Len(u) : i \in 1..Len(s) \/ i = Len(s) + 1
    BY <2>1
  <2>3. s # <<>> => 1 \in 1..Len(s)
    OBVIOUS
  <2>4. Len(u) # 0 => u # <<>>
    OBVIOUS
  <2> QED BY <2>1, <2>2, <2>3, <2>4 DEF Path, Slash, Backslash
<1>3. Path(u \o x)
  <2> DEFINE v == u \o x
  <2>1. /\ v \in Seq(X) /\ Len(v) = Len(u) + Len(x) /\ Len(u) \in Nat /\ Len(x) \in Nat
        /\ \A i \in 1..Len(u) : v[i] = u[i]
        /\ \A i \in (Len(u) + 1)..Len(v) : v[i] = x[i - Len(u)]
    OBVIOUS
  <2> HIDE DEF v
  <2>2. Len(u) # 0 /\ 1 \in 1..Len(u) /\ v # <<>>
    BY <1>2, <2>1
  <2>3. ASSUME NEW i \in 1..Len(v) PROVE v[i] # Backslash
    <3>1. CASE i \in 1..Len(u)
      BY <1>2, <2>1, <3>1
    <3>2. CASE i \notin 1..Len(u)
      <4>1. i \in (Len(u) + 1)..Len(v) /\ i - Len(u) \in 1..Len(x)
        BY <2>1, <3>2
      <4> QED BY <2>1, <4>1 DEF Plain
    <3> QED BY <3>1, <3>2
  <2> QED BY <1>2, <2>1, <2>2, <2>3 DEF Path, v
<1> QED BY <1>1, <1>3

\* What was put together from plain components has just these.
LEMMA JoinComponents ==
    ASSUME NEW X, Slash \in X, NEW c \in Parts(X), c # <<>>, AllPlain(c)
    PROVE  Joined(c) \in Seq(X) /\ Path(Joined(c)) /\ Components(Joined(c)) = c
<1> DEFINE Y == Seq(X)
<1>0. c \in Seq(Y) /\ Len(c) \in Nat /\ Len(c) # 0
  <2>1. c \in Seq(Y)
    BY DEF Parts
  <2> HIDE DEF Y
  <2> QED BY <2>1
<1>1. PICK f : Join!Trace(f, <<>>, c)
  <2> HIDE DEF Y
  <2> QED BY <1>0, Join!LoopRuns
<1> DEFINE Good(n, s) == /\ s \in Seq(X) /\ Components(s) = SubSeq(c, 1, n)
                         /\ IF n = 0 THEN s = <<>> ELSE Path(s)
           S == {n \in Nat : Good(n, f[n])}
<1>2. 0 \in S
  <2>1. f[0] = <<>>
    BY <1>1 DEF Join!Trace
  <2>2. Components(<<>>) = <<>>
    <3>1. <<>> \in Seq(X)
      OBVIOUS
    <3> QED BY <3>1, GrabAppend
  <2>3. SubSeq(c, 1, 0) = <<>>
    <3> HIDE DEF Y
    <3> QED BY <1>0, TakenMore
  <2>4. <<>> \in Seq(X)
    OBVIOUS
  <2>5. Good(0, f[0])
    BY <2>1, <2>2, <2>3, <2>4
  <2> QED BY <2>5
<1>3. \A n \in 0..(Len(c) - 1) : n \in S => n + 1 \in S
  <2> SUFFICES ASSUME NEW n \in 0..(Len(c) - 1), Good(n, f[n]) PROVE n + 1 \in S
    OBVIOUS
  <2>1. n + 1 \in 1..Len(c) /\ (n + 1) - 1 = n /\ c[n + 1] \in Y
    BY <1>0
  <2>2. f[n + 1] = JoinStep(f[n], c[n + 1])
    BY <1>1, <2>1 DEF Join!Trace
  <2>3. PICK s \in Seq(X), x \in Seq(X) : s = f[n] /\ x = c[n + 1]
    BY <2>1, Zenon
  <2>4. f[n + 1] = s \o <<Slash>> \o x
    BY <2>2, <2>3 DEF JoinStep
  <2>5. Plain(x)
    BY <2>1, <2>3 DEF AllPlain
  <2>6. s = <<>> \/ Path(s)
    BY <2>3
  <2>7. Path(s \o <<Slash>> \o x)
    BY <2>5, <2>6, JoinPath
  <2>8. s \o <<Slash>> \o x \in Seq(X) /\ Components(s \o <<Slash>> \o x) = Append(Components(s), x)
    BY <2>5, GrabOver
  <2>9. SubSeq(c, 1, n + 1) = Append(SubSeq(c, 1, n), x)
    <3> HIDE DEF Y
    <3> QED BY <1>0, <2>3, TakenMore
  <2>10. Components(s) = SubSeq(c, 1, n)
    BY <2>3
  <2>11. PICK v : v = f[n + 1]
    OBVIOUS
  <2>12. v \in Seq(X) /\ Path(v) /\ Components(v) = SubSeq(c, 1, n + 1)
    BY <2>4, <2>7, <2>8, <2>9, <2>10, <2>11
  <2>13. n + 1 \in Nat /\ n + 1 # 0
    BY <2>1
  <2>14. Good(n + 1, f[n + 1])
    BY <2>11, <2>12, <2>13
  <2> HIDE DEF Good
  <2> QED BY <2>13, <2>14
<1>4. \A n \in 0..Len(c) : n \in S
  <2> HIDE DEF S
  <2> QED BY <1>0, <1>2, <1>3, Join!Climb
<1>5. Joined(c) = f[Len(c)] /\ Len(c) \in 0..Len(c)
  BY <1>0, <1>1 DEF Join!Trace, Joined
<1>6. SubSeq(c, 1, Len(c)) = c
  <2> HIDE DEF Y
  <2> QED BY <1>0, TakenMore
<1> QED BY <1>0, <1>4, <1>5, <1>6

\* The top of the web root has one component, which is empty.
LEMMA TopComponents == Components(<<Slash>>) = << <<>> >>
<1> DEFINE X == {Slash}
<1>1. <<>> \in Seq(X) /\ Slash \in X /\ <<Slash>> = Append(<<>>, Slash)
  OBVIOUS
<1> HIDE DEF X
<1>2. Components(<<Slash>>) = ComponentStep(<<>>, Slash)
  BY <1>1, GrabAppend
<1> QED BY <1>2 DEF ComponentStep

\* A string with sound components, that begins with a slash, is normal.
LEMMA SoundNormal ==
    ASSUME NEW X, NEW str \in Seq(X), Path(str), Sound(Components(str), TRUE)
    PROVE  IsNormal(str)
<1> DEFINE Y == Seq(X)
<1>1. PICK c \in Seq(Y) : c = Components(str)
  BY GrabPlain DEF Parts
<1>2. ~Contains(str, Backslash)
  BY DEF Contains, Path
<1> HIDE DEF Y
<1>3. DOMAIN c = 1..Len(c)
  OBVIOUS
<1>4. \A i \in DOMAIN c : ~IsDots(c[i]) /\ (c[i] = <<>> => i = Len(c))
  BY <1>1, <1>3 DEF Sound
<1> QED BY <1>1, <1>2, <1>4 DEF IsNormal, Path

\* n_path() leaves a normal URI, when it succeeds.
LEMMA PathNormal ==
    ASSUME NEW X, Slash \in X, NEW buf \in Seq(X)
    PROVE  /\ NPath(buf).ok \in BOOLEAN
           /\ NPath(buf).ok = TRUE => IsNormal(NPath(buf).str)
<1> DEFINE p == NPcount(buf)
           c == Components(p)
           s == Stripped(c)
<1>1. p \in Seq(X) /\ Clean(p)
  BY PcountClean
<1>2. c \in Parts(X) /\ AllPlain(c)
  <2> HIDE DEF p
  <2> QED BY <1>1, GrabPlain DEF Clean
<1>3. Filled(c)
  <2> HIDE DEF p
  <2> QED BY <1>1, GrabFilled
<1>4. s \in StripState(X) /\ Sound(s.out, TRUE)
  <2> HIDE DEF c
  <2> QED BY <1>2, <1>3, StripSound
<1>5. /\ NPath(buf).ok = s.ok
      /\ NPath(buf).ok = TRUE => NPath(buf).str = Joined(s.out)
  BY DEF NPath
<1> HIDE DEF s
<1>0. NPath(buf).ok \in BOOLEAN
  BY <1>4, <1>5 DEF StripState
<1> SUFFICES ASSUME NPath(buf).ok = TRUE PROVE IsNormal(NPath(buf).str)
  BY <1>0
<1>6. PICK out \in Parts(X) : out = s.out
  BY <1>4 DEF StripState
<1>7. CASE out = <<>>
  <2>1. NPath(buf).str = <<Slash>>
    BY <1>5, <1>6, <1>7 DEF Joined
  <2>2. Sound(<< <<>> >>, TRUE)
    <3> DEFINE top == << <<>> >>
    <3>1. Len(top) = 1 /\ \A i \in 1..1 : i = 1 /\ top[i] = <<>>
      OBVIOUS
    <3>2. Plain(<<>>) /\ ~IsDots(<<>>)
      BY DEF Plain, IsDots
    <3> HIDE DEF top
    <3>3. Sound(top, TRUE)
      BY <3>1, <3>2 DEF Sound, AllPlain
    <3> QED BY <3>3 DEF top
  <2>0. <<Slash>> \in Seq(X)
    OBVIOUS
  <2>3. PICK str \in Seq(X) : str = <<Slash>>
    BY <2>0, Zenon
  <2>4. Path(str)
    BY <2>3 DEF Path, Slash, Backslash
  <2> QED BY <2>1, <2>2, <2>3, <2>4, TopComponents, SoundNormal
<1>8. CASE out # <<>>
  <2>1. AllPlain(out)
    BY <1>4, <1>6 DEF Sound
  <2>2. Joined(out) \in Seq(X) /\ Path(Joined(out)) /\ Components(Joined(out)) = out
    BY <1>8, <2>1, JoinComponents
  <2> QED BY <1>4, <1>5, <1>6, <2>2, SoundNormal
<1> QED BY <1>7, <1>8

-----------------------------------------------------------------------------

\* What decoding leaves of the client's URI.
Decoded(buf) == NUtf8(NHex(SplitUri(buf)).str).str

\* It is a string.
LEMMA DecodedSeq ==
    ASSUME NEW buf \in Seq(Byte)
    PROVE  Decoded(buf) \in Seq(Chars) /\ Slash \in Chars
<1>1. SplitUri(buf) \in Seq(Byte)
  BY BeforeSeq DEF SplitUri
<1>2. NHex(SplitUri(buf)).str \in Seq(Byte)
  BY <1>1, HexSeq
<1>3. Decoded(buf) \in Seq(Chars)
  BY <1>2, Utf8Seq DEF Decoded
<1> QED BY <1>3 DEF Slash, Chars

\* Whatever pieces a client composes, its URI is a string of bytes.
THEOREM UriIsString == UriSpec => [](uri \in Seq(Byte))
<1>1. UriInit => uri \in Seq(Byte)
  BY DEF UriInit
<1>2. uri \in Seq(Byte) /\ [UriNext]_<<uri, pieces>> => (uri \in Seq(Byte))'
  <2> SUFFICES ASSUME uri \in Seq(Byte), [UriNext]_<<uri, pieces>> PROVE uri' \in Seq(Byte)
    OBVIOUS
  <2>1. CASE UNCHANGED <<uri, pieces>>
    BY <2>1
  <2>2. CASE UriNext
    <3>1. PICK p \in UriPieces : uri' = uri \o p
      BY <2>2 DEF UriNext
    <3>2. p \in Seq(Byte)
      BY UriPieceAssumption
    <3> HIDE DEF Byte
    <3> QED BY <3>1, <3>2
  <2> QED BY <2>1, <2>2
<1> QED BY <1>1, <1>2, PTL DEF UriSpec

\* nads_normalize() leaves every URI that it accepts in the form of the URIs
\* that mkroot puts in a web root, whatever bytes the client sent and however
\* many.
THEOREM NormalFormHolds == UriSpec => []NormalForm
<1>1. ASSUME NEW buf \in Seq(Byte), NadsNormalize(buf).ok
      PROVE  IsNormal(NadsNormalize(buf).uri)
  <2> DEFINE h == NHex(SplitUri(buf))
             u == NUtf8(h.str)
             p == NPath(u.str)
             q == NHex(QueryLeft(buf))
  <2>1. NadsNormalize(buf) = IF ~h.ok THEN [ok |-> FALSE, uri |-> h.str]
                             ELSE IF ~u.ok THEN [ok |-> FALSE, uri |-> u.str]
                             ELSE [ok |-> p.ok /\ q.ok, uri |-> p.str]
    BY DEF NadsNormalize
  <2>2. u.str \in Seq(Chars) /\ Slash \in Chars
    BY DecodedSeq DEF Decoded
  <2> HIDE DEF h, u, q
  <2>3. p.ok \in BOOLEAN /\ (p.ok = TRUE => IsNormal(p.str))
    BY <2>2, PathNormal
  <2> HIDE DEF p
  <2> QED BY <1>1, <2>1, <2>3
<1>2. uri \in Seq(Byte) => NormalForm
  BY <1>1 DEF NormalForm
<1> QED BY <1>2, UriIsString, PTL

-----------------------------------------------------------------------------
(* A path is resolved as walking it would. *)

\* One more number may be counted.
LEMMA CountNext ==
    ASSUME NEW k \in Nat, NEW P
    PROVE  /\ Cardinality({i \in 1..k : i \in P}) \in Nat
           /\ k + 1 \notin P => Cardinality({i \in 1..(k + 1) : i \in P}) =
                                    Cardinality({i \in 1..k : i \in P})
           /\ k + 1 \in P => Cardinality({i \in 1..(k + 1) : i \in P}) =
                                 Cardinality({i \in 1..k : i \in P}) + 1
<1> DEFINE A == {i \in 1..k : i \in P}
           B == {i \in 1..(k + 1) : i \in P}
<1>1. IsFiniteSet(1..k)
  BY FS_Interval
<1>2. A \subseteq 1..k /\ k + 1 \notin A
  OBVIOUS
<1>3. \A i \in 1..(k + 1) : i \in 1..k \/ i = k + 1
  OBVIOUS
<1>4. (k + 1 \notin P => B = A) /\ (k + 1 \in P => B = A \cup {k + 1})
  BY <1>3
<1> HIDE DEF A, B
<1>5. IsFiniteSet(A)
  BY <1>1, <1>2, FS_Subset
<1>6. Cardinality(A) \in Nat
  BY <1>5, FS_CardinalityType
<1>7. Cardinality(A \cup {k + 1}) = Cardinality(A) + 1
  BY <1>2, <1>5, FS_AddElement
<1>8. (k + 1 \notin P => Cardinality(B) = Cardinality(A))
         /\ (k + 1 \in P => Cardinality(B) = Cardinality(A) + 1)
  BY <1>4, <1>7
<1> QED BY <1>6, <1>8 DEF A, B

\* How deep one more component leads.
LEMMA DepthNext ==
    ASSUME NEW c, NEW k \in Nat
    PROVE  /\ Depth(c, k) \in Int
           /\ c[k + 1] = <<Dot>> => Depth(c, k + 1) = Depth(c, k)
           /\ c[k + 1] = <<Dot, Dot>> => Depth(c, k + 1) = Depth(c, k) - 1
           /\ ~IsDots(c[k + 1]) => Depth(c, k + 1) = Depth(c, k) + 1
<1> DEFINE P == {i \in Nat : ~IsDots(c[i])}
           Q == {i \in Nat : c[i] = <<Dot, Dot>>}
           Up(n) == Cardinality({i \in 1..n : i \in P})
           Down(n) == Cardinality({i \in 1..n : i \in Q})
<1>1. ASSUME NEW n \in Nat PROVE Depth(c, n) = Up(n) - Down(n)
  <2>1. {i \in 1..n : ~IsDots(c[i])} = {i \in 1..n : i \in P}
    OBVIOUS
  <2>2. {i \in 1..n : c[i] = <<Dot, Dot>>} = {i \in 1..n : i \in Q}
    OBVIOUS
  <2> HIDE DEF P, Q
  <2> QED BY <2>1, <2>2 DEF Depth
<1>2. k + 1 \in Nat
  OBVIOUS
<1>3. /\ c[k + 1] = <<Dot>> => k + 1 \notin P /\ k + 1 \notin Q
      /\ c[k + 1] = <<Dot, Dot>> => k + 1 \notin P /\ k + 1 \in Q
      /\ ~IsDots(c[k + 1]) => k + 1 \in P /\ k + 1 \notin Q
  <2>1. <<Dot>> # <<Dot, Dot>>
    OBVIOUS
  <2> QED BY <1>2, <2>1, Zenon DEF IsDots
<1> HIDE DEF P, Q
<1>4. /\ Up(k) \in Nat
      /\ k + 1 \notin P => Up(k + 1) = Up(k)
      /\ k + 1 \in P => Up(k + 1) = Up(k) + 1
  BY CountNext
<1>5. /\ Down(k) \in Nat
      /\ k + 1 \notin Q => Down(k + 1) = Down(k)
      /\ k + 1 \in Q => Down(k + 1) = Down(k) + 1
  BY CountNext
<1>6. Depth(c, k) = Up(k) - Down(k) /\ Depth(c, k + 1) = Up(k + 1) - Down(k + 1)
  BY <1>1, <1>2
<1> HIDE DEF Up, Down
<1>7. Depth(c, k) \in Int
  BY <1>4, <1>5, <1>6
<1>8. c[k + 1] = <<Dot>> => Depth(c, k + 1) = Depth(c, k)
  BY <1>3, <1>4, <1>5, <1>6
<1>9. c[k + 1] = <<Dot, Dot>> => Depth(c, k + 1) = Depth(c, k) - 1
  BY <1>3, <1>4, <1>5, <1>6
<1>10. ~IsDots(c[k + 1]) => Depth(c, k + 1) = Depth(c, k) + 1
  BY <1>3, <1>4, <1>5, <1>6
<1> QED BY <1>7, <1>8, <1>9, <1>10

\* Before the first component it is 0.
LEMMA DepthTop == ASSUME NEW c PROVE Depth(c, 0) = 0
<1>1. {i \in 1..0 : ~IsDots(c[i])} = {} /\ {i \in 1..0 : c[i] = <<Dot, Dot>>} = {}
  OBVIOUS
<1>2. Cardinality({}) = 0
  BY FS_EmptySet
<1> QED BY <1>1, <1>2 DEF Depth

\* A name stays as long as the path does not lead above it, and a name that
\* was just met is kept.
LEMMA KeptNext ==
    ASSUME NEW c, NEW k \in Nat
    PROVE  /\ \A i \in Kept(c, k) :
                 Depth(c, i) <= Depth(c, k + 1) => i \in Kept(c, k + 1)
           /\ ~IsDots(c[k + 1]) => k + 1 \in Kept(c, k + 1)
<1>1. ASSUME NEW i \in Kept(c, k), Depth(c, i) <= Depth(c, k + 1) PROVE i \in Kept(c, k + 1)
  <2>1. /\ i \in 1..k /\ ~IsDots(c[i])
        /\ \A j \in (i + 1)..k : Depth(c, j) >= Depth(c, i)
    BY DEF Kept
  <2>2. \A j \in (i + 1)..(k + 1) : j \in (i + 1)..k \/ j = k + 1
    BY <2>1
  <2>3. i \in Nat /\ k + 1 \in Nat /\ i \in 1..(k + 1)
    BY <2>1
  <2>4. Depth(c, i) \in Int /\ Depth(c, k + 1) \in Int
    BY <2>3, DepthNext
  <2>5. Depth(c, k + 1) >= Depth(c, i)
    BY <1>1, <2>4
  <2> QED BY <2>1, <2>2, <2>3, <2>5 DEF Kept
<1>2. ASSUME ~IsDots(c[k + 1]) PROVE k + 1 \in Kept(c, k + 1)
  <2>1. k + 1 \in 1..(k + 1) /\ \A j \in (k + 1 + 1)..(k + 1) : FALSE
    OBVIOUS
  <2> QED BY <1>2, <2>1 DEF Kept
<1> QED BY <1>1, <1>2

\* Of two names that are kept the later is the deeper.
LEMMA KeptDeeper ==
    ASSUME NEW c, NEW k \in Nat, NEW i \in Kept(c, k), NEW j \in Kept(c, k), i < j
    PROVE  Depth(c, i) < Depth(c, j)
<1>1. /\ i \in 1..k /\ j \in 1..k /\ ~IsDots(c[j])
      /\ \A m \in (i + 1)..k : Depth(c, m) >= Depth(c, i)
  BY DEF Kept
<1>2. PICK m \in Nat : j = m + 1
  <2>1. j - 1 \in Nat /\ j = (j - 1) + 1
    BY <1>1
  <2> QED BY <2>1
<1>3. Depth(c, m + 1) = Depth(c, m) + 1 /\ Depth(c, m) \in Int
  BY <1>1, <1>2, DepthNext
<1>4. i \in Nat
  BY <1>1
<1>5. Depth(c, i) \in Int
  BY <1>4, DepthNext
<1>6. Depth(c, m) >= Depth(c, i)
  <2>1. CASE m = i
    BY <1>5, <2>1
  <2>2. CASE m # i
    <3>1. m \in (i + 1)..k
      BY <1>1, <1>2, <2>2
    <3> QED BY <1>1, <3>1
  <2> QED BY <2>1, <2>2
<1> QED BY <1>2, <1>3, <1>5, <1>6

\* So there is one at each depth.
LEMMA KeptUnique ==
    ASSUME NEW c, NEW k \in Nat, NEW i \in Kept(c, k), NEW j \in Kept(c, k),
           Depth(c, i) = Depth(c, j)
    PROVE  i = j
<1>1. i \in Nat /\ j \in Nat
  BY DEF Kept
<1>2. Depth(c, i) \in Int /\ Depth(c, j) \in Int
  BY <1>1, DepthNext
<1>3. i < j => Depth(c, i) < Depth(c, j)
  BY KeptDeeper
<1>4. j < i => Depth(c, j) < Depth(c, i)
  BY KeptDeeper
<1> QED BY <1>1, <1>2, <1>3, <1>4

\* No step so far led above the top.
Within(c, k) == \A j \in 1..k : Depth(c, j) >= 0

\* out are the names that are kept, each at its depth.
Standing(c, k, out) ==
    /\ Len(out) = Depth(c, k)
    /\ \A d \in 1..Len(out) : \E i \in Kept(c, k) : Depth(c, i) = d /\ out[d] = c[i]

\* What the loop that strips the dots has, when k components are done.
Walked(c, k, s) ==
    (s.ok = TRUE <=> Within(c, k)) /\ (s.ok = TRUE => Standing(c, k, s.out))

\* One more step stays within when it does not lead above the top.
LEMMA WithinNext ==
    ASSUME NEW c, NEW k \in Nat
    PROVE  Within(c, k + 1) <=> Within(c, k) /\ Depth(c, k + 1) >= 0
<1>1. \A j \in 1..(k + 1) : j \in 1..k \/ j = k + 1
  OBVIOUS
<1>2. k + 1 \in 1..(k + 1) /\ \A j \in 1..k : j \in 1..(k + 1)
  OBVIOUS
<1> QED BY <1>1, <1>2 DEF Within

\* A step that takes no name, or just the last.
LEMMA StandingFewer ==
    ASSUME NEW Y, NEW c, NEW k \in Nat, NEW out \in Seq(Y), Standing(c, k, out),
           NEW m \in 0..Len(out), Depth(c, k + 1) = m
    PROVE  Standing(c, k + 1, SubSeq(out, 1, m))
<1> DEFINE o == SubSeq(out, 1, m)
<1>1. Len(o) = m /\ \A d \in 1..m : o[d] = out[d]
  BY Taken
<1> HIDE DEF o
<1>2. ASSUME NEW d \in 1..m
      PROVE  \E i \in Kept(c, k + 1) : Depth(c, i) = d /\ o[d] = c[i]
  <2>1. d \in 1..Len(out) /\ d <= m
    OBVIOUS
  <2>2. PICK i \in Kept(c, k) : Depth(c, i) = d /\ out[d] = c[i]
    BY <2>1 DEF Standing
  <2>3. i \in Kept(c, k + 1)
    BY <2>1, <2>2, KeptNext
  <2> QED BY <1>1, <2>2, <2>3
<1>3. Standing(c, k + 1, o)
  BY <1>1, <1>2 DEF Standing
<1> QED BY <1>3 DEF o

\* A step to a name.
LEMMA StandingMore ==
    ASSUME NEW Y, NEW c, NEW k \in Nat, NEW out \in Seq(Y), Standing(c, k, out),
           c[k + 1] \in Y, ~IsDots(c[k + 1])
    PROVE  Standing(c, k + 1, Append(out, c[k + 1]))
<1> DEFINE o == Append(out, c[k + 1])
<1>1. /\ Len(o) = Len(out) + 1 /\ o[Len(out) + 1] = c[k + 1] /\ Len(out) \in Nat
      /\ \A d \in 1..Len(out) : o[d] = out[d]
  OBVIOUS
<1> HIDE DEF o
<1>2. Depth(c, k + 1) = Len(out) + 1
  BY DepthNext DEF Standing
<1>3. ASSUME NEW d \in 1..Len(o)
      PROVE  \E i \in Kept(c, k + 1) : Depth(c, i) = d /\ o[d] = c[i]
  <2>1. CASE d = Len(out) + 1
    <3>1. k + 1 \in Kept(c, k + 1)
      BY KeptNext
    <3> QED BY <1>1, <1>2, <2>1, <3>1
  <2>2. CASE d # Len(out) + 1
    <3>1. d \in 1..Len(out) /\ d <= Len(out) + 1
      BY <1>1, <2>2
    <3>2. PICK i \in Kept(c, k) : Depth(c, i) = d /\ out[d] = c[i]
      BY <3>1 DEF Standing
    <3>3. i \in Kept(c, k + 1)
      BY <1>2, <3>1, <3>2, KeptNext
    <3> QED BY <1>1, <3>1, <3>2, <3>3
  <2> QED BY <2>1, <2>2
<1>4. Standing(c, k + 1, o)
  BY <1>1, <1>2, <1>3 DEF Standing
<1> QED BY <1>4 DEF o

\* A turn of the loop that strips the dots is a step of the walk.
LEMMA WalkTurn ==
    ASSUME NEW X, NEW c \in Parts(X), NEW k \in 0..(Len(c) - 1), NEW s \in StripState(X),
           Walked(c, k, s), NEW t, Strips(s, c[k + 1], t)
    PROVE  Walked(c, k + 1, t)
<1> DEFINE Y == Seq(X)
<1>1. PICK out \in Seq(Y) : out = s.out
  BY DEF StripState, Parts
<1>2. c \in Seq(Y) /\ s.ok \in BOOLEAN
  BY DEF StripState, Parts
<1> HIDE DEF Y
<1>3. PICK x \in Y : x = c[k + 1]
  BY <1>2
<1>4. k \in Nat /\ Len(out) \in Nat /\ (out = <<>> <=> Len(out) = 0)
  BY <1>2
<1>5. Within(c, k + 1) <=> Within(c, k) /\ Depth(c, k + 1) >= 0
  BY <1>4, WithinNext
<1>6. CASE s.ok = FALSE
  BY <1>5, <1>6 DEF Walked, Strips
<1> SUFFICES ASSUME s.ok = TRUE PROVE Walked(c, k + 1, t)
  BY <1>2, <1>6
<1>7. Within(c, k) /\ Standing(c, k, out) /\ Depth(c, k) = Len(out)
  BY <1>1 DEF Walked, Standing
<1>0. /\ x = <<Dot>> => Depth(c, k + 1) = Depth(c, k)
      /\ x = <<Dot, Dot>> => Depth(c, k + 1) = Depth(c, k) - 1
  <2>1. /\ c[k + 1] = <<Dot>> => Depth(c, k + 1) = Depth(c, k)
        /\ c[k + 1] = <<Dot, Dot>> => Depth(c, k + 1) = Depth(c, k) - 1
    BY <1>4, DepthNext
  <2> QED BY <1>3, <2>1
<1>8. CASE x = <<Dot>>
  <2>1. t = s
    BY <1>3, <1>8 DEF Strips
  <2>2. Depth(c, k + 1) = Len(out) /\ Len(out) \in 0..Len(out)
    BY <1>0, <1>4, <1>7, <1>8
  <2>3. SubSeq(out, 1, Len(out)) = out
    BY TakenMore
  <2>4. Standing(c, k + 1, out)
    BY <1>4, <1>7, <2>2, <2>3, StandingFewer
  <2>5. Depth(c, k + 1) >= 0
    BY <1>4, <2>2
  <2> QED BY <1>1, <1>5, <1>7, <2>1, <2>4, <2>5 DEF Walked
<1>9. CASE x = <<Dot, Dot>> /\ out = <<>>
  <2>1. t = [ok |-> FALSE, out |-> <<>>]
    BY <1>1, <1>3, <1>9 DEF Strips
  <2>2. ~(Depth(c, k + 1) >= 0)
    BY <1>0, <1>4, <1>7, <1>9
  <2>3. t.ok = FALSE
    BY <2>1
  <2> QED BY <1>5, <2>2, <2>3 DEF Walked
<1>10. CASE x = <<Dot, Dot>> /\ out # <<>>
  <2>0. Len(out) - 1 \in 0..Len(out)
    BY <1>4, <1>10
  <2>1. PICK m \in 0..Len(out) : m = Len(out) - 1
    BY <2>0, Zenon
  <2>2. t = [ok |-> TRUE, out |-> SubSeq(out, 1, m)]
    BY <1>1, <1>3, <1>10, <2>1 DEF Strips
  <2>3. Depth(c, k + 1) = m
    BY <1>0, <1>4, <1>7, <1>10, <2>1
  <2>4. Standing(c, k + 1, SubSeq(out, 1, m))
    BY <1>4, <1>7, <2>3, StandingFewer
  <2>5. Depth(c, k + 1) >= 0
    BY <1>4, <2>3
  <2>6. t.ok = TRUE /\ t.out = SubSeq(out, 1, m)
    BY <2>2
  <2> QED BY <1>5, <1>7, <2>4, <2>5, <2>6 DEF Walked
<1>11. CASE ~IsDots(x)
  <2>1. t = [ok |-> TRUE, out |-> Append(out, x)]
    BY <1>1, <1>3, <1>11 DEF Strips
  <2>2. Standing(c, k + 1, Append(out, x))
    BY <1>3, <1>4, <1>7, <1>11, StandingMore
  <2>3. Depth(c, k + 1) >= 0
    BY <1>3, <1>4, <1>7, <1>11, DepthNext
  <2>4. t.ok = TRUE /\ t.out = Append(out, x)
    BY <2>1
  <2> QED BY <1>5, <1>7, <2>2, <2>3, <2>4 DEF Walked
<1> QED BY <1>8, <1>9, <1>10, <1>11 DEF IsDots

\* So the loop walks the path.
LEMMA StripWalks ==
    ASSUME NEW X, NEW c \in Parts(X)
    PROVE  Stripped(c) \in StripState(X) /\ Walked(c, Len(c), Stripped(c))
<1> DEFINE Y == Seq(X)
           start == [ok |-> TRUE, out |-> <<>>]
<1>0. c \in Seq(Y) /\ start \in StripState(X)
  BY DEF Parts, StripState
<1>1. PICK f : Strip!Trace(f, start, c)
  <2> HIDE DEF Y, start
  <2> QED BY <1>0, Strip!LoopRuns
<1> DEFINE S == {n \in Nat : f[n] \in StripState(X) /\ Walked(c, n, f[n])}
<1>2. 0 \in S
  <2>1. f[0] = start /\ start.ok = TRUE /\ start.out = <<>>
    BY <1>1 DEF Strip!Trace
  <2>2. Within(c, 0) /\ Standing(c, 0, <<>>)
    BY DepthTop DEF Within, Standing
  <2> HIDE DEF start
  <2>3. Walked(c, 0, start)
    BY <2>1, <2>2 DEF Walked
  <2> QED BY <1>0, <2>1, <2>3
<1>3. \A n \in 0..(Len(c) - 1) : n \in S => n + 1 \in S
  <2> SUFFICES ASSUME NEW n \in 0..(Len(c) - 1), n \in S PROVE n + 1 \in S
    OBVIOUS
  <2>1. n + 1 \in 1..Len(c) /\ (n + 1) - 1 = n /\ c[n + 1] \in Y
    BY <1>0
  <2>2. f[n + 1] = StripDots(f[n], c[n + 1])
    BY <1>1, <2>1 DEF Strip!Trace
  <2>3. PICK s, t : s \in StripState(X) /\ s = f[n] /\ t = f[n + 1]
    BY <2>1
  <2>4. t \in StripState(X) /\ Strips(s, c[n + 1], t)
    BY <2>1, <2>2, <2>3, StripTurn
  <2>5. Walked(c, n + 1, t)
    BY <2>3, <2>4, WalkTurn
  <2> QED BY <2>1, <2>3, <2>4, <2>5
<1>4. \A n \in 0..Len(c) : n \in S
  <2>1. Len(c) \in Nat
    BY <1>0
  <2> HIDE DEF S
  <2> QED BY <1>2, <1>3, <2>1, Strip!Climb
<1>5. Stripped(c) = f[Len(c)] /\ Len(c) \in 0..Len(c)
  BY <1>0, <1>1 DEF Strip!Trace, Stripped
<1> QED BY <1>4, <1>5

\* n_path() resolves every string as walking it would.
LEMMA PathResolves ==
    ASSUME NEW X, Slash \in X, NEW path \in Seq(X)
    PROVE  ResolvesPath(path)
<1> DEFINE c == Components(NPcount(path))
           n == Len(c)
           s == Stripped(c)
           Y == Seq(X)
           Name(d) == CHOOSE i \in Kept(c, n) : Depth(c, i) = d
<1>1. c \in Parts(X)
  BY PcountClean, GrabPlain
<1>2. /\ NPath(path).ok = s.ok
      /\ s.ok = TRUE => NPath(path).str = Joined(s.out)
  BY DEF NPath
<1>3. ResolvesPath(path) <=>
         /\ NPath(path).ok = Within(c, n)
         /\ Within(c, n) => NPath(path).str = Joined([d \in 1..Depth(c, n) |-> c[Name(d)]])
  BY DEF ResolvesPath, Within
<1> HIDE DEF c
<1>4. s \in StripState(X) /\ Walked(c, n, s)
  BY <1>1, StripWalks
<1> HIDE DEF s
<1>5. PICK out \in Seq(Y) : out = s.out
  BY <1>4 DEF StripState, Parts
<1>6. s.ok \in BOOLEAN /\ n \in Nat
  <2>1. c \in Seq(Y)
    BY <1>1 DEF Parts
  <2>2. n \in Nat
    <3> HIDE DEF Y
    <3> QED BY <2>1
  <2> QED BY <1>4, <2>2 DEF StripState
<1> HIDE DEF Y, n
<1>7. ASSUME s.ok = TRUE PROVE out = [d \in 1..Depth(c, n) |-> c[Name(d)]]
  <2>1. Standing(c, n, out)
    BY <1>4, <1>5, <1>7 DEF Walked
  <2>2. Len(out) = Depth(c, n) /\ out = [d \in 1..Len(out) |-> out[d]]
    BY <2>1 DEF Standing
  <2>3. ASSUME NEW d \in 1..Len(out) PROVE out[d] = c[Name(d)]
    <3>1. PICK i \in Kept(c, n) : Depth(c, i) = d /\ out[d] = c[i]
      BY <2>1 DEF Standing
    <3>2. PICK j \in Kept(c, n) : Depth(c, j) = d /\ j = Name(d)
      BY <3>1, Zenon
    <3>3. i = j
      BY <1>6, <3>1, <3>2, KeptUnique
    <3> HIDE DEF Name
    <3> QED BY <3>1, <3>2, <3>3
  <2> HIDE DEF Name
  <2> QED BY <2>2, <2>3
<1> HIDE DEF Name
<1>8. s.ok = Within(c, n)
  <2>1. s.ok = TRUE <=> Within(c, n)
    BY <1>4 DEF Walked
  <2>2. Within(c, n) \in BOOLEAN
    BY DEF Within
  <2> QED BY <1>6, <2>1, <2>2
<1>9. s.ok = TRUE => NPath(path).str = Joined([d \in 1..Depth(c, n) |-> c[Name(d)]])
  BY <1>2, <1>5, <1>7
<1> QED BY <1>2, <1>3, <1>6, <1>8, <1>9

\* n_path() resolves whatever decoding left of the client's URI as walking it
\* from the top directory would: it fails just when some step leads above the
\* top, and keeps just the names that no later .. takes back, each at its
\* depth, whatever bytes the client sent and however many.
THEOREM ResolvedHolds == UriSpec => []Resolved
<1>1. uri \in Seq(Byte) => Resolved
  BY DecodedSeq, PathResolves DEF Resolved, Decoded
<1> QED BY <1>1, UriIsString, PTL

-----------------------------------------------------------------------------
(* The escaped URI of an object is normalised to the URI. *)

HexStart == [ok |-> TRUE, state |-> 0, hbuf |-> <<>>, out |-> <<>>]

\* n_hex() has met no error so far, and has the variables st, h and out.
HexAt(s, st, h, out) == s \in [ok : {TRUE}, state : {st}, hbuf : {h}, out : {out}]

\* A byte is escaped by two digits, of which n_hex() makes the byte again.
LEMMA EscapeDigits ==
    ASSUME NEW b \in Byte
    PROVE  \E c, d \in DOMAIN HexChar :
              Escape(b) = <<Percent, c, d>> /\ HexChar[c] * 16 + HexChar[d] = b
<1> DEFINE Digit(x) == IF x < 10 THEN 48 + x ELSE 65 + x - 10
           hi == b \div 16
           lo == b % 16
<1>1. hi \in 0..15 /\ lo \in 0..15 /\ hi * 16 + lo = b
  BY DEF Byte
<1>2. \A x \in 0..15 : Digit(x) \in DOMAIN HexChar /\ HexChar[Digit(x)] = x
  BY DEF HexChar
<1>3. Escape(b) = <<Percent, Digit(hi), Digit(lo)>>
  BY DEF Escape
<1> HIDE DEF Digit, hi, lo
<1> QED BY <1>1, <1>2, <1>3

\* Three turns of n_hex()
LEMMA HexThree ==
    ASSUME NEW h, NEW out, NEW c \in DOMAIN HexChar, NEW d \in DOMAIN HexChar,
           NEW b \in Byte, HexChar[c] * 16 + HexChar[d] = b, NEW s, HexAt(s, 0, h, out)
    PROVE  HexAt(HexStep(HexStep(HexStep(s, Percent), c), d), 0, <<c>>, Append(out, b))
<1>1. PICK s1 : s1 = HexStep(s, Percent)
  OBVIOUS
<1>2. HexAt(s1, 1, <<>>, out)
  <2>1. s.ok = TRUE /\ s.state = 0
    BY DEF HexAt
  <2>2. s1 = [s EXCEPT !.state = 1, !.hbuf = <<>>]
    BY <1>1, <2>1 DEF HexStep
  <2> QED BY <2>2 DEF HexAt
<1>3. PICK s2 : s2 = HexStep(s1, c)
  OBVIOUS
<1>4. PICK v : v = <<c>>
  OBVIOUS
<1>5. HexAt(s2, 1, v, out)
  <2>1. s1.ok = TRUE /\ s1.state = 1 /\ s1.hbuf = <<>>
    BY <1>2 DEF HexAt
  <2>2. s2 = [s1 EXCEPT !.hbuf = v]
    BY <1>3, <1>4, <2>1 DEF HexStep
  <2> QED BY <1>2, <2>2 DEF HexAt
<1>6. PICK s3, o : s3 = HexStep(s2, d) /\ o = Append(out, b)
  OBVIOUS
<1>7. HexAt(s3, 0, v, o)
  <2>1. s2.ok = TRUE /\ s2.state = 1 /\ s2.hbuf = v /\ s2.out = out
    BY <1>5 DEF HexAt
  <2>2. v # <<>> /\ v[1] = c
    BY <1>4
  <2>3. b # 0
    BY DEF Byte
  <2>4. s3 = [s2 EXCEPT !.state = 0, !.out = o]
    <3> DEFINE d1 == HexChar[c] * 16 + HexChar[d]
    <3> HIDE DEF d1
    <3>1. HexStep(s2, d) = IF d1 = 0 THEN [s2 EXCEPT !.ok = FALSE]
                           ELSE [s2 EXCEPT !.state = 0, !.out = Append(@, d1)]
      BY <2>1, <2>2 DEF HexStep, d1
    <3>2. d1 = b
      BY DEF d1
    <3> QED BY <1>6, <2>1, <2>3, <3>1, <3>2
  <2> QED BY <1>5, <2>4 DEF HexAt
<1> QED BY <1>1, <1>3, <1>4, <1>6, <1>7

\* The turns of n_hex() at one more byte.
LEMMA HexAppend ==
    ASSUME NEW e \in Seq(Byte), NEW b \in Byte
    PROVE  /\ Hex!After(HexStart, <<>>) = HexStart
           /\ Hex!After(HexStart, Append(e, b)) =
                 HexStep(Hex!After(HexStart, e), b)
BY Hex!LoopAppend

\* Escaping one more byte.
LEMMA EscAppend ==
    ASSUME NEW s \in Seq(Byte), NEW b \in Byte
    PROVE  Escaped(<<>>) = <<>> /\ Escaped(Append(s, b)) = Escaped(s) \o Escape(b)
<1>1. /\ Esc!After(<<>>, <<>>) = <<>>
      /\ Esc!After(<<>>, Append(s, b)) = EscapeStep(Esc!After(<<>>, s), b)
  BY Esc!LoopAppend
<1> QED BY <1>1, Zenon DEF Escaped, EscapeStep

\* What n_hex() makes of an escaped string, which has no question mark.
Unescapes(e, s) ==
    /\ e \in Seq(Byte)
    /\ \A i \in 1..Len(e) : e[i] # Question
    /\ \E h : HexAt(Hex!After(HexStart, e), 0, h, s)

\* One more byte.
LEMMA UnescapesNext ==
    ASSUME NEW s \in Seq(Byte), NEW b \in Byte, Unescapes(Escaped(s), s)
    PROVE  Unescapes(Escaped(Append(s, b)), Append(s, b))
<1>1. PICK e \in Seq(Byte) : e = Escaped(s)
  BY DEF Unescapes
<1>2. PICK h, r : r = Hex!After(HexStart, e) /\ HexAt(r, 0, h, s)
  BY <1>1 DEF Unescapes
<1>3. PICK c, d \in DOMAIN HexChar :
         Escape(b) = <<Percent, c, d>> /\ HexChar[c] * 16 + HexChar[d] = b
  BY EscapeDigits
<1>4. /\ c \in Byte /\ d \in Byte /\ Percent \in Byte
      /\ c # Question /\ d # Question /\ Percent # Question
  BY DEF HexChar, Byte, Question, Percent
<1> DEFINE e1 == Append(e, Percent)
           e2 == Append(e1, c)
           e3 == Append(e2, d)
<1>5. e1 \in Seq(Byte) /\ e2 \in Seq(Byte) /\ e3 \in Seq(Byte)
  <2> HIDE DEF Byte
  <2> QED BY <1>4
<1>6. Escaped(Append(s, b)) = e3
  <2>1. Escaped(Append(s, b)) = e \o <<Percent, c, d>>
    BY <1>1, <1>3, EscAppend
  <2>2. e \o <<Percent, c, d>> = e3
    <3> HIDE DEF Byte
    <3> QED BY <1>4
  <2> QED BY <2>1, <2>2
<1>7. \A i \in 1..Len(e3) : e3[i] # Question
  <2>1. /\ Len(e) \in Nat /\ Len(e3) = Len(e) + 3 /\ e3[Len(e) + 1] = Percent
        /\ e3[Len(e) + 2] = c /\ e3[Len(e) + 3] = d /\ \A i \in 1..Len(e) : e3[i] = e[i]
    <3> HIDE DEF Byte
    <3> QED BY <1>4
  <2>2. \A i \in 1..Len(e) : e[i] # Question
    BY <1>1 DEF Unescapes
  <2> HIDE DEF e3
  <2>3. \A i \in 1..Len(e3) : i \in 1..Len(e) \/ i \in {Len(e) + 1, Len(e) + 2, Len(e) + 3}
    BY <2>1
  <2> QED BY <1>4, <2>1, <2>2, <2>3
<1>8. HexAt(Hex!After(HexStart, e3), 0, <<c>>, Append(s, b))
  <2> HIDE DEF Byte
  <2>1. Hex!After(HexStart, e1) = HexStep(r, Percent)
    BY <1>2, <1>4, HexAppend
  <2> HIDE DEF e1
  <2>2. Hex!After(HexStart, e2) = HexStep(HexStep(r, Percent), c)
    BY <1>4, <1>5, <2>1, HexAppend
  <2> HIDE DEF e2
  <2>3. Hex!After(HexStart, e3) =
           HexStep(HexStep(HexStep(r, Percent), c), d)
    BY <1>4, <1>5, <2>2, HexAppend
  <2> QED BY <1>2, <1>3, <2>3, HexThree
<1> HIDE DEF e3
<1> QED BY <1>5, <1>6, <1>7, <1>8 DEF Unescapes

\* n_split() and n_hex() give an escaped string back.
LEMMA Unescaped ==
    ASSUME NEW s \in Seq(Byte)
    PROVE  /\ NHex(SplitUri(Escaped(s))) = [ok |-> TRUE, str |-> s]
           /\ NHex(QueryLeft(Escaped(s))).ok = TRUE
<1> DEFINE S == {n \in Nat : Unescapes(Escaped(SubSeq(s, 1, n)), SubSeq(s, 1, n))}
<1>0. <<>> \in Seq(Byte) /\ 1 \in Byte
  BY DEF Byte
<1>1. Unescapes(<<>>, <<>>)
  <2>1. Hex!After(HexStart, <<>>) = HexStart
    BY <1>0, HexAppend
  <2>2. HexAt(HexStart, 0, <<>>, <<>>)
    BY DEF HexAt, HexStart
  <2> QED BY <1>0, <2>1, <2>2 DEF Unescapes
<1>2. 0 \in S
  <2>1. SubSeq(s, 1, 0) = <<>>
    BY TakenMore
  <2>2. Escaped(<<>>) = <<>>
    BY <1>0, EscAppend
  <2> QED BY <1>1, <2>1, <2>2
<1>3. \A n \in 0..(Len(s) - 1) : n \in S => n + 1 \in S
  <2> SUFFICES ASSUME NEW n \in 0..(Len(s) - 1), n \in S PROVE n + 1 \in S
    OBVIOUS
  <2>1. n \in 0..Len(s) /\ n + 1 \in Nat /\ s[n + 1] \in Byte
    <3> HIDE DEF Byte
    <3> QED OBVIOUS
  <2>2. PICK t \in Seq(Byte), b \in Byte : t = SubSeq(s, 1, n) /\ b = s[n + 1]
    BY <2>1, Taken
  <2>3. SubSeq(s, 1, n + 1) = Append(t, b)
    BY <2>2, TakenMore
  <2>4. Unescapes(Escaped(t), t)
    BY <2>2
  <2>5. Unescapes(Escaped(Append(t, b)), Append(t, b))
    BY <2>4, UnescapesNext
  <2> QED BY <2>1, <2>3, <2>5
<1>4. Len(s) \in Nat
  OBVIOUS
<1>5. \A n \in 0..Len(s) : n \in S
  <2> HIDE DEF S
  <2> QED BY <1>2, <1>3, <1>4, Hex!Climb
<1>6. SubSeq(s, 1, Len(s)) = s
  BY TakenMore
<1>7. PICK e : e = Escaped(s)
  OBVIOUS
<1>8. Unescapes(e, s)
  <2>1. Len(s) \in S
    BY <1>4, <1>5
  <2>2. Unescapes(Escaped(SubSeq(s, 1, Len(s))), SubSeq(s, 1, Len(s)))
    BY <2>1
  <2> QED BY <1>6, <1>7, <2>2, Zenon
<1>9. e \in Seq(Byte) /\ SplitUri(e) = e
  BY <1>8, BeforeSeq DEF SplitUri, Unescapes
<1>10. SplitQuery(e) = <<>>
  <2>1. SplitQuery(e) = SubSeq(e, Len(e) + 2, Len(e)) /\ Len(e) \in Nat
    BY <1>9 DEF SplitQuery
  <2>2. Len(e) + 2 \in Int /\ Len(e) \in Int /\ Len(e) < Len(e) + 2
    BY <2>1
  <2> QED BY <2>1, <2>2, SubSeqEmpty
<1>11. ASSUME NEW buf, NEW str, Unescapes(buf, str)
       PROVE  NHex(buf) = [ok |-> TRUE, str |-> str]
  <2>1. PICK h, r : r = Hex!After(HexStart, buf) /\ HexAt(r, 0, h, str)
    BY <1>11 DEF Unescapes
  <2>2. r.ok = TRUE /\ r.state = 0 /\ r.out = str
    BY <2>1 DEF HexAt
  <2> QED BY <2>1, <2>2 DEF NHex, HexStart
<1>12. NHex(e) = [ok |-> TRUE, str |-> s]
  BY <1>8, <1>11
<1>13. NHex(<<>>) = [ok |-> TRUE, str |-> <<>>]
  BY <1>1, <1>11
<1> QED BY <1>7, <1>9, <1>10, <1>12, <1>13 DEF QueryLeft

\* n_utf8() has read n bytes of s: out are the first of them, chr the others,
\* which begin a sequence, and no sequence reaches over the end of out.
Reading(s, n, chr, out) ==
    /\ chr \in Seq(Byte) /\ out \in Seq(Byte) /\ Len(out) + Len(chr) = n
    /\ \A i \in 1..Len(out) : out[i] = s[i]
    /\ \A i \in 1..Len(chr) : chr[i] = s[Len(out) + i]
    /\ \A j \in 1..Len(out) : s[j] >= 192 => j + Utf8Len(s[j]) - 1 <= Len(out)
    /\ chr # <<>> => s[Len(out) + 1] >= 192 /\ Len(chr) < Utf8Len(s[Len(out) + 1])

\* A byte is in the range of ASCII, begins a sequence or continues one.
LEMMA ByteRange ==
    ASSUME NEW b \in Byte
    PROVE  /\ b \in Int /\ (b >= 192 => b \in 192..255 /\ ~(b < 192) /\ b >= 128)
           /\ b >= 128 /\ ~(b >= 192) => b \in 128..191
BY DEF Byte

\* The sequence that begins at i.
LEMMA SequenceAt ==
    ASSUME NEW s \in Seq(Byte), IsUtf8(s), NEW i \in 1..Len(s), s[i] >= 192
    PROVE  /\ Utf8Len(s[i]) \in 2..7 /\ i + Utf8Len(s[i]) - 1 <= Len(s)
           /\ \A j \in (i + 1)..(i + Utf8Len(s[i]) - 1) : s[j] \in 128..191
           /\ NUcs4(Sequence(s, i)) > 255
<1>1. s[i] \in Byte /\ i \in DOMAIN s
  <2> HIDE DEF Byte
  <2> QED OBVIOUS
<1>2. s[i] \in 192..255 /\ ~(s[i] < 192)
  BY <1>1, ByteRange
<1>3. Utf8Len(s[i]) \in 2..7
  <2>1. Utf8Len(s[i]) \in 1..7 /\ Utf8Len(s[i]) # 1
    BY <1>1, <1>2, SequenceLen
  <2> QED BY <2>1
<1> QED BY <1>1, <1>2, <1>3 DEF IsUtf8

\* A byte that starts no sequence belongs to one.
LEMMA SequenceAround ==
    ASSUME NEW s \in Seq(Byte), IsUtf8(s), NEW i \in 1..Len(s), s[i] \in 128..191
    PROVE  \E j \in 1..(i - 1) : s[j] >= 192 /\ i < j + Utf8Len(s[j])
<1>1. i \in DOMAIN s
  OBVIOUS
<1>2. PICK j \in 1..(i - 1) : s[j] \in 192..255 /\ i < j + Utf8Len(s[j])
  <2> HIDE DEF Byte
  <2>1. \A k \in DOMAIN s : s[k] \in 128..191 =>
           \E j \in 1..(k - 1) : s[j] \in 192..255 /\ k < j + Utf8Len(s[j])
    BY Zenon DEF IsUtf8
  <2> QED BY <1>1, <2>1, Zenon
<1>3. s[j] >= 192
  <2>1. PICK x \in 192..255 : x = s[j]
    BY <1>2, Zenon
  <2>2. x >= 192
    OBVIOUS
  <2> QED BY <2>1, <2>2, Zenon
<1> QED BY <1>2, <1>3, Zenon

\* Between two sequences.
LEMMA ReadFirst ==
    ASSUME NEW s \in Seq(Byte), IsUtf8(s), NEW n \in 0..(Len(s) - 1),
           NEW out, Reading(s, n, <<>>, out), NEW b \in Byte, b = s[n + 1]
    PROVE  IF b >= 128 THEN Reading(s, n + 1, <<b>>, out)
           ELSE Reading(s, n + 1, <<>>, Append(out, b))
<1>1. /\ out \in Seq(Byte) /\ Len(out) = n /\ n \in Nat /\ n + 1 \in 1..Len(s)
      /\ \A i \in 1..n : out[i] = s[i]
      /\ \A j \in 1..n : s[j] >= 192 => j + Utf8Len(s[j]) - 1 <= n
  BY DEF Reading
<1>2. CASE b >= 128
  <2>1. b >= 192
    <3> SUFFICES ASSUME ~(b >= 192) PROVE FALSE
      OBVIOUS
    <3>1. s[n + 1] \in 128..191
      BY <1>2, ByteRange
    <3>2. PICK j \in 1..((n + 1) - 1) : s[j] >= 192 /\ n + 1 < j + Utf8Len(s[j])
      BY <1>1, <3>1, SequenceAround
    <3>3. j \in 1..n /\ j \in 1..Len(s)
      BY <1>1
    <3>4. Utf8Len(s[j]) \in 2..7
      BY <3>2, <3>3, SequenceAt
    <3> QED BY <1>1, <3>2, <3>3, <3>4
  <2>2. Utf8Len(b) \in 2..7
    BY <1>1, <2>1, SequenceAt
  <2>3. PICK v \in Seq(Byte) : v = <<b>>
    <3>1. <<b>> \in Seq(Byte)
      OBVIOUS
    <3> QED BY <3>1, Zenon
  <2>4. Len(v) = 1 /\ v[1] = b
    BY <2>3
  <2>5. Reading(s, n + 1, v, out)
    BY <1>1, <2>1, <2>2, <2>4 DEF Reading
  <2> QED BY <1>2, <2>3, <2>5
<1>3. CASE ~(b >= 128)
  <2> DEFINE o == Append(out, b)
  <2>1. /\ o \in Seq(Byte) /\ Len(o) = n + 1 /\ o[n + 1] = b
        /\ \A i \in 1..n : o[i] = out[i]
    <3> HIDE DEF Byte
    <3> QED BY <1>1
  <2> HIDE DEF o
  <2>2. \A i \in 1..(n + 1) : i \in 1..n \/ i = n + 1
    BY <1>1
  <2>3. \A i \in 1..(n + 1) : o[i] = s[i]
    BY <1>1, <2>1, <2>2
  <2>4. ASSUME NEW j \in 1..(n + 1), s[j] >= 192 PROVE j + Utf8Len(s[j]) - 1 <= n + 1
    <3>1. j \in 1..n
      BY <1>3, <2>2, <2>4 DEF Byte
    <3>2. j \in 1..Len(s)
      BY <1>1, <3>1
    <3>3. Utf8Len(s[j]) \in 2..7
      BY <2>4, <3>2, SequenceAt
    <3> QED BY <1>1, <2>4, <3>1, <3>3
  <2>5. <<>> \in Seq(Byte) /\ Len(<<>>) = 0
    OBVIOUS
  <2>6. Reading(s, n + 1, <<>>, o)
    BY <1>1, <2>1, <2>3, <2>4, <2>5 DEF Reading
  <2> QED BY <1>3, <2>6 DEF o
<1> QED BY <1>2, <1>3

\* Within a sequence.
LEMMA ReadNext ==
    ASSUME NEW s \in Seq(Byte), IsUtf8(s), NEW n \in 0..(Len(s) - 1),
           NEW chr, chr # <<>>, NEW out, Reading(s, n, chr, out), NEW b \in Byte, b = s[n + 1],
           NEW v, v = Append(chr, b)
    PROVE  IF Len(v) < Utf8Len(v[1]) THEN Reading(s, n + 1, v, out)
           ELSE Utf8Char(v) = v /\ Reading(s, n + 1, <<>>, out \o v)
<1>1. /\ out \in Seq(Byte) /\ chr \in Seq(Byte) /\ Len(out) + Len(chr) = n
      /\ Len(out) \in Nat /\ Len(chr) \in Nat /\ Len(chr) # 0 /\ n + 1 \in 1..Len(s)
      /\ \A i \in 1..Len(out) : out[i] = s[i]
      /\ \A i \in 1..Len(chr) : chr[i] = s[Len(out) + i]
      /\ \A j \in 1..Len(out) : s[j] >= 192 => j + Utf8Len(s[j]) - 1 <= Len(out)
      /\ s[Len(out) + 1] >= 192 /\ Len(chr) < Utf8Len(s[Len(out) + 1])
  <2>1. out \in Seq(Byte) /\ chr \in Seq(Byte) /\ Len(out) + Len(chr) = n
    BY DEF Reading
  <2>2. Len(out) \in Nat /\ Len(chr) \in Nat /\ Len(chr) # 0 /\ n + 1 \in 1..Len(s)
    <3> HIDE DEF Byte
    <3> QED BY <2>1
  <2> QED BY <2>1, <2>2 DEF Reading
<1>2. PICK m \in Nat, k \in Nat : m = Len(out) /\ k = Len(chr)
  BY <1>1
<1>3. /\ v \in Seq(Byte) /\ Len(v) = k + 1 /\ v[k + 1] = b /\ m + k = n
      /\ \A i \in 1..k : v[i] = s[m + i]
  <2>1. /\ v \in Seq(Byte) /\ Len(v) = Len(chr) + 1 /\ v[Len(chr) + 1] = b
        /\ \A i \in 1..Len(chr) : v[i] = chr[i]
    <3> HIDE DEF Byte
    <3> QED BY <1>1
  <2> QED BY <1>1, <1>2, <2>1
<1>4. \A i \in 1..(k + 1) : v[i] = s[m + i]
  <2>1. \A i \in 1..(k + 1) : i \in 1..k \/ i = k + 1
    OBVIOUS
  <2>2. m + (k + 1) = n + 1
    BY <1>3
  <2> QED BY <1>3, <2>1, <2>2
<1>5. m + 1 \in 1..Len(s) /\ k # 0
  BY <1>1, <1>2
<1>6. v[1] = s[m + 1]
  <2>1. 1 \in 1..(k + 1)
    BY <1>5
  <2> QED BY <1>4, <2>1, Zenon
<1>7. PICK L \in 2..7 : L = Utf8Len(s[m + 1])
  BY <1>1, <1>2, <1>5, SequenceAt
<1>8. /\ m + 1 + L - 1 <= Len(s) /\ NUcs4(Sequence(s, m + 1)) > 255
      /\ \A j \in (m + 1 + 1)..(m + 1 + L - 1) : s[j] \in 128..191
  BY <1>1, <1>2, <1>5, <1>7, SequenceAt
<1>9. CASE k + 1 < L
  <2>1. v # <<>>
    BY <1>3
  <2>2. Len(out) + Len(v) = n + 1
    <3>1. m + k = n
      BY <1>3, Zenon
    <3>2. m + (k + 1) = n + 1
      BY <3>1
    <3> QED BY <1>2, <1>3, <3>2, Zenon
  <2>3. ASSUME NEW i \in 1..Len(v) PROVE v[i] = s[Len(out) + i]
    <3>1. i \in 1..(k + 1)
      BY <1>3
    <3>2. v[i] = s[m + i]
      BY <1>4, <3>1, Zenon
    <3> QED BY <1>2, <3>2, Zenon
  <2>4. Len(v) < Utf8Len(s[Len(out) + 1])
    <3>1. Utf8Len(s[Len(out) + 1]) = L
      BY <1>2, <1>7, Zenon
    <3> QED BY <1>3, <1>9, <3>1
  <2>5. Reading(s, n + 1, v, out)
    BY <1>1, <1>3, <2>2, <2>3, <2>4, Zenon DEF Reading
  <2> QED BY <1>3, <1>6, <1>7, <1>9, <2>5
<1>10. CASE ~(k + 1 < L)
  <2>1. k + 1 = L
    BY <1>1, <1>2, <1>7, <1>10
  <2>2. Sequence(s, m + 1) = v
    <3> DEFINE q == SubSeq(s, m + 1, m + L)
    <3>1. \A i \in (m + 1)..(m + L) : s[i] \in Byte
      <4>1. \A i \in (m + 1)..(m + L) : i \in 1..Len(s)
        BY <1>8
      <4> HIDE DEF Byte
      <4> QED BY <4>1
    <3>2. m + 1 \in Int /\ m + L \in Int /\ m + 1 <= m + L /\ (m + L) - (m + 1) + 1 = L
      OBVIOUS
    <3>3. /\ q \in Seq(Byte) /\ Len(q) = L
          /\ \A i \in 1..L : q[i] = s[m + 1 + i - 1]
      <4> HIDE DEF Byte
      <4> QED BY <3>1, <3>2, SubSeqProperties
    <3> HIDE DEF q
    <3>4. \A i \in 1..L : q[i] = v[i]
      <4>1. \A i \in 1..L : m + 1 + i - 1 = m + i
        OBVIOUS
      <4> QED BY <1>4, <2>1, <3>3, <4>1
    <3>5. q = v
      <4> HIDE DEF Byte
      <4> QED BY <1>3, <2>1, <3>3, <3>4, SeqEqual
    <3>6. m + 1 + L - 1 = m + L
      OBVIOUS
    <3> QED BY <1>7, <3>5, <3>6 DEF Sequence, q
  <2>3. Utf8Char(v) = v
    <3>1. L # 1
      OBVIOUS
    <3>2. Utf8Len(v[1]) # 1 /\ NUcs4(v) > 255
      BY <1>6, <1>7, <1>8, <2>2, <3>1, Zenon
    <3> QED BY <3>2, Zenon DEF Utf8Char
  <2> DEFINE o == out \o v
  <2>4. /\ o \in Seq(Byte) /\ Len(o) = m + L /\ \A i \in 1..m : o[i] = s[i]
        /\ \A i \in (m + 1)..(m + L) : o[i] = v[i - m]
    <3>1. /\ o \in Seq(Byte) /\ Len(o) = Len(out) + Len(v)
          /\ \A i \in 1..Len(out) : o[i] = out[i]
          /\ \A i \in (Len(out) + 1)..(Len(out) + Len(v)) : o[i] = v[i - Len(out)]
      <4> HIDE DEF Byte
      <4> QED BY <1>1, <1>3
    <3> QED BY <1>1, <1>2, <1>3, <2>1, <3>1
  <2> HIDE DEF o
  <2>5. ASSUME NEW i \in 1..(m + L) PROVE o[i] = s[i]
    <3>1. CASE i \in 1..m
      BY <2>4, <3>1
    <3>2. CASE i \notin 1..m
      <4>1. i \in (m + 1)..(m + L) /\ i - m \in 1..(k + 1) /\ m + (i - m) = i
        BY <2>1, <3>2
      <4> QED BY <1>4, <2>4, <4>1
    <3> QED BY <3>1, <3>2
  <2>6. ASSUME NEW j \in 1..(m + L), s[j] >= 192 PROVE j + Utf8Len(s[j]) - 1 <= m + L
    <3>1. CASE j \in 1..m
      <4>1. j \in 1..Len(s)
        BY <1>8, <3>1
      <4>2. PICK l \in 2..7 : l = Utf8Len(s[j])
        BY <2>6, <4>1, SequenceAt
      <4>3. j + Utf8Len(s[j]) - 1 <= m
        BY <1>1, <1>2, <2>6, <3>1, Zenon
      <4>4. j + l - 1 <= m
        BY <4>2, <4>3
      <4>5. j + l - 1 <= m + L
        BY <4>4
      <4> QED BY <4>2, <4>5
    <3>2. CASE j = m + 1
      BY <1>7, <3>2
    <3>3. CASE j \notin 1..m /\ j # m + 1
      <4>1. j \in (m + 1 + 1)..(m + 1 + L - 1)
        BY <3>3
      <4>2. PICK x \in 128..191 : x = s[j]
        BY <1>8, <4>1
      <4>3. x >= 192
        BY <2>6, <4>2
      <4> QED BY <4>3
    <3> QED BY <3>1, <3>2, <3>3
  <2>7. <<>> \in Seq(Byte) /\ Len(<<>>) = 0 /\ m + L = n + 1
    BY <1>3, <2>1
  <2>8. Reading(s, n + 1, <<>>, o)
    BY <2>4, <2>5, <2>6, <2>7 DEF Reading
  <2> QED BY <1>3, <1>6, <1>7, <1>10, <2>3, <2>8 DEF o
<1> QED BY <1>9, <1>10

\* A turn of n_utf8()
LEMMA ReadTurn ==
    ASSUME NEW s \in Seq(Byte), IsUtf8(s), NEW n \in 0..(Len(s) - 1),
           NEW st \in [chr : Seq(Byte), out : Seq(Byte)], Reading(s, n, st.chr, st.out)
    PROVE  \E chr, out : /\ Reading(s, n + 1, chr, out)
                         /\ Utf8Step(st, s[n + 1]) = [chr |-> chr, out |-> out]
<1> DEFINE Y == Seq(Byte)
<1>1. PICK c \in Y, o \in Y : st = [chr |-> c, out |-> o]
  OBVIOUS
<1>2. PICK b \in Byte : b = s[n + 1]
  OBVIOUS
<1> HIDE DEF Y
<1>3. /\ st.chr = c /\ st.out = o
      /\ \A x : [st EXCEPT !.chr = x] = [chr |-> x, out |-> o]
      /\ \A x : [st EXCEPT !.out = x] = [chr |-> c, out |-> x]
  BY <1>1
<1>4. Reading(s, n, c, o)
  BY <1>3
<1>5. CASE c = <<>> /\ b >= 128
  <2>1. Utf8Step(st, b) = [chr |-> <<b>>, out |-> o]
    <3>1. Utf8Step(st, b) = [st EXCEPT !.chr = <<b>>]
      BY <1>3, <1>5 DEF Utf8Step
    <3> QED BY <1>3, <3>1
  <2>2. Reading(s, n + 1, <<b>>, o)
    BY <1>2, <1>4, <1>5, ReadFirst
  <2> QED BY <1>2, <2>1, <2>2, Zenon
<1>6. CASE c = <<>> /\ ~(b >= 128)
  <2>1. Utf8Step(st, b) = [chr |-> <<>>, out |-> Append(o, b)]
    <3>1. Utf8Step(st, b) = [st EXCEPT !.out = Append(o, b)]
      BY <1>3, <1>6 DEF Utf8Step
    <3> QED BY <1>3, <1>6, <3>1
  <2>2. Reading(s, n + 1, <<>>, Append(o, b))
    BY <1>2, <1>4, <1>6, ReadFirst
  <2> QED BY <1>2, <2>1, <2>2, Zenon
<1>7. CASE c # <<>>
  <2>1. PICK v : v = Append(c, b)
    OBVIOUS
  <2>2. Utf8Step(st, b) = IF Len(v) < Utf8Len(v[1]) THEN [chr |-> v, out |-> o]
                          ELSE [chr |-> <<>>, out |-> o \o Utf8Char(v)]
    <3>1. Utf8Step(st, b) = IF Len(v) < Utf8Len(v[1]) THEN [st EXCEPT !.chr = v]
                            ELSE [chr |-> <<>>, out |-> o \o Utf8Char(v)]
      BY <1>3, <1>7, <2>1 DEF Utf8Step
    <3> QED BY <1>3, <3>1
  <2>3. IF Len(v) < Utf8Len(v[1]) THEN Reading(s, n + 1, v, o)
        ELSE Utf8Char(v) = v /\ Reading(s, n + 1, <<>>, o \o v)
    BY <1>2, <1>4, <1>7, <2>1, ReadNext
  <2>4. CASE Len(v) < Utf8Len(v[1])
    <3>1. Utf8Step(st, b) = [chr |-> v, out |-> o] /\ Reading(s, n + 1, v, o)
      BY <2>2, <2>3, <2>4, Zenon
    <3> QED BY <1>2, <3>1, Zenon
  <2>5. CASE ~(Len(v) < Utf8Len(v[1]))
    <3>1. /\ Utf8Step(st, b) = [chr |-> <<>>, out |-> o \o v]
          /\ Reading(s, n + 1, <<>>, o \o v)
      BY <2>2, <2>3, <2>5, Zenon
    <3> QED BY <1>2, <3>1, Zenon
  <2> QED BY <2>4, <2>5
<1> QED BY <1>5, <1>6, <1>7

\* n_utf8() leaves a string as it is whose sequences are whole and that it has
\* no byte for.
LEMMA Utf8Same ==
    ASSUME NEW s \in Seq(Byte), IsUtf8(s)
    PROVE  NUtf8(s) = [ok |-> TRUE, str |-> s]
<1> DEFINE start == [chr |-> <<>>, out |-> <<>>]
           Good(n, st) == /\ st \in [chr : Seq(Byte), out : Seq(Byte)]
                          /\ Reading(s, n, st.chr, st.out)
<1>1. PICK f : Utf8!Trace(f, start, s)
  <2> HIDE DEF start
  <2> QED BY Utf8!LoopRuns
<1> DEFINE S == {n \in Nat : Good(n, f[n])}
<1>2. 0 \in S
  <2>1. start \in [chr : Seq(Byte), out : Seq(Byte)] /\ start.chr = <<>> /\ start.out = <<>>
    OBVIOUS
  <2>2. Reading(s, 0, <<>>, <<>>)
    BY DEF Reading
  <2>3. f[0] = start
    BY <1>1 DEF Utf8!Trace
  <2> HIDE DEF start
  <2> QED BY <2>1, <2>2, <2>3
<1>3. \A n \in 0..(Len(s) - 1) : n \in S => n + 1 \in S
  <2> SUFFICES ASSUME NEW n \in 0..(Len(s) - 1), Good(n, f[n]) PROVE n + 1 \in S
    OBVIOUS
  <2>1. n + 1 \in 1..Len(s) /\ (n + 1) - 1 = n /\ n + 1 \in Nat
    OBVIOUS
  <2>2. f[n + 1] = Utf8Step(f[n], s[n + 1])
    BY <1>1, <2>1 DEF Utf8!Trace
  <2>3. PICK chr, out : /\ Reading(s, n + 1, chr, out)
                        /\ f[n + 1] = [chr |-> chr, out |-> out]
    <3>1. PICK st \in [chr : Seq(Byte), out : Seq(Byte)] :
             st = f[n] /\ Reading(s, n, st.chr, st.out)
      BY Zenon
    <3>2. \E chr, out : /\ Reading(s, n + 1, chr, out)
                        /\ Utf8Step(st, s[n + 1]) = [chr |-> chr, out |-> out]
      BY <3>1, ReadTurn
    <3> QED BY <2>2, <3>1, <3>2, Zenon
  <2>4. chr \in Seq(Byte) /\ out \in Seq(Byte)
    BY <2>3 DEF Reading
  <2>5. /\ f[n + 1] \in [chr : Seq(Byte), out : Seq(Byte)]
        /\ f[n + 1].chr = chr /\ f[n + 1].out = out
    BY <2>3, <2>4
  <2>6. Good(n + 1, f[n + 1])
    BY <2>3, <2>5
  <2> QED BY <2>1, <2>6
<1>4. Len(s) \in Nat
  OBVIOUS
<1>5. \A n \in 0..Len(s) : n \in S
  <2> HIDE DEF S
  <2> QED BY <1>2, <1>3, <1>4, Utf8!Climb
<1>6. PICK r : r = Utf8!After(start, s) /\ Good(Len(s), r)
  <2>1. Len(s) \in S
    BY <1>4, <1>5
  <2>2. f[Len(s)] = Utf8!After(start, s)
    BY <1>1 DEF Utf8!Trace
  <2> QED BY <2>1, <2>2
<1>7. PICK chr \in Seq(Byte), out \in Seq(Byte) : r.chr = chr /\ r.out = out
  BY <1>6
<1>8. Reading(s, Len(s), chr, out)
  BY <1>6, <1>7
<1>9. chr = <<>>
  <2> SUFFICES ASSUME chr # <<>> PROVE FALSE
    OBVIOUS
  <2>1. PICK m \in Nat, k \in Nat : m = Len(out) /\ k = Len(chr) /\ k # 0
    BY DEF Byte
  <2>2. m + k = Len(s) /\ s[m + 1] >= 192 /\ k < Utf8Len(s[m + 1])
    BY <1>8, <2>1 DEF Reading
  <2>3. m + 1 \in 1..Len(s)
    BY <2>1, <2>2
  <2>4. PICK l \in 2..7 : l = Utf8Len(s[m + 1])
    BY <2>2, <2>3, SequenceAt
  <2>5. m + 1 + l - 1 <= Len(s)
    BY <2>2, <2>3, <2>4, SequenceAt
  <2>6. k < l
    BY <2>2, <2>4
  <2> QED BY <2>1, <2>2, <2>5, <2>6
<1>10. out = s
  <2>1. Len(out) = Len(s) /\ \A i \in 1..Len(out) : out[i] = s[i]
    BY <1>8, <1>9 DEF Reading
  <2> HIDE DEF Byte
  <2> QED BY <2>1, SeqEqual
<1>11. NUtf8(s) = [ok |-> r.chr = <<>>,
                   str |-> CString(IF r.chr = <<>> THEN r.out ELSE HalfWritten(r.out, s))]
  BY <1>6 DEF NUtf8
<1>12. CString(s) = s
  <2>0. \A b \in Byte : b # 0
    BY DEF Byte
  <2>1. \A i \in 1..Len(s) : s[i] # 0
    BY <2>0
  <2> QED BY <2>1, BeforeSeq DEF CString
<1> QED BY <1>7, <1>9, <1>10, <1>11, <1>12

\* n_pcount() leaves a string as it is that has neither a backslash nor two
\* slashes together.
LEMMA PcountSame ==
    ASSUME NEW X, NEW s \in Seq(X), Clean(s)
    PROVE  NPcount(s) = s
<1>1. PICK f : Pcount!Trace(f, <<>>, s)
  BY Pcount!LoopRuns
<1> DEFINE S == {n \in Nat : f[n] = SubSeq(s, 1, n)}
<1>2. 0 \in S
  BY <1>1, TakenMore DEF Pcount!Trace
<1>3. \A n \in 0..(Len(s) - 1) : n \in S => n + 1 \in S
  <2> SUFFICES ASSUME NEW n \in 0..(Len(s) - 1), f[n] = SubSeq(s, 1, n) PROVE n + 1 \in S
    OBVIOUS
  <2>1. n + 1 \in 1..Len(s) /\ (n + 1) - 1 = n /\ n \in 0..Len(s) /\ s[n + 1] \in X
    OBVIOUS
  <2>2. f[n + 1] = PcountStep(f[n], s[n + 1])
    BY <1>1, <2>1 DEF Pcount!Trace
  <2>3. PICK out \in Seq(X), b \in X : out = f[n] /\ b = s[n + 1]
    BY <2>1, Taken
  <2>4. Len(out) = n /\ \A i \in 1..n : out[i] = s[i]
    BY <2>1, <2>3, Taken
  <2>5. b # Backslash
    BY <2>1, <2>3 DEF Clean
  <2>6. ~(b = Slash /\ out # <<>> /\ Last(out) = Slash)
    <3> SUFFICES ASSUME b = Slash, out # <<>>, Last(out) = Slash PROVE FALSE
      OBVIOUS
    <3>1. n # 0 /\ out[n] = Slash
      BY <2>4 DEF Last
    <3>2. n \in 1..n /\ n \in 1..(Len(s) - 1)
      BY <3>1
    <3>3. s[n] = Slash /\ s[n + 1] = Slash
      BY <2>3, <2>4, <3>1, <3>2
    <3> QED BY <3>2, <3>3 DEF Clean
  <2>7. PcountStep(out, b) = Append(out, b)
    BY <2>5, <2>6 DEF PcountStep
  <2>8. SubSeq(s, 1, n + 1) = Append(out, b)
    BY <2>3, TakenMore
  <2>9. f[n + 1] = SubSeq(s, 1, n + 1)
    BY <2>2, <2>3, <2>7, <2>8
  <2> QED BY <2>1, <2>9
<1>4. Len(s) \in Nat
  OBVIOUS
<1>5. \A n \in 0..Len(s) : n \in S
  <2> HIDE DEF S
  <2> QED BY <1>2, <1>3, <1>4, Pcount!Climb
<1>6. f[Len(s)] = SubSeq(s, 1, Len(s))
  BY <1>4, <1>5
<1>7. NPcount(s) = f[Len(s)]
  BY <1>1 DEF Pcount!Trace, NPcount
<1> QED BY <1>6, <1>7, TakenMore

\* Stripping leaves components as they are that are neither . nor ..
LEMMA StripSame ==
    ASSUME NEW X, NEW c \in Parts(X), \A i \in 1..Len(c) : ~IsDots(c[i])
    PROVE  Stripped(c) = [ok |-> TRUE, out |-> c]
<1> DEFINE Y == Seq(X)
           start == [ok |-> TRUE, out |-> <<>>]
<1>0. c \in Seq(Y) /\ start \in StripState(X)
  BY DEF Parts, StripState
<1>1. PICK f : Strip!Trace(f, start, c)
  <2> HIDE DEF Y, start
  <2> QED BY <1>0, Strip!LoopRuns
<1> DEFINE S == {n \in Nat : /\ f[n] \in StripState(X)
                             /\ f[n] = [ok |-> TRUE, out |-> SubSeq(c, 1, n)]}
<1>2. 0 \in S
  <2>1. SubSeq(c, 1, 0) = <<>>
    <3> HIDE DEF Y
    <3> QED BY <1>0, TakenMore
  <2>2. f[0] = start
    BY <1>1 DEF Strip!Trace
  <2> QED BY <1>0, <2>1, <2>2
<1>3. \A n \in 0..(Len(c) - 1) : n \in S => n + 1 \in S
  <2> SUFFICES ASSUME NEW n \in 0..(Len(c) - 1), n \in S PROVE n + 1 \in S
    OBVIOUS
  <2>1. n + 1 \in 1..Len(c) /\ (n + 1) - 1 = n /\ c[n + 1] \in Y
    BY <1>0
  <2>2. f[n + 1] = StripDots(f[n], c[n + 1])
    BY <1>1, <2>1 DEF Strip!Trace
  <2>3. PICK s, t : s \in StripState(X) /\ s = f[n] /\ t = f[n + 1]
    BY <2>1
  <2>4. t \in StripState(X) /\ Strips(s, c[n + 1], t)
    BY <2>1, <2>2, <2>3, StripTurn
  <2>5. PICK o, x : o = SubSeq(c, 1, n) /\ x = c[n + 1]
    OBVIOUS
  <2>6. s.ok = TRUE /\ s.out = o
    BY <2>3, <2>5
  <2>7. ~IsDots(x)
    BY <2>1, <2>5
  <2>8. t = [ok |-> TRUE, out |-> Append(o, x)]
    BY <2>4, <2>5, <2>6, <2>7 DEF Strips
  <2>9. SubSeq(c, 1, n + 1) = Append(o, x)
    <3> HIDE DEF Y
    <3> QED BY <1>0, <2>5, TakenMore
  <2>10. f[n + 1] \in StripState(X) /\ f[n + 1] = [ok |-> TRUE, out |-> SubSeq(c, 1, n + 1)]
    BY <2>3, <2>4, <2>8, <2>9, Zenon
  <2>11. n + 1 \in Nat
    OBVIOUS
  <2> QED BY <2>10, <2>11, Zenon
<1>4. Len(c) \in Nat
  <2> HIDE DEF Y
  <2> QED BY <1>0
<1>5. \A n \in 0..Len(c) : n \in S
  <2> HIDE DEF S
  <2> QED BY <1>2, <1>3, <1>4, Strip!Climb
<1>6. Stripped(c) = f[Len(c)]
  BY <1>1 DEF Strip!Trace, Stripped
<1>7. SubSeq(c, 1, Len(c)) = c
  <2> HIDE DEF Y
  <2> QED BY <1>0, TakenMore
<1>8. Len(c) \in S
  BY <1>4, <1>5
<1> QED BY <1>6, <1>7, <1>8

\* What is put together is a string.
LEMMA JoinSeq ==
    ASSUME NEW X, Slash \in X, NEW c \in Parts(X)
    PROVE  Join!After(<<>>, c) \in Seq(X)
<1> DEFINE Y == Seq(X)
<1>0. c \in Seq(Y)
  BY DEF Parts
<1>1. PICK f : Join!Trace(f, <<>>, c)
  <2> HIDE DEF Y
  <2> QED BY <1>0, Join!LoopRuns
<1> DEFINE S == {n \in Nat : f[n] \in Seq(X)}
<1>2. 0 \in S
  <2>1. f[0] = <<>>
    BY <1>1 DEF Join!Trace
  <2>2. <<>> \in Seq(X)
    OBVIOUS
  <2> QED BY <2>1, <2>2
<1>3. \A n \in 0..(Len(c) - 1) : n \in S => n + 1 \in S
  <2> SUFFICES ASSUME NEW n \in 0..(Len(c) - 1), f[n] \in Seq(X) PROVE n + 1 \in S
    OBVIOUS
  <2>1. n + 1 \in 1..Len(c) /\ (n + 1) - 1 = n /\ n + 1 \in Nat /\ c[n + 1] \in Y
    BY <1>0
  <2>2. f[n + 1] = JoinStep(f[n], c[n + 1])
    BY <1>1, <2>1 DEF Join!Trace
  <2>3. PICK s \in Seq(X), x \in Seq(X) : s = f[n] /\ x = c[n + 1]
    BY <2>1, Zenon
  <2>4. s \o <<Slash>> \o x \in Seq(X)
    OBVIOUS
  <2>5. f[n + 1] \in Seq(X)
    BY <2>2, <2>3, <2>4, Zenon DEF JoinStep
  <2> QED BY <2>1, <2>5
<1>4. Len(c) \in Nat
  <2> HIDE DEF Y
  <2> QED BY <1>0
<1>5. \A n \in 0..Len(c) : n \in S
  <2> HIDE DEF S
  <2> QED BY <1>2, <1>3, <1>4, Join!Climb
<1>6. Join!After(<<>>, c) = f[Len(c)]
  BY <1>1 DEF Join!Trace
<1>7. Len(c) \in S
  BY <1>4, <1>5
<1> QED BY <1>6, <1>7

\* Putting one more component to the others.
LEMMA JoinAppend ==
    ASSUME NEW X, NEW c \in Parts(X), NEW x \in Seq(X)
    PROVE  /\ Joined(Append(c, x)) = Join!After(<<>>, c) \o <<Slash>> \o x
           /\ c # <<>> => Joined(c) = Join!After(<<>>, c)
           /\ Join!After(<<>>, <<>>) = <<>>
<1> DEFINE Y == Seq(X)
<1>1. c \in Seq(Y) /\ x \in Y
  BY DEF Parts
<1> HIDE DEF Y
<1>2. /\ Join!After(<<>>, <<>>) = <<>>
      /\ Join!After(<<>>, Append(c, x)) = JoinStep(Join!After(<<>>, c), x)
  BY <1>1, Join!LoopAppend
<1>3. Append(c, x) # <<>>
  <2>1. Len(Append(c, x)) = Len(c) + 1 /\ Len(c) \in Nat
    BY <1>1
  <2> QED BY <2>1
<1> QED BY <1>2, <1>3, Zenon DEF Joined, JoinStep

\* s is put together from the components c, of which there is one.
Rejoins(X, c, s) ==
    c \in Parts(X) /\ c # <<>> /\ s \in Seq(X) /\ Join!After(<<>>, c) = s /\ Slash \in X

\* One more byte.
LEMMA RejoinTurn ==
    ASSUME NEW X, NEW c, NEW s, Rejoins(X, c, s), NEW b \in X
    PROVE  Rejoins(X, ComponentStep(c, b), Append(s, b))
<1> DEFINE Y == Seq(X)
           J(d) == Join!After(<<>>, d)
<1>1. c \in Parts(X) /\ c # <<>> /\ s \in Seq(X) /\ J(c) = s /\ Slash \in X
  BY DEF Rejoins
<1>2. c \in Seq(Y) /\ <<>> \in Y
  BY <1>1 DEF Parts
<1>3. Append(s, b) \in Seq(X)
  BY <1>1
<1>4. ASSUME NEW d \in Parts(X), NEW x \in Seq(X)
      PROVE  /\ Append(d, x) \in Parts(X) /\ Append(d, x) # <<>>
             /\ J(Append(d, x)) = J(d) \o <<Slash>> \o x
  <2>1. d \in Seq(Y) /\ x \in Y
    BY DEF Parts
  <2>2. Append(d, x) \in Seq(Y) /\ Len(Append(d, x)) = Len(d) + 1 /\ Len(d) \in Nat
    <3> HIDE DEF Y
    <3> QED BY <2>1
  <2>3. Append(d, x) \in Parts(X) /\ Append(d, x) # <<>>
    BY <2>2 DEF Parts
  <2>4. Joined(Append(d, x)) = J(d) \o <<Slash>> \o x
    BY JoinAppend
  <2>5. Joined(Append(d, x)) = J(Append(d, x))
    BY <2>3, Zenon DEF Joined
  <2> QED BY <2>3, <2>4, <2>5, Zenon
<1> HIDE DEF J
<1>5. CASE b = Slash
  <2>1. ComponentStep(c, b) = Append(c, <<>>)
    BY <1>5 DEF ComponentStep
  <2>2. PICK x \in Seq(X) : x = <<>>
    BY <1>2, Zenon
  <2>3. Append(c, x) \in Parts(X) /\ Append(c, x) # <<>> /\ J(Append(c, x)) = J(c) \o <<Slash>> \o x
    BY <1>1, <1>4
  <2>4. s \o <<Slash>> \o x = Append(s, b)
    BY <1>1, <1>5, <2>2
  <2>5. J(Append(c, x)) = Append(s, b)
    BY <1>1, <2>3, <2>4, Zenon
  <2> QED BY <1>1, <1>3, <2>1, <2>2, <2>3, <2>5 DEF Rejoins, J
<1>6. CASE b # Slash
  <2>1. PICK m \in 0..Len(c) : m + 1 = Len(c) /\ m \in 0..(Len(c) - 1)
    <3>1. Len(c) \in Nat /\ Len(c) # 0
      <4> HIDE DEF Y
      <4> QED BY <1>1, <1>2
    <3>2. Len(c) - 1 \in 0..Len(c) /\ (Len(c) - 1) + 1 = Len(c) /\ Len(c) - 1 \in 0..(Len(c) - 1)
      BY <3>1
    <3> QED BY <3>2, Zenon
  <2>2. PICK d \in Parts(X) : d = SubSeq(c, 1, m)
    <3> HIDE DEF Y
    <3>1. SubSeq(c, 1, m) \in Seq(Y)
      BY <1>2, Taken
    <3> QED BY <3>1, Zenon DEF Y, Parts
  <2>3. PICK y \in Seq(X) : y = c[m + 1]
    <3>1. m + 1 \in 1..Len(c)
      BY <2>1
    <3> QED BY <1>2, <3>1
  <2>4. c = Append(d, y)
    <3> HIDE DEF Y
    <3>1. SubSeq(c, 1, m + 1) = Append(SubSeq(c, 1, m), c[m + 1]) /\ SubSeq(c, 1, Len(c)) = c
      BY <1>2, <2>1, TakenMore
    <3> QED BY <2>1, <2>2, <2>3, <3>1, Zenon
  <2>5. ComponentStep(c, b) = Append(d, Append(y, b))
    BY <1>6, <2>4, GrabByte
  <2>6. PICK z \in Seq(X) : z = Append(y, b)
    <3>1. Append(y, b) \in Seq(X)
      OBVIOUS
    <3> QED BY <3>1, Zenon
  <2>7. J(c) = J(d) \o <<Slash>> \o y
    BY <1>4, <2>4
  <2>8. /\ Append(d, z) \in Parts(X) /\ Append(d, z) # <<>>
        /\ J(Append(d, z)) = J(d) \o <<Slash>> \o z
    BY <1>4
  <2>9. PICK u \in Seq(X) : u = J(d) \o <<Slash>>
    <3>1. J(d) \in Seq(X)
      BY <1>1, JoinSeq DEF J
    <3>2. J(d) \o <<Slash>> \in Seq(X)
      BY <1>1, <3>1
    <3> QED BY <3>2, Zenon
  <2>10. u \o Append(y, b) = Append(u \o y, b)
    OBVIOUS
  <2>11. J(Append(d, z)) = Append(s, b)
    BY <1>1, <2>6, <2>7, <2>8, <2>9, <2>10, Zenon
  <2>12. Rejoins(X, Append(d, z), Append(s, b))
    BY <1>1, <1>3, <2>8, <2>11 DEF Rejoins, J
  <2> QED BY <2>5, <2>6, <2>12, Zenon
<1> QED BY <1>5, <1>6

\* A string that begins with a slash is put together again from its components.
LEMMA JoinSame ==
    ASSUME NEW X, NEW s \in Seq(X), s # <<>>, s[1] = Slash
    PROVE  Joined(Components(s)) = s
<1> DEFINE R(n) == Rejoins(X, Components(SubSeq(s, 1, n)), SubSeq(s, 1, n))
           S == {n \in Nat : n # 0 => R(n)}
<1>0. Len(s) \in Nat /\ Len(s) # 0 /\ Slash \in X /\ s[1] \in X
  <2>1. Len(s) \in Nat /\ Len(s) # 0
    OBVIOUS
  <2>2. s[1] \in X
    BY <2>1
  <2> QED BY <2>1, <2>2
<1>1. 0 \in S
  OBVIOUS
<1>2. \A n \in 0..(Len(s) - 1) : n \in S => n + 1 \in S
  <2> SUFFICES ASSUME NEW n \in 0..(Len(s) - 1), n # 0 => R(n) PROVE n + 1 \in S
    OBVIOUS
  <2>1. n \in 0..Len(s) /\ n + 1 \in Nat /\ s[n + 1] \in X
    OBVIOUS
  <2>2. PICK t \in Seq(X), b \in X : t = SubSeq(s, 1, n) /\ b = s[n + 1]
    BY <2>1, Taken
  <2>3. SubSeq(s, 1, n + 1) = Append(t, b)
    BY <2>2, TakenMore
  <2>4. Components(Append(t, b)) = ComponentStep(Components(t), b)
    BY GrabAppend
  <2>5. CASE n = 0
    <3>1. t = <<>> /\ b = Slash
      BY <2>2, <2>5, TakenMore
    <3>2. Append(t, b) = <<Slash>>
      BY <3>1
    <3>3. Join!After(<<>>, << <<>> >>) = <<Slash>> /\ << <<>> >> \in Parts(X)
      <4>1. <<>> \in Parts(X) /\ <<>> \in Seq(X) /\ << <<>> >> \in Parts(X) /\ Append(<<>>, <<>>) = << <<>> >>
        BY DEF Parts
      <4>2. /\ Joined(Append(<<>>, <<>>)) = Join!After(<<>>, <<>>) \o <<Slash>> \o <<>>
            /\ Join!After(<<>>, <<>>) = <<>>
        BY <4>1, JoinAppend
      <4>3. <<>> \o <<Slash>> \o <<>> = <<Slash>> /\ << <<>> >> # <<>>
        OBVIOUS
      <4>4. Joined(<< <<>> >>) = Join!After(<<>>, << <<>> >>)
        BY <4>3, Zenon DEF Joined
      <4> QED BY <4>1, <4>2, <4>3, <4>4, Zenon
    <3>4. << <<>> >> # <<>> /\ <<Slash>> \in Seq(X)
      BY <1>0
    <3>5. Rejoins(X, << <<>> >>, <<Slash>>)
      BY <1>0, <3>3, <3>4, Zenon DEF Rejoins
    <3>6. R(n + 1)
      BY <2>3, <3>2, <3>5, TopComponents, Zenon
    <3> QED BY <2>1, <3>6, Zenon
  <2>6. CASE n # 0
    <3>1. Rejoins(X, Components(t), t)
      BY <2>2, <2>6, Zenon
    <3>2. Rejoins(X, ComponentStep(Components(t), b), Append(t, b))
      BY <3>1, RejoinTurn
    <3>3. R(n + 1)
      BY <2>3, <2>4, <3>2, Zenon
    <3> QED BY <2>1, <3>3, Zenon
  <2> QED BY <2>5, <2>6
<1>3. \A n \in 0..Len(s) : n \in S
  <2> HIDE DEF S
  <2> QED BY <1>0, <1>1, <1>2, Grab!Climb
<1>4. R(Len(s))
  BY <1>0, <1>3
<1>5. Rejoins(X, Components(s), s)
  BY <1>4, TakenMore
<1> QED BY <1>5, Zenon DEF Rejoins, Joined

\* Some component before the last is empty.
Hole(c) == \E m \in 1..(Len(c) - 1) : c[m] = <<>>

\* A turn leaves an empty component at a slash, and with another it stays.
LEMMA HoleTurn ==
    ASSUME NEW X, NEW c \in Parts(X), NEW b \in X, NEW d \in Parts(X), Grabs(c, b, d)
    PROVE  /\ b = Slash => LastEmpty(d)
           /\ b = Slash /\ LastEmpty(c) => Hole(d)
           /\ Hole(c) => Hole(d)
<1> DEFINE Y == Seq(X)
<1>1. c \in Seq(Y) /\ d \in Seq(Y)
  BY DEF Parts
<1> HIDE DEF Y
<1>2. Len(c) \in Nat /\ (c = <<>> <=> Len(c) = 0) /\ (d = <<>> <=> Len(d) = 0)
  BY <1>1
<1>3. b = Slash => /\ Len(d) = Len(c) + 1 /\ d[Len(c) + 1] = <<>>
                   /\ \A i \in 1..Len(c) : d[i] = c[i]
  BY DEF Grabs
<1>4. b = Slash => LastEmpty(d)
  BY <1>2, <1>3 DEF LastEmpty
<1>5. ASSUME b = Slash, LastEmpty(c) PROVE Hole(d)
  <2>1. Len(c) \in 1..(Len(d) - 1) /\ Len(c) \in 1..Len(c)
    BY <1>2, <1>3, <1>5 DEF LastEmpty
  <2>2. d[Len(c)] = <<>>
    BY <1>3, <1>5, <2>1 DEF LastEmpty
  <2> QED BY <2>1, <2>2 DEF Hole
<1>6. ASSUME Hole(c) PROVE Hole(d)
  <2>1. PICK m \in 1..(Len(c) - 1) : c[m] = <<>>
    BY <1>6 DEF Hole
  <2>2. m \in 1..Len(c) /\ m # Len(c) /\ Len(c) # 0
    BY <1>2
  <2>3. CASE b = Slash
    <3>1. m \in 1..(Len(d) - 1) /\ d[m] = c[m]
      BY <1>2, <1>3, <2>2, <2>3
    <3> QED BY <2>1, <3>1 DEF Hole
  <2>4. CASE b # Slash
    <3>1. Len(d) = Len(c) /\ d[m] = c[m]
      BY <1>2, <2>2, <2>4 DEF Grabs
    <3> QED BY <2>1, <3>1 DEF Hole
  <2> QED BY <2>3, <2>4
<1> QED BY <1>4, <1>5, <1>6

\* Two slashes together leave an empty component before the last.
LEMMA DoubleSlash ==
    ASSUME NEW X, NEW s \in Seq(X), NEW i \in 1..(Len(s) - 1), s[i] = Slash, s[i + 1] = Slash
    PROVE  Hole(Components(s))
<1>1. PICK f : Grab!Trace(f, <<>>, s)
  BY Grab!LoopRuns
<1> DEFINE Good(n, c) == /\ c \in Parts(X) /\ (n = i => LastEmpty(c))
                         /\ n > i => Hole(c)
           S == {n \in Nat : Good(n, f[n])}
<1>2. 0 \in S
  <2>1. f[0] = <<>>
    BY <1>1 DEF Grab!Trace
  <2>2. <<>> \in Parts(X)
    BY DEF Parts
  <2>3. 0 # i /\ ~(0 > i)
    OBVIOUS
  <2> QED BY <2>1, <2>2, <2>3
<1>3. \A n \in 0..(Len(s) - 1) : n \in S => n + 1 \in S
  <2> SUFFICES ASSUME NEW n \in 0..(Len(s) - 1), Good(n, f[n]) PROVE n + 1 \in S
    OBVIOUS
  <2>1. n + 1 \in 1..Len(s) /\ (n + 1) - 1 = n /\ s[n + 1] \in X /\ n + 1 \in Nat
    OBVIOUS
  <2>2. f[n + 1] = ComponentStep(f[n], s[n + 1])
    BY <1>1, <2>1 DEF Grab!Trace
  <2>3. PICK c, b, d : c \in Parts(X) /\ b \in X /\ c = f[n] /\ b = s[n + 1] /\ d = f[n + 1]
    BY <2>1
  <2>4. d \in Parts(X) /\ Grabs(c, b, d)
    BY <2>2, <2>3, GrabTurn
  <2>5. (n = i => LastEmpty(c)) /\ (n > i => Hole(c))
    BY <2>3
  <2>6. n + 1 = i => LastEmpty(d)
    BY <2>3, <2>4, HoleTurn
  <2>7. n = i => Hole(d)
    BY <2>3, <2>4, <2>5, HoleTurn
  <2>8. n > i => Hole(d)
    BY <2>3, <2>4, <2>5, HoleTurn
  <2>9. n + 1 > i => n = i \/ n > i
    OBVIOUS
  <2>10. Good(n + 1, d)
    BY <2>4, <2>6, <2>7, <2>8, <2>9
  <2> QED BY <2>1, <2>3, <2>10
<1>4. Len(s) \in Nat /\ Len(s) > i
  OBVIOUS
<1>5. \A n \in 0..Len(s) : n \in S
  <2> HIDE DEF S
  <2> QED BY <1>2, <1>3, <1>4, Grab!Climb
<1>6. Components(s) = f[Len(s)]
  BY <1>1 DEF Grab!Trace, Components
<1>7. Len(s) \in S
  BY <1>4, <1>5
<1> QED BY <1>4, <1>6, <1>7

\* n_path() leaves a normal URI as it is.
LEMMA PathSame ==
    ASSUME NEW X, NEW s \in Seq(X), IsNormal(s)
    PROVE  NPath(s) = [ok |-> TRUE, str |-> s]
<1> DEFINE Y == Seq(X)
<1>1. PICK c \in Parts(X) : c = Components(s)
  BY GrabPlain, Zenon
<1>2. c \in Seq(Y)
  BY DEF Parts
<1> HIDE DEF Y
<1>3. DOMAIN c = 1..Len(c)
  BY <1>2
<1>4. /\ s # <<>> /\ s[1] = Slash /\ ~Contains(s, Backslash)
      /\ \A i \in DOMAIN c : ~IsDots(c[i]) /\ (c[i] = <<>> => i = Len(c))
  BY <1>1 DEF IsNormal
<1>5. Clean(s)
  <2>1. \A i \in 1..Len(s) : s[i] # Backslash
    BY <1>4 DEF Contains
  <2>2. ASSUME NEW i \in 1..(Len(s) - 1), s[i] = Slash, s[i + 1] = Slash PROVE FALSE
    <3>1. Hole(c)
      BY <1>1, <2>2, DoubleSlash
    <3>2. PICK m \in 1..(Len(c) - 1) : c[m] = <<>>
      BY <3>1 DEF Hole
    <3>3. Len(c) \in Nat
      BY <1>2
    <3>4. m \in 1..Len(c) /\ m # Len(c)
      BY <3>3
    <3> QED BY <1>3, <1>4, <3>2, <3>4
  <2> QED BY <2>1, <2>2 DEF Clean
<1>6. NPcount(s) = s
  BY <1>5, PcountSame
<1>7. Stripped(c) = [ok |-> TRUE, out |-> c]
  BY <1>3, <1>4, StripSame
<1>8. Joined(c) = s
  BY <1>1, <1>4, JoinSame
<1>9. PICK r : r = Stripped(c)
  OBVIOUS
<1>10. r.ok = TRUE /\ r.out = c
  BY <1>7, <1>9
<1>11. NPath(s) = [ok |-> r.ok, str |-> IF r.ok THEN Joined(r.out) ELSE Before(s, Slash)]
  BY <1>1, <1>6, <1>9 DEF NPath
<1> QED BY <1>8, <1>10, <1>11

\* The URI of an object, with every byte escaped, is normalised to the URI,
\* whatever characters it has: n_hex(), n_utf8() and n_path() together undo
\* just the escapes.
THEOREM RoundTripHolds == UriSpec => []RoundTrip
<1>1. ASSUME NEW s \in Seq(Byte), IsNormal(s), IsUtf8(s)
      PROVE  NadsNormalize(Escaped(s)) = [ok |-> TRUE, uri |-> s]
  <2> DEFINE e == Escaped(s)
             h == NHex(SplitUri(e))
             u == NUtf8(h.str)
             p == NPath(u.str)
             q == NHex(QueryLeft(e))
  <2>1. NadsNormalize(e) = IF ~h.ok THEN [ok |-> FALSE, uri |-> h.str]
                           ELSE IF ~u.ok THEN [ok |-> FALSE, uri |-> u.str]
                           ELSE [ok |-> p.ok /\ q.ok, uri |-> p.str]
    BY DEF NadsNormalize
  <2>2. h = [ok |-> TRUE, str |-> s] /\ q.ok = TRUE
    BY Unescaped
  <2> HIDE DEF q, h
  <2>3. h.ok = TRUE /\ h.str = s
    BY <2>2
  <2>4. u = [ok |-> TRUE, str |-> s]
    BY <1>1, <2>3, Utf8Same
  <2> HIDE DEF u
  <2>5. u.ok = TRUE /\ u.str = s
    BY <2>4
  <2>6. p = [ok |-> TRUE, str |-> s]
    BY <1>1, <2>5, PathSame
  <2> HIDE DEF p
  <2>7. p.ok = TRUE /\ p.str = s
    BY <2>6
  <2> HIDE DEF e
  <2>8. NadsNormalize(e) = [ok |-> TRUE, uri |-> s]
    BY <2>1, <2>2, <2>3, <2>5, <2>7
  <2> QED BY <2>8 DEF e
<1>2. uri \in Seq(Byte) => RoundTrip
  BY <1>1 DEF RoundTrip
<1> QED BY <1>2, UriIsString, PTL

=============================================================================
