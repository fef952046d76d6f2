---------------------------- MODULE ScannerProofs ----------------------------
(***************************************************************************)
(* The stream scanner: however the bytes arrive, the reader is handed the  *)
(* public frames and nothing else, and an update holds back what is behind *)
(* it.                                                                     *)
(***************************************************************************)
EXTENDS ScannerInvariants, SumProofs, FiniteSetTheorems, SequenceTheorems

-----------------------------------------------------------------------------
(* Stretches of the stream.                                                *)

LEMMA SpanIs ==
    ASSUME NEW a \in Nat, NEW n \in Nat
    PROVE  /\ Span(a, n) \in Seq(Nat) /\ Len(Span(a, n)) = n
           /\ DOMAIN Span(a, n) = 1 .. n
           /\ \A j \in 1 .. n : Span(a, n)[j] = a + j
           /\ Span(a, n) = <<>> <=> n = 0
  <1>1. Span(a, n) \in Seq(Nat) /\ Len(Span(a, n)) = n
    BY DEF Span
  <1>2. DOMAIN Span(a, n) = 1 .. n /\ \A j \in 1 .. n : Span(a, n)[j] = a + j
    BY DEF Span
  <1> QED
    BY <1>1, <1>2, EmptySeq

LEMMA SpanSplit ==
    ASSUME NEW a \in Nat, NEW n \in Nat, NEW m \in 0 .. n
    PROVE  /\ Take(Span(a, n), m) = Span(a, m)
           /\ Skip(Span(a, n), m) = Span(a + m, n - m)
  <1>1. /\ Span(a, n) \in Seq(Nat) /\ Len(Span(a, n)) = n
        /\ \A j \in 1 .. n : Span(a, n)[j] = a + j
    BY SpanIs
  <1>2. Take(Span(a, n), m) = [j \in 1 .. m |-> Span(a, n)[j]]
    BY <1>1 DEF Take
  <1>3. Skip(Span(a, n), m) = [j \in 1 .. n - m |-> Span(a, n)[m + j]]
    BY <1>1 DEF Skip
  <1>4. [j \in 1 .. m |-> Span(a, n)[j]] = [j \in 1 .. m |-> a + j]
    BY <1>1
  <1>5. [j \in 1 .. n - m |-> Span(a, n)[m + j]]
            = [j \in 1 .. n - m |-> (a + m) + j]
    BY <1>1
  <1> QED
    BY <1>2, <1>3, <1>4, <1>5 DEF Span

LEMMA SpanJoin ==
    ASSUME NEW a \in Nat, NEW m \in Nat, NEW k \in Nat
    PROVE  Span(a, m) \o Span(a + m, k) = Span(a, m + k)
  <1> DEFINE s == Span(a, m)
             t == Span(a + m, k)
             u == Span(a, m + k)
  <1>1. /\ s \in Seq(Nat) /\ Len(s) = m
        /\ \A j \in 1 .. m : s[j] = a + j
    BY SpanIs, Zenon
  <1>2. a + m \in Nat /\ m + k \in Nat
    OBVIOUS
  <1>3. /\ t \in Seq(Nat) /\ Len(t) = k
        /\ \A j \in 1 .. k : t[j] = (a + m) + j
    BY <1>2, SpanIs, Zenon
  <1>4. /\ u \in Seq(Nat) /\ Len(u) = m + k
        /\ \A j \in 1 .. m + k : u[j] = a + j
    BY <1>2, SpanIs, Zenon
  <1> HIDE DEF s, t, u
  <1>5. /\ s \o t \in Seq(Nat) /\ Len(s \o t) = m + k
        /\ \A j \in 1 .. m + k :
              (s \o t)[j] = IF j <= m THEN s[j] ELSE t[j - m]
    BY <1>1, <1>3, ConcatProperties
  <1>6. \A j \in 1 .. m + k : (s \o t)[j] = u[j]
    <2> SUFFICES ASSUME NEW j \in 1 .. m + k PROVE (s \o t)[j] = u[j]
      OBVIOUS
    <2>1. CASE j <= m
      BY <1>1, <1>4, <1>5, <2>1
    <2>2. CASE ~(j <= m)
      <3>1. j - m \in 1 .. k /\ (a + m) + (j - m) = a + j
        BY <2>2
      <3>2. t[j - m] = a + j
        BY <1>3, <3>1
      <3> QED
        BY <1>4, <1>5, <2>2, <3>2
    <2> QED
      BY <2>1, <2>2
  <1>7. s \o t = u
    BY <1>4, <1>5, <1>6, SeqEqual
  <1> QED
    BY <1>7 DEF s, t, u

-----------------------------------------------------------------------------
(* Where the frames are.                                                   *)

Sizes == [j \in DOMAIN wire |-> Size(wire[j])]

LEMMA StreamIs ==
    ASSUME wire \in Streams
    PROVE  /\ wire \in Seq(Frame) /\ Len(wire) \in Nat \ {0}
           /\ DOMAIN wire = 1 .. Len(wire) /\ 1 \in DOMAIN wire
           /\ Http2 => \A i \in DOMAIN wire :
                 /\ i # 1 => wire[i] # Preface /\ Payload(wire[i]) \in Nat
                 /\ wire[i].kind = "dt" => Payload(wire[i]) <= MaxSyncFrame
           /\ ~Http2 => /\ Len(wire) = 1 /\ Public(wire[1])
                        /\ wire[1] # Preface /\ Payload(wire[1]) \in Nat
  <1>1. /\ wire \in Seq(Frame) /\ wire # <<>>
        /\ \A i \in DOMAIN wire : wire[i] # Preface => Payload(wire[i]) \in Nat
        /\ \/ /\ wire[1] = Preface
              /\ \A i \in DOMAIN wire :
                    /\ i # 1 => wire[i] # Preface
                    /\ wire[i].kind = "dt" => Payload(wire[i]) <= MaxSyncFrame
           \/ Len(wire) = 1 /\ wire[1] # Preface /\ ~Private(wire[1])
    BY StreamAssumption
  <1>2. Len(wire) \in Nat \ {0} /\ DOMAIN wire = 1 .. Len(wire)
    BY <1>1, EmptySeq
  <1>3. 1 \in DOMAIN wire
    BY <1>2
  <1>4. wire[1] = Preface => Http2
    BY DEF Http2
  <1> QED
    BY <1>1, <1>2, <1>3, <1>4 DEF Http2, Public

LEMMA SizeIs ==
    ASSUME wire \in Streams, NEW i \in DOMAIN wire
    PROVE  /\ Size(wire[i]) \in Nat \ {0}
           /\ Http2 /\ i = 1 => Size(wire[i]) = PrefaceLen
           /\ ~(Http2 /\ i = 1) =>
                 /\ Payload(wire[i]) \in Nat
                 /\ Size(wire[i]) = HeaderLen + Payload(wire[i])
  <1>1. CASE Http2 /\ i = 1
    BY <1>1, LengthAssumption DEF Size, Http2
  <1>2. CASE ~(Http2 /\ i = 1)
    <2>1. wire[i] # Preface /\ Payload(wire[i]) \in Nat
      BY <1>2, StreamIs
    <2> QED
      BY <1>2, <2>1, LengthAssumption DEF Size
  <1> QED
    BY <1>1, <1>2

LEMMA EndIs ==
    ASSUME wire \in Streams
    PROVE  /\ End(0) = 0
           /\ \A i \in 0 .. Len(wire) : End(i) \in Nat
           /\ \A i \in DOMAIN wire : End(i) = End(i - 1) + Size(wire[i])
           /\ Total \in Nat
  <1>1. Len(wire) \in Nat /\ DOMAIN wire = 1 .. Len(wire)
    BY StreamIs
  <1>2. \A i \in 1 .. Len(wire) : Sizes[i] = Size(wire[i]) /\ Sizes[i] \in Nat
    BY <1>1, SizeIs DEF Sizes
  <1>3. \A i : End(i) = SumTo(Sizes, i)
    BY DEF End, Sizes
  <1>4. \A i \in 0 .. Len(wire) : End(i) \in Nat
    BY <1>1, <1>2, <1>3, SumNat
  <1>5. ASSUME NEW i \in DOMAIN wire
        PROVE  End(i) = End(i - 1) + Size(wire[i])
    <2>1. i - 1 \in Nat /\ (i - 1) + 1 = i
      BY <1>1
    <2>2. SumTo(Sizes, (i - 1) + 1) = SumTo(Sizes, i - 1) + Sizes[(i - 1) + 1]
      BY <2>1, SumNext
    <2> QED
      BY <1>1, <1>2, <1>3, <2>1, <2>2
  <1>6. Len(wire) \in 0 .. Len(wire)
    BY <1>1
  <1> QED
    BY <1>3, <1>4, <1>5, <1>6, SumNone DEF Total

LEMMA EndGrows ==
    ASSUME wire \in Streams, NEW i \in 0 .. Len(wire), NEW j \in i .. Len(wire)
    PROVE  /\ End(i) <= End(j)
           /\ i < j => End(i) < End(j)
  <1>1. Len(wire) \in Nat /\ DOMAIN wire = 1 .. Len(wire)
    BY StreamIs
  <1>2. \A k \in 1 .. Len(wire) : Sizes[k] \in Nat
    BY <1>1, SizeIs DEF Sizes
  <1>3. \A a \in 0 .. Len(wire) : \A b \in a .. Len(wire) : End(a) <= End(b)
    <2>1. \A k : End(k) = SumTo(Sizes, k)
      BY DEF End, Sizes
    <2> QED
      BY <1>1, <1>2, <2>1, SumGrows
  <1>4. ASSUME i < j PROVE End(i) < End(j)
    <2>1. i + 1 \in DOMAIN wire /\ (i + 1) - 1 = i /\ i + 1 \in 0 .. Len(wire)
          /\ j \in i + 1 .. Len(wire) /\ j \in 0 .. Len(wire)
      BY <1>1, <1>4
    <2>2. End(i + 1) = End(i) + Size(wire[i + 1])
          /\ Size(wire[i + 1]) \in Nat \ {0}
      BY <2>1, EndIs, SizeIs
    <2>3. End(i) \in Nat /\ End(i + 1) \in Nat /\ End(j) \in Nat
      BY <2>1, EndIs
    <2>4. End(i + 1) <= End(j)
      BY <1>3, <2>1
    <2> QED
      BY <2>2, <2>3, <2>4
  <1> QED
    BY <1>3, <1>4

(* Every byte is of one frame.                                             *)
LEMMA FrameAtIs ==
    ASSUME wire \in Streams, NEW p \in Nat, NEW i \in DOMAIN wire, Within(p, i)
    PROVE  FrameAt(p) = i
  <1>1. Len(wire) \in Nat /\ DOMAIN wire = 1 .. Len(wire)
    BY StreamIs
  <1>2. ASSUME NEW j \in DOMAIN wire, NEW k \in DOMAIN wire, j < k,
               Within(p, j), Within(p, k)
        PROVE  FALSE
    <2>1. /\ j \in 0 .. Len(wire) /\ k - 1 \in j .. Len(wire)
          /\ k - 1 \in 0 .. Len(wire)
      BY <1>1, <1>2
    <2>2. End(j) <= End(k - 1) /\ End(j) \in Nat /\ End(k - 1) \in Nat
      BY <2>1, EndGrows, EndIs
    <2> QED
      BY <1>2, <2>2 DEF Within
  <1>3. \A j \in DOMAIN wire : Within(p, j) => j = i
    BY <1>1, <1>2
  <1> QED
    BY <1>3 DEF FrameAt

LEMMA Covered ==
    ASSUME wire \in Streams, NEW p \in 1 .. Total
    PROVE  \E i \in DOMAIN wire : Within(p, i)
  <1> DEFINE A == {n \in Nat : n <= Len(wire) =>
                      (p <= End(n) => \E i \in DOMAIN wire : Within(p, i))}
  <1>1. Len(wire) \in Nat /\ DOMAIN wire = 1 .. Len(wire) /\ Total \in Nat
    BY StreamIs, EndIs
  <1>2. 0 \in A
    BY <1>1, EndIs
  <1>3. ASSUME NEW n \in A PROVE n + 1 \in A
    <2> SUFFICES ASSUME n + 1 <= Len(wire), p <= End(n + 1)
                 PROVE  \E i \in DOMAIN wire : Within(p, i)
      OBVIOUS
    <2>1. /\ n \in Nat /\ n <= Len(wire) /\ n + 1 \in DOMAIN wire
          /\ (n + 1) - 1 = n /\ n \in 0 .. Len(wire)
      BY <1>1
    <2>2. End(n) \in Nat
      BY <2>1, EndIs
    <2>3. CASE p <= End(n)
      BY <2>1, <2>3
    <2>4. CASE ~(p <= End(n))
      <3>1. Within(p, n + 1)
        BY <1>1, <2>1, <2>2, <2>4 DEF Within
      <3> QED
        BY <2>1, <3>1
    <2> QED
      BY <2>3, <2>4
  <1> HIDE DEF A
  <1>4. A = Nat
    <2>1. A \subseteq Nat
      BY DEF A
    <2> QED
      BY <1>2, <1>3, <2>1, InductiveSet
  <1>5. Len(wire) \in A /\ p <= End(Len(wire))
    BY <1>1, <1>4 DEF Total
  <1> QED
    BY <1>1, <1>5 DEF A

LEMMA BytesOf ==
    ASSUME wire \in Streams, NEW i \in DOMAIN wire, NEW p \in Nat, Within(p, i)
    PROVE  p \in 1 .. Total /\ (IsPublic(p) <=> Public(wire[i]))
  <1>1. /\ i - 1 \in 0 .. Len(wire) /\ i \in 0 .. Len(wire)
        /\ Len(wire) \in i .. Len(wire) /\ Len(wire) \in 0 .. Len(wire)
    BY StreamIs
  <1>2. End(i - 1) \in Nat /\ End(i) \in Nat /\ Total \in Nat
    BY <1>1, EndIs
  <1>3. End(i) <= Total
    BY <1>1, EndGrows DEF Total
  <1>4. FrameAt(p) = i
    BY FrameAtIs
  <1> QED
    BY <1>2, <1>3, <1>4 DEF Within, IsPublic

(* A frame behind the preface of an HTTP/2 connection.                     *)
LEMMA FrameIs ==
    ASSUME wire \in Streams, Http2, NEW i \in DOMAIN wire, i # 1
    PROVE  /\ i - 1 \in DOMAIN wire /\ i \in Nat
           /\ End(i - 1) \in Nat /\ End(i) \in Nat
           /\ Payload(wire[i]) \in Nat
           /\ Body(i) = End(i - 1) + HeaderLen /\ Body(i) \in Nat
           /\ End(i) = Body(i) + Payload(wire[i])
           /\ wire[i].kind = "dt" => Payload(wire[i]) <= MaxSyncFrame
           /\ wire[i].kind = "fc" => Payload(wire[i]) = FcLen
           /\ \A p \in End(i - 1) + 1 .. End(i) :
                 IsPublic(p) <=> Public(wire[i])
  <1>1. /\ i - 1 \in DOMAIN wire /\ i \in Nat
        /\ i - 1 \in 0 .. Len(wire) /\ i \in 0 .. Len(wire)
    BY StreamIs
  <1>2. End(i - 1) \in Nat /\ End(i) \in Nat
    BY <1>1, EndIs
  <1>3. /\ Payload(wire[i]) \in Nat
        /\ Size(wire[i]) = HeaderLen + Payload(wire[i])
        /\ End(i) = End(i - 1) + Size(wire[i])
    BY SizeIs, EndIs
  <1>4. Body(i) = End(i - 1) + HeaderLen /\ HeaderLen \in Nat
    BY LengthAssumption DEF Body
  <1>5. wire[i].kind = "dt" => Payload(wire[i]) <= MaxSyncFrame
    BY StreamIs
  <1>6. wire[i].kind = "fc" => Payload(wire[i]) = FcLen
    BY DEF Payload
  <1>7. ASSUME NEW p \in End(i - 1) + 1 .. End(i)
        PROVE  IsPublic(p) <=> Public(wire[i])
    <2>1. p \in Nat /\ Within(p, i)
      BY <1>2 DEF Within
    <2> QED
      BY <2>1, BytesOf
  <1> QED
    BY <1>1, <1>2, <1>3, <1>4, <1>5, <1>6, <1>7

(* What opens the connection is public, and without HTTP/2 that is all.    *)
LEMMA FirstIs ==
    ASSUME wire \in Streams
    PROVE  /\ Http2 => End(1) = PrefaceLen
           /\ ~Http2 => End(1) = Total
           /\ End(1) \in Nat /\ End(1) <= Total
           /\ Public(wire[1])
           /\ \A p \in 1 .. End(1) : IsPublic(p)
  <1>1. /\ 1 \in DOMAIN wire /\ Len(wire) \in Nat \ {0}
        /\ 1 \in 0 .. Len(wire) /\ Len(wire) \in 1 .. Len(wire)
        /\ Len(wire) \in 0 .. Len(wire)
    BY StreamIs
  <1>2. End(1) \in Nat /\ End(0) = 0 /\ End(1) = End(1 - 1) + Size(wire[1])
    BY <1>1, EndIs
  <1>3. Http2 => End(1) = PrefaceLen
    BY <1>1, <1>2, SizeIs, LengthAssumption
  <1>4. ~Http2 => End(1) = Total
    BY StreamIs DEF Total
  <1>5. End(1) <= Total
    BY <1>1, EndGrows DEF Total
  <1>6. Public(wire[1])
    <2>1. CASE Http2
      BY <2>1 DEF Http2, Preface, Public, Private
    <2>2. CASE ~Http2
      BY <2>2, StreamIs
    <2> QED
      BY <2>1, <2>2
  <1>7. ASSUME NEW p \in 1 .. End(1) PROVE IsPublic(p)
    <2>1. p \in Nat /\ Within(p, 1)
      BY <1>2 DEF Within
    <2> QED
      BY <1>1, <1>6, <2>1, BytesOf
  <1> QED
    BY <1>2, <1>3, <1>4, <1>5, <1>6, <1>7

(* How many frames end within the first `n` bytes.                         *)
LEMMA EndsOnce ==
    ASSUME wire \in Streams, NEW i \in DOMAIN wire, NEW j \in DOMAIN wire,
           End(i) = End(j)
    PROVE  i = j
  <1>1. /\ Len(wire) \in Nat /\ DOMAIN wire = 1 .. Len(wire)
        /\ i \in 0 .. Len(wire) /\ j \in 0 .. Len(wire)
    BY StreamIs
  <1>2. End(i) \in Nat
    BY <1>1, EndIs
  <1>3. i < j => End(i) < End(j)
    <2> SUFFICES ASSUME i < j PROVE End(i) < End(j)
      OBVIOUS
    <2>1. j \in i .. Len(wire)
      BY <1>1
    <2> QED
      BY <1>1, <2>1, EndGrows
  <1>4. j < i => End(j) < End(i)
    <2> SUFFICES ASSUME j < i PROVE End(j) < End(i)
      OBVIOUS
    <2>1. i \in j .. Len(wire)
      BY <1>1
    <2> QED
      BY <1>1, <2>1, EndGrows
  <1> QED
    BY <1>1, <1>2, <1>3, <1>4

LEMMA ReachedIs ==
    ASSUME wire \in Streams, NEW k \in 0 .. Len(wire), NEW n \in Nat,
           End(k) <= n, k < Len(wire) => n < End(k + 1)
    PROVE  Reached(n) = k
  <1>1. Len(wire) \in Nat /\ DOMAIN wire = 1 .. Len(wire)
    BY StreamIs
  <1>2. \A i \in 0 .. Len(wire) : End(i) \in Nat
    BY EndIs
  <1>3. ASSUME NEW i \in DOMAIN wire PROVE End(i) <= n <=> i <= k
    <2>1. CASE i <= k
      <3>1. i \in 0 .. Len(wire) /\ k \in i .. Len(wire)
        BY <1>1, <2>1
      <3>2. End(i) <= End(k)
        BY <3>1, EndGrows
      <3> QED
        BY <1>2, <2>1, <3>1, <3>2
    <2>2. CASE ~(i <= k)
      <3>1. /\ k + 1 \in 0 .. Len(wire) /\ i \in k + 1 .. Len(wire)
            /\ k < Len(wire) /\ i \in 0 .. Len(wire)
        BY <1>1, <2>2
      <3>2. End(k + 1) <= End(i)
        BY <3>1, EndGrows
      <3> QED
        BY <1>2, <2>2, <3>1, <3>2
    <2> QED
      BY <2>1, <2>2
  <1>4. {i \in DOMAIN wire : End(i) <= n} = 1 .. k
    BY <1>1, <1>3
  <1>5. Cardinality(1 .. k) = k
    BY FS_Interval
  <1> QED
    BY <1>4, <1>5 DEF Reached

LEMMA ReachedAt ==
    ASSUME wire \in Streams, NEW i \in DOMAIN wire, NEW c \in Nat
    PROVE  /\ End(i - 1) <= c /\ c < End(i) => Reached(c) = i - 1
           /\ c = End(i) => Reached(c) = i
  <1>1. /\ Len(wire) \in Nat /\ i \in 1 .. Len(wire)
        /\ i - 1 \in 0 .. Len(wire) /\ (i - 1) + 1 = i /\ i - 1 < Len(wire)
        /\ i \in 0 .. Len(wire)
    BY StreamIs
  <1>2. ASSUME End(i - 1) <= c, c < End(i) PROVE Reached(c) = i - 1
    BY <1>1, <1>2, ReachedIs
  <1>3. ASSUME c = End(i) PROVE Reached(c) = i
    <2>1. i < Len(wire) => End(i) < End(i + 1)
      <3> SUFFICES ASSUME i < Len(wire) PROVE End(i) < End(i + 1)
        OBVIOUS
      <3>1. i + 1 \in i .. Len(wire) /\ i < i + 1
        BY <1>1
      <3> QED
        BY <1>1, <3>1, EndGrows
    <2> QED
      BY <1>1, <1>3, <2>1, ReachedIs
  <1> QED
    BY <1>2, <1>3

LEMMA ReachedFor ==
    ASSUME wire \in Streams, NEW n \in 0 .. Total
    PROVE  /\ Reached(n) \in 0 .. Len(wire) /\ End(Reached(n)) <= n
           /\ Reached(n) < Len(wire) => n < End(Reached(n) + 1)
  <1>1. /\ Len(wire) \in Nat /\ DOMAIN wire = 1 .. Len(wire)
        /\ Total \in Nat /\ n \in Nat /\ Len(wire) \in 0 .. Len(wire)
    BY StreamIs, EndIs
  <1>2. PICK k \in 0 .. Len(wire) :
           End(k) <= n /\ (k < Len(wire) => n < End(k + 1))
    <2>1. CASE n = Total
      BY <1>1, <2>1 DEF Total
    <2>2. CASE n # Total
      <3>1. n + 1 \in 1 .. Total
        BY <1>1, <2>2
      <3>2. PICK i \in DOMAIN wire : Within(n + 1, i)
        BY <3>1, Covered
      <3>3. i - 1 \in 0 .. Len(wire) /\ (i - 1) + 1 = i /\ i \in 0 .. Len(wire)
        BY <1>1
      <3>4. End(i - 1) \in Nat /\ End(i) \in Nat
        BY <3>3, EndIs
      <3>5. End(i - 1) <= n /\ n < End((i - 1) + 1)
        BY <1>1, <3>2, <3>3, <3>4 DEF Within
      <3> QED
        BY <3>3, <3>5
    <2> QED
      BY <2>1, <2>2
  <1>3. Reached(n) = k
    BY <1>1, <1>2, ReachedIs
  <1> QED
    BY <1>2, <1>3

LEMMA ReachedGrows ==
    ASSUME wire \in Streams, NEW a \in 0 .. Total, NEW b \in 0 .. Total, a <= b
    PROVE  Reached(a) <= Reached(b)
  <1> DEFINE j == Reached(a)
             k == Reached(b)
  <1>1. /\ j \in 0 .. Len(wire) /\ End(j) <= a
        /\ k \in 0 .. Len(wire)
        /\ k < Len(wire) => b < End(k + 1)
        /\ Len(wire) \in Nat /\ Total \in Nat
    BY ReachedFor, StreamIs, EndIs
  <1> HIDE DEF j, k
  <1>2. SUFFICES ASSUME k < j PROVE FALSE
    BY <1>1 DEF j, k
  <1>3. k + 1 \in 0 .. Len(wire) /\ j \in k + 1 .. Len(wire) /\ k < Len(wire)
    BY <1>1, <1>2
  <1>4. End(k + 1) <= End(j) /\ End(k + 1) \in Nat /\ End(j) \in Nat
    BY <1>1, <1>3, EndGrows, EndIs
  <1> QED
    BY <1>1, <1>3, <1>4

(* An empty update is known by where it ends.                              *)
LEMMA EmptyAt ==
    ASSUME wire \in Streams, NEW i \in DOMAIN wire
    PROVE  EmptyUpdateEnds(End(i))
               <=> wire[i].kind = "dt" /\ Payload(wire[i]) = 0
  BY EndsOnce DEF EmptyUpdateEnds

LEMMA SameWire ==
    ASSUME wire' = wire
    PROVE  /\ Total' = Total /\ Http2' = Http2
           /\ \A i : End(i)' = End(i) /\ Body(i)' = Body(i)
           /\ \A p : IsPublic(p)' = IsPublic(p)
           /\ \A n : /\ Reached(n)' = Reached(n)
                    /\ EmptyUpdateEnds(n)' = EmptyUpdateEnds(n)
  <1>1. \A i : End(i)' = End(i)
    BY DEF End
  <1>2. \A p : FrameAt(p)' = FrameAt(p)
    BY <1>1 DEF FrameAt, Within
  <1>3. \A n : /\ Reached(n)' = Reached(n)
              /\ EmptyUpdateEnds(n)' = EmptyUpdateEnds(n)
    BY <1>1 DEF Reached, EmptyUpdateEnds
  <1> QED
    BY <1>1, <1>2, <1>3 DEF Total, Http2, Body, IsPublic

-----------------------------------------------------------------------------
(* The scanner's input.                                                    *)

LEMMA Input ==
    ASSUME InputInv, Scanning
    PROVE  /\ wire \in Streams /\ hold = <<>>
           /\ received \in Nat /\ Consumed \in Nat /\ Len(rest) \in Nat \ {0}
           /\ rest = Span(Consumed, Len(rest))
           /\ received = Consumed + Len(rest)
           /\ received <= Total /\ Total \in Nat
           /\ rest \in Seq(Nat)
  <1>1. wire \in Streams /\ hold = <<>> /\ Consumed \in Nat /\ rest \in Seq(Nat)
    BY DEF InputInv, Scanning
  <1>2. Len(rest) \in Nat \ {0}
    BY <1>1, EmptySeq DEF Scanning
  <1>3. Len(hold) = 0
    BY <1>1, EmptySeq
  <1>4. received \in Nat /\ received <= Total /\ Total \in Nat
    BY <1>1, EndIs DEF InputInv
  <1>5. received = Consumed + Len(rest)
    BY <1>2, <1>3, <1>4 DEF Consumed
  <1>6. rest = Span(Consumed, received - Consumed)
    BY DEF InputInv, Scanning
  <1>7. received - Consumed = Len(rest)
    BY <1>1, <1>2, <1>5
  <1> QED
    BY <1>1, <1>2, <1>4, <1>5, <1>6, <1>7

LEMMA ScanTakes ==
    ASSUME InputInv, Scanning, NEW n \in 0 .. Len(rest),
           rest' = Skip(rest, n), UNCHANGED <<hold, received, wire>>
    PROVE  /\ InputInv'
           /\ Consumed' = Consumed + n
           /\ Take(rest, n) = Span(Consumed, n)
  <1>1. /\ wire \in Streams /\ hold = <<>> /\ Len(hold) = 0
        /\ received \in Nat /\ Consumed \in Nat /\ Len(rest) \in Nat \ {0}
        /\ rest = Span(Consumed, Len(rest))
        /\ received = Consumed + Len(rest)
        /\ received <= Total /\ Total \in Nat
    BY Input, EmptySeq
  <1> DEFINE c == Consumed
             m == Len(rest) - n
  <1>2. c \in Nat /\ n \in Nat /\ m \in Nat /\ c + n \in Nat
    BY <1>1
  <1>3. Take(rest, n) = Span(c, n) /\ rest' = Span(c + n, m)
    BY <1>1, SpanSplit
  <1>4. rest' \in Seq(Nat) /\ Len(rest') = m
    <2>1. Span(c + n, m) \in Seq(Nat) /\ Len(Span(c + n, m)) = m
      BY <1>2, SpanIs
    <2> QED
      BY <1>3, <2>1
  <1>5. Consumed' = c + n
    BY <1>1, <1>4 DEF Consumed
  <1>6. received' - Consumed' = m
    BY <1>1, <1>2, <1>5
  <1>7. InputInv'
    <2>1. rest' = Span(Consumed', received' - Consumed')
      BY <1>3, <1>5, <1>6
    <2>2. Total' = Total
      BY SameWire
    <2>3. received' \in 0 .. Total' /\ wire' \in Streams
      BY <1>1, <2>2
    <2>4. Consumed' \in Nat
      BY <1>2, <1>5
    <2>5. hold' = <<>> /\ hold' \in Seq(Nat)
      BY <1>1
    <2> QED
      BY <1>4, <2>1, <2>3, <2>4, <2>5 DEF InputInv
  <1> QED
    BY <1>3, <1>5, <1>7

LEMMA ScanAll ==
    ASSUME InputInv, Scanning
    PROVE  /\ Take(rest, Len(rest)) = rest
           /\ Skip(rest, Len(rest)) = <<>>
  <1>1. rest \in Seq(Nat) /\ Len(rest) \in Nat
    BY Input
  <1>2. Take(rest, Len(rest)) = rest
    BY <1>1, SubSeqFull DEF Take
  <1>3. Skip(rest, Len(rest)) = <<>>
    BY <1>1, SubSeqEmpty DEF Skip
  <1> QED
    BY <1>2, <1>3

LEMMA ScanEnds ==
    ASSUME InputInv, Scanning, NEW n \in 0 .. Len(rest),
           HoldRest(n), UNCHANGED <<received, wire>>
    PROVE  /\ InputInv'
           /\ Consumed' = Consumed + n
           /\ Take(rest, n) = Span(Consumed, n)
  <1>1. /\ wire \in Streams /\ hold = <<>>
        /\ received \in Nat /\ Consumed \in Nat /\ Len(rest) \in Nat \ {0}
        /\ rest = Span(Consumed, Len(rest))
        /\ received = Consumed + Len(rest)
        /\ received <= Total /\ Total \in Nat
    BY Input
  <1> DEFINE c == Consumed
             m == Len(rest) - n
  <1>2. c \in Nat /\ n \in Nat /\ m \in Nat /\ c + n \in Nat
    BY <1>1
  <1>3. Take(rest, n) = Span(c, n) /\ Skip(rest, n) = Span(c + n, m)
    BY <1>1, SpanSplit
  <1>4. Span(c + n, m) \in Seq(Nat) /\ Len(Span(c + n, m)) = m
    BY <1>2, SpanIs
  <1>5. hold' = Span(c + n, m) /\ rest' = <<>> /\ Len(rest') = 0
    BY <1>1, <1>3, <1>4, EmptySeq, ConcatEmptySeq DEF HoldRest
  <1>6. Consumed' = c + n
    BY <1>1, <1>2, <1>4, <1>5 DEF Consumed
  <1>7. received' - Consumed' = m
    BY <1>1, <1>2, <1>6
  <1>8. InputInv'
    <2>1. hold' = Span(Consumed', received' - Consumed')
      BY <1>5, <1>6, <1>7
    <2>2. Total' = Total
      BY SameWire
    <2>3. received' \in 0 .. Total' /\ wire' \in Streams
      BY <1>1, <2>2
    <2>4. Consumed' \in Nat /\ hold' \in Seq(Nat) /\ rest' \in Seq(Nat)
      BY <1>2, <1>4, <1>5, <1>6, EmptySeq
    <2> QED
      BY <1>5, <2>1, <2>3, <2>4 DEF InputInv
  <1> QED
    BY <1>3, <1>6, <1>8

-----------------------------------------------------------------------------
(* What is let through.                                                    *)

LEMMA ListsAppend ==
    ASSUME NEW s, NEW a \in Nat, NEW n \in Nat, Lists(s, a),
           \A p \in a + 1 .. a + n : IsPublic(p)
    PROVE  Lists(s \o Span(a, n), a + n)
  <1> DEFINE t == Span(a, n)
             u == s \o t
  <1>1. /\ s \in Seq(Nat) /\ Len(s) \in Nat /\ DOMAIN s = 1 .. Len(s)
    BY LenProperties DEF Lists
  <1>2. t \in Seq(Nat) /\ Len(t) = n /\ \A j \in 1 .. n : t[j] = a + j
    BY SpanIs, Zenon
  <1> HIDE DEF t
  <1>3. /\ u \in Seq(Nat) /\ Len(u) = Len(s) + n
        /\ \A j \in 1 .. Len(s) + n :
              u[j] = IF j <= Len(s) THEN s[j] ELSE t[j - Len(s)]
    BY <1>1, <1>2, ConcatProperties
  <1> HIDE DEF u
  <1>4. DOMAIN u = 1 .. Len(s) + n
    BY <1>3, LenProperties
  <1>5. \A j \in DOMAIN u :
           \/ j \in DOMAIN s /\ u[j] = s[j]
           \/ /\ j \in Len(s) + 1 .. Len(s) + n
              /\ u[j] = a + (j - Len(s)) /\ u[j] \in a + 1 .. a + n
    <2> SUFFICES ASSUME NEW j \in DOMAIN u, j \notin DOMAIN s
                 PROVE  /\ j \in Len(s) + 1 .. Len(s) + n
                        /\ u[j] = a + (j - Len(s)) /\ u[j] \in a + 1 .. a + n
      BY <1>1, <1>3, <1>4
    <2>1. j \in Len(s) + 1 .. Len(s) + n /\ j - Len(s) \in 1 .. n
      BY <1>1, <1>4
    <2>2. u[j] = t[j - Len(s)]
      BY <1>1, <1>3, <1>4, <2>1
    <2> QED
      BY <1>2, <2>1, <2>2
  <1>6. \A k \in DOMAIN s : s[k] \in 1 .. a /\ IsPublic(s[k])
    BY DEF Lists
  <1>7. ASSUME NEW j \in DOMAIN u, NEW k \in DOMAIN u, j < k
        PROVE  u[j] < u[k]
    <2>1. CASE k \in DOMAIN s
      <3>1. j \in DOMAIN s
        BY <1>1, <1>4, <1>7, <2>1
      <3>2. u[j] = s[j] /\ u[k] = s[k]
        BY <1>1, <1>5, <2>1, <3>1
      <3> QED
        BY <1>7, <2>1, <3>1, <3>2 DEF Lists
    <2>2. CASE k \notin DOMAIN s /\ j \notin DOMAIN s
      BY <1>1, <1>4, <1>5, <1>7, <2>2
    <2>3. CASE k \notin DOMAIN s /\ j \in DOMAIN s
      <3>1. j \in Nat /\ ~(j > Len(s))
        BY <1>1, <2>3
      <3>2. u[j] = s[j] /\ s[j] \in 1 .. a
        BY <1>5, <1>6, <2>3, <3>1
      <3>3. u[k] \in a + 1 .. a + n
        BY <1>5, <2>3
      <3> QED
        BY <3>2, <3>3
    <2> QED
      BY <2>1, <2>2, <2>3
  <1>8. ASSUME NEW k \in DOMAIN u
        PROVE  u[k] \in 1 .. a + n /\ IsPublic(u[k])
    BY <1>5, <1>6, <1>8
  <1>9. ASSUME NEW p \in 1 .. a + n, IsPublic(p)
        PROVE  \E k \in DOMAIN u : u[k] = p
    <2>1. CASE p <= a
      <3>1. PICK k \in DOMAIN s : s[k] = p
        BY <1>9, <2>1 DEF Lists
      <3>2. k \in DOMAIN u /\ u[k] = s[k]
        BY <1>1, <1>3, <1>4, <3>1
      <3> QED
        BY <3>1, <3>2
    <2>2. CASE ~(p <= a)
      <3>1. Len(s) + (p - a) \in DOMAIN u /\ Len(s) + (p - a) \notin DOMAIN s
        BY <1>1, <1>4, <2>2
      <3>2. u[Len(s) + (p - a)] = a + ((Len(s) + (p - a)) - Len(s))
        BY <1>5, <3>1
      <3>3. a + ((Len(s) + (p - a)) - Len(s)) = p
        BY <1>1
      <3> QED
        BY <3>1, <3>2, <3>3
    <2> QED
      BY <2>1, <2>2
  <1>10. Lists(u, a + n)
    BY <1>3, <1>7, <1>8, <1>9 DEF Lists
  <1> QED
    BY <1>10 DEF t, u

LEMMA ListsSkip ==
    ASSUME NEW s, NEW a \in Nat, NEW b \in Nat, a <= b, Lists(s, a),
           \A p \in a + 1 .. b : ~IsPublic(p)
    PROVE  Lists(s, b)
  <1>1. \A p \in 1 .. b : IsPublic(p) => p \in 1 .. a
    OBVIOUS
  <1>2. \A k \in DOMAIN s : s[k] \in 1 .. a => s[k] \in 1 .. b
    OBVIOUS
  <1> QED
    BY <1>1, <1>2 DEF Lists

LEMMA Through ==
    ASSUME ScanInv
    PROVE  /\ LetThrough \in Nat /\ LetThrough <= Consumed
           /\ Consumed \in Nat /\ Consumed <= received /\ received \in 0 .. Total
           /\ state # "Header" => LetThrough = Consumed
           /\ Lists(Given, LetThrough)
           /\ read \in Seq(Nat) /\ out \in Seq(Nat)
           /\ Given \in Seq(Nat)
  <1>1. /\ Consumed \in Nat /\ received \in 0 .. Total /\ Total \in Nat
        /\ rest \in Seq(Nat) /\ hold \in Seq(Nat)
    BY EndIs DEF ScanInv, InputInv
  <1>2. Len(rest) \in Nat /\ Len(hold) \in Nat
    BY <1>1, LenProperties
  <1>3. Consumed <= received
    BY <1>1, <1>2 DEF Consumed
  <1>4. LetThrough \in Nat /\ LetThrough <= Consumed
    <2>1. CASE state = "Header"
      <3>1. PICK i \in DOMAIN wire : InHeader(i)
        BY <2>1 DEF ScanInv, StateInv, InPreface, InBlind, InHeader,
                    InPayload, InFlow, InSync
      <3>2. End(i) \in Nat
        BY StreamIs, EndIs DEF ScanInv, InputInv
      <3> QED
        BY <1>1, <2>1, <3>1, <3>2, LengthAssumption DEF LetThrough, InHeader
    <2>2. CASE state # "Header"
      BY <1>1, <2>2 DEF LetThrough
    <2> QED
      BY <2>1, <2>2
  <1>5. /\ Lists(Given, LetThrough)
        /\ read \in Seq(Nat) /\ out \in Seq(Nat)
    BY DEF ScanInv, GivenInv
  <1>6. Given \in Seq(Nat)
    BY <1>5, ConcatProperties DEF Given
  <1> QED
    BY <1>1, <1>3, <1>4, <1>5, <1>6 DEF LetThrough

LEMMA GivenIs ==
    ASSUME wire' = wire, read' \in Seq(Nat), out' \in Seq(Nat),
           Lists(Given', LetThrough')
    PROVE  GivenInv'
  <1>1. \A p : IsPublic(p)' = IsPublic(p)
    BY SameWire
  <1> QED
    BY <1>1 DEF GivenInv, Lists

LEMMA GivenSkips ==
    ASSUME ScanInv, UNCHANGED <<wire, read, out>>,
           LetThrough' \in Nat, LetThrough <= LetThrough',
           \A p \in LetThrough + 1 .. LetThrough' : ~IsPublic(p)
    PROVE  GivenInv'
  <1>1. /\ LetThrough \in Nat /\ Lists(Given, LetThrough)
        /\ read' \in Seq(Nat) /\ out' \in Seq(Nat)
    BY Through
  <1>2. Lists(Given, LetThrough')
    BY <1>1, ListsSkip
  <1>3. Given' = Given
    BY DEF Given
  <1> QED
    BY <1>1, <1>2, <1>3, GivenIs

LEMMA Joined ==
    \A s, t, u \in Seq(Nat) : (s \o t) \o u = s \o (t \o u)
  <1> SUFFICES ASSUME NEW s \in Seq(Nat), NEW t \in Seq(Nat), NEW u \in Seq(Nat)
               PROVE  (s \o t) \o u = s \o (t \o u)
    OBVIOUS
  <1> QED
    BY ConcatAssociative, SMTT(60)

LEMMA GivenGrows ==
    ASSUME ScanInv, UNCHANGED <<wire, read>>, NEW n \in Nat,
           out' = out \o Span(LetThrough, n), LetThrough' = LetThrough + n,
           \A p \in LetThrough + 1 .. LetThrough + n : IsPublic(p)
    PROVE  GivenInv'
  <1>1. /\ LetThrough \in Nat /\ Lists(Given, LetThrough)
        /\ read \in Seq(Nat) /\ out \in Seq(Nat)
    BY Through
  <1>2. Span(LetThrough, n) \in Seq(Nat)
    BY <1>1, SpanIs
  <1>3. out' \in Seq(Nat) /\ read' \in Seq(Nat)
    BY <1>1, <1>2, ConcatProperties
  <1>4. Given' = Given \o Span(LetThrough, n)
    <2> DEFINE t == Span(LetThrough, n)
    <2>1. t \in Seq(Nat)
      BY <1>2
    <2> HIDE DEF t
    <2>2. (read \o out) \o t = read \o (out \o t)
      BY <1>1, <2>1, Joined, Zenon
    <2> QED
      BY <2>2 DEF Given, t
  <1>5. Lists(Given', LetThrough')
    BY <1>1, <1>4, ListsAppend
  <1> QED
    BY <1>3, <1>5, GivenIs

-----------------------------------------------------------------------------
(* The steps.                                                              *)

LEMMA ScanInit == Init => ScanInv
  <1> SUFFICES ASSUME Init PROVE ScanInv
    OBVIOUS
  <1>1. /\ wire \in Streams /\ Total \in Nat
        /\ <<>> \in Seq(Nat) /\ Len(<<>>) = 0
    BY EndIs, EmptySeq DEF Init
  <1>2. Consumed = 0
    <2>1. received = 0 /\ Len(rest) = 0 /\ Len(hold) = 0
      BY <1>1, Zenon DEF Init
    <2> QED
      BY <2>1 DEF Consumed
  <1>3. InputInv
    BY <1>1, <1>2 DEF Init, InputInv
  <1>4. StateInv /\ CleanInv
    BY <1>2, LengthAssumption DEF Init, StateInv, InPreface, CleanInv
  <1>5. Given = <<>> /\ DOMAIN Given = {}
    BY <1>1, ConcatEmptySeq, LenProperties DEF Init, Given
  <1>6. LetThrough = 0
    BY <1>2 DEF Init, LetThrough
  <1>7. GivenInv
    BY <1>1, <1>5, <1>6 DEF Init, GivenInv, Lists
  <1> QED
    BY <1>3, <1>4, <1>7 DEF Init, ScanInv, PendingInv, IsPending, EmptyInv

(* Every step of the scan leaves these alone.                              *)
Untouched == UNCHANGED <<wire, received, read>>

(* Nothing Listener speaks of changes, or one more frame is scanned.       *)
Moves ==
    \/ scanned' = scanned /\ UNCHANGED <<sent, blocks>>
    \/ \E i \in DOMAIN wire :
          /\ scanned = i - 1
          /\ scanned' = i
          /\ sent' = IF wire[i].kind = "fc" THEN sent + wire[i].sent ELSE sent
          /\ IsPending' <=> wire[i].kind = "dt"

LEMMA ScannedIs ==
    /\ ~(state = "Sync" /\ count = 0) => scanned = Reached(Consumed) - 0
    /\ state = "Sync" /\ count = 0 => scanned = Reached(Consumed) - 1
  BY DEF scanned

LEMMA ScannedNext ==
    ASSUME wire' = wire
    PROVE  /\ ~(state' = "Sync" /\ count' = 0)
                 => scanned' = Reached(Consumed') - 0
           /\ state' = "Sync" /\ count' = 0
                 => scanned' = Reached(Consumed') - 1
  <1>1. /\ ~(state' = "Sync" /\ count' = 0)
              => scanned' = Reached(Consumed)' - 0
        /\ state' = "Sync" /\ count' = 0
              => scanned' = Reached(Consumed)' - 1
    BY DEF scanned
  <1>2. Reached(Consumed)' = Reached(Consumed')
    BY SameWire DEF Reached, End
  <1> QED
    BY <1>1, <1>2

(* A step within frame `i`, which is no update.                            *)
LEMMA FrameMoves ==
    ASSUME wire \in Streams, wire' = wire, NEW i \in DOMAIN wire,
           wire[i].kind # "dt", state # "Sync", state' # "Sync",
           Consumed \in Nat, Consumed' \in Nat,
           End(i - 1) <= Consumed, Consumed <= Consumed', Consumed' <= End(i),
           UNCHANGED blocks, blocks = <<>>,
           sent' = IF /\ wire[i].kind = "fc"
                      /\ Consumed < Consumed' /\ Consumed' = End(i)
                   THEN sent + wire[i].sent ELSE sent
    PROVE  Moves
  <1>1. i \in Nat /\ End(i) \in Nat /\ End(i - 1) \in Nat
    BY StreamIs, EndIs
  <1>2. /\ Consumed = End(i) => Reached(Consumed) = i
        /\ Consumed < End(i) => Reached(Consumed) = i - 1
    BY <1>1, ReachedAt
  <1>3. /\ Consumed' = End(i) => Reached(Consumed') = i
        /\ Consumed' < End(i) => Reached(Consumed') = i - 1
    BY <1>1, ReachedAt
  <1>4. scanned = Reached(Consumed) - 0 /\ scanned' = Reached(Consumed') - 0
    BY ScannedIs, ScannedNext
  <1>5. CASE Consumed < Consumed' /\ Consumed' = End(i)
    BY <1>1, <1>2, <1>3, <1>4, <1>5 DEF Moves, IsPending
  <1>6. CASE ~(Consumed < Consumed' /\ Consumed' = End(i))
    <2>1. scanned' = scanned
      BY <1>1, <1>2, <1>3, <1>4, <1>6
    <2> QED
      BY <1>6, <2>1 DEF Moves
  <1> QED
    BY <1>5, <1>6

(* While there is input, no update is pending.                             *)
LEMMA NotPending == ASSUME ScanInv, Scanning PROVE blocks = <<>>
  BY DEF ScanInv, PendingInv, Scanning, IsPending

(* Where the scanner is, by its state.                                     *)
LEMMA Where ==
    ASSUME ScanInv
    PROVE  /\ state = "Preface" => InPreface
           /\ state = "Blind" => InBlind
           /\ state = "Header" => Http2 /\ \E i \in DOMAIN wire : InHeader(i)
           /\ state = "Payload" => Http2 /\ \E i \in DOMAIN wire : InPayload(i)
           /\ state = "Flow" => Http2 /\ \E i \in DOMAIN wire : InFlow(i)
           /\ state = "Sync" => Http2 /\ \E i \in DOMAIN wire : InSync(i)
           /\ state # "Header" => buf = <<>>
           /\ state # "Sync" => block = <<>>
  BY DEF ScanInv, CleanInv, StateInv, InPreface, InBlind, InHeader, InPayload,
         InFlow, InSync

LEMMA BlindStep ==
    ASSUME ScanInv, ScanBlind, Untouched
    PROVE  ScanInv' /\ Moves
  <1>1. /\ Scanning /\ state = "Blind" /\ rest' = <<>> /\ out' = out \o rest
        /\ UNCHANGED <<state, buf, count, block, hold, blocks, sent, wire,
                       received, read>>
        /\ InputInv
    BY DEF ScanBlind, Untouched, ScanInv
  <1>2. InBlind /\ blocks = <<>> /\ buf = <<>> /\ block = <<>>
    BY <1>1, Where, NotPending
  <1> DEFINE n == Len(rest)
  <1>3. /\ wire \in Streams /\ Consumed \in Nat /\ n \in Nat
        /\ rest = Span(Consumed, n) /\ Consumed + n <= Total /\ n # 0
    BY <1>1, Input
  <1>4. InputInv' /\ Consumed' = Consumed + n
    BY <1>1, <1>3, ScanAll, ScanTakes
  <1>5. LetThrough = Consumed /\ LetThrough' = Consumed + n
    BY <1>1, <1>4 DEF LetThrough
  <1>6. \A p \in Consumed + 1 .. Consumed + n : IsPublic(p)
    <2>1. End(1) = Total /\ \A p \in 1 .. End(1) : IsPublic(p)
      BY <1>2, <1>3, FirstIs DEF InBlind
    <2> QED
      BY <1>3, <2>1, EndIs
  <1>7. GivenInv'
    BY <1>1, <1>3, <1>5, <1>6, GivenGrows
  <1>8. StateInv'
    <2>1. Http2' = Http2
      BY <1>1, SameWire
    <2> QED
      BY <1>1, <1>2, <2>1 DEF StateInv, InBlind
  <1>9. Moves
    <2>1. /\ End(1) = Total /\ 1 \in DOMAIN wire /\ End(1 - 1) = 0
          /\ wire[1].kind \notin {"dt", "fc"}
      BY <1>2, <1>3, FirstIs, StreamIs, EndIs DEF InBlind, Public, Private
    <2>2. /\ End(1 - 1) <= Consumed /\ Consumed <= Consumed'
          /\ Consumed' <= End(1) /\ Consumed' \in Nat
      BY <1>3, <1>4, <2>1
    <2> QED
      BY <1>1, <1>2, <1>3, <2>1, <2>2, FrameMoves
  <1> QED
    BY <1>1, <1>2, <1>4, <1>7, <1>8, <1>9
       DEF ScanInv, CleanInv, PendingInv, IsPending, EmptyInv

LEMMA PrefaceStep ==
    ASSUME ScanInv, ScanPreface, Untouched
    PROVE  ScanInv' /\ Moves
  <1>1. /\ Scanning /\ state = "Preface" /\ InputInv
        /\ UNCHANGED <<hold, blocks, sent, wire, received, read>>
    BY DEF ScanPreface, Untouched, ScanInv
  <1>2. InPreface /\ blocks = <<>>
    BY <1>1, Where, NotPending
  <1>3. /\ wire \in Streams /\ Consumed \in Nat /\ Len(rest) \in Nat \ {0}
        /\ rest = Span(Consumed, Len(rest)) /\ Consumed + Len(rest) <= Total
        /\ Total \in Nat
    BY <1>1, Input
  <1>4. /\ count = Consumed /\ count < PrefaceLen
        /\ Http2 \/ count <= Shared
        /\ PrefaceLen \in Nat /\ Shared \in Nat /\ Shared < PrefaceLen
    BY <1>2, LengthAssumption DEF InPreface
  <1> DEFINE n == Least(PrefaceLen - count, Len(rest))
  <1>5. n \in 1 .. Len(rest) /\ count + n <= PrefaceLen
    BY <1>3, <1>4 DEF Least
  <1>6. LetThrough = Consumed
    BY <1>1 DEF LetThrough
  <1>7. /\ Http2' = Http2 /\ End(1)' = End(1)
        /\ 1 \in DOMAIN wire
        /\ Http2 => End(1) = PrefaceLen
        /\ ~Http2 => End(1) = Total
        /\ wire[1].kind \notin {"dt", "fc"}
        /\ \A p \in 1 .. End(1) : IsPublic(p)
    BY <1>1, <1>3, SameWire, FirstIs, StreamIs DEF Public, Private
  <1>8. (\A j \in 1 .. n : IsPreface(rest[j], count + j))
            <=> Http2 \/ count + n <= Shared
    <2>1. \A j \in 1 .. n : rest[j] = count + j
      <3>1. \A j \in 1 .. Len(rest) :
               Span(Consumed, Len(rest))[j] = Consumed + j
        BY <1>3, SpanIs, Zenon
      <3> QED
        BY <1>3, <1>4, <1>5, <3>1
    <2>2. n \in 1 .. n /\ \A j \in 1 .. n : count + j <= count + n
      BY <1>3, <1>4, <1>5
    <2> QED
      BY <1>3, <1>4, <1>5, <2>1, <2>2 DEF IsPreface, Http2
  <1> HIDE DEF n
  <1>0. ASSUME state' # "Sync", NEW m \in 1 .. Len(rest),
               Consumed' = Consumed + m, Http2 => count + m <= PrefaceLen
        PROVE  Moves
    <2>1. End(1 - 1) = 0 /\ Consumed' \in Nat
      BY <1>0, <1>3, EndIs
    <2>2. /\ End(1 - 1) <= Consumed /\ Consumed <= Consumed'
          /\ Consumed' <= End(1)
      BY <1>0, <1>3, <1>4, <1>7, <2>1
    <2> QED
      BY <1>0, <1>1, <1>2, <1>3, <1>7, <2>1, <2>2, FrameMoves
  <1>9. CASE Http2 \/ count + n <= Shared
    <2>1. /\ out' = out \o Take(rest, n)
          /\ rest' = Skip(rest, n)
          /\ IF count + n = PrefaceLen THEN Goto("Header", 0)
             ELSE Goto("Preface", count + n)
      BY <1>8, <1>9 DEF ScanPreface, n
    <2>2. /\ InputInv' /\ Consumed' = Consumed + n
          /\ Take(rest, n) = Span(Consumed, n)
      BY <1>1, <1>3, <1>5, <2>1, ScanTakes
    <2>3. \A p \in Consumed + 1 .. Consumed + n : IsPublic(p)
      BY <1>3, <1>4, <1>5, <1>7
    <2>4. buf' = <<>> /\ block' = <<>>
      BY <2>1 DEF Goto
    <2>5. StateInv' /\ LetThrough' = Consumed + n /\ EmptyInv'
      <3>1. CASE count + n = PrefaceLen
        <4>1. state' = "Header" /\ count' = 0 /\ buf' = <<>>
          BY <2>1, <3>1 DEF Goto
        <4>2. Http2
          BY <1>3, <1>4, <1>5, <1>9, <3>1
        <4>3. Consumed' = End(1)' + count' /\ End(1)' \in Nat
          BY <1>4, <1>7, <2>2, <3>1, <4>1, <4>2
        <4>4. buf' = Span(End(1)', count')
          BY <4>1, <4>3, SpanIs
        <4>5. 0 \in 0 .. HeaderLen - 1
          BY LengthAssumption
        <4>6. InHeader(1)'
          BY <4>1, <4>3, <4>4, <4>5 DEF InHeader
        <4>7. LetThrough' = Consumed + n
          BY <1>3, <1>5, <2>2, <4>1 DEF LetThrough
        <4>8. ~EmptyUpdateEnds(Consumed)'
          <5>1. ~EmptyUpdateEnds(End(1))
            BY <1>3, <1>7, EmptyAt
          <5>2. ~EmptyUpdateEnds(End(1))'
            BY <1>1, <1>7, <5>1, SameWire DEF EmptyUpdateEnds
          <5> QED
            BY <4>1, <4>3, <5>2 DEF EmptyUpdateEnds
        <4> QED
          BY <1>1, <1>7, <4>2, <4>6, <4>7, <4>8 DEF StateInv, EmptyInv
      <3>2. CASE count + n # PrefaceLen
        <4>1. state' = "Preface" /\ count' = count + n
          BY <2>1, <3>2 DEF Goto
        <4>2. InPreface'
          BY <1>4, <1>5, <1>7, <1>9, <2>2, <3>2, <4>1 DEF InPreface
        <4> QED
          BY <2>2, <4>1, <4>2 DEF StateInv, LetThrough, EmptyInv
      <3> QED
        BY <3>1, <3>2
    <2>6. GivenInv'
      BY <1>1, <1>5, <1>6, <2>1, <2>2, <2>3, <2>5, GivenGrows, SMTT(30)
    <2>7. Moves
      BY <1>0, <1>5, <2>1, <2>2 DEF Goto
    <2> QED
      BY <1>1, <1>2, <2>2, <2>4, <2>5, <2>6, <2>7
         DEF ScanInv, CleanInv, PendingInv, IsPending
  <1>10. CASE ~(Http2 \/ count + n <= Shared)
    <2>1. out' = out \o rest /\ rest' = <<>> /\ Goto("Blind", 0)
      BY <1>8, <1>10 DEF ScanPreface, n
    <2>2. InputInv' /\ Consumed' = Consumed + Len(rest)
      BY <1>1, <1>3, <2>1, ScanAll, ScanTakes
    <2>3. \A p \in Consumed + 1 .. Consumed + Len(rest) : IsPublic(p)
      BY <1>3, <1>7, <1>10
    <2>4. state' = "Blind" /\ buf' = <<>> /\ block' = <<>>
      BY <2>1 DEF Goto
    <2>5. LetThrough' = Consumed + Len(rest)
      BY <2>2, <2>4 DEF LetThrough
    <2>6. GivenInv'
      BY <1>1, <1>3, <1>6, <2>1, <2>3, <2>5, GivenGrows
    <2>7. StateInv'
      BY <1>7, <1>10, <2>4 DEF StateInv, InBlind
    <2>8. Moves
      BY <1>0, <1>3, <1>10, <2>2, <2>4
    <2> QED
      BY <1>1, <1>2, <2>2, <2>4, <2>6, <2>7, <2>8
         DEF ScanInv, CleanInv, PendingInv, IsPending, EmptyInv
  <1> QED
    BY <1>9, <1>10

(* The next state when the scanner is past frame `i`.                      *)
LEMMA FrameEnds ==
    ASSUME wire \in Streams, wire' = wire, Http2, NEW i \in DOMAIN wire,
           Goto("Header", 0), Consumed' = End(i),
           wire[i].kind = "dt" /\ Payload(wire[i]) = 0 => Consumed' < received'
    PROVE  /\ StateInv' /\ CleanInv' /\ EmptyInv' /\ LetThrough' = End(i)
           /\ state' = "Header" /\ count' = 0
  <1>1. state' = "Header" /\ count' = 0 /\ buf' = <<>> /\ block' = <<>>
    BY DEF Goto
  <1>2. Http2' /\ End(i)' = End(i)
    BY SameWire
  <1>3. End(i) \in Nat
    BY StreamIs, EndIs
  <1>4. buf' = Span(End(i)', count')
    BY <1>1, <1>2, <1>3, SpanIs
  <1>5. 0 \in 0 .. HeaderLen - 1
    BY LengthAssumption
  <1>6. InHeader(i)'
    BY <1>1, <1>2, <1>3, <1>4, <1>5 DEF InHeader
  <1>7. LetThrough' = End(i)
    BY <1>1, <1>3 DEF LetThrough
  <1>8. EmptyInv'
    <2> SUFFICES ASSUME EmptyUpdateEnds(Consumed)' PROVE Consumed' < received'
      BY DEF EmptyInv
    <2>1. EmptyUpdateEnds(Consumed')
      BY SameWire DEF EmptyUpdateEnds, End
    <2> QED
      BY <2>1, EmptyAt
  <1> QED
    BY <1>1, <1>2, <1>6, <1>7, <1>8 DEF StateInv, CleanInv

LEMMA PayloadStep ==
    ASSUME ScanInv, ScanPayload, Untouched
    PROVE  ScanInv' /\ Moves
  <1>1. /\ Scanning /\ state = "Payload" /\ InputInv
        /\ UNCHANGED <<hold, blocks, sent, wire, received, read>>
    BY DEF ScanPayload, Untouched, ScanInv
  <1>2. Http2 /\ blocks = <<>> /\ LetThrough = Consumed
    BY <1>1, Where, NotPending, Through
  <1>3. PICK i \in DOMAIN wire : InPayload(i)
    BY <1>1, Where
  <1>4. /\ wire \in Streams /\ Consumed \in Nat /\ Len(rest) \in Nat \ {0}
    BY <1>1, Input
  <1>5. /\ i # 1 /\ Public(wire[i]) /\ wire[i].kind \notin {"dt", "fc"}
        /\ count \in 0 .. Payload(wire[i]) /\ Consumed + count = End(i)
    BY <1>3 DEF InPayload, Public, Private
  <1>6. /\ Payload(wire[i]) \in Nat /\ End(i - 1) \in Nat /\ End(i) \in Nat
        /\ End(i) = End(i - 1) + HeaderLen + Payload(wire[i])
        /\ \A p \in End(i - 1) + 1 .. End(i) : IsPublic(p)
    BY <1>2, <1>4, <1>5, FrameIs
  <1> DEFINE n == Least(count, Len(rest))
  <1>7. n \in 0 .. Len(rest) /\ n \in 0 .. count /\ n \in Nat /\ count \in Nat
    BY <1>4, <1>5, <1>6 DEF Least
  <1> HIDE DEF n
  <1>8. /\ out' = out \o Take(rest, n)
        /\ rest' = Skip(rest, n)
        /\ IF count = n THEN Goto("Header", 0) ELSE Goto("Payload", count - n)
    BY DEF ScanPayload, n
  <1>9. /\ InputInv' /\ Consumed' = Consumed + n
        /\ Take(rest, n) = Span(Consumed, n)
    BY <1>1, <1>7, <1>8, ScanTakes
  <1>10. \A p \in Consumed + 1 .. Consumed + n : IsPublic(p)
    BY <1>4, <1>5, <1>6, <1>7, LengthAssumption
  <1>11. StateInv' /\ CleanInv' /\ EmptyInv' /\ LetThrough' = Consumed + n
    <2>1. CASE count = n
      <3>1. Goto("Header", 0) /\ Consumed' = End(i) /\ Consumed + n = End(i)
        BY <1>5, <1>8, <1>9, <2>1
      <3> QED
        BY <1>1, <1>2, <1>4, <1>5, <3>1, FrameEnds
    <2>2. CASE count # n
      <3>1. state' = "Payload" /\ count' = count - n /\ buf' = <<>>
            /\ block' = <<>>
        BY <1>8, <2>2 DEF Goto
      <3>2. Http2' /\ End(i)' = End(i)
        BY <1>1, <1>2, SameWire
      <3>3. count' \in 0 .. Payload(wire[i]) /\ Consumed' + count' = End(i)
        BY <1>4, <1>5, <1>6, <1>7, <1>9, <3>1
      <3>4. InPayload(i)'
        BY <1>1, <1>5, <3>1, <3>2, <3>3 DEF InPayload
      <3> QED
        BY <1>1, <1>9, <3>1, <3>2, <3>4 
           DEF StateInv, CleanInv, LetThrough, EmptyInv
    <2> QED
      BY <2>1, <2>2
  <1>12. GivenInv'
    BY <1>1, <1>2, <1>7, <1>8, <1>9, <1>10, <1>11, GivenGrows
  <1>13. Moves
    <2>1. /\ End(i - 1) <= Consumed /\ Consumed <= Consumed'
          /\ Consumed' <= End(i) /\ Consumed' \in Nat
      BY <1>4, <1>5, <1>6, <1>7, <1>9, LengthAssumption
    <2>2. state' # "Sync"
      BY <1>8 DEF Goto
    <2> QED
      BY <1>1, <1>2, <1>4, <1>5, <2>1, <2>2, FrameMoves
  <1> QED
    BY <1>1, <1>2, <1>9, <1>11, <1>12, <1>13 DEF ScanInv, PendingInv, IsPending

LEMMA FlowStep ==
    ASSUME ScanInv, ScanFlow, Untouched
    PROVE  ScanInv' /\ Moves
  <1>1. /\ Scanning /\ state = "Flow" /\ InputInv
        /\ UNCHANGED <<hold, out, blocks, wire, received, read>>
    BY DEF ScanFlow, Untouched, ScanInv
  <1>2. Http2 /\ blocks = <<>> /\ LetThrough = Consumed
    BY <1>1, Where, NotPending, Through
  <1>3. PICK i \in DOMAIN wire : InFlow(i)
    BY <1>1, Where
  <1>4. /\ wire \in Streams /\ Consumed \in Nat /\ Len(rest) \in Nat \ {0}
    BY <1>1, Input
  <1>5. /\ wire[i].kind = "fc" /\ count \in 0 .. FcLen - 1
        /\ Consumed = End(i - 1) + HeaderLen + count
        /\ FcLen \in Nat /\ HeaderLen \in Nat
    BY <1>3, LengthAssumption DEF InFlow
  <1>6. i # 1 /\ ~Public(wire[i])
    BY <1>2, <1>5 DEF Http2, Preface, Public, Private
  <1>7. /\ End(i - 1) \in Nat /\ End(i) \in Nat
        /\ End(i) = End(i - 1) + HeaderLen + FcLen
        /\ \A p \in End(i - 1) + 1 .. End(i) : ~IsPublic(p)
    BY <1>2, <1>4, <1>5, <1>6, FrameIs
  <1> DEFINE n == Least(FcLen - count, Len(rest))
  <1>8. /\ n \in 0 .. Len(rest) /\ n \in Nat /\ count \in Nat
        /\ count + n <= FcLen
    BY <1>4, <1>5 DEF Least
  <1> HIDE DEF n
  <1>9. /\ rest' = Skip(rest, n)
        /\ IF count + n < FcLen THEN Goto("Flow", count + n) /\ sent' = sent
           ELSE /\ Goto("Header", 0)
                /\ sent' = sent + wire[FrameAt(rest[n])].sent
    BY DEF ScanFlow, AddSent, n
  <1>10. InputInv' /\ Consumed' = Consumed + n
    BY <1>1, <1>8, <1>9, ScanTakes
  <1>11. \A p \in Consumed + 1 .. Consumed + n : ~IsPublic(p)
    <2>1. Consumed >= End(i - 1) /\ Consumed + n <= End(i)
      BY <1>4, <1>5, <1>7, <1>8
    <2> QED
      BY <1>4, <1>7, <1>8, <2>1
  <1>12. StateInv' /\ CleanInv' /\ EmptyInv' /\ LetThrough' = Consumed + n
    <2>1. CASE ~(count + n < FcLen)
      <3>1. Goto("Header", 0) /\ Consumed' = End(i) /\ Consumed + n = End(i)
        BY <1>5, <1>7, <1>8, <1>9, <1>10, <2>1
      <3> QED
        BY <1>1, <1>2, <1>4, <1>5, <3>1, FrameEnds
    <2>2. CASE count + n < FcLen
      <3>1. state' = "Flow" /\ count' = count + n /\ buf' = <<>>
            /\ block' = <<>>
        BY <1>9, <2>2 DEF Goto
      <3>2. Http2' /\ End(i - 1)' = End(i - 1)
        BY <1>1, <1>2, SameWire
      <3>3. /\ count' \in 0 .. FcLen - 1
            /\ Consumed' = End(i - 1) + HeaderLen + count'
        BY <1>4, <1>5, <1>7, <1>8, <1>10, <2>2, <3>1
      <3>4. InFlow(i)'
        BY <1>1, <1>5, <3>1, <3>2, <3>3 DEF InFlow
      <3> QED
        BY <1>1, <1>10, <3>1, <3>2, <3>4 
           DEF StateInv, CleanInv, LetThrough, EmptyInv
    <2> QED
      BY <2>1, <2>2
  <1>13. GivenInv'
    <2>1. LetThrough' \in Nat /\ LetThrough <= LetThrough'
      BY <1>2, <1>4, <1>8, <1>12
    <2> QED
      BY <1>1, <1>2, <1>11, <1>12, <2>1, GivenSkips
  <1>14. Moves
    <2>1. /\ End(i - 1) <= Consumed /\ Consumed <= Consumed'
          /\ Consumed' <= End(i) /\ Consumed' \in Nat
          /\ Consumed' = End(i) <=> count + n = FcLen
      BY <1>4, <1>5, <1>7, <1>8, <1>10, SMTT(30)
    <2>2. state' # "Sync" /\ wire[i].kind # "dt"
      BY <1>5, <1>9 DEF Goto
    <2>3. CASE count + n < FcLen
      <3>1. sent' = sent /\ Consumed' # End(i)
        BY <1>8, <1>9, <2>1, <2>3
      <3> QED
        BY <1>1, <1>2, <1>4, <2>1, <2>2, <3>1, FrameMoves
    <2>4. CASE ~(count + n < FcLen)
      <3>1. n \in 1 .. Len(rest) /\ Consumed' = End(i) /\ Consumed < Consumed'
        BY <1>4, <1>5, <1>8, <1>10, <2>1, <2>4
      <3>2. rest[n] = End(i)
        <4>1. rest = Span(Consumed, Len(rest))
          BY <1>1, Input
        <4>2. Span(Consumed, Len(rest))[n] = Consumed + n
          BY <3>1 DEF Span
        <4> QED
          BY <1>10, <3>1, <4>1, <4>2
      <3>3. FrameAt(rest[n]) = i
        <4>1. Within(End(i), i)
          BY <1>4, <1>7, <1>10, <2>1, <3>1 DEF Within
        <4> QED
          BY <1>4, <1>7, <3>2, <4>1, FrameAtIs
      <3>4. sent' = sent + wire[i].sent
        BY <1>9, <2>4, <3>3
      <3> QED
        BY <1>1, <1>2, <1>4, <1>5, <2>1, <2>2, <3>1, <3>4, FrameMoves
    <2> QED
      BY <2>3, <2>4
  <1> QED
    BY <1>1, <1>2, <1>10, <1>12, <1>13, <1>14
       DEF ScanInv, PendingInv, IsPending

LEMMA SyncStep ==
    ASSUME ScanInv, ScanSync, Untouched
    PROVE  ScanInv' /\ Moves
  <1>1. /\ Scanning /\ state = "Sync" /\ InputInv
        /\ UNCHANGED <<out, sent, wire, received, read>>
    BY DEF ScanSync, Untouched, ScanInv
  <1>2. Http2 /\ blocks = <<>> /\ LetThrough = Consumed /\ buf = <<>>
    BY <1>1, Where, NotPending, Through
  <1>3. PICK i \in DOMAIN wire : InSync(i)
    BY <1>1, Where
  <1>4. wire \in Streams /\ Consumed \in Nat /\ Len(rest) \in Nat \ {0}
    BY <1>1, Input
  <1>5. /\ wire[i].kind = "dt" /\ count \in 0 .. Payload(wire[i])
        /\ Consumed + count = End(i)
        /\ count = 0 => Payload(wire[i]) = 0
        /\ block = Span(Body(i), Consumed - Body(i))
    BY <1>3 DEF InSync
  <1>6. i # 1 /\ ~Public(wire[i])
    BY <1>2, <1>5 DEF Http2, Preface, Public, Private
  <1>7. /\ End(i - 1) \in Nat /\ End(i) \in Nat /\ Payload(wire[i]) \in Nat
        /\ Body(i) \in Nat /\ Body(i) >= End(i - 1)
        /\ End(i) = Body(i) + Payload(wire[i])
        /\ \A p \in End(i - 1) + 1 .. End(i) : ~IsPublic(p)
    BY <1>2, <1>4, <1>5, <1>6, FrameIs, LengthAssumption, SMTT(30)
  <1> DEFINE n == Least(count, Len(rest))
  <1>8. n \in 0 .. Len(rest) /\ n \in 0 .. count /\ n \in Nat /\ count \in Nat
    BY <1>4, <1>5, <1>7 DEF Least
  <1> HIDE DEF n
  <1>9. Consumed - Body(i) \in Nat /\ Body(i) + (Consumed - Body(i)) = Consumed
    BY <1>4, <1>5, <1>7, <1>8
  <1>10. block \o Span(Consumed, n) = Span(Body(i), (Consumed - Body(i)) + n)
    <2> DEFINE m == Consumed - Body(i)
    <2>1. m \in Nat /\ Body(i) + m = Consumed
      BY <1>9
    <2> HIDE DEF m
    <2>2. Span(Body(i), m) \o Span(Body(i) + m, n) = Span(Body(i), m + n)
      BY <1>7, <1>8, <2>1, SpanJoin
    <2> QED
      BY <1>5, <2>1, <2>2 DEF m
  <1>11. \A p \in Consumed + 1 .. Consumed + n : ~IsPublic(p)
    BY <1>4, <1>5, <1>7, <1>8
  <1>12. Http2' /\ End(i)' = End(i) /\ Body(i)' = Body(i)
    BY <1>1, <1>2, SameWire
  <1>13. scanned = i - 1
    <2>1. i \in Nat
      BY <1>4, StreamIs
    <2>2. CASE count = 0
      <3>1. Reached(Consumed) = i /\ scanned = Reached(Consumed) - 1
        BY <1>1, <1>4, <1>5, <1>7, <2>2, ReachedAt, ScannedIs
      <3> QED
        BY <2>1, <3>1
    <2>3. CASE count # 0
      <3>1. End(i - 1) <= Consumed /\ Consumed < End(i)
        BY <1>4, <1>5, <1>7, <1>8, <2>3
      <3>2. Reached(Consumed) = i - 1 /\ scanned = Reached(Consumed) - 0
        BY <1>1, <1>4, <2>3, <3>1, ReachedAt, ScannedIs
      <3> QED
        BY <2>1, <3>2
    <2> QED
      BY <2>2, <2>3
  <1>14. CASE count = n
    <2>1. /\ blocks' = Append(blocks, block \o Take(rest, n))
          /\ Goto("Header", 0) /\ HoldRest(n)
      BY <1>14 DEF ScanSync, n
    <2>2. /\ InputInv' /\ Consumed' = Consumed + n
          /\ Take(rest, n) = Span(Consumed, n)
      BY <1>1, <1>8, <2>1, ScanEnds
    <2>3. Consumed' = End(i) /\ Consumed + n = End(i)
          /\ (Consumed - Body(i)) + n = Payload(wire[i])
      BY <1>4, <1>5, <1>7, <1>14, <2>2
    <2>9. ASSUME Payload(wire[i]) = 0 PROVE Consumed' < received'
      <3>1. n = 0 /\ received = Consumed + Len(rest)
        BY <1>1, <1>5, <1>8, <1>14, <2>9, Input
      <3> QED
        BY <1>1, <1>4, <2>2, <3>1
    <2>4. /\ StateInv' /\ CleanInv' /\ EmptyInv' /\ LetThrough' = End(i)
          /\ state' = "Header" /\ count' = 0
      BY <1>1, <1>2, <1>4, <2>1, <2>3, <2>9, FrameEnds
    <2>5. blocks' = <<Span(Body(i), Payload(wire[i]))>>
      BY <1>2, <1>10, <2>1, <2>2, <2>3
    <2>6. PendingInv'
      <3>1. rest' = <<>>
        BY <2>1 DEF HoldRest
      <3> QED
        BY <1>1, <1>5, <1>12, <2>3, <2>4, <2>5, <3>1 DEF PendingInv
    <2>7. GivenInv'
      <3>1. LetThrough' \in Nat /\ LetThrough <= LetThrough'
            /\ LetThrough' = Consumed + n
        BY <1>2, <1>4, <1>8, <2>3, <2>4
      <3> QED
        BY <1>1, <1>2, <1>11, <3>1, GivenSkips
    <2>8. Moves
      <3>1. Reached(Consumed') = i
        BY <1>4, <1>7, <2>3, ReachedAt
      <3>2. scanned' = i
        <4>1. scanned' = Reached(Consumed') - 0
          BY <1>1, <2>4, ScannedNext
        <4>2. i \in Nat
          BY <1>4, StreamIs
        <4> QED
          BY <3>1, <4>1, <4>2
      <3>3. IsPending'
        BY <2>5 DEF IsPending
      <3> QED
        BY <1>1, <1>5, <1>13, <3>2, <3>3 DEF Moves
    <2> QED
      BY <2>2, <2>4, <2>6, <2>7, <2>8 DEF ScanInv
  <1>15. CASE count # n
    <2>1. /\ block' = block \o Take(rest, n)
          /\ count' = count - n
          /\ rest' = Skip(rest, n)
          /\ UNCHANGED <<state, buf, hold, blocks>>
      BY <1>15 DEF ScanSync, n
    <2>2. /\ InputInv' /\ Consumed' = Consumed + n
          /\ Take(rest, n) = Span(Consumed, n)
      BY <1>1, <1>8, <2>1, ScanTakes
    <2>3. InSync(i)'
      <3>1. /\ count' \in 0 .. Payload(wire[i]) /\ Consumed' + count' = End(i)
            /\ count' # 0
        BY <1>4, <1>5, <1>7, <1>8, <1>15, <2>1, <2>2
      <3>2. (Consumed - Body(i)) + n = Consumed' - Body(i)
        BY <1>4, <1>7, <1>8, <2>2
      <3>3. block' = Span(Body(i), Consumed' - Body(i))
        BY <1>10, <2>1, <2>2, <3>2
      <3> QED
        BY <1>1, <1>5, <1>12, <2>1, <3>1, <3>3 DEF InSync
    <2>4. StateInv'
      BY <1>1, <1>12, <2>3 DEF StateInv
    <2>5. LetThrough' = Consumed + n
      BY <1>1, <2>1, <2>2 DEF LetThrough
    <2>6. GivenInv'
      <3>1. LetThrough' \in Nat /\ LetThrough <= LetThrough'
        BY <1>2, <1>4, <1>8, <2>5
      <3> QED
        BY <1>1, <1>2, <1>11, <2>5, <3>1, GivenSkips
    <2>7. Moves
      <3>1. End(i - 1) <= Consumed' /\ Consumed' < End(i) /\ Consumed' \in Nat
        BY <1>4, <1>5, <1>7, <1>8, <1>15, <2>2
      <3>2. Reached(Consumed') = i - 1
        BY <1>4, <3>1, ReachedAt
      <3>3. count' # 0
        BY <1>8, <1>15, <2>1
      <3>4. scanned' = Reached(Consumed') - 0
        BY <1>1, <3>3, ScannedNext
      <3>5. i \in Nat
        BY <1>4, StreamIs
      <3> QED
        BY <1>1, <1>13, <2>1, <3>2, <3>4, <3>5 DEF Moves
    <2> QED
      BY <1>1, <1>2, <2>1, <2>2, <2>4, <2>6, <2>7
         DEF ScanInv, CleanInv, PendingInv, IsPending, EmptyInv
  <1> QED
    BY <1>14, <1>15

(* A complete header belongs to the next frame, and says what it is.       *)
LEMMA HeaderStep ==
    ASSUME ScanInv, ScanHeader, Untouched
    PROVE  ScanInv' /\ Moves
  <1>1. /\ Scanning /\ state = "Header" /\ InputInv
        /\ UNCHANGED <<hold, blocks, sent, wire, received, read>>
    BY DEF ScanHeader, Untouched, ScanInv
  <1>2. Http2 /\ blocks = <<>> /\ block = <<>>
    BY <1>1, Where, NotPending
  <1>3. PICK i \in DOMAIN wire : InHeader(i)
    BY <1>1, Where
  <1>4. /\ wire \in Streams /\ Consumed \in Nat /\ Len(rest) \in Nat \ {0}
        /\ Consumed + Len(rest) <= Total /\ Total \in Nat
    BY <1>1, Input
  <1>5. /\ End(i) \in Nat /\ HeaderLen \in Nat
        /\ count \in 0 .. HeaderLen - 1 /\ count \in Nat
        /\ Consumed = End(i) + count
    BY <1>3, <1>4, StreamIs, EndIs, LengthAssumption DEF InHeader
  <1>6. LetThrough = End(i) /\ buf = Span(End(i), count)
    BY <1>1, <1>3, <1>5 DEF LetThrough, InHeader
  <1>7. i + 1 \in DOMAIN wire /\ i + 1 # 1 /\ (i + 1) - 1 = i
    <2>1. DOMAIN wire = 1 .. Len(wire) /\ Len(wire) \in Nat
      BY <1>4, StreamIs
    <2>2. i # Len(wire)
      BY <1>4, <1>5 DEF Total
    <2> QED
      BY <2>1, <2>2
  <1> DEFINE f == wire[i + 1]
             n == Least(HeaderLen - count, Len(rest))
  <1>8. /\ Payload(f) \in Nat /\ End(i + 1) \in Nat
        /\ Body(i + 1) = End(i) + HeaderLen
        /\ End(i + 1) = Body(i + 1) + Payload(f)
        /\ f.kind = "dt" => Payload(f) <= MaxSyncFrame
        /\ f.kind = "fc" => Payload(f) = FcLen
        /\ \A p \in End(i) + 1 .. End(i + 1) : IsPublic(p) <=> Public(f)
    BY <1>2, <1>4, <1>7, FrameIs
  <1>9. /\ n \in 0 .. Len(rest) /\ n \in Nat /\ n # 0
        /\ count + n <= HeaderLen
    BY <1>4, <1>5 DEF Least
  <1> HIDE DEF n
  <1>10. /\ rest' = Skip(rest, n)
         /\ IF count + n < HeaderLen
            THEN /\ buf' = buf \o Take(rest, n)
                 /\ count' = count + n
                 /\ UNCHANGED <<state, block, out>>
            ELSE ReadHeader(buf \o Take(rest, n))
    BY DEF ScanHeader, n
  <1>11. /\ InputInv' /\ Consumed' = Consumed + n
         /\ Take(rest, n) = Span(Consumed, n)
    BY <1>1, <1>9, <1>10, ScanTakes
  <1>12. buf \o Take(rest, n) = Span(End(i), count + n)
    <2>1. Span(End(i), count) \o Span(End(i) + count, n)
             = Span(End(i), count + n)
      BY <1>5, <1>9, SpanJoin
    <2> QED
      BY <1>5, <1>6, <1>11, <2>1
  <1>13. /\ Http2' /\ End(i)' = End(i) /\ End(i + 1)' = End(i + 1)
         /\ Body(i + 1)' = Body(i + 1)
    BY <1>1, <1>2, SameWire
  <1>14. PendingInv'
    BY <1>1, <1>2 DEF PendingInv, IsPending
  <1>15. /\ Consumed' = End(i) + (count + n) /\ Consumed' \in Nat
         /\ End(i + 1) = End(i) + HeaderLen + Payload(f)
         /\ Payload(f) \in Nat /\ HeaderLen \in Nat \ {0} /\ i \in Nat
         /\ Consumed = End(i) + count /\ End(i) \in Nat
         /\ count \in Nat /\ n \in Nat /\ n # 0
         /\ count < HeaderLen /\ count + n <= HeaderLen
    <2>1. Consumed' = Consumed + n
      BY <1>11
    <2>2. End(i + 1) = End(i) + HeaderLen + Payload(f) /\ Payload(f) \in Nat
      BY <1>5, <1>8
    <2>3. Consumed' = End(i) + (count + n) /\ Consumed' \in Nat
      BY <1>5, <1>9, <2>1
    <2>4. i \in Nat /\ HeaderLen \in Nat \ {0}
      BY <1>4, StreamIs, LengthAssumption
    <2> QED
      BY <1>5, <1>9, <2>2, <2>3, <2>4
  <1>16. ASSUME state' # "Sync",
                f.kind = "dt" => Consumed' < End(i + 1)
         PROVE  Moves
    <2>1. /\ End(i) <= Consumed /\ Consumed <= Consumed'
          /\ Consumed < End(i + 1)
          /\ Consumed' <= End(i + 1) /\ Consumed' \in Nat
      BY <1>15
    <2>2. f.kind = "fc" => Consumed' # End(i + 1)
      <3>1. FcLen \in Nat \ {0}
        BY LengthAssumption
      <3> QED
        BY <1>4, <1>5, <1>8, <1>9, <1>11, <3>1, SMTT(30)
    <2>3. CASE f.kind = "dt"
      <3>1. Reached(Consumed) = (i + 1) - 1 /\ Reached(Consumed') = (i + 1) - 1
        <4>1. /\ End((i + 1) - 1) <= Consumed /\ Consumed < End(i + 1)
              /\ End((i + 1) - 1) <= Consumed' /\ Consumed' < End(i + 1)
          BY <1>7, <1>16, <1>15, <2>1, <2>3
        <4> QED
          BY <1>4, <1>7, <2>1, <4>1, ReachedAt
      <3>2. scanned' = scanned
        BY <1>1, <1>16, <3>1, ScannedIs, ScannedNext
      <3> QED
        BY <1>1, <3>2 DEF Moves
    <2>4. CASE f.kind # "dt"
      BY <1>1, <1>2, <1>4, <1>7, <1>16, <2>1, <2>2, <2>4, FrameMoves
    <2> QED
      BY <2>3, <2>4
  <1>17. CASE count + n < HeaderLen
    <2>1. InHeader(i)'
      <3>1. /\ count' = count + n /\ state' = "Header"
            /\ buf' = Span(End(i), count + n)
        BY <1>1, <1>10, <1>12, <1>17
      <3>2. count' \in 0 .. HeaderLen - 1
        BY <1>5, <1>9, <1>17, <3>1
      <3>3. Consumed' = End(i) + count'
        BY <1>5, <1>9, <1>11, <3>1
      <3> QED
        BY <1>13, <3>1, <3>2, <3>3 DEF InHeader
    <2>2. StateInv' /\ CleanInv'
      BY <1>1, <1>2, <1>10, <1>13, <1>17, <2>1 DEF StateInv, CleanInv
    <2>3. LetThrough' = End(i)
      BY <1>5, <1>13, <2>1 DEF LetThrough, InHeader
    <2>4. GivenInv'
      BY <1>1, <1>5, <1>6, <1>10, <1>17, <2>3, GivenSkips
    <2>5. EmptyInv'
      BY <1>5, <1>9, <1>10, <1>17 DEF EmptyInv
    <2>6. Moves
      <3>1. Consumed' < End(i + 1)
        BY <1>17, <1>15
      <3> QED
        BY <1>1, <1>10, <1>17, <1>16, <3>1
    <2> QED
      BY <1>11, <1>14, <2>2, <2>4, <2>5, <2>6 DEF ScanInv
  <1>18. CASE ~(count + n < HeaderLen)
    <2> DEFINE h == Span(End(i), HeaderLen)
    <2>1. count + n = HeaderLen
      BY <1>5, <1>9, <1>18
    <2>2. ReadHeader(h)
      BY <1>10, <1>12, <1>18, <2>1
    <2>3. Consumed' = End(i) + HeaderLen
      <3>1. Consumed' = (End(i) + count) + n
        BY <1>5, <1>11
      <3> QED
        BY <1>5, <1>9, <2>1, <3>1
    <2>4. wire[FrameAt(h[1])] = f
      <3>1. h[1] = End(i) + 1
        <4>1. 1 \in 1 .. HeaderLen
          BY LengthAssumption
        <4> QED
          BY <4>1 DEF Span
      <3>2. Within(End(i) + 1, i + 1) /\ End(i) + 1 \in Nat
        BY <1>5, <1>7, <1>8, LengthAssumption DEF Within
      <3> QED
        BY <1>4, <1>7, <3>1, <3>2, FrameAtIs
    <2>5. \/ f.kind = "fc" /\ out' = out /\ Goto("Flow", 0)
          \/ f.kind = "dt" /\ out' = out /\ Goto("Sync", Payload(f))
          \/ /\ f.kind \notin {"fc", "dt"}
             /\ out' = out \o h /\ Goto("Payload", Payload(f))
      <3> HIDE DEF f, h
      <3>1. ~(Payload(f) > MaxSyncFrame) \/ f.kind # "dt"
        BY <1>8, LengthAssumption
      <3>2. CASE f.kind = "fc"
        BY <2>2, <2>4, <3>2 DEF ReadHeader
      <3>3. CASE f.kind = "dt"
        BY <2>2, <2>4, <3>1, <3>3 DEF ReadHeader
      <3>4. CASE f.kind \notin {"fc", "dt"}
        BY <2>2, <2>4, <3>4 DEF ReadHeader
      <3> QED
        BY <3>2, <3>3, <3>4
    <2>6. state' \in {"Flow", "Sync", "Payload"} /\ buf' = <<>> /\ block' = <<>>
      BY <2>5 DEF Goto
    <2>7. LetThrough' = End(i) + HeaderLen
      BY <2>3, <2>6 DEF LetThrough
    <2>8. StateInv'
      <3>1. CASE f.kind = "fc"
        <4>1. state' = "Flow" /\ count' = 0
          BY <2>5, <3>1 DEF Goto
        <4>2. count' \in 0 .. FcLen - 1
              /\ Consumed' = End((i + 1) - 1) + HeaderLen + count'
          BY <1>5, <1>7, <2>3, <4>1, LengthAssumption
        <4>3. End((i + 1) - 1)' = End((i + 1) - 1)
          BY <1>1, SameWire
        <4>4. InFlow(i + 1)'
          BY <1>1, <3>1, <4>1, <4>2, <4>3 DEF InFlow
        <4> QED
          BY <1>1, <1>7, <1>13, <4>4 DEF StateInv
      <3>2. CASE f.kind = "dt"
        <4>1. state' = "Sync" /\ count' = Payload(f) /\ block' = <<>>
          BY <2>5, <3>2 DEF Goto
        <4>2. /\ count' \in 0 .. Payload(f)
              /\ Consumed' + count' = End(i + 1)
              /\ Consumed' - Body(i + 1) = 0 /\ Body(i + 1) \in Nat
          BY <1>5, <1>8, <2>3, <4>1
        <4>3. block' = Span(Body(i + 1), Consumed' - Body(i + 1))
          BY <4>1, <4>2, SpanIs
        <4>4. InSync(i + 1)'
          BY <1>1, <1>13, <3>2, <4>1, <4>2, <4>3 DEF InSync
        <4> QED
          BY <1>1, <1>7, <1>13, <4>4 DEF StateInv
      <3>3. CASE f.kind \notin {"fc", "dt"}
        <4>1. state' = "Payload" /\ count' = Payload(f)
          BY <2>5, <3>3 DEF Goto
        <4>2. /\ count' \in 0 .. Payload(f)
              /\ Consumed' + count' = End(i + 1)
          BY <1>5, <1>8, <2>3, <4>1
        <4>3. InPayload(i + 1)'
          BY <1>1, <1>7, <1>13, <3>3, <4>1, <4>2
             DEF InPayload, Public, Private
        <4> QED
          BY <1>1, <1>7, <1>13, <4>3 DEF StateInv
      <3> QED
        BY <3>1, <3>2, <3>3
    <2>9. GivenInv'
      <3>1. \A p \in End(i) + 1 .. End(i) + HeaderLen :
               IsPublic(p) <=> Public(f)
        BY <1>5, <1>8
      <3>2. CASE f.kind \in {"fc", "dt"}
        <4>1. out' = out /\ ~Public(f)
          BY <2>5, <3>2 DEF Public, Private
        <4>2. \A p \in End(i) + 1 .. End(i) + HeaderLen : ~IsPublic(p)
          BY <3>1, <4>1
        <4>3. LetThrough' \in Nat /\ LetThrough <= LetThrough'
          BY <1>5, <1>6, <2>7
        <4> QED
          BY <1>1, <1>6, <2>7, <4>1, <4>2, <4>3, GivenSkips
      <3>3. CASE f.kind \notin {"fc", "dt"}
        <4>1. out' = out \o h /\ Public(f)
          BY <2>5, <3>3 DEF Public, Private
        <4>2. \A p \in End(i) + 1 .. End(i) + HeaderLen : IsPublic(p)
          BY <3>1, <4>1
        <4> QED
          BY <1>1, <1>5, <1>6, <2>7, <4>1, <4>2, GivenGrows
      <3> QED
        BY <3>2, <3>3
    <2>10. CleanInv' /\ EmptyInv'
      BY <2>6 DEF CleanInv, EmptyInv
    <2>11. Moves
      <3>1. CASE f.kind # "dt"
        <4>1. state' # "Sync"
          BY <2>5, <3>1 DEF Goto
        <4> QED
          BY <1>16, <3>1, <4>1
      <3>2. CASE f.kind = "dt"
        <4>1. state' = "Sync" /\ count' = Payload(f)
          BY <2>5, <3>2 DEF Goto
        <4>2. Reached(Consumed) = i /\ scanned = Reached(Consumed) - 0
          <5>1. End(i) <= Consumed /\ Consumed < End(i + 1)
            BY <1>4, <1>5, <1>8
          <5> QED
            BY <1>1, <1>4, <1>7, <5>1, ReachedAt, ScannedIs
        <4>3. i \in Nat /\ Consumed' \in Nat
          BY <1>4, <1>5, <2>3, StreamIs
        <4>4. scanned' = i
          <5>1. CASE Payload(f) = 0
            <6>1. Consumed' = End(i + 1)
              BY <1>5, <1>8, <2>3, <5>1
            <6>2. Reached(Consumed') = i + 1
              BY <1>4, <1>7, <4>3, <6>1, ReachedAt
            <6>3. scanned' = Reached(Consumed') - 1
              BY <1>1, <4>1, <5>1, ScannedNext
            <6> QED
              BY <4>3, <6>2, <6>3
          <5>2. CASE Payload(f) # 0
            <6>1. End(i) <= Consumed' /\ Consumed' < End(i + 1)
              BY <1>5, <1>8, <2>3, <5>2
            <6>2. Reached(Consumed') = i
              BY <1>4, <1>7, <4>3, <6>1, ReachedAt
            <6>3. scanned' = Reached(Consumed') - 0
              BY <1>1, <4>1, <5>2, ScannedNext
            <6> QED
              BY <4>3, <6>2, <6>3
          <5> QED
            BY <5>1, <5>2
        <4> QED
          BY <1>1, <4>2, <4>3, <4>4 DEF Moves
      <3> QED
        BY <3>1, <3>2
    <2> QED
      BY <1>11, <1>14, <2>8, <2>9, <2>10, <2>11 DEF ScanInv
  <1> QED
    BY <1>17, <1>18

(* What is not a step of the scan leaves its place in the stream alone.    *)
LEMMA StaysThere ==
    ASSUME ScanInv, UNCHANGED <<wire, state, buf, count, block>>,
           Consumed' = Consumed
    PROVE  /\ StateInv' /\ CleanInv' /\ LetThrough' = LetThrough
           /\ scanned' = scanned
           /\ EmptyUpdateEnds(Consumed)' = EmptyUpdateEnds(Consumed)
  <1>1. Http2' = Http2 /\ \A i : End(i)' = End(i) /\ Body(i)' = Body(i)
    BY SameWire
  <1>2. InPreface' = InPreface /\ InBlind' = InBlind
    BY <1>1 DEF InPreface, InBlind
  <1>3. \A i : /\ InHeader(i)' = InHeader(i) /\ InPayload(i)' = InPayload(i)
               /\ InFlow(i)' = InFlow(i) /\ InSync(i)' = InSync(i)
    BY <1>1 DEF InHeader, InPayload, InFlow, InSync
  <1>4. StateInv'
    BY <1>1, <1>2, <1>3 DEF ScanInv, StateInv
  <1>5. scanned' = scanned
    BY ScannedIs, ScannedNext
  <1>6. EmptyUpdateEnds(Consumed)' = EmptyUpdateEnds(Consumed)
    BY <1>1 DEF EmptyUpdateEnds
  <1> QED
    BY <1>4, <1>5, <1>6 DEF ScanInv, CleanInv, LetThrough

LEMMA ReadStep ==
    ASSUME ScanInv, NEW n \in 1 .. Total - received, ReadSocket(n)
    PROVE  ScanInv'
  <1>1. /\ rest = <<>> /\ hold = <<>> /\ blocks = <<>>
        /\ received' = received + n
        /\ rest' = Span(received, n)
        /\ UNCHANGED <<wire, state, buf, count, block, hold, out, read, blocks>>
    BY DEF ReadSocket, Scanning, IsPending, socketVars, Span
  <1>2. /\ wire \in Streams /\ received \in 0 .. Total /\ Total \in Nat
        /\ received \in Nat /\ n \in Nat /\ n # 0 /\ received + n \in 0 .. Total
    BY EndIs DEF ScanInv, InputInv
  <1>3. Len(rest) = 0 /\ Len(hold) = 0
    BY <1>1, EmptySeq
  <1>4. Consumed = received
    BY <1>2, <1>3 DEF Consumed
  <1>5. rest' \in Seq(Nat) /\ Len(rest') = n /\ rest' # <<>>
    <2>1. /\ Span(received, n) \in Seq(Nat) /\ Len(Span(received, n)) = n
          /\ Span(received, n) # <<>>
      BY <1>2, SpanIs
    <2> QED
      BY <1>1, <2>1
  <1>6. Consumed' = received
    BY <1>1, <1>2, <1>3, <1>5 DEF Consumed
  <1>7. received' - Consumed' = n
    BY <1>1, <1>2, <1>6
  <1>8. InputInv'
    <2>1. Total' = Total
      BY <1>1, SameWire
    <2>2. rest' = Span(Consumed', received' - Consumed')
      BY <1>1, <1>6, <1>7
    <2>3. hold' = <<>> /\ hold' \in Seq(Nat)
      BY <1>1, EmptySeq
    <2>4. received' \in 0 .. Total' /\ Consumed' \in Nat /\ wire' \in Streams
      BY <1>1, <1>2, <1>6, <2>1
    <2> QED
      BY <1>5, <2>2, <2>3, <2>4 DEF InputInv
  <1>9. StateInv' /\ CleanInv' /\ LetThrough' = LetThrough
    BY <1>1, <1>4, <1>6, StaysThere
  <1>10. GivenInv'
    <2>1. LetThrough \in Nat
      BY Through
    <2> QED
      BY <1>1, <1>9, <2>1, GivenSkips
  <1>11. EmptyInv'
    BY <1>1, <1>2, <1>6 DEF EmptyInv
  <1> QED
    BY <1>1, <1>8, <1>9, <1>10, <1>11 DEF ScanInv, PendingInv, IsPending

LEMMA HeldStep ==
    ASSUME ScanInv, ScanHold
    PROVE  ScanInv'
  <1>1. /\ rest = <<>> /\ hold # <<>> /\ blocks = <<>>
        /\ rest' = hold /\ hold' = <<>>
        /\ UNCHANGED <<wire, state, buf, count, block, received, out, read,
                       blocks>>
    BY DEF ScanHold, Scanning, IsPending, socketVars
  <1>2. InputInv
    BY DEF ScanInv
  <1>3. Len(rest') = Len(hold) /\ Len(hold') = 0 /\ Len(rest) = 0
        /\ Len(hold) \in Nat /\ received \in Nat
    BY <1>1, <1>2, EmptySeq, LenProperties, EndIs DEF InputInv
  <1>4. Consumed' = Consumed
    BY <1>1, <1>3 DEF Consumed
  <1>5. InputInv'
    <2>1. Total' = Total
      BY <1>1, SameWire
    <2> QED
      BY <1>1, <1>2, <1>4, <2>1, EmptySeq DEF InputInv
  <1>6. StateInv' /\ CleanInv' /\ LetThrough' = LetThrough
    BY <1>1, <1>4, StaysThere
  <1>7. GivenInv'
    <2>1. LetThrough \in Nat
      BY Through
    <2> QED
      BY <1>1, <1>6, <2>1, GivenSkips
  <1>8. EmptyInv'
    BY <1>1, <1>4, StaysThere DEF ScanInv, EmptyInv
  <1> QED
    BY <1>1, <1>5, <1>6, <1>7, <1>8 DEF ScanInv, PendingInv, IsPending

(* What the reader does touches neither the scanner nor its input.         *)
LEMMA ReaderStep ==
    ASSUME ScanInv,
           UNCHANGED <<wire, state, buf, count, block, received, rest, hold>>,
           read' \in Seq(Nat), out' \in Seq(Nat), Given' = Given,
           blocks' = blocks \/ blocks' = <<>>
    PROVE  ScanInv'
  <1>1. Consumed' = Consumed
    BY DEF Consumed
  <1>2. Total' = Total /\ \A i : End(i)' = End(i) /\ Body(i)' = Body(i)
    BY SameWire
  <1>3. InputInv'
    BY <1>1, <1>2 DEF ScanInv, InputInv
  <1>4. StateInv' /\ CleanInv' /\ LetThrough' = LetThrough
    BY <1>1, StaysThere
  <1>5. GivenInv'
    BY <1>4, Through, GivenIs
  <1>6. PendingInv'
    BY <1>1, <1>2 DEF ScanInv, PendingInv, IsPending
  <1>7. EmptyInv'
    BY <1>1, StaysThere DEF ScanInv, EmptyInv
  <1> QED
    BY <1>3, <1>4, <1>5, <1>6, <1>7 DEF ScanInv

LEMMA DrainStep ==
    ASSUME ScanInv, NEW n \in 1 .. Len(out), DrainInto(n)
    PROVE  ScanInv'
  <1>1. /\ read' = read \o Take(out, n) /\ out' = Skip(out, n)
        /\ UNCHANGED <<wire, state, buf, count, block, received, rest, hold,
                       blocks>>
    BY DEF DrainInto, socketVars, scanVars
  <1>2. read \in Seq(Nat) /\ out \in Seq(Nat) /\ Len(out) \in Nat
    BY Through, LenProperties
  <1> DEFINE s == Take(out, n)
             t == Skip(out, n)
  <1>3. s \in Seq(Nat) /\ t \in Seq(Nat)
    BY <1>2, SubSeqProperties DEF Take, Skip
  <1>4. s \o t = out
    <2>1. SubSeq(out, 1, n) \o SubSeq(out, n + 1, Len(out))
             = SubSeq(out, 1, Len(out))
      BY <1>2, ConcatAdjacentSubSeq
    <2> QED
      BY <1>2, <2>1, SubSeqFull DEF Take, Skip
  <1> HIDE DEF s, t
  <1>5. (read \o s) \o t = read \o (s \o t)
    BY <1>2, <1>3, Joined
  <1>6. read' \in Seq(Nat) /\ out' \in Seq(Nat) /\ Given' = Given
    BY <1>1, <1>2, <1>3, <1>4, <1>5, ConcatProperties DEF s, t, Given
  <1> QED
    BY <1>1, <1>6, ReaderStep

LEMMA TakeStep ==
    ASSUME ScanInv, TakeHandles
    PROVE  ScanInv'
  <1>1. /\ blocks' = <<>>
        /\ UNCHANGED <<wire, state, buf, count, block, received, rest, hold,
                       out, read>>
    BY DEF TakeHandles, socketVars, scanVars
  <1> QED
    BY <1>1, Through, ReaderStep DEF Given

LEMMA ScanInductive == ScanInv /\ [Next]_vars => ScanInv'
  <1> SUFFICES ASSUME ScanInv, [Next]_vars PROVE ScanInv'
    OBVIOUS
  <1>1. CASE Scan
    <2>1. Untouched
      BY <1>1 DEF Scan, Untouched, socketVars
    <2> QED
      BY <1>1, <2>1, BlindStep, PrefaceStep, HeaderStep, PayloadStep, FlowStep,
         SyncStep DEF Scan
  <1>2. CASE \E n \in 1 .. Total - received : ReadSocket(n)
    BY <1>2, ReadStep
  <1>3. CASE ScanHold
    BY <1>3, HeldStep
  <1>4. CASE \E n \in 1 .. Len(out) : DrainInto(n)
    BY <1>4, DrainStep
  <1>5. CASE TakeHandles
    BY <1>5, TakeStep
  <1>6. CASE UNCHANGED vars
    BY <1>6, Through, ReaderStep
       DEF vars, socketVars, streamVars, scanVars, Given
  <1> QED
    BY <1>1, <1>2, <1>3, <1>4, <1>5, <1>6 DEF Next

LEMMA ScanHolds == Spec => []ScanInv
  BY ScanInit, ScanInductive, PTL DEF Spec

-----------------------------------------------------------------------------
(* However the stream is cut into chunks, the reader is handed the bytes   *)
(* of the public frames, once each and in order, and none is left out.     *)
THEOREM ReaderGetsPublic == Spec => []OnlyPublic
  <1>1. ScanInv => OnlyPublic
    <2> SUFFICES ASSUME ScanInv PROVE OnlyPublic
      OBVIOUS
    <2>1. /\ LetThrough \in Nat /\ Lists(Given, LetThrough)
          /\ received \in Nat /\ LetThrough <= received
      BY Through
    <2>2. \A k \in DOMAIN Given : /\ Given[k] \in 1 .. received
                                  /\ \A p \in 1 .. Given[k] : p \in 1 .. LetThrough
      BY <2>1 DEF Lists
    <2> QED
      BY <2>1, <2>2 DEF OnlyPublic, Lists
  <1> QED
    BY <1>1, ScanHolds, PTL

(* An update that nobody has taken is whole and the only one, and the      *)
(* reader has been given nothing of what came behind it.                   *)
THEOREM UpdateHoldsBack == Spec => []UpdateIsBarrier
  <1>1. ScanInv => UpdateIsBarrier
    <2> SUFFICES ASSUME ScanInv, IsPending PROVE UpdateIsBarrier
      BY DEF UpdateIsBarrier
    <2>1. PICK i \in DOMAIN wire :
             /\ wire[i].kind = "dt" /\ Consumed = End(i)
             /\ blocks = <<Span(Body(i), Payload(wire[i]))>>
      BY DEF ScanInv, PendingInv
    <2>2. state = "Header" /\ count = 0
      BY DEF ScanInv, PendingInv
    <2>3. wire \in Streams /\ Http2
      BY <2>2, Where DEF ScanInv, InputInv
    <2>4. i # 1 /\ ~Public(wire[i]) /\ Payload(wire[i]) = Len(wire[i].table)
      BY <2>1, <2>3 DEF Http2, Preface, Public, Private, Payload
    <2>5. /\ End(i - 1) \in Nat /\ End(i) \in Nat
          /\ Body(i) = End(i - 1) + HeaderLen
          /\ \A p \in End(i - 1) + 1 .. End(i) : ~IsPublic(p)
      BY <2>3, <2>4, FrameIs
    <2>6. LetThrough = End(i)
      BY <2>1, <2>2, <2>5 DEF LetThrough
    <2>7. \A k \in DOMAIN Given : Given[k] <= End(i - 1)
      BY <2>5, <2>6, Through DEF Lists
    <2>8. blocks[1] = [j \in 1 .. Len(wire[i].table) |->
                          End(i - 1) + HeaderLen + j] /\ Len(blocks) = 1
      BY <2>1, <2>4, <2>5 DEF Span
    <2> QED
      BY <2>1, <2>7, <2>8 DEF UpdateIsBarrier
  <1> QED
    BY <1>1, ScanHolds, PTL

-----------------------------------------------------------------------------
(* Byte by byte, the stream does what Listener says of it frame by frame.  *)

(* A byte inside a frame ends none.                                        *)
LEMMA Inside ==
    ASSUME wire \in Streams, NEW i \in DOMAIN wire, NEW r \in DOMAIN wire,
           End(i - 1) < End(r), End(r) < End(i)
    PROVE  FALSE
  <1>1. /\ End(i - 1) \in Nat /\ End(i) \in Nat /\ End(r) \in Nat
        /\ i \in Nat /\ r \in Nat
    BY StreamIs, EndIs
  <1>2. Reached(End(r)) = i - 1 /\ Reached(End(r)) = r
    BY <1>1, ReachedAt
  <1>3. i - 1 = r
    BY <1>2
  <1> QED
    BY <1>1, <1>3

LevelsInv ==
    /\ scanned \in Nat /\ arrived \in Nat
    /\ scanned <= arrived /\ arrived <= Len(wire)
    /\ Consumed = received => scanned = arrived

LEMMA Levels == ScanInv => LevelsInv
  <1> USE DEF LevelsInv
  <1> SUFFICES ASSUME ScanInv PROVE LevelsInv
    OBVIOUS
  <1> DEFINE a == Reached(received)
             c == Reached(Consumed)
             E == state = "Sync" /\ count = 0
  <1>1. /\ wire \in Streams /\ received \in 0 .. Total /\ Total \in Nat
        /\ received \in Nat /\ Consumed \in 0 .. Total /\ Consumed \in Nat
        /\ Consumed <= received /\ Len(wire) \in Nat
    BY Through, StreamIs, EndIs DEF ScanInv, InputInv
  <1>2. /\ a \in 0 .. Len(wire) /\ c \in 0 .. Len(wire) /\ c <= a
        /\ End(c) <= Consumed
    BY <1>1, ReachedFor, ReachedGrows
  <1>3. /\ ~E => scanned = c - 0
        /\ E => scanned = c - 1
    BY ScannedIs
  <1>4. /\ ~EmptyUpdateEnds(received) => arrived = a - 0
        /\ EmptyUpdateEnds(received) => arrived = a - 1
    BY DEF arrived
  <1>5. E => c # 0 /\ EmptyUpdateEnds(Consumed)
    <2> SUFFICES ASSUME E PROVE c # 0 /\ EmptyUpdateEnds(Consumed)
      OBVIOUS
    <2>1. PICK i \in DOMAIN wire : InSync(i)
      BY Where
    <2>2. Consumed = End(i) /\ wire[i].kind = "dt" /\ Payload(wire[i]) = 0
      BY <1>1, <2>1, StreamIs, EndIs DEF InSync
    <2>3. c = i /\ i # 0
      BY <1>1, <2>2, ReachedAt, StreamIs
    <2> QED
      BY <1>1, <2>2, <2>3, EmptyAt
  <1> HIDE DEF a, c
  <1>6. CASE ~EmptyUpdateEnds(received)
    BY <1>1, <1>2, <1>3, <1>4, <1>5, <1>6 DEF a, c
  <1>7. CASE EmptyUpdateEnds(received)
    <2>1. PICK r \in DOMAIN wire :
             End(r) = received /\ wire[r].kind = "dt" /\ Payload(wire[r]) = 0
      BY <1>7 DEF EmptyUpdateEnds
    <2>2. a = r /\ r \in Nat /\ r # 0 /\ r \in 0 .. Len(wire)
      BY <1>1, <2>1, ReachedAt, StreamIs DEF a
    <2>3. ASSUME Consumed = received PROVE E
      <3>1. ~Public(wire[r]) /\ EmptyUpdateEnds(Consumed)
        BY <1>7, <2>1, <2>3 DEF Public, Private
      <3>2. Http2
        BY <1>1, <2>2, <3>1, StreamIs
      <3>3. CASE InPreface
        <4>1. Consumed < End(1)
          BY <1>1, <3>2, <3>3, FirstIs DEF InPreface
        <4>2. /\ 1 \in 0 .. Len(wire) /\ r \in 1 .. Len(wire)
              /\ r \in 0 .. Len(wire)
          BY <1>1, <2>2, StreamIs
        <4>3. End(1) <= End(r) /\ End(1) \in Nat /\ End(r) \in Nat
          BY <1>1, <4>2, EndGrows, EndIs
        <4> QED
          BY <1>1, <2>1, <2>3, <4>1, <4>3
      <3>4. CASE InBlind
        BY <3>2, <3>4 DEF InBlind
      <3>5. ASSUME NEW i \in DOMAIN wire, InHeader(i) PROVE E
        <4>1. state = "Header" /\ count \in 0 .. HeaderLen - 1
              /\ Consumed = End(i) + count /\ End(i) \in Nat /\ i \in Nat
          BY <1>1, <3>5, StreamIs, EndIs DEF InHeader
        <4>2. CASE count = 0
          BY <1>1, <2>3, <3>1, <4>1, <4>2 DEF ScanInv, EmptyInv
        <4>3. CASE count # 0
          <5>1. End(i) < End(r)
            BY <2>1, <2>3, <4>1, <4>3, LengthAssumption
          <5>2. i # r
            BY <1>1, <2>1, <4>1, <5>1
          <5>3. i < Len(wire)
            <6>1. i = Len(wire) => End(r) <= End(i)
              BY <1>1, <2>1, <2>3 DEF Total
            <6>2. i \in 1 .. Len(wire) /\ End(r) \in Nat
              BY <1>1, <2>1, StreamIs
            <6> QED
              BY <1>1, <4>1, <5>1, <6>1, <6>2
          <5>4. /\ i + 1 \in DOMAIN wire /\ (i + 1) - 1 = i /\ i + 1 # 1
            BY <1>1, <4>1, <5>3, StreamIs
          <5>5. End(r) < End(i + 1)
            <6>1. End(i + 1) = Body(i + 1) + Payload(wire[i + 1])
                  /\ Body(i + 1) = End(i) + HeaderLen
                  /\ Payload(wire[i + 1]) \in Nat
              BY <1>1, <3>2, <5>4, FrameIs
            <6> QED
              BY <2>1, <2>3, <4>1, <6>1, LengthAssumption
          <5> QED
            BY <1>1, <5>1, <5>4, <5>5, Inside
        <4> QED
          BY <4>2, <4>3
      <3>6. ASSUME NEW i \in DOMAIN wire, i # 1,
                   Consumed > End(i - 1), Consumed <= End(i),
                   Consumed = End(i) => i # r
            PROVE  FALSE
        <4>1. End(i - 1) \in Nat /\ End(i) \in Nat
          BY <1>1, <3>2, <3>6, FrameIs
        <4>2. Consumed # End(i)
          BY <1>1, <2>1, <2>3, <3>6, EndsOnce
        <4> QED
          BY <1>1, <2>1, <2>3, <3>6, <4>1, <4>2, Inside
      <3>7. ASSUME NEW i \in DOMAIN wire, InPayload(i) PROVE E
        <4>1. /\ i # 1 /\ Public(wire[i])
              /\ count \in 0 .. Payload(wire[i]) /\ Consumed + count = End(i)
          BY <3>7 DEF InPayload
        <4>2. /\ Payload(wire[i]) \in Nat /\ End(i - 1) \in Nat
              /\ End(i) \in Nat /\ Body(i) = End(i - 1) + HeaderLen
              /\ End(i) = Body(i) + Payload(wire[i])
          BY <1>1, <3>2, <4>1, FrameIs
        <4>3. Consumed > End(i - 1) /\ Consumed <= End(i)
          BY <1>1, <4>1, <4>2, LengthAssumption
        <4> QED
          BY <3>1, <3>6, <4>1, <4>3
      <3>8. ASSUME NEW i \in DOMAIN wire, InFlow(i) PROVE E
        <4>1. /\ wire[i].kind = "fc" /\ count \in 0 .. FcLen - 1
              /\ Consumed = End(i - 1) + HeaderLen + count
          BY <3>8 DEF InFlow
        <4>2. i # 1 /\ i # r
          BY <2>1, <3>2, <4>1 DEF Http2, Preface
        <4>3. /\ Payload(wire[i]) = FcLen /\ End(i - 1) \in Nat
              /\ End(i) \in Nat /\ Body(i) = End(i - 1) + HeaderLen
              /\ End(i) = Body(i) + Payload(wire[i])
          BY <1>1, <3>2, <4>1, <4>2, FrameIs
        <4>4. Consumed > End(i - 1) /\ Consumed <= End(i)
          BY <1>1, <4>1, <4>3, LengthAssumption, SMTT(30)
        <4> QED
          BY <3>6, <4>2, <4>4
      <3>9. ASSUME NEW i \in DOMAIN wire, InSync(i) PROVE E
        <4>1. /\ state = "Sync" /\ wire[i].kind = "dt"
              /\ count \in 0 .. Payload(wire[i]) /\ Consumed + count = End(i)
          BY <3>9 DEF InSync
        <4>2. i # 1
          BY <3>2, <4>1 DEF Http2, Preface
        <4>3. /\ Payload(wire[i]) \in Nat /\ End(i - 1) \in Nat
              /\ End(i) \in Nat /\ Body(i) = End(i - 1) + HeaderLen
              /\ End(i) = Body(i) + Payload(wire[i])
          BY <1>1, <3>2, <4>2, FrameIs
        <4>4. SUFFICES ASSUME count # 0 PROVE FALSE
          BY <4>1
        <4>5. Consumed > End(i - 1) /\ Consumed < End(i)
          <5>1. count \in Nat /\ count <= Payload(wire[i])
            BY <4>1, <4>3
          <5>2. Consumed + count = End(i) /\ HeaderLen \in Nat \ {0}
            BY <4>1, LengthAssumption
          <5> QED
            BY <1>1, <4>3, <4>4, <5>1, <5>2
        <4> QED
          BY <1>1, <3>6, <4>2, <4>3, <4>5
      <3> QED
        BY <3>3, <3>4, <3>5, <3>7, <3>8, <3>9 DEF ScanInv, StateInv
    <2>4. c = r => Consumed = received
      BY <1>1, <1>2, <2>1
    <2>5. Consumed = received => c = r
      BY <1>1, <2>1, ReachedAt DEF c
    <2> HIDE DEF E
    <2>6. arrived = r - 1
      BY <1>4, <1>7, <2>2
    <2>7. CASE E
      BY <1>1, <1>2, <1>3, <1>5, <2>2, <2>5, <2>6, <2>7
    <2>8. CASE ~E
      BY <1>1, <1>2, <1>3, <2>2, <2>3, <2>4, <2>6, <2>8
    <2> QED
      BY <2>7, <2>8
  <1> QED
    BY <1>6, <1>7

(* The largest of some naturals that are bounded.                          *)
LEMMA MaxIs ==
    ASSUME NEW n \in Nat, NEW S \in SUBSET (0 .. n), 0 \in S
    PROVE  Max(S) \in S /\ \A x \in S : x <= Max(S)
  <1> DEFINE T == {y \in Nat : y <= n /\ n - y \in S}
  <1>1. IsWellFoundedOn(Below, Nat)
    BY NatLessThanWellFounded, Zenon DEF Below
  <1>2. T \subseteq Nat /\ n \in T
    OBVIOUS
  <1>3. PICK y \in T : \A z \in T : <<z, y>> \notin Below
    BY <1>1, <1>2, WFMin
  <1>4. y \in Nat /\ y <= n /\ n - y \in S
    OBVIOUS
  <1>5. ASSUME NEW x \in S PROVE x <= n - y
    <2>1. n - x \in T
      OBVIOUS
    <2>2. n - x \in Nat /\ x \in Nat
      OBVIOUS
    <2>3. ~(n - x < y)
      BY <1>3, <1>4, <2>1, <2>2, BelowIs
    <2> QED
      BY <1>4, <2>2, <2>3
  <1>6. \A x \in S : n - y >= x
    BY <1>4, <1>5
  <1>7. Max(S) \in S /\ \A x \in S : Max(S) >= x
    BY <1>4, <1>6, Zenon DEF Max
  <1> QED
    BY <1>7

(* Scanner::scan is running, as Listener sees it.                          *)
Busy == Scanning /\ scanned < arrived

BusyInv ==
    /\ hold = <<>> => (Busy <=> scanned < arrived)
    /\ ~Scanning => ~Busy

LEMMA BusyIs == ScanInv => BusyInv
  <1>1. ~Scanning => ~Busy
    BY DEF Busy
  <1>2. ASSUME ScanInv, hold = <<>>, ~Scanning PROVE ~(scanned < arrived)
    <2>1. rest = <<>> /\ Len(rest) = 0 /\ Len(hold) = 0
      BY <1>2, EmptySeq DEF Scanning
    <2>2. Consumed = received
      BY <1>2, <2>1, Through, EndIs DEF Consumed, ScanInv, InputInv
    <2>3. scanned = arrived /\ scanned \in Nat
      BY <1>2, <2>2, Levels DEF LevelsInv
    <2> QED
      BY <2>3
  <1> QED
    BY <1>1, <1>2 DEF Busy, BusyInv

(* What has been handed out is read off the last byte handed out.          *)
HandedBy(q) == {i \in 1 .. Reached(q) : Public(wire[i])} \cup {0}

LEMMA HandedIs ==
    ASSUME ScanInv, NEW q \in Nat, q <= LetThrough
    PROVE  /\ Reached(q) \in Nat
           /\ Max(HandedBy(q)) \in 0 .. scanned
           /\ Max(HandedBy(q)) # 0 => Public(wire[Max(HandedBy(q))])
           /\ \A i \in HandedBy(q) : i <= Max(HandedBy(q))
  <1>1. /\ wire \in Streams /\ Total \in Nat /\ Len(wire) \in Nat
        /\ LetThrough \in Nat /\ Consumed \in 0 .. Total /\ Consumed \in Nat
        /\ q \in 0 .. Total /\ q <= Consumed
    BY Through, StreamIs, EndIs, SMTT(30) DEF ScanInv, InputInv
  <1>2. /\ Reached(q) \in Nat /\ Reached(Consumed) \in Nat
        /\ Reached(q) <= Reached(Consumed)
    <2>1. Reached(q) \in 0 .. Len(wire) /\ Reached(Consumed) \in 0 .. Len(wire)
      BY <1>1, ReachedFor
    <2>2. Reached(q) <= Reached(Consumed)
      BY <1>1, ReachedGrows
    <2> QED
      BY <1>1, <2>1, <2>2
  <1> DEFINE S == HandedBy(q)
             m == Max(S)
  <1>3. S \subseteq 0 .. Reached(q) /\ 0 \in S
        /\ \A i \in S : i # 0 => Public(wire[i])
    BY <1>2 DEF HandedBy
  <1> HIDE DEF S
  <1>4. m \in S /\ \A x \in S : x <= m
    BY <1>2, <1>3, MaxIs
  <1> HIDE DEF m
  <1>5. m \in Nat /\ m <= Reached(Consumed) /\ (m # 0 => Public(wire[m]))
    BY <1>2, <1>3, <1>4
  <1>6. m <= scanned /\ scanned \in Nat
    <2>1. CASE ~(state = "Sync" /\ count = 0)
      BY <1>2, <1>5, <2>1, ScannedIs
    <2>2. CASE state = "Sync" /\ count = 0
      <3>1. PICK i \in DOMAIN wire : InSync(i)
        BY <2>2, Where
      <3>2. Consumed = End(i) /\ ~Public(wire[i]) /\ i \in Nat /\ i # 0
        BY <1>1, <2>2, <3>1, StreamIs, EndIs DEF InSync, Public, Private
      <3>3. Reached(Consumed) = i
        BY <1>1, <3>2, ReachedAt
      <3>4. scanned = i - 1
        BY <2>2, <3>3, ScannedIs
      <3>5. m # i
        BY <1>5, <3>2
      <3> QED
        BY <1>5, <3>2, <3>3, <3>4, <3>5
    <2> QED
      BY <2>1, <2>2
  <1> QED
    BY <1>2, <1>4, <1>5, <1>6 DEF S, m

LEMMA HandedNext ==
    ASSUME wire' = wire
    PROVE  handed' = IF read' = <<>> THEN 0 ELSE Max(HandedBy(Last(read')))
  <1>1. /\ Reached(Last(read))' = Reached(Last(read'))
        /\ \A i : Public(wire[i])' = Public(wire[i])
    BY SameWire DEF Reached, End, Public, Private
  <1> QED
    BY <1>1 DEF handed, HandedBy

LEMMA SameLevels ==
    ASSUME UNCHANGED <<wire, received, read>>
    PROVE  arrived' = arrived /\ handed' = handed
  <1>1. arrived' = arrived
    BY SameWire DEF arrived, EmptyUpdateEnds
  <1>2. handed' = handed
    BY HandedNext DEF handed, HandedBy
  <1> QED
    BY <1>1, <1>2

(* A step of Listener, or none.                                            *)
Listens == [Filter!ListenerNext /\ UNCHANGED wire]_<<Filter!listenerVars, wire>>

LEMMA Stutters ==
    ASSUME UNCHANGED <<arrived, scanned, handed, sent, wire>>,
           Busy' <=> Busy, IsPending' <=> IsPending
    PROVE  Listens
  <1>1. (Scanning /\ scanned < arrived)' = (Scanning /\ scanned < arrived)
    BY DEF Busy
  <1>2. IsPending' = IsPending
    BY DEF IsPending
  <1> QED
    BY <1>1, <1>2 DEF Listens, Filter!listenerVars

(* What is held back is held back by an update.                            *)
LEMMA HoldsBack ==
    ASSUME ScanInv, Scan, hold' # <<>>
    PROVE  IsPending'
  <1>1. hold = <<>> /\ blocks = <<>>
    BY NotPending DEF ScanInv, InputInv, Scan, ScanBlind, ScanPreface,
       ScanHeader, ScanPayload, ScanFlow, ScanSync, Scanning
  <1>2. ScanSync
    <2>1. ScanBlind \/ ScanPreface \/ ScanHeader => hold' = hold
      BY DEF ScanBlind, ScanPreface, ScanHeader
    <2>2. ScanPayload \/ ScanFlow => hold' = hold
      BY DEF ScanPayload, ScanFlow
    <2> QED
      BY <1>1, <2>1, <2>2 DEF Scan
  <1>3. PICK b : blocks' = Append(blocks, b)
    BY <1>1, <1>2 DEF ScanSync
  <1>4. Append(<<>>, b) # <<>>
    OBVIOUS
  <1> QED
    BY <1>1, <1>3, <1>4 DEF IsPending

LEMMA ScanListens ==
    ASSUME ScanInv, ScanInv', Scan
    PROVE  Listens
  <1>1. Untouched /\ Scanning
    BY DEF Scan, Untouched, socketVars, ScanBlind, ScanPreface, ScanHeader,
           ScanPayload, ScanFlow, ScanSync
  <1>2. Moves
    BY <1>1, BlindStep, PrefaceStep, HeaderStep, PayloadStep, FlowStep, SyncStep
       DEF Scan
  <1>3. arrived' = arrived /\ handed' = handed /\ wire' = wire
    BY <1>1, SameLevels DEF Untouched
  <1>4. hold = <<>> /\ blocks = <<>>
    BY <1>1, NotPending DEF ScanInv, InputInv, Scanning
  <1>5. /\ scanned \in Nat /\ arrived \in Nat /\ arrived <= Len(wire)
        /\ scanned' \in Nat /\ scanned' <= arrived'
    <2>1. LevelsInv'
      BY Levels, PTL
    <2> QED
      BY <2>1, Levels DEF LevelsInv
  <1>6. /\ Busy <=> scanned < arrived
        /\ hold' = <<>> => (Busy' <=> scanned' < arrived')
        /\ ~Scanning' => ~Busy'
    <2>1. BusyInv'
      BY BusyIs, PTL
    <2> QED
      BY <1>4, <2>1, BusyIs DEF BusyInv
  <1>7. CASE scanned' = scanned /\ UNCHANGED <<sent, blocks>>
    <2>1. hold' = <<>>
      BY <1>4, <1>7, HoldsBack DEF IsPending
    <2> QED
      BY <1>3, <1>6, <1>7, <2>1, Stutters DEF IsPending
  <1>8. ASSUME NEW i \in DOMAIN wire,
               scanned = i - 1, scanned' = i,
               sent' = IF wire[i].kind = "fc" THEN sent + wire[i].sent ELSE sent,
               IsPending' <=> wire[i].kind = "dt"
        PROVE  Listens
    <2>1. i \in Nat /\ scanned + 1 = i /\ scanned < arrived
      <3>1. i \in Nat
        BY StreamIs DEF ScanInv, InputInv
      <3> QED
        BY <1>3, <1>5, <1>8, <3>1
    <2>2. Busy' <=> wire[i].kind # "dt" /\ i < arrived
      <3>1. CASE wire[i].kind = "dt"
        <4>1. rest' = <<>>
          BY <1>8, <3>1 DEF ScanInv, PendingInv
        <4> QED
          BY <1>6, <3>1, <4>1 DEF Scanning
      <3>2. CASE wire[i].kind # "dt"
        <4>1. hold' = <<>>
          BY <1>8, <3>2, HoldsBack
        <4> QED
          BY <1>3, <1>6, <1>8, <3>2, <4>1
      <3> QED
        BY <3>1, <3>2
    <2>3. IsPending' = (wire[i].kind = "dt")
      BY <1>8 DEF IsPending
    <2>4. (Scanning /\ scanned < arrived)'
             = (wire[i].kind # "dt" /\ i < arrived)
      BY <2>2 DEF Busy
    <2>5. Scanning /\ scanned < arrived
      BY <1>1, <2>1
    <2>6. Filter!ScanFrame
      BY <1>3, <1>8, <2>1, <2>3, <2>4, <2>5 DEF Filter!ScanFrame
    <2> QED
      BY <1>3, <2>6 DEF Listens, Filter!ListenerNext
  <1> QED
    BY <1>2, <1>7, <1>8 DEF Moves

LEMMA ReadListens ==
    ASSUME ScanInv, ScanInv', NEW n \in 1 .. Total - received, ReadSocket(n)
    PROVE  Listens
  <1>1. /\ rest = <<>> /\ hold = <<>> /\ blocks = <<>>
        /\ received' = received + n
        /\ rest' = Span(received, n)
        /\ UNCHANGED <<wire, state, buf, count, block, hold, out, read, blocks,
                       sent>>
    BY DEF ReadSocket, Scanning, IsPending, socketVars, Span
  <1>2. /\ received \in Nat /\ n \in Nat /\ n # 0
    BY EndIs DEF ScanInv, InputInv
  <1>3. Len(rest) = 0 /\ Len(hold) = 0 /\ Len(rest') = n /\ rest' # <<>>
    <2>1. Len(Span(received, n)) = n /\ Span(received, n) # <<>>
      BY <1>2, SpanIs
    <2> QED
      BY <1>1, <2>1, EmptySeq
  <1>4. Consumed = received /\ Consumed' = Consumed
    BY <1>1, <1>2, <1>3 DEF Consumed
  <1>5. scanned' = scanned
    BY <1>1, <1>4, StaysThere
  <1>6. /\ scanned = arrived /\ scanned \in Nat /\ arrived \in Nat
        /\ arrived <= Len(wire)
    BY <1>4, Levels DEF LevelsInv
  <1>7. scanned' <= arrived' /\ arrived' <= Len(wire') /\ arrived' \in Nat
    <2>1. LevelsInv'
      BY Levels, PTL
    <2> QED
      BY <2>1 DEF LevelsInv
  <1>8. handed' = handed
    BY <1>1, HandedNext DEF handed, HandedBy
  <1>9. Len(wire) \in Nat
    BY StreamIs DEF ScanInv, InputInv
  <1>10. ~Busy /\ (Busy' <=> arrived < arrived')
    BY <1>1, <1>3, <1>5, <1>6 DEF Busy, Scanning
  <1>11. CASE arrived' = arrived
    BY <1>1, <1>5, <1>6, <1>8, <1>10, <1>11, Stutters DEF IsPending
  <1>12. CASE arrived' # arrived
    <2> DEFINE m == arrived' - arrived
    <2>1. /\ m \in 1 .. Len(wire) - arrived /\ arrived' = arrived + m
          /\ arrived + m <= Len(wire)
      <3>1. /\ arrived \in Nat /\ arrived' \in Nat /\ Len(wire) \in Nat
            /\ arrived <= arrived' /\ arrived # arrived'
            /\ arrived' <= Len(wire)
        <4>1. wire' = wire
          BY <1>1
        <4>2. arrived <= arrived'
          BY <1>5, <1>6, <1>7
        <4> QED
          BY <1>6, <1>7, <1>9, <1>12, <4>1, <4>2
      <3>2. \A a, b, l \in Nat :
               a <= b /\ a # b /\ b <= l
                  => b - a \in 1 .. l - a /\ b = a + (b - a) /\ a + (b - a) <= l
        OBVIOUS
      <3> QED
        BY <3>1, <3>2, Zenon
    <2> HIDE DEF m
    <2>2. (Scanning /\ scanned < arrived)' = TRUE
      BY <1>6, <1>7, <1>5, <1>10, <1>12 DEF Busy
    <2>3. ~(Scanning /\ scanned < arrived) /\ ~IsPending
      BY <1>1, <1>10 DEF Busy, IsPending
    <2>4. IsPending' = IsPending
      BY <1>1 DEF IsPending
    <2>5. Filter!ReadSocket(m)
      BY <1>1, <1>5, <1>6, <1>8, <2>1, <2>2, <2>3, <2>4 DEF Filter!ReadSocket
    <2> QED
      BY <1>1, <2>1, <2>5 DEF Listens, Filter!ListenerNext
  <1> QED
    BY <1>11, <1>12

LEMMA HeldListens ==
    ASSUME ScanInv, ScanHold
    PROVE  Listens
  <1>1. /\ rest = <<>> /\ hold # <<>> /\ blocks = <<>>
        /\ rest' = hold /\ hold' = <<>>
        /\ UNCHANGED <<wire, state, buf, count, block, received, out, read,
                       blocks, sent>>
    BY DEF ScanHold, Scanning, IsPending, socketVars
  <1>2. Consumed' = Consumed
    <2>1. Len(rest') = Len(hold) /\ Len(hold') = 0 /\ Len(rest) = 0
          /\ Len(hold) \in Nat /\ received \in Nat
      BY <1>1, EmptySeq, LenProperties, EndIs DEF ScanInv, InputInv
    <2> QED
      BY <1>1, <2>1 DEF Consumed
  <1>3. scanned' = scanned /\ arrived' = arrived /\ handed' = handed
    BY <1>1, <1>2, StaysThere, SameLevels
  <1>4. ~Busy /\ (Busy' <=> scanned < arrived)
    BY <1>1, <1>3 DEF Busy, Scanning
  <1>5. IsPending' = IsPending /\ ~IsPending
    BY <1>1 DEF IsPending
  <1>6. CASE scanned < arrived
    <2>1. (Scanning /\ scanned < arrived)' = TRUE
      BY <1>4, <1>6 DEF Busy
    <2>2. Filter!ScanHeld
      BY <1>1, <1>3, <1>4, <1>5, <1>6, <2>1 DEF Filter!ScanHeld, Busy
    <2> QED
      BY <1>1, <2>2 DEF Listens, Filter!ListenerNext
  <1>7. CASE ~(scanned < arrived)
    BY <1>1, <1>3, <1>4, <1>5, <1>7, Stutters
  <1> QED
    BY <1>6, <1>7

LEMMA DrainListens ==
    ASSUME ScanInv, NEW n \in 1 .. Len(out), DrainInto(n)
    PROVE  Listens
  <1>1. /\ rest = <<>>
        /\ read' = read \o Take(out, n) /\ out' = Skip(out, n)
        /\ UNCHANGED <<wire, state, buf, count, block, received, rest, hold,
                       blocks, sent>>
    BY DEF DrainInto, Scanning, socketVars, scanVars
  <1>2. /\ read \in Seq(Nat) /\ out \in Seq(Nat)
        /\ Len(out) \in Nat /\ Len(read) \in Nat
        /\ LetThrough \in Nat /\ Lists(Given, LetThrough)
    BY Through, LenProperties
  <1>3. /\ Take(out, n) \in Seq(Nat) /\ Len(Take(out, n)) = n
        /\ Take(out, n)[n] = out[n] /\ n \in Nat /\ n # 0
    BY <1>2, SubSeqProperties DEF Take
  <1>4. /\ Len(read') = Len(read) + n /\ read' # <<>>
        /\ read'[Len(read) + n] = out[n]
    <2> DEFINE t == Take(out, n)
    <2>1. t \in Seq(Nat) /\ Len(t) = n /\ t[n] = out[n]
      BY <1>3
    <2> HIDE DEF t
    <2>2. /\ Len(read \o t) = Len(read) + n
          /\ (read \o t)[Len(read) + n] = t[(Len(read) + n) - Len(read)]
          /\ read \o t \in Seq(Nat)
      <3>1. /\ read \o t \in Seq(Nat) /\ Len(read \o t) = Len(read) + n
            /\ \A i \in 1 .. Len(read) + n :
                  (read \o t)[i]
                     = IF i <= Len(read) THEN read[i] ELSE t[i - Len(read)]
        BY <1>2, <2>1, ConcatProperties
      <3>2. /\ Len(read) + n \in 1 .. Len(read) + n
            /\ ~(Len(read) + n <= Len(read))
        BY <1>2, <1>3
      <3> QED
        BY <3>1, <3>2
    <2>3. (Len(read) + n) - Len(read) = n /\ Len(read) + n # 0
      BY <1>2, <1>3
    <2> QED
      BY <1>1, <2>1, <2>2, <2>3, EmptySeq DEF t
  <1>5. /\ DOMAIN Given = 1 .. Len(read) + Len(out)
        /\ Given[Len(read) + n] = out[n]
        /\ Len(read) # 0 => Given[Len(read)] = read[Len(read)]
    <2>1. /\ Given \in Seq(Nat) /\ Len(Given) = Len(read) + Len(out)
          /\ \A i \in 1 .. Len(read) + Len(out) :
                Given[i] = IF i <= Len(read) THEN read[i] ELSE out[i - Len(read)]
      BY <1>2, ConcatProperties DEF Given
    <2>2. /\ Len(read) + n \in 1 .. Len(read) + Len(out)
          /\ ~(Len(read) + n <= Len(read)) /\ (Len(read) + n) - Len(read) = n
          /\ Len(read) # 0 => Len(read) \in 1 .. Len(read) + Len(out)
      BY <1>2, <1>3
    <2>3. DOMAIN Given = 1 .. Len(read) + Len(out)
      BY <2>1, LenProperties
    <2>4. Given[Len(read) + n] = out[n]
      BY <2>1, <2>2
    <2>5. Len(read) # 0 => Given[Len(read)] = read[Len(read)]
      BY <1>2, <2>1, <2>2
    <2> QED
      BY <2>3, <2>4, <2>5
  <1>0. /\ \A k \in DOMAIN Given : Given[k] \in 1 .. LetThrough
        /\ \A j, k \in DOMAIN Given : j < k => Given[j] < Given[k]
    BY <1>2 DEF Lists
  <1> DEFINE q == out[n]
             h == Max(HandedBy(q))
  <1>6. q \in Nat /\ q <= LetThrough
    <2>1. Len(read) + n \in DOMAIN Given
      BY <1>2, <1>3, <1>5
    <2>2. Given[Len(read) + n] \in 1 .. LetThrough
      BY <1>0, <2>1
    <2> QED
      BY <1>2, <1>5, <2>2
  <1>7. handed' = h
    BY <1>1, <1>4, HandedNext DEF Last
  <1>8. /\ h \in 0 .. scanned /\ (h # 0 => Public(wire[h]))
        /\ \A i \in HandedBy(q) : i <= h
    BY <1>6, HandedIs
  <1>9. handed \in HandedBy(q)
    <2>1. CASE read = <<>>
      BY <2>1 DEF handed, HandedBy
    <2>2. CASE read # <<>>
      <3> DEFINE p == Last(read)
      <3>1. /\ Len(read) # 0 /\ p = Given[Len(read)]
            /\ Len(read) \in DOMAIN Given /\ Len(read) + n \in DOMAIN Given
            /\ Len(read) < Len(read) + n
        BY <1>2, <1>3, <1>5, <2>2, EmptySeq, SMTT(30) DEF Last
      <3>2. p \in Nat /\ p < q /\ p <= LetThrough
        <4>1. /\ Given[Len(read)] < Given[Len(read) + n]
              /\ Given[Len(read)] \in 1 .. LetThrough
          BY <1>0, <3>1
        <4> QED
          BY <1>2, <1>5, <3>1, <4>1
      <3> HIDE DEF p
      <3>3. Reached(p) <= Reached(q)
        <4>1. p \in 0 .. Total /\ q \in 0 .. Total /\ wire \in Streams
          <5>1. /\ LetThrough <= Consumed /\ Consumed \in Nat
                /\ Consumed <= received /\ received \in 0 .. Total
            BY Through
          <5>2. wire \in Streams /\ Total \in Nat
            BY EndIs DEF ScanInv, InputInv
          <5> QED
            BY <1>2, <1>6, <3>2, <5>1, <5>2
        <4> QED
          BY <1>6, <3>2, <4>1, ReachedGrows
      <3>4. Reached(p) \in Nat /\ Reached(q) \in Nat
        BY <1>6, <3>2, HandedIs
      <3>5. HandedBy(p) \subseteq HandedBy(q)
        BY <3>3, <3>4 DEF HandedBy
      <3>6. Max(HandedBy(p)) \in HandedBy(p)
        <4>1. HandedBy(p) \in SUBSET (0 .. Reached(p)) /\ 0 \in HandedBy(p)
          BY <3>4 DEF HandedBy
        <4> QED
          BY <3>4, <4>1, MaxIs
      <3>7. handed = Max(HandedBy(p))
        BY <2>2 DEF handed, HandedBy, p
      <3> QED
        BY <3>5, <3>6, <3>7
    <2> QED
      BY <2>1, <2>2
  <1>10. Consumed' = Consumed
    BY <1>1 DEF Consumed
  <1>11. scanned' = scanned /\ arrived' = arrived
    BY <1>1, <1>10, StaysThere, SameWire DEF arrived, EmptyUpdateEnds
  <1>12. ~Busy /\ ~Busy'
    BY <1>1 DEF Busy, Scanning
  <1>13. IsPending' = IsPending
    BY <1>1 DEF IsPending
  <1> HIDE DEF h
  <1>14. CASE handed' = handed
    BY <1>1, <1>11, <1>12, <1>13, <1>14, Stutters
  <1>15. CASE handed' # handed
    <2>1. handed \in Nat /\ scanned \in Nat
      BY <1>6, <1>9, HandedIs, Levels DEF HandedBy, LevelsInv
    <2>2. h \in handed + 1 .. scanned /\ Public(wire[h])
      BY <1>7, <1>8, <1>9, <1>15, <2>1
    <2>3. Filter!Public(h)
      BY <2>2 DEF Filter!Public, Filter!Private, Public, Private
    <2>4. (Scanning /\ scanned < arrived)' = (Scanning /\ scanned < arrived)
          /\ ~(Scanning /\ scanned < arrived)
      BY <1>12 DEF Busy
    <2>5. Filter!HandOut(h)
      BY <1>1, <1>7, <1>11, <1>13, <2>2, <2>3, <2>4 DEF Filter!HandOut
    <2> QED
      BY <1>1, <2>2, <2>5 DEF Listens, Filter!ListenerNext
  <1> QED
    BY <1>14, <1>15

LEMMA TakeListens ==
    ASSUME ScanInv, TakeHandles
    PROVE  Listens
  <1>1. /\ rest = <<>> /\ blocks' = <<>> /\ sent' = 0
        /\ UNCHANGED <<wire, state, buf, count, block, received, rest, hold,
                       out, read>>
    BY DEF TakeHandles, Scanning, socketVars, scanVars
  <1>2. Consumed' = Consumed
    BY <1>1 DEF Consumed
  <1>3. scanned' = scanned /\ arrived' = arrived /\ handed' = handed
    BY <1>1, <1>2, StaysThere, SameLevels
  <1>4. /\ (Scanning /\ scanned < arrived)' = (Scanning /\ scanned < arrived)
        /\ ~(Scanning /\ scanned < arrived)
    BY <1>1 DEF Scanning
  <1>5. IsPending' = FALSE
    BY <1>1 DEF IsPending
  <1>6. Filter!TakeHandles
    BY <1>1, <1>3, <1>4, <1>5 DEF Filter!TakeHandles
  <1> QED
    BY <1>1, <1>6 DEF Listens, Filter!ListenerNext

(* The stream, however its bytes arrive, takes the steps that Listener     *)
(* takes of whole frames: what the rest of the system is modelled on.      *)
THEOREM StreamIsListener == Spec => FiltersFrames
  <1>1. Init => Filter!ListenerInit
    <2> SUFFICES ASSUME Init PROVE Filter!ListenerInit
      OBVIOUS
    <2>1. ScanInv
      BY ScanInit
    <2>2. received = 0 /\ Len(rest) = 0 /\ Len(hold) = 0
      BY EmptySeq, Zenon DEF Init
    <2>3. Consumed = received
      BY <2>2 DEF Consumed
    <2>4. wire \in Streams /\ End(0) = 0 /\ 1 \in DOMAIN wire
      BY EndIs, StreamIs DEF Init
    <2>5. End(1) \in Nat /\ 0 < End(1)
      BY <2>4, EndIs, SizeIs
    <2>6. Reached(received) = 0
      BY <2>2, <2>4, <2>5, ReachedAt
    <2>7. scanned = 0
      BY <2>3, <2>6, ScannedIs DEF Init
    <2>8. scanned = arrived
      BY <2>1, <2>3, Levels DEF LevelsInv
    <2>9. handed = 0 /\ IsPending = FALSE /\ sent = 0
          /\ (Scanning /\ scanned < arrived) = FALSE
      BY DEF Init, handed, IsPending, Scanning
    <2> QED
      BY <2>7, <2>8, <2>9 DEF Filter!ListenerInit
  <1>2. ScanInv /\ ScanInv' /\ [Next]_vars => Listens
    <2> SUFFICES ASSUME ScanInv, ScanInv', [Next]_vars PROVE Listens
      OBVIOUS
    <2>1. CASE UNCHANGED vars
      <3>1. /\ UNCHANGED <<wire, received, read, state, count, rest, hold, sent,
                           blocks, buf, block>>
        BY <2>1 DEF vars, socketVars, streamVars, scanVars
      <3>2. arrived' = arrived /\ handed' = handed /\ Consumed' = Consumed
        BY <3>1, SameLevels DEF Consumed
      <3>3. scanned' = scanned
        BY <3>1, <3>2, StaysThere
      <3>4. (Busy' <=> Busy) /\ (IsPending' <=> IsPending)
        BY <3>1, <3>2, <3>3 DEF Busy, Scanning, IsPending
      <3> QED
        BY <3>1, <3>2, <3>3, <3>4, Stutters
    <2> QED
      BY <2>1, ScanListens, ReadListens, HeldListens, DrainListens, TakeListens
         DEF Next
  <1> QED
    BY <1>1, <1>2, ScanHolds, PTL
       DEF Spec, FiltersFrames, Filter!ListenerSpec, Listens
=============================================================================
