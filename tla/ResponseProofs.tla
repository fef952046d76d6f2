---------------------------- MODULE ResponseProofs ----------------------------
(***************************************************************************)
(* Theorems about Responses, for any routes, renderings and sizes.         *)
(***************************************************************************)
EXTENDS Answers, SumProofs, SequenceTheorems, FiniteSetTheorems, TLAPS

-----------------------------------------------------------------------------
LEMMA Quotient ==
    ASSUME NEW n \in Nat, NEW d \in Nat \ {0}
    PROVE  /\ n \div d \in Nat
           /\ (n \div d) * d \in Nat
           /\ (n \div d) * d <= n
           /\ n < (n \div d) * d + d
  <1> DEFINE q == n \div d
             r == n % d
  <1>1. q \in Nat /\ r \in Nat /\ r < d /\ n = d * q + r
    BY SMTT(30)
  <1>2. d * q = q * d /\ d * q \in Nat
    BY <1>1, SMTT(30)
  <1> HIDE DEF q, r
  <1>3. q * d \in Nat /\ q * d <= n /\ n < q * d + d
    BY <1>1, <1>2
  <1> QED
    BY <1>1, <1>3 DEF q

(* Whole pages hold what they are counted for.                             *)
LEMMA PagesHold ==
    ASSUME NEW n \in Nat, NEW d \in Nat \ {0}
    PROVE  /\ ((n + d - 1) \div d) * d \in Nat
           /\ n <= ((n + d - 1) \div d) * d
  <1>1. n + d - 1 \in Nat
    OBVIOUS
  <1> QED
    BY <1>1, Quotient

LEMMA Distribute ==
    ASSUME NEW m \in Nat, NEW n \in Nat
    PROVE  (m + 1) * n = m * n + n /\ m * n \in Nat
  BY SMTT(30)

LEMMA Monotone ==
    ASSUME NEW k \in Nat, NEW m \in Nat, NEW n \in Nat, k <= m
    PROVE  k * n <= m * n
  BY SMTT(30)

(* copy_chunk moves all of a window that is no longer than a chunk.        *)
LEMMA MovesAll ==
    ASSUME NEW n \in Nat, n <= Chunk
    PROVE  Moved(n) = n
  <1> DEFINE B == CopyBlock
             q == n \div B
             c == Chunk \div B
  <1>0. B \in Nat \ {0} /\ Chunk \in Nat
    BY ResponseAssumption
  <1>1. q \in Nat /\ q * B \in Nat /\ q * B <= n /\ n < q * B + B
    BY <1>0, Quotient
  <1>2. c \in Nat /\ c * B \in Nat /\ c * B <= Chunk /\ Chunk < c * B + B
    BY <1>0, Quotient
  <1> HIDE DEF q, c
  <1>3. q <= c
    <2> SUFFICES ASSUME q > c PROVE FALSE
      BY <1>1, <1>2
    <2>1. (c + 1) * B <= q * B
      BY <1>0, <1>1, <1>2, Monotone
    <2>2. (c + 1) * B = c * B + B
      BY <1>0, <1>2, Distribute
    <2> QED
      BY <1>0, <1>1, <1>2, <2>1, <2>2
  <1>4. Lesser(q, c) = q
    BY <1>1, <1>2, <1>3 DEF Lesser
  <1>5. Moved(n) = Lesser(n, q * B + B)
    BY <1>4 DEF Moved, q, c
  <1> QED
    BY <1>0, <1>1, <1>5 DEF Lesser

(* What is written over a sequence is there, and the rest is as it was.    *)
LEMMA OverlayIs ==
    ASSUME NEW S, NEW a \in Seq(S), NEW off \in Nat, NEW s \in Seq(S)
    PROVE  /\ Overlay(a, off, s) \in Seq(S)
           /\ Len(Overlay(a, off, s)) = Len(a)
           /\ \A b \in 1 .. Len(a) :
                 Overlay(a, off, s)[b] =
                    IF b \in off + 1 .. off + Len(s) THEN s[b - off] ELSE a[b]
  <1> DEFINE o == [b \in 1 .. Len(a) |->
                     IF b \in off + 1 .. off + Len(s) THEN s[b - off] ELSE a[b]]
  <1>1. DOMAIN a = 1 .. Len(a) /\ Len(a) \in Nat /\ Len(s) \in Nat
    BY LenProperties
  <1>2. Overlay(a, off, s) = o
    BY <1>1 DEF Overlay
  <1>3. \A b \in 1 .. Len(a) : o[b] \in S
    <2> SUFFICES ASSUME NEW b \in 1 .. Len(a) PROVE o[b] \in S
      OBVIOUS
    <2>1. CASE b \in off + 1 .. off + Len(s)
      <3>1. b - off \in 1 .. Len(s)
        BY <1>1, <2>1
      <3> QED
        BY <2>1, <3>1, ElementOfSeq
    <2>2. CASE b \notin off + 1 .. off + Len(s)
      BY <2>2, ElementOfSeq
    <2> QED
      BY <2>1, <2>2
  <1>4. o \in Seq(S) /\ Len(o) = Len(a)
    BY <1>1, <1>3, IsASeq
  <1> QED
    BY <1>2, <1>4

(* A stretch of a sequence that agrees with another one is that one.       *)
LEMMA SubSeqIs ==
    ASSUME NEW S, NEW T, NEW a \in Seq(S), NEW s \in Seq(T), NEW off \in Nat,
           off + Len(s) <= Len(a),
           \A b \in 1 .. Len(s) : a[off + b] = s[b]
    PROVE  SubSeq(a, off + 1, off + Len(s)) = s
  <1>1. Len(s) \in Nat /\ Len(a) \in Nat /\ s = [b \in 1 .. Len(s) |-> s[b]]
    BY LenProperties
  <1>2. SubSeq(a, off + 1, off + Len(s)) = [b \in 1 .. Len(s) |-> a[off + b]]
    BY <1>1, SMTT(30)
  <1> QED
    BY <1>1, <1>2
-----------------------------------------------------------------------------
(* What the renderings are.                                                *)
LEMMA Renderings ==
    ASSUME NEW p \in Paths
    PROVE  /\ Http1[p] \in Seq(Bytes) /\ Len(Http1[p]) \in Nat \ {0}
           /\ Http2[p].body \in Seq(Bytes) /\ Len(Http2[p].body) \in Nat \ {0}
           /\ Http2[p].sid_offs \in Seq(Nat) /\ Http2[p].data_len \in Nat
  <1>1. /\ Http1[p] \in Seq(Bytes) /\ Http1[p] # <<>>
        /\ Http2[p] \in Rendered /\ Http2[p].body # <<>>
    BY ResponseAssumption
  <1>2. Http2[p].body \in Seq(Bytes)
    BY <1>1 DEF Rendered
  <1> QED
    BY <1>1, <1>2, EmptySeq DEF Rendered

(* The route that Place adds.                                              *)
Added(p) ==
    [path |-> p, body |-> Http1[p], body_off |-> arena_len,
     h2 |-> IF Fits(Http2[p])
            THEN [body |-> Http2[p].body, off |-> arena_len + Len(Http1[p]),
                  sid_offs |-> Http2[p].sid_offs,
                  data_len |-> Http2[p].data_len]
            ELSE None]

LEMMA PlaceAdds ==
    ASSUME LayoutTypes, NEW p \in Paths, Len(Http1[p]) <= MaxRouteBody, Place(p)
    PROVE  /\ prepared' = Append(prepared, Added(p))
           /\ Added(p) \in Prepared
           /\ arena_len' \in Nat /\ arena_len <= arena_len'
           /\ Renders(Added(p))
           /\ Within(Added(p), 0, arena_len')
  <1> DEFINE r == Added(p)
  <1>1. prepared' = Append(prepared, r)
        /\ arena_len' = arena_len + Len(Http1[p]) + Len(r.h2.body)
    BY DEF Place, Added
  <1>2. arena_len \in Nat
    BY DEF LayoutTypes
  <1>3. <<>> \in Seq(Bytes) /\ <<>> \in Seq(Nat) /\ Len(<<>>) = 0
    BY EmptySeq
  <1>4. r.path = p /\ r.body = Http1[p] /\ r.body_off = arena_len
    BY DEF Added
  <1>5. CASE Fits(Http2[p])
    <2>1. r.h2 = [body |-> Http2[p].body, off |-> arena_len + Len(Http1[p]),
                  sid_offs |-> Http2[p].sid_offs,
                  data_len |-> Http2[p].data_len]
      BY <1>5 DEF Added
    <2>2. r \in Prepared
      BY <1>2, <2>1, Renderings DEF Added, Prepared
    <2>3. /\ r.h2.body = Http2[p].body
          /\ r.h2.off = arena_len + Len(Http1[p])
      BY <2>1
    <2> DEFINE n1 == Len(Http1[p])
               n2 == Len(Http2[p].body)
    <2>4. n1 \in Nat /\ n2 \in Nat
      BY Renderings
    <2>5. arena_len' = arena_len + n1 + n2
      BY <1>1, <2>3
    <2>6. Renders(r)
      BY <1>4, <1>5, <2>1 DEF Renders
    <2>7. /\ r.body_off = arena_len /\ Len(r.body) = n1
          /\ r.h2.off = arena_len + n1 /\ Len(r.h2.body) = n2
      BY <1>4, <2>3
    <2> HIDE DEF n1, n2, r
    <2>8. arena_len' \in Nat /\ arena_len <= arena_len'
      BY <1>2, <2>4, <2>5
    <2>9. Within(r, 0, arena_len')
      BY <1>2, <2>4, <2>5, <2>7 DEF Within
    <2> QED
      BY <1>1, <2>2, <2>6, <2>8, <2>9 DEF r
  <1>6. CASE ~Fits(Http2[p])
    <2>1. r.h2 = None
      BY <1>6 DEF Added
    <2>2. r \in Prepared
      BY <1>2, <1>3, <1>4, <2>1, Renderings DEF Added, Prepared, None
    <2>3. arena_len' \in Nat /\ arena_len <= arena_len'
      BY <1>1, <1>2, <1>3, <2>1, Renderings DEF None
    <2>4. Renders(r)
      BY <1>4, <1>6, <2>1 DEF Renders
    <2>5. Within(r, 0, arena_len')
      BY <1>1, <1>2, <1>3, <1>4, <2>1, Renderings DEF Within, None
    <2> QED
      BY <1>1, <2>2, <2>3, <2>4, <2>5
  <1> QED
    BY <1>5, <1>6

LEMMA CountHolds ==
    ASSUME TypeOK, AttachInv, CountRoutes
    PROVE  LayoutTypes' /\ AttachInv'
  <1> USE DEF attachVars, AttachInv
  <1>1. pc = "attach" /\ pc' \in {"bailed", "prepare"} /\ UNCHANGED attachVars
        /\ UNCHANGED turn
    BY DEF CountRoutes
  <1>2. prepared = <<>> /\ DOMAIN prepared = {} /\ Len(prepared) = 0
    BY <1>1 DEF PlacesInv
  <1>3. LayoutTypes'
    BY <1>1 DEF TypeOK, LayoutTypes, Attaching, Handling
  <1>4. PlacesInv'
    <2>1. Cardinality(todo) \in Nat
      BY FS_CardinalityType, FS_Subset, ResponseAssumption DEF TypeOK, LayoutTypes
    <2>2. pc' = "prepare" => Cardinality(todo) <= MaxRoutes
      BY <2>1, ResponseAssumption DEF CountRoutes
    <2> QED
      BY <1>1, <1>2, <2>1, <2>2, ResponseAssumption DEF PlacesInv
  <1>5. ArenaInv' /\ IndexInv'
    BY <1>1 DEF ArenaInv, IndexInv
  <1> QED
    BY <1>3, <1>4, <1>5

LEMMA PrepareHolds ==
    ASSUME TypeOK, AttachInv, NEW p \in todo, Prepare(p)
    PROVE  LayoutTypes' /\ AttachInv'
  <1> USE DEF AttachInv
  <1>1. pc = "prepare" /\ pc' \in {"bailed", "prepare"} /\ todo' = todo \ {p}
        /\ UNCHANGED <<turn, arena, routes, route_idx>>
    BY DEF Prepare
  <1>2. p \in Paths /\ IsFiniteSet(todo)
    BY FS_Subset, ResponseAssumption DEF TypeOK, LayoutTypes
  <1>3. Cardinality(todo') = Cardinality(todo) - 1 /\ Cardinality(todo) \in Nat
        /\ Cardinality(todo') \in Nat
    BY <1>1, <1>2, FS_RemoveElement, FS_CardinalityType
  <1>4. ArenaInv' /\ IndexInv'
    BY <1>1 DEF ArenaInv, IndexInv
  <1>5. prepared \in Seq(Prepared) /\ Len(prepared) \in Nat
        /\ DOMAIN prepared = 1 .. Len(prepared) /\ MaxRoutes \in Nat
    BY LenProperties, ResponseAssumption DEF TypeOK, LayoutTypes
  <1>6. CASE UNCHANGED <<prepared, arena_len>>
    <2>1. LayoutTypes'
      BY <1>1, <1>2, <1>6 DEF TypeOK, LayoutTypes, Attaching, Handling
    <2>2. PlacesInv'
      BY <1>1, <1>3, <1>5, <1>6 DEF PlacesInv
    <2> QED
      BY <1>4, <2>1, <2>2
  <1>7. CASE Len(Http1[p]) <= MaxRouteBody /\ Place(p) /\ pc' = pc
    <2> DEFINE r == Added(p)
               n == Len(prepared)
    <2>1. /\ prepared' = Append(prepared, r) /\ r \in Prepared
          /\ arena_len' \in Nat /\ arena_len <= arena_len'
          /\ Renders(r) /\ Within(r, 0, arena_len') /\ r.body_off = arena_len
      BY <1>2, <1>7, PlaceAdds DEF TypeOK, Added
    <2>2. /\ prepared' \in Seq(Prepared) /\ Len(prepared') = n + 1
          /\ DOMAIN prepared' = 1 .. n + 1 /\ prepared'[n + 1] = r
          /\ \A i \in 1 .. n : prepared'[i] = prepared[i]
      BY <1>5, <2>1, AppendProperties
    <2>3. LayoutTypes'
      BY <1>1, <1>2, <2>1, <2>2 DEF TypeOK, LayoutTypes, Attaching, Handling
    <2>4. \A i \in 1 .. n : /\ Renders(prepared[i])
                            /\ Within(prepared[i], 0, arena_len)
                            /\ prepared[i] \in Prepared
      BY <1>5 DEF PlacesInv
    <2>5. \A i \in 1 .. n : Within(prepared[i], 0, arena_len')
      <3> SUFFICES ASSUME NEW i \in 1 .. n
                   PROVE  Within(prepared[i], 0, arena_len')
        OBVIOUS
      <3> DEFINE q == prepared[i]
      <3>1. /\ Within(q, 0, arena_len) /\ arena_len \in Nat
            /\ q.body_off \in Nat /\ q.h2.off \in Nat
            /\ Len(q.body) \in Nat /\ Len(q.h2.body) \in Nat
        BY <2>4, LenProperties DEF Prepared, TypeOK, LayoutTypes
      <3> HIDE DEF q
      <3>2. Within(q, 0, arena_len')
        BY <2>1, <3>1, SMTT(30) DEF Within
      <3> QED
        BY <3>2 DEF q
    <2>6. \A i \in DOMAIN prepared' :
             Renders(prepared'[i]) /\ Within(prepared'[i], 0, arena_len')
      BY <1>5, <2>1, <2>2, <2>4, <2>5
    <2>7. \A i, j \in DOMAIN prepared' :
             i < j => Within(prepared'[i], 0, prepared'[j].body_off)
      <3> SUFFICES ASSUME NEW i \in 1 .. n + 1, NEW j \in 1 .. n + 1, i < j
                   PROVE  Within(prepared'[i], 0, prepared'[j].body_off)
        BY <2>2
      <3>1. i \in 1 .. n
        BY <1>5
      <3>2. CASE j = n + 1
        BY <2>1, <2>2, <2>4, <3>1, <3>2
      <3>3. CASE j \in 1 .. n
        BY <1>5, <2>2, <3>1, <3>3 DEF PlacesInv
      <3> QED
        BY <1>5, <3>2, <3>3
    <2>8. PlacesInv'
      BY <1>1, <1>3, <1>5, <1>7, <2>2, <2>6, <2>7 DEF PlacesInv, Renders, Within
    <2> QED
      BY <1>4, <2>3, <2>8
  <1> QED
    BY <1>6, <1>7 DEF Prepare

LEMMA LoadHolds ==
    ASSUME TypeOK, AttachInv, Load
    PROVE  LayoutTypes' /\ AttachInv'
  <1> USE DEF AttachInv
  <1>1. /\ pc = "prepare" /\ pc' = "copy" /\ turn' = 0
        /\ UNCHANGED <<todo, prepared, arena_len, route_idx>>
        /\ routes' = [i \in DOMAIN prepared |-> Route(prepared[i])]
        /\ arena' = [b \in 1 .. Pages * PageSize |-> <<"zero", 0>>]
    BY DEF Load
  <1>2. Pages * PageSize \in Nat /\ arena_len <= Pages * PageSize
    <2>1. arena_len \in Nat /\ PageSize \in Nat \ {0}
      BY ResponseAssumption DEF TypeOK, LayoutTypes
    <2>2. CASE arena_len = 0
      BY <2>1, <2>2 DEF Pages
    <2>3. CASE arena_len # 0
      BY <2>1, <2>3, PagesHold DEF Pages
    <2> QED
      BY <2>2, <2>3
  <1>3. <<"zero", 0>> \in Byte
    BY DEF Byte
  <1>4. arena' \in Seq(Byte) /\ Len(arena') = Pages * PageSize
    <2> DEFINE n == Pages * PageSize
    <2> HIDE DEF n
    <2>1. arena' = [b \in 1 .. n |-> <<"zero", 0>>] /\ n \in Nat
      BY <1>1, <1>2 DEF n
    <2>2. [b \in 1 .. n |-> <<"zero", 0>>] \in Seq(Byte)
      BY <1>3, <2>1, IsASeq
    <2>3. Len([b \in 1 .. n |-> <<"zero", 0>>]) = n
      BY <2>1
    <2> QED
      BY <2>1, <2>2, <2>3 DEF n
  <1>5. LayoutTypes'
    BY <1>1, <1>4 DEF TypeOK, LayoutTypes, Attaching, Handling
  <1>6. PlacesInv' /\ IndexInv'
    BY <1>1 DEF PlacesInv, IndexInv, Renders, Within
  <1>7. ArenaInv'
    <2>1. Len(prepared) \in Nat /\ DOMAIN prepared = 1 .. Len(prepared)
      BY LenProperties DEF TypeOK, LayoutTypes
    <2> QED
      BY <1>1, <1>2, <1>4, <2>1 DEF ArenaInv
  <1> QED
    BY <1>5, <1>6, <1>7

(* Where a prepared route lies, in numbers.                                *)
LEMMA Lies ==
    ASSUME NEW r \in Prepared, NEW high \in Nat, Within(r, 0, high)
    PROVE  /\ r.body \in Seq(Byte) /\ r.h2.body \in Seq(Byte)
           /\ Len(r.body) \in Nat /\ Len(r.h2.body) \in Nat
           /\ r.body_off \in Nat /\ r.h2.off \in Nat
           /\ r.body_off + Len(r.body) <= high
           /\ \/ Len(r.h2.body) = 0
              \/ /\ r.body_off + Len(r.body) <= r.h2.off
                 /\ r.h2.off + Len(r.h2.body) <= high
  <1>1. Bytes \subseteq Byte
    BY DEF Byte
  <1>2. r.body \in Seq(Bytes) /\ r.h2.body \in Seq(Bytes)
        /\ r.body_off \in Nat /\ r.h2.off \in Nat
    BY DEF Prepared
  <1>3. Len(r.body) \in Nat /\ Len(r.h2.body) \in Nat
        /\ (r.h2.body = <<>> => Len(r.h2.body) = 0)
    BY <1>2, LenProperties, EmptySeq
  <1>4. r.body \in Seq(Byte) /\ r.h2.body \in Seq(Byte)
    BY <1>1, <1>2, SeqMonotonic
  <1> QED
    BY <1>2, <1>3, <1>4 DEF Within

(* A turn of the copy puts a route where it belongs and leaves those       *)
(* placed before it alone.                                                 *)
LEMMA CopyInHolds ==
    ASSUME TypeOK, AttachInv, CopyIn
    PROVE  LayoutTypes' /\ AttachInv'
  <1> USE DEF AttachInv
  <1>1. /\ pc = "copy"
        /\ UNCHANGED <<todo, prepared, arena_len, routes, route_idx>>
    BY DEF CopyIn
  <1>2. /\ Len(prepared) \in Nat /\ DOMAIN prepared = 1 .. Len(prepared)
        /\ turn \in Nat /\ turn <= Len(prepared)
        /\ arena \in Seq(Byte) /\ Len(arena) \in Nat
        /\ arena_len \in Nat /\ arena_len <= Len(arena)
        /\ \A i \in 1 .. Len(prepared) : prepared[i] \in Prepared
    BY <1>1, LenProperties, ElementOfSeq DEF TypeOK, LayoutTypes, ArenaInv
  <1>3. IndexInv' /\ route_idx = route_idx' /\ DOMAIN route_idx = {}
    BY <1>1 DEF IndexInv
  <1>4. CASE ~(turn < Len(prepared))
    <2>1. pc' = "index" /\ turn' = 0 /\ arena' = arena
      BY <1>4 DEF CopyIn
    <2>2. PlacesInv' /\ LayoutTypes'
      BY <1>1, <2>1
         DEF PlacesInv, TypeOK, LayoutTypes, Handling, Attaching, Renders, Within
    <2>3. ArenaInv'
      BY <1>1, <1>2, <1>4, <2>1 DEF ArenaInv, Holds
    <2> QED
      BY <1>3, <2>2, <2>3
  <1>5. CASE turn < Len(prepared)
    <2> PICK j \in Nat : j = turn + 1
      BY <1>2
    <2>0. j \in 1 .. Len(prepared)
      BY <1>2, <1>5
    <2> DEFINE r == prepared[j]
               body == r.body
               h2 == r.h2.body
               a1 == Overlay(arena, r.body_off, r.body)
               bo == r.body_off
               bl == Len(body)
               ho == r.h2.off
               hl == Len(h2)
    <2>1. /\ arena' = Overlay(a1, ho, h2)
          /\ turn' = turn + 1 /\ pc' = pc
      BY <1>5 DEF CopyIn
    <2>2. r \in Prepared /\ Within(r, 0, arena_len)
      BY <1>2, <2>0 DEF PlacesInv
    <2>3. /\ body \in Seq(Byte) /\ h2 \in Seq(Byte)
          /\ bo \in Nat /\ bl \in Nat /\ ho \in Nat /\ hl \in Nat
          /\ bo + bl <= arena_len
          /\ hl = 0 \/ (bo + bl <= ho /\ ho + hl <= arena_len)
      BY <1>2, <2>2, Lies
    <2>4. /\ a1 \in Seq(Byte) /\ Len(a1) = Len(arena)
          /\ \A b \in 1 .. Len(arena) :
                a1[b] = IF b \in bo + 1 .. bo + bl THEN body[b - bo] ELSE arena[b]
      <3>1. a1 = Overlay(arena, bo, body)
        OBVIOUS
      <3> HIDE DEF a1, bo, body
      <3> QED
        BY <1>2, <2>3, <3>1, OverlayIs
    <2>5. /\ arena' \in Seq(Byte) /\ Len(arena') = Len(arena)
          /\ \A b \in 1 .. Len(arena) :
                arena'[b] = IF b \in ho + 1 .. ho + hl THEN h2[b - ho] ELSE a1[b]
      <3> HIDE DEF a1, ho, h2
      <3> QED
        BY <2>1, <2>3, <2>4, OverlayIs, SMTT(30)
    <2>6. PlacesInv' /\ LayoutTypes'
      BY <1>1, <1>2, <2>1, <2>5
         DEF PlacesInv, TypeOK, LayoutTypes, Handling, Attaching, Renders, Within
    <2>7. Holds(prepared[j])'
      <3> HIDE DEF r, a1, bo, bl, ho, hl, body, h2
      <3>1. \A b \in 1 .. bl : arena'[bo + b] = body[b]
        <4> SUFFICES ASSUME NEW b \in 1 .. bl PROVE arena'[bo + b] = body[b]
          OBVIOUS
        <4>1. /\ bo + b \in 1 .. Len(arena)
              /\ bo + b \notin ho + 1 .. ho + hl
              /\ bo + b \in bo + 1 .. bo + bl
              /\ (bo + b) - bo = b
          BY <1>2, <2>3
        <4> QED
          BY <2>4, <2>5, <4>1
      <3>2. \A b \in 1 .. hl : arena'[ho + b] = h2[b]
        <4> SUFFICES ASSUME NEW b \in 1 .. hl PROVE arena'[ho + b] = h2[b]
          OBVIOUS
        <4>1. /\ ho + b \in 1 .. Len(arena)
              /\ ho + b \in ho + 1 .. ho + hl
              /\ (ho + b) - ho = b
          BY <1>2, <2>3
        <4> QED
          BY <2>5, <4>1
      <3> QED
        BY <3>1, <3>2, <1>1 DEF Holds, r, bo, bl, ho, hl, body, h2
    <2>8. ASSUME NEW i \in 1 .. turn
          PROVE  Holds(prepared[i])'
      <3> DEFINE q == prepared[i]
                 qo == q.body_off
                 ql == Len(q.body)
                 qho == q.h2.off
                 qhl == Len(q.h2.body)
      <3>1. q \in Prepared /\ Within(q, 0, bo) /\ Holds(q)
        BY <1>1, <1>2, <2>0, <2>8 DEF PlacesInv, ArenaInv
      <3>2. /\ qo \in Nat /\ ql \in Nat /\ qho \in Nat /\ qhl \in Nat
            /\ qo + ql <= bo
            /\ qhl = 0 \/ qho + qhl <= bo
        <4>1. \/ Len(q.h2.body) = 0
              \/ q.h2.off + Len(q.h2.body) <= bo
          BY <2>3, <3>1, Lies
        <4> QED
          BY <2>3, <3>1, <4>1, Lies
      <3>3. \A b \in 1 .. bo : arena'[b] = arena[b]
        <4> HIDE DEF r, a1, bo, bl, ho, hl, body, h2
        <4> SUFFICES ASSUME NEW b \in 1 .. bo PROVE arena'[b] = arena[b]
          OBVIOUS
        <4>1. /\ b \in 1 .. Len(arena)
              /\ b \notin ho + 1 .. ho + hl
              /\ b \notin bo + 1 .. bo + bl
          BY <1>2, <2>3
        <4> QED
          BY <2>4, <2>5, <4>1
      <3>4. /\ \A b \in 1 .. ql : arena[qo + b] = q.body[b]
            /\ \A b \in 1 .. qhl : arena[qho + b] = q.h2.body[b]
        BY <3>1 DEF Holds
      <3> HIDE DEF bo, qo, ql, qho, qhl, q
      <3>5. /\ \A b \in 1 .. ql : qo + b \in 1 .. bo
            /\ \A b \in 1 .. qhl : qho + b \in 1 .. bo
        BY <2>3, <3>2
      <3>6. /\ \A b \in 1 .. ql : arena'[qo + b] = q.body[b]
            /\ \A b \in 1 .. qhl : arena'[qho + b] = q.h2.body[b]
        BY <3>3, <3>4, <3>5
      <3> QED
        BY <1>1, <3>6 DEF Holds, q, qo, ql, qho, qhl
    <2>9. ArenaInv'
      <3>1. ASSUME NEW i \in 1 .. Len(prepared), i <= turn + 1
            PROVE  Holds(prepared[i])'
        <4>1. i = turn + 1 \/ i \in 1 .. turn
          BY <1>2, <3>1
        <4>2. CASE i = turn + 1
          BY <2>7, <4>2
        <4> QED
          BY <4>1, <4>2, <2>8
      <3>2. turn + 1 <= Len(prepared)
        BY <1>2, <1>5
      <3> QED
        BY <1>1, <1>2, <2>1, <2>5, <3>1, <3>2 DEF ArenaInv
    <2> QED
      BY <1>3, <2>6, <2>9
  <1> QED
    BY <1>4, <1>5

LEMMA IndexHolds ==
    ASSUME TypeOK, AttachInv, Index
    PROVE  LayoutTypes' /\ AttachInv'
  <1> USE DEF AttachInv
  <1>1. pc = "index" /\ pc' \in {"index", "idle"}
        /\ UNCHANGED <<todo, prepared, arena_len, arena, routes>>
    BY DEF Index
  <1>2. /\ Len(prepared) \in Nat /\ DOMAIN prepared = 1 .. Len(prepared)
        /\ turn \in Nat /\ turn <= Len(prepared)
        /\ \A i \in 1 .. Len(prepared) : prepared[i] \in Prepared
    BY <1>1, LenProperties, ElementOfSeq DEF TypeOK, LayoutTypes, ArenaInv
  <1>3. turn' \in Nat /\ (pc' = "index" => turn' <= Len(prepared))
    BY <1>1, <1>2 DEF Index
  <1>4. PlacesInv'
    BY <1>1 DEF PlacesInv, Renders, Within
  <1>5. ArenaInv'
    BY <1>1, <1>2, <1>3 DEF ArenaInv, Holds
  <1>6. /\ DOMAIN route_idx' \subseteq {"plain", "huffman"} \X Paths
        /\ \A k \in DOMAIN route_idx' :
              /\ route_idx'[k] \in Nat
              /\ route_idx'[k] + 1 \in DOMAIN prepared
              /\ prepared[route_idx'[k] + 1].path = k[2]
    <2>1. CASE UNCHANGED route_idx
      BY <1>1, <2>1 DEF IndexInv, TypeOK, LayoutTypes
    <2>2. CASE turn < Len(prepared)
      <3> DEFINE p == prepared[turn + 1].path
      <3>1. p \in Paths
        BY <1>2, <2>2 DEF Prepared
      <3>2. route_idx' = [k \in DOMAIN route_idx \cup Keys(p) |->
                            IF k \in Keys(p) THEN turn ELSE route_idx[k]]
        BY <2>2 DEF Index
      <3>3. Keys(p) \subseteq {"plain", "huffman"} \X Paths
            /\ \A k \in Keys(p) : k[2] = p
        BY <3>1 DEF Keys
      <3> HIDE DEF p
      <3>4. DOMAIN route_idx' = DOMAIN route_idx \cup Keys(p)
        BY <3>2
      <3>5. ASSUME NEW k \in DOMAIN route_idx'
            PROVE  /\ route_idx'[k] \in Nat
                   /\ route_idx'[k] + 1 \in DOMAIN prepared
                   /\ prepared[route_idx'[k] + 1].path = k[2]
        <4>1. CASE k \in Keys(p)
          <5>1. route_idx'[k] = turn
            BY <3>2, <3>4, <4>1
          <5> QED
            BY <1>2, <2>2, <3>3, <4>1, <5>1 DEF p
        <4>2. CASE k \notin Keys(p)
          <5>1. k \in DOMAIN route_idx /\ route_idx'[k] = route_idx[k]
            BY <3>2, <3>4, <3>5, <4>2
          <5> QED
            BY <5>1 DEF IndexInv, TypeOK, LayoutTypes
        <4> QED
          BY <4>1, <4>2
      <3> QED
        BY <3>3, <3>4, <3>5 DEF TypeOK, LayoutTypes
    <2> QED
      BY <2>1, <2>2 DEF Index
  <1>7. IndexInv'
    BY <1>1, <1>6 DEF IndexInv
  <1>8. LayoutTypes'
    BY <1>1, <1>3, <1>6 DEF TypeOK, LayoutTypes, Attaching, Handling
  <1> QED
    BY <1>4, <1>5, <1>7, <1>8

-----------------------------------------------------------------------------
(* Serving leaves the layout as attach made it.                            *)
LEMMA LayoutKept ==
    ASSUME TypeOK, AttachInv, UNCHANGED attachVars, turn' \in Nat,
           pc \in Handling \cup {"idle"}, pc' \in Handling \cup {"idle"}
    PROVE  LayoutTypes' /\ AttachInv'
  <1> USE DEF attachVars, Handling
  <1>1. LayoutTypes'
    BY DEF TypeOK, LayoutTypes
  <1>2. PlacesInv'
    BY DEF AttachInv, PlacesInv, Renders, Within
  <1>3. ArenaInv'
    BY DEF AttachInv, ArenaInv, Holds
  <1>4. IndexInv'
    BY DEF AttachInv, IndexInv
  <1> QED
    BY <1>1, <1>2, <1>3, <1>4 DEF AttachInv

(* A key leads to the prepared route of its path.                          *)
LEMMA RouteIs ==
    ASSUME TypeOK, AttachInv, NEW k \in DOMAIN route_idx,
           pc \in Handling \cup {"idle"}
    PROVE  \E r \in Prepared :
              /\ routes[route_idx[k] + 1] = Route(r)
              /\ route_idx[k] \in Nat /\ route_idx[k] + 1 <= MaxRoutes
              /\ k[2] \in Paths /\ r.path = k[2]
              /\ Renders(r) /\ Within(r, 0, arena_len) /\ Holds(r)
  <1> USE DEF AttachInv, Handling
  <1> DEFINE n == route_idx[k]
             r == prepared[n + 1]
  <1>1. n \in Nat /\ n + 1 \in DOMAIN prepared /\ r.path = k[2]
        /\ k \in {"plain", "huffman"} \X Paths
    BY DEF IndexInv, TypeOK, LayoutTypes
  <1>2. prepared \in Seq(Prepared) /\ DOMAIN prepared = 1 .. Len(prepared)
        /\ Len(prepared) \in Nat
    BY LenProperties DEF TypeOK, LayoutTypes
  <1>3. r \in Prepared
    BY <1>1, <1>2, ElementOfSeq
  <1>4. Renders(r) /\ Within(r, 0, arena_len) /\ Len(prepared) <= MaxRoutes
    BY <1>1 DEF PlacesInv
  <1>5. routes[n + 1] = Route(r) /\ Holds(r)
    BY <1>1 DEF ArenaInv
  <1>6. n + 1 <= MaxRoutes
    BY <1>1, <1>2, <1>4, ResponseAssumption
  <1> QED
    BY <1>1, <1>3, <1>4, <1>5, <1>6

(* What serve_route finds for a request it knows.                          *)
LEMMA AnswerIs ==
    ASSUME TypeOK, AttachInv, pc \in Handling, Known
    PROVE  /\ Path \in Paths
           /\ IsH2 /\ ~Fits(Http2[Path]) => BodyLen = 0
           /\ ~IsH2 \/ Fits(Http2[Path]) =>
                /\ BodyLen = Len(Whole) /\ BodyLen # 0
                /\ BodyLen <= MaxRouteBody
                /\ BodyOff \in Nat /\ BodyOff + BodyLen <= Len(arena)
                /\ \A b \in 1 .. BodyLen : arena[BodyOff + b] = Whole[b]
           /\ IsH2 /\ Fits(Http2[Path]) =>
                /\ Asked.h2_sid_offs = Http2[Path].sid_offs
                /\ Asked.h2_data_len = Http2[Path].data_len
  <1> DEFINE k == req.key
  <1>1. PICK r \in Prepared :
              /\ routes[route_idx[k] + 1] = Route(r)
              /\ route_idx[k] \in Nat /\ route_idx[k] + 1 <= MaxRoutes
              /\ k[2] \in Paths /\ r.path = k[2]
              /\ Renders(r) /\ Within(r, 0, arena_len) /\ Holds(r)
    BY RouteIs DEF Known
  <1>2. Asked = Route(r)
    <2>1. Lesser(route_idx[k], MaxRoutes - 1) = route_idx[k]
      BY <1>1, ResponseAssumption DEF Lesser
    <2> QED
      BY <1>1, <2>1 DEF Asked
  <1>3. Path \in Paths /\ r.path = Path
    BY <1>1 DEF Path
  <1>4. arena_len \in Nat /\ Len(arena) \in Nat /\ arena_len <= Len(arena)
    BY LenProperties DEF TypeOK, LayoutTypes, AttachInv, ArenaInv, Handling
  <1>5. /\ Len(r.body) \in Nat /\ Len(r.h2.body) \in Nat
        /\ r.body_off \in Nat /\ r.h2.off \in Nat
        /\ r.body_off + Len(r.body) <= arena_len
        /\ Len(r.h2.body) = 0 \/ r.h2.off + Len(r.h2.body) <= arena_len
    <2>1. \/ Len(r.h2.body) = 0
          \/ r.h2.off + Len(r.h2.body) <= arena_len
      BY <1>1, <1>4, Lies
    <2> QED
      BY <1>1, <1>4, <2>1, Lies
  <1>6. /\ r.body = Http1[Path] /\ Len(Http1[Path]) # 0
        /\ Len(r.body) <= MaxRouteBody
    BY <1>1, <1>3, Renderings DEF Renders
  <1>7. Len(Http2[Path].body) # 0
    BY <1>3, Renderings
  <1>8. CASE ~IsH2
    <2>1. Whole = r.body /\ BodyLen = Len(r.body) /\ BodyOff = r.body_off
      BY <1>2, <1>6, <1>8 DEF Whole, BodyLen, BodyOff, Route
    <2> QED
      BY <1>1, <1>3, <1>4, <1>5, <1>6, <1>8, <2>1 DEF Holds
  <1>9. CASE IsH2 /\ Fits(Http2[Path])
    <2>1. /\ r.h2.body = Http2[Path].body /\ Len(r.h2.body) <= MaxRouteBody
          /\ r.h2.sid_offs = Http2[Path].sid_offs
          /\ r.h2.data_len = Http2[Path].data_len
      BY <1>1, <1>3, <1>9 DEF Renders, Fits
    <2>2. Whole = r.h2.body /\ BodyLen = Len(r.h2.body) /\ BodyOff = r.h2.off
      BY <1>2, <1>9, <2>1 DEF Whole, BodyLen, BodyOff, Route
    <2>3. Asked.h2_sid_offs = Http2[Path].sid_offs
          /\ Asked.h2_data_len = Http2[Path].data_len
      BY <1>2, <2>1 DEF Route
    <2> QED
      BY <1>1, <1>3, <1>4, <1>5, <1>7, <1>9, <2>1, <2>2, <2>3 DEF Holds
  <1>10. CASE IsH2 /\ ~Fits(Http2[Path])
    <2>1. r.h2.body = <<>>
      BY <1>1, <1>3, <1>10 DEF Renders, None
    <2>2. BodyLen = 0
      BY <1>2, <1>10, <2>1 DEF BodyLen, Route
    <2> QED
      BY <1>3, <1>10, <2>2
  <1> QED
    BY <1>8, <1>9, <1>10

(* And for one it can serve.                                               *)
LEMMA ServableIs ==
    ASSUME TypeOK, AttachInv, pc \in Handling, Servable
    PROVE  /\ Path \in Paths
           /\ IsH2 => Fits(Http2[Path])
           /\ BodyLen = Len(Whole) /\ BodyLen \in Nat \ {0}
           /\ Whole \in Seq(Byte)
           /\ BodyLen <= MaxRouteBody
           /\ BodyOff \in Nat /\ BodyOff + BodyLen <= Len(arena)
           /\ \A b \in 1 .. BodyLen : arena[BodyOff + b] = Whole[b]
           /\ IsH2 => /\ Asked.h2_sid_offs = Http2[Path].sid_offs
                      /\ Asked.h2_data_len = Http2[Path].data_len
  <1>1. Known /\ BodyLen # 0
    BY DEF Servable
  <1>2. Path \in Paths /\ (IsH2 => Fits(Http2[Path]))
    BY <1>1, AnswerIs
  <1>3. Whole \in Seq(Bytes)
    BY <1>2, Renderings DEF Whole
  <1>4. Whole \in Seq(Byte) /\ Len(Whole) \in Nat
    <2>1. Bytes \subseteq Byte
      BY DEF Byte
    <2> QED
      BY <1>3, <2>1, SeqMonotonic, LenProperties
  <1>5. /\ BodyLen = Len(Whole) /\ BodyLen # 0
        /\ BodyLen <= MaxRouteBody
        /\ BodyOff \in Nat /\ BodyOff + BodyLen <= Len(arena)
        /\ \A b \in 1 .. BodyLen : arena[BodyOff + b] = Whole[b]
    BY <1>1, <1>2, AnswerIs
  <1>6. IsH2 => /\ Asked.h2_sid_offs = Http2[Path].sid_offs
                /\ Asked.h2_data_len = Http2[Path].data_len
    BY <1>1, <1>2, AnswerIs
  <1> QED
    BY <1>2, <1>4, <1>5, <1>6

-----------------------------------------------------------------------------
(* Steps of serve_route that keep the request.                             *)
LEMMA RequestKept ==
    ASSUME TypeOK, UNCHANGED <<attachVars, req>>
    PROVE  /\ Known' = Known /\ Servable' = Servable
           /\ Asked' = Asked /\ IsH2' = IsH2
           /\ BodyLen' = BodyLen /\ BodyOff' = BodyOff
           /\ Path' = Path /\ Whole' = Whole /\ AllIds' = AllIds
  BY DEF attachVars, Known, Servable, Asked, IsH2, BodyLen, BodyOff, Path,
         Whole, AllIds

Keeps ==
    /\ UNCHANGED <<attachVars, req>>
    /\ pc \in Handling /\ pc' \in Handling
    /\ turn' \in Nat /\ charged' \in Nat /\ failed' \in BOOLEAN
    /\ msg' \in Seq(Byte)

(* It is enough to look at where such a step leads.                        *)
LEMMA StepKeeps ==
    ASSUME IInv, Keeps, ServeInv'
    PROVE  IInv'
  <1>1. LayoutTypes' /\ AttachInv'
    BY LayoutKept DEF IInv, Keeps
  <1>2. RequestTypes'
    BY DEF IInv, Keeps, TypeOK, RequestTypes, attachVars
  <1> QED
    BY <1>1, <1>2 DEF IInv, TypeOK

LEMMA FailsHolds ==
    ASSUME IInv, NEW helper, Fails(helper), pc \in Handling
    PROVE  IInv'
  <1>1. Keeps
    BY DEF IInv, TypeOK, RequestTypes, Keeps, Fails, Goto, Handling
  <1>2. ServeInv'
    BY DEF Fails, Goto, ServeInv, NeverRefused
  <1> QED
    BY <1>1, <1>2, StepKeeps

LEMMA CheckHolds ==
    ASSUME IInv, Check
    PROVE  IInv'
  <1>1. /\ pc = "check" /\ pc \in Handling /\ turn' = 0
        /\ UNCHANGED <<attachVars, req, msg, charged, failed>>
    BY DEF Check, Goto, servingVars, Handling
  <1>2. Len(msg) \in Nat
    BY LenProperties DEF IInv, TypeOK, RequestTypes
  <1>3. CASE ~Servable
    <2>1. pc' = "refused"
      BY <1>3 DEF Check, Goto
    <2>2. Keeps
      BY <1>1, <2>1 DEF IInv, TypeOK, RequestTypes, Keeps, Handling
    <2>3. NeverRefused'
      <3>1. Known => \/ IsH2 /\ ~Fits(Http2[Path])
                     \/ IsH2 /\ ~(Http2[Path].data_len <= req.room)
        BY <1>1, <1>3, AnswerIs DEF IInv, Servable
      <3>2. Known => Path \in Paths /\ req.room \in Nat
        BY <1>1, AnswerIs DEF IInv, TypeOK, RequestTypes, Asking, Handling
      <3>3. Known => \/ IsH2 /\ ~Fits(Http2[Path])
                     \/ IsH2 /\ Http2[Path].data_len > req.room
        BY <3>1, <3>2, Renderings
      <3> QED
        BY <1>1, <3>3, RequestKept DEF NeverRefused, IInv
    <2>4. ServeInv'
      BY <2>1, <2>3 DEF ServeInv
    <2> QED
      BY <2>2, <2>4, StepKeeps
  <1>4. CASE Servable
    <2>1. BodyLen \in Nat /\ BodyLen = Len(Whole)
      BY <1>1, <1>4, ServableIs DEF IInv
    <2>2. pc' = IF BodyLen > Len(msg) THEN "grow"
                ELSE IF BodyLen < Len(msg) THEN "pop" ELSE "window"
      BY <1>4 DEF Check, Goto
    <2>3. Keeps
      BY <1>1, <2>2 DEF IInv, TypeOK, RequestTypes, Keeps, Handling
    <2>4. /\ Servable' /\ BodyLen' = BodyLen /\ Whole' = Whole /\ msg' = msg
      BY <1>1, <1>4, RequestKept DEF IInv
    <2>5. turn' * Chunk = 0 /\ turn' <= MaxChunks
      BY <1>1, ResponseAssumption
    <2>6. ASSUME pc' = "grow" PROVE ServeInv'
      <3>1. Len(msg') <= BodyLen' /\ turn' * Chunk <= Len(msg')
        BY <1>2, <2>1, <2>2, <2>4, <2>5, <2>6
      <3> QED
        BY <2>4, <2>5, <2>6, <3>1 DEF ServeInv, NeverRefused
    <2>7. ASSUME pc' = "pop" PROVE ServeInv'
      <3>1. BodyLen' < Len(msg')
        BY <1>2, <2>1, <2>2, <2>4, <2>7
      <3> QED
        BY <2>4, <2>7, <3>1 DEF ServeInv, NeverRefused
    <2>8. ASSUME pc' = "window" PROVE ServeInv'
      <3>1. Len(msg') = BodyLen'
        BY <1>2, <2>1, <2>2, <2>4, <2>8
      <3>2. \A i \in 1 .. Len(Whole') : ~(i <= turn' * Chunk)
        BY <2>1, <2>4, <2>5
      <3> QED
        BY <2>4, <2>5, <2>8, <3>1, <3>2 DEF ServeInv, NeverRefused
    <2> QED
      BY <2>2, <2>3, <2>6, <2>7, <2>8, StepKeeps
  <1> QED
    BY <1>3, <1>4

LEMMA GrowHolds ==
    ASSUME IInv, Grow
    PROVE  IInv'
  <1>1. pc = "grow" /\ pc \in Handling /\ Growing /\ Servable
    BY DEF Grow, IInv, ServeInv, Handling
  <1>2. CASE Fails("push")
    BY <1>1, <1>2, FailsHolds
  <1>3. CASE LET n == Lesser(BodyLen - Len(msg), Chunk) IN
             msg' = msg \o [i \in 1 .. n |-> <<"raw", 0>>] /\ Turn
    <2> DEFINE n == Lesser(BodyLen - Len(msg), Chunk)
               m == Len(msg)
               raw == [i \in 1 .. n |-> <<"raw", 0>>]
    <2>1. /\ msg' = msg \o raw /\ turn' = turn + 1 /\ pc' = "grow"
          /\ UNCHANGED <<attachVars, req, charged, failed>>
      BY <1>1, <1>3 DEF Turn
    <2>2. msg \in Seq(Byte) /\ m \in Nat /\ turn \in Nat
      BY LenProperties DEF IInv, TypeOK, RequestTypes, LayoutTypes
    <2>3. BodyLen \in Nat
      BY <1>1, ServableIs DEF IInv
    <2>4. /\ m < BodyLen /\ turn < MaxChunks /\ turn * Chunk <= m
          /\ Chunk \in Nat /\ MaxChunks \in Nat
      BY <1>1, <2>2, <2>3, ResponseAssumption DEF Growing, IInv, ServeInv
    <2>5. /\ n \in Nat /\ n <= BodyLen - m
          /\ n = BodyLen - m \/ n = Chunk
      BY <2>2, <2>3, <2>4 DEF Lesser
    <2>6. raw \in Seq(Byte) /\ Len(raw) = n
      <3> HIDE DEF n
      <3>1. <<"raw", 0>> \in Byte
        BY DEF Byte
      <3> QED
        BY <2>5, <3>1, IsASeq
    <2>7. msg' \in Seq(Byte) /\ Len(msg') = m + n
      BY <2>1, <2>2, <2>6, ConcatProperties
    <2>8. (turn + 1) * Chunk = turn * Chunk + Chunk /\ turn * Chunk \in Nat
      BY <2>2, <2>4, Distribute
    <2> HIDE DEF n, m, raw
    <2>9. Len(msg') <= BodyLen
          /\ (Len(msg') = BodyLen \/ turn' * Chunk <= Len(msg'))
      BY <2>1, <2>2, <2>3, <2>4, <2>5, <2>7, <2>8
    <2>10. Servable' /\ BodyLen' = BodyLen
      BY <1>1, <2>1, RequestKept DEF IInv
    <2>11. turn' <= MaxChunks /\ turn' \in Nat
      BY <2>1, <2>2, <2>4
    <2>12. Keeps
      BY <1>1, <2>1, <2>7, <2>11
         DEF Keeps, IInv, TypeOK, RequestTypes, Handling
    <2>13. ServeInv'
      BY <2>1, <2>9, <2>10, <2>11 DEF ServeInv, NeverRefused
    <2> QED
      BY <2>12, <2>13, StepKeeps
  <1> QED
    BY <1>2, <1>3 DEF Grow

(* A message that is not as long as the response after the last turn would *)
(* be a response longer than the limit.                                    *)
LEMMA GrownHolds ==
    ASSUME IInv, Grown
    PROVE  IInv'
  <1>1. /\ pc = "grow" /\ pc \in Handling /\ ~Growing /\ Servable /\ turn' = 0
        /\ UNCHANGED <<attachVars, req, msg, charged, failed>>
    BY DEF Grown, Goto, servingVars, IInv, ServeInv, Handling
  <1>2. /\ msg \in Seq(Byte) /\ Len(msg) \in Nat /\ turn \in Nat
        /\ Chunk \in Nat /\ MaxChunks \in Nat
    BY LenProperties, ResponseAssumption DEF IInv, TypeOK, RequestTypes, LayoutTypes
  <1>3. BodyLen \in Nat /\ BodyLen <= MaxChunks * Chunk /\ BodyLen = Len(Whole)
    BY <1>1, ServableIs DEF IInv, MaxRouteBody
  <1>4. /\ turn <= MaxChunks /\ Len(msg) <= BodyLen
        /\ Len(msg) = BodyLen \/ turn * Chunk <= Len(msg)
    BY <1>1 DEF IInv, ServeInv
  <1>5. Len(msg) = BodyLen
    <2>1. CASE turn = MaxChunks
      <3>1. MaxChunks * Chunk \in Nat
        BY <1>2, Distribute
      <3> QED
        BY <1>2, <1>3, <1>4, <2>1, <3>1
    <2>2. CASE turn # MaxChunks
      BY <1>1, <1>2, <1>3, <1>4, <2>2 DEF Growing
    <2> QED
      BY <2>1, <2>2
  <1>6. pc' = "window"
    BY <1>5 DEF Grown, Goto
  <1>7. Servable' /\ BodyLen' = BodyLen /\ Whole' = Whole
    BY <1>1, RequestKept DEF IInv
  <1>8. Keeps
    BY <1>1, <1>6 DEF Keeps, IInv, TypeOK, RequestTypes, Handling
  <1>9. ServeInv'
    BY <1>1, <1>2, <1>5, <1>6, <1>7 DEF ServeInv, NeverRefused
  <1> QED
    BY <1>8, <1>9, StepKeeps

LEMMA PopHolds ==
    ASSUME IInv, Pop
    PROVE  IInv'
  <1>1. pc = "pop" /\ pc \in Handling /\ Servable /\ BodyLen < Len(msg)
    BY DEF Pop, IInv, ServeInv, Handling
  <1>2. CASE Fails("pop")
    BY <1>1, <1>2, FailsHolds
  <1>3. CASE ~Fails("pop")
    <2>1. /\ msg' = SubSeq(msg, 1, BodyLen) /\ pc' = "window" /\ turn' = 0
          /\ UNCHANGED <<attachVars, req, charged, failed>>
      BY <1>3 DEF Pop, Goto
    <2>2. BodyLen \in Nat \ {0} /\ MaxChunks \in Nat /\ Chunk \in Nat
      BY <1>1, ServableIs, ResponseAssumption DEF IInv
    <2>3. msg \in Seq(Byte) /\ Len(msg) \in Nat
      BY LenProperties DEF IInv, TypeOK, RequestTypes
    <2>4. \A i \in 1 .. BodyLen : msg[i] \in Byte
      BY <1>1, <2>2, <2>3, ElementOfSeq
    <2>5. msg' \in Seq(Byte) /\ Len(msg') = BodyLen
      BY <2>1, <2>2, <2>4, SubSeqProperties
    <2>6. Servable' /\ BodyLen' = BodyLen /\ Whole' = Whole
      BY <1>1, <2>1, RequestKept DEF IInv
    <2>7. Keeps
      BY <1>1, <2>1, <2>5 DEF Keeps, IInv, TypeOK, RequestTypes, Handling
    <2>8. ServeInv'
      BY <2>1, <2>2, <2>5, <2>6 DEF ServeInv, NeverRefused
    <2> QED
      BY <2>7, <2>8, StepKeeps
  <1> QED
    BY <1>2, <1>3

(* A turn of the copy adds the next chunk to what is right already.        *)
LEMMA CopyWindowHolds ==
    ASSUME IInv, CopyWindow
    PROVE  IInv'
  <1>1. pc = "window" /\ pc \in Handling /\ Copying /\ Servable
    BY DEF CopyWindow, IInv, ServeInv, Handling
  <1>2. CASE Fails("pull")
    BY <1>1, <1>2, FailsHolds
  <1>3. CASE ~Fails("pull")
    <2> DEFINE off == turn * Chunk
               w == Lesser(BodyLen - off, Chunk)
               seg == SubSeq(arena, BodyOff + off + 1, BodyOff + off + w)
    <2>1. /\ BodyLen \in Nat \ {0} /\ BodyLen = Len(Whole)
          /\ BodyOff \in Nat /\ BodyOff + BodyLen <= Len(arena)
          /\ \A b \in 1 .. BodyLen : arena[BodyOff + b] = Whole[b]
      BY <1>1, ServableIs DEF IInv
    <2>2. /\ turn \in Nat /\ Chunk \in Nat \ {0} /\ MaxChunks \in Nat
          /\ arena \in Seq(Byte) /\ Len(arena) \in Nat
          /\ msg \in Seq(Byte) /\ Len(msg) = BodyLen
      BY <1>1, LenProperties, ResponseAssumption
         DEF IInv, TypeOK, LayoutTypes, RequestTypes, ServeInv
    <2>3. /\ off \in Nat /\ off < BodyLen /\ turn < MaxChunks
          /\ (turn + 1) * Chunk = off + Chunk
      BY <1>1, <2>1, <2>2, Distribute DEF Copying
    <2>4. /\ w \in Nat /\ w <= Chunk /\ w <= BodyLen - off
          /\ w = BodyLen - off \/ w = Chunk
      <3> HIDE DEF off
      <3> QED
        BY <2>1, <2>2, <2>3 DEF Lesser
    <2>5. Moved(w) = w
      <3> HIDE DEF w
      <3> QED
        BY <2>4, MovesAll
    <2>6. /\ msg' = Overlay(msg, off, seg) /\ turn' = turn + 1 /\ pc' = "window"
          /\ UNCHANGED <<attachVars, req, charged, failed>>
      BY <1>1, <1>3, <2>5 DEF CopyWindow, Turn
    <2>7. /\ seg \in Seq(Byte) /\ Len(seg) = w
          /\ \A i \in 1 .. w : seg[i] = arena[BodyOff + off + i]
      <3> HIDE DEF off, w
      <3>1. \A i \in BodyOff + off + 1 .. BodyOff + off + w : arena[i] \in Byte
        <4> SUFFICES ASSUME NEW i \in BodyOff + off + 1 .. BodyOff + off + w
                     PROVE  arena[i] \in Byte
          OBVIOUS
        <4>1. i \in 1 .. Len(arena)
          BY <2>1, <2>2, <2>3, <2>4
        <4> QED
          BY <2>2, <4>1, ElementOfSeq
      <3> DEFINE m == BodyOff + off + 1
                 n == BodyOff + off + w
      <3>2. m \in Int /\ n \in Int /\ n - m + 1 = w /\ (w = 0 <=> n < m)
            /\ \A i \in 1 .. w : m + i - 1 = BodyOff + off + i
        BY <2>1, <2>3, <2>4
      <3>3. \A i \in m .. n : arena[i] \in Byte
        BY <3>1
      <3> HIDE DEF m, n
      <3>4. /\ SubSeq(arena, m, n) \in Seq(Byte)
            /\ Len(SubSeq(arena, m, n)) = IF m <= n THEN n - m + 1 ELSE 0
            /\ \A i \in 1 .. n - m + 1 :
                  SubSeq(arena, m, n)[i] = arena[m + i - 1]
        BY <3>2, <3>3, SubSeqProperties
      <3>5. seg = SubSeq(arena, m, n)
        BY DEF m, n
      <3>6. Len(SubSeq(arena, m, n)) = w
        BY <2>4, <3>2, <3>4
      <3>7. \A i \in 1 .. w : SubSeq(arena, m, n)[i] = arena[BodyOff + off + i]
        BY <3>2, <3>4
      <3> HIDE DEF seg
      <3> QED
        BY <3>4, <3>5, <3>6, <3>7
    <2> HIDE DEF off, w, seg
    <2>8. /\ msg' \in Seq(Byte) /\ Len(msg') = BodyLen
          /\ \A b \in 1 .. BodyLen :
                msg'[b] = IF b \in off + 1 .. off + w THEN seg[b - off]
                          ELSE msg[b]
      BY <2>2, <2>3, <2>6, <2>7, OverlayIs
    <2>9. ASSUME NEW i \in 1 .. BodyLen, i <= turn' * Chunk
          PROVE  msg'[i] = Whole[i]
      <3>1. turn' * Chunk = off + Chunk
        BY <2>3, <2>6
      <3>2. CASE i <= off
        <4>1. i \notin off + 1 .. off + w
          BY <2>3, <2>4, <3>2
        <4>2. msg[i] = Whole[i]
          BY <1>1, <2>1, <2>9, <3>2 DEF IInv, ServeInv, off
        <4> QED
          BY <2>8, <4>1, <4>2
      <3>3. CASE ~(i <= off)
        <4>1. /\ i \in off + 1 .. off + w /\ i - off \in 1 .. w
              /\ BodyOff + off + (i - off) = BodyOff + i
          BY <2>1, <2>2, <2>3, <2>4, <2>9, <3>1, <3>3
        <4> QED
          BY <2>1, <2>7, <2>8, <4>1
      <3> QED
        BY <3>2, <3>3
    <2>10. Servable' /\ BodyLen' = BodyLen /\ Whole' = Whole
      BY <1>1, <2>6, RequestKept DEF IInv
    <2>11. turn' \in Nat /\ turn' <= MaxChunks
      BY <2>2, <2>3, <2>6
    <2>12. Keeps
      BY <1>1, <2>6, <2>8, <2>11 DEF Keeps, IInv, TypeOK, RequestTypes, Handling
    <2>13. ServeInv'
      BY <2>1, <2>6, <2>8, <2>9, <2>10, <2>11 DEF ServeInv, NeverRefused
    <2> QED
      BY <2>12, <2>13, StepKeeps
  <1> QED
    BY <1>2, <1>3

LEMMA CopiedHolds ==
    ASSUME IInv, Copied
    PROVE  IInv'
  <1>1. /\ pc = "window" /\ pc \in Handling /\ ~Copying /\ Servable /\ turn' = 0
        /\ UNCHANGED <<attachVars, req, msg, charged, failed>>
        /\ pc' = IF IsH2 THEN "sids" ELSE "redirect"
    BY DEF Copied, Goto, servingVars, IInv, ServeInv, Handling
  <1>2. /\ turn \in Nat /\ Chunk \in Nat /\ MaxChunks \in Nat
    BY ResponseAssumption DEF IInv, TypeOK, LayoutTypes
  <1>3. /\ BodyLen \in Nat /\ BodyLen <= MaxChunks * Chunk
        /\ BodyLen = Len(Whole) /\ Path \in Paths
    BY <1>1, ServableIs DEF IInv, MaxRouteBody
  <1>4. /\ turn <= MaxChunks /\ Len(msg) = BodyLen
        /\ \A i \in 1 .. Len(Whole) : i <= turn * Chunk => msg[i] = Whole[i]
    BY <1>1 DEF IInv, ServeInv
  <1>5. turn * Chunk \in Nat /\ BodyLen <= turn * Chunk
    <2>1. turn * Chunk \in Nat
      BY <1>2, Distribute
    <2>2. CASE turn = MaxChunks
      BY <1>3, <2>1, <2>2
    <2>3. CASE turn # MaxChunks
      BY <1>1, <1>2, <1>3, <1>4, <2>1, <2>3 DEF Copying
    <2> QED
      BY <2>1, <2>2, <2>3
  <1>6. \A i \in 1 .. Len(Whole) : msg[i] = Whole[i]
    BY <1>3, <1>4, <1>5
  <1>7. /\ Servable' /\ Whole' = Whole /\ IsH2' = IsH2 /\ Path' = Path
        /\ AllIds' = AllIds
    BY <1>1, RequestKept DEF IInv
  <1>8. Keeps
    BY <1>1 DEF Keeps, IInv, TypeOK, RequestTypes, Handling
  <1>9. CASE IsH2
    <2>1. IsResponse(0)
      BY <1>3, <1>4, <1>6 DEF IsResponse, WithIds
    <2>2. IsResponse(turn)'
      BY <1>1, <1>7, <2>1 DEF IsResponse, WithIds
    <2>3. AllIds \in Nat
      BY <1>3, Renderings, LenProperties DEF AllIds
    <2>4. ServeInv'
      BY <1>1, <1>7, <1>9, <2>2, <2>3 DEF ServeInv, NeverRefused
    <2> QED
      BY <1>8, <2>4, StepKeeps
  <1>10. CASE ~IsH2
    <2>1. IsResponse(AllIds)
      BY <1>3, <1>4, <1>6, <1>10 DEF IsResponse, WithIds
    <2>2. IsResponse(AllIds)'
      BY <1>1, <1>7, <2>1 DEF IsResponse, WithIds
    <2>3. ServeInv'
      BY <1>1, <1>7, <1>10, <2>2 DEF ServeInv, NeverRefused
    <2> QED
      BY <1>8, <2>3, StepKeeps
  <1> QED
    BY <1>9, <1>10

(* A turn writes one more id, within the message, where one belongs.       *)
LEMMA WriteSidHolds ==
    ASSUME IInv, WriteSid
    PROVE  IInv'
  <1>1. pc = "sids" /\ pc \in Handling /\ Stamping /\ Servable
        /\ IsH2 /\ turn <= AllIds /\ IsResponse(turn)
    BY DEF WriteSid, IInv, ServeInv, Handling
  <1> DEFINE offs == Http2[Path].sid_offs
             off == offs[turn + 1]
             ids == [i \in 1 .. 4 |-> <<"sid", req.sid>>]
  <1>2. /\ Path \in Paths /\ Fits(Http2[Path]) /\ Asked.h2_sid_offs = offs
        /\ Len(Whole) \in Nat /\ Len(Whole) <= MaxRouteBody
        /\ Whole = Http2[Path].body
    <2>1. /\ Path \in Paths /\ Fits(Http2[Path]) /\ Asked.h2_sid_offs = offs
          /\ BodyLen = Len(Whole) /\ BodyLen \in Nat /\ BodyLen <= MaxRouteBody
      BY <1>1, ServableIs DEF IInv
    <2> QED
      BY <1>1, <2>1 DEF Whole
  <1>3. /\ offs \in Seq(Nat) /\ Len(offs) \in Nat /\ DOMAIN offs = 1 .. Len(offs)
        /\ MaxSidOffs \in Nat /\ turn \in Nat /\ AllIds = Len(offs)
    BY <1>2, Renderings, LenProperties, ResponseAssumption
       DEF IInv, TypeOK, LayoutTypes, AllIds
  <1>4. turn + 1 \in 1 .. Len(offs)
    BY <1>1, <1>2, <1>3 DEF Stamping, Lesser
  <1>5. off \in Nat /\ off + 4 <= Len(Whole)
    BY <1>2, <1>3, <1>4, ElementOfSeq, ResponseAssumption
  <1>6. ~(off + 4 > MaxRouteBody)
    <2>1. MaxRouteBody \in Nat
      BY Distribute, ResponseAssumption DEF MaxRouteBody
    <2> HIDE DEF off
    <2> QED
      BY <1>2, <1>5, <2>1
  <1>7. CASE Fails("pull")
    BY <1>1, <1>7, FailsHolds
  <1>8. CASE ~Fails("pull")
    <2>1. /\ msg' = Overlay(msg, off, ids) /\ turn' = turn + 1 /\ pc' = "sids"
          /\ UNCHANGED <<attachVars, req, charged, failed>>
      BY <1>1, <1>2, <1>6, <1>8 DEF WriteSid, Turn
    <2>2. req.sid \in Nat
      BY <1>1 DEF IInv, TypeOK, RequestTypes, Asking
    <2>3. ids \in Seq(Byte) /\ Len(ids) = 4
      <3>1. <<"sid", req.sid>> \in Byte
        BY <2>2 DEF Byte
      <3>2. ids \in Seq(Byte)
        BY <3>1, IsASeq
      <3> QED
        BY <3>2
    <2>4. msg \in Seq(Byte) /\ Len(msg) = Len(Whole)
          /\ \A i \in 1 .. Len(Whole) : msg[i] = WithIds(i, turn)
      BY <1>1 DEF IInv, TypeOK, RequestTypes, IsResponse
    <2>5. \A i \in off + 1 .. off + 4 : ids[i - off] = <<"sid", req.sid>>
      <3> HIDE DEF off
      <3>1. \A i \in off + 1 .. off + 4 : i - off \in 1 .. 4
        BY <1>5
      <3> QED
        BY <3>1
    <2> HIDE DEF off, ids, offs
    <2>6. /\ msg' \in Seq(Byte) /\ Len(msg') = Len(Whole)
          /\ \A b \in 1 .. Len(Whole) :
                msg'[b] = IF b \in off + 1 .. off + 4 THEN <<"sid", req.sid>>
                          ELSE msg[b]
      <3>1. /\ msg' \in Seq(Byte) /\ Len(msg') = Len(msg)
            /\ \A b \in 1 .. Len(msg) :
                  msg'[b] = IF b \in off + 1 .. off + Len(ids) THEN ids[b - off]
                            ELSE msg[b]
        <4> DEFINE o == Overlay(msg, off, ids)
        <4>0. off \in Nat /\ ids \in Seq(Byte) /\ msg \in Seq(Byte)
          BY <1>5, <2>3, <2>4
        <4>1. /\ o \in Seq(Byte) /\ Len(o) = Len(msg)
              /\ \A b \in 1 .. Len(msg) :
                    o[b] = IF b \in off + 1 .. off + Len(ids) THEN ids[b - off]
                           ELSE msg[b]
          BY <4>0, OverlayIs
        <4> HIDE DEF o
        <4>2. msg' = o
          BY <2>1 DEF o
        <4> QED
          BY <4>1, <4>2
      <3> QED
        BY <2>3, <2>4, <2>5, <3>1
    <2>7. ASSUME NEW i \in 1 .. Len(Whole)
          PROVE  msg'[i] = WithIds(i, turn + 1)
      <3>1. (i \in off + 1 .. off + 4) <=> (i - off \in 1 .. 4)
        BY <1>2, <1>5
      <3>2. \A j \in 1 .. turn + 1 : j = turn + 1 \/ j \in 1 .. turn
        BY <1>3
      <3>3. turn + 1 \in 1 .. turn + 1 /\ \A j \in 1 .. turn : j \in 1 .. turn + 1
        BY <1>3
      <3>4. CASE i - off \in 1 .. 4
        BY <1>1, <2>6, <3>1, <3>3, <3>4 DEF WithIds, off, offs
      <3>5. CASE i - off \notin 1 .. 4
        <4>1. WithIds(i, turn + 1) = WithIds(i, turn)
          BY <3>2, <3>3, <3>5 DEF WithIds, off, offs
        <4> QED
          BY <2>4, <2>6, <3>1, <3>5, <4>1
      <3> QED
        BY <3>4, <3>5
    <2>8. /\ Servable' /\ Whole' = Whole /\ IsH2' /\ AllIds' = AllIds
      BY <1>1, <2>1, RequestKept DEF IInv
    <2>9. IsResponse(turn)'
      <3>1. \A i \in 1 .. Len(Whole) : WithIds(i, turn)' = WithIds(i, turn + 1)
        BY <2>1, <2>8 DEF WithIds, IsH2, Path
      <3> QED
        BY <2>6, <2>7, <2>8, <3>1 DEF IsResponse
    <2>10. turn' \in Nat /\ turn' <= AllIds
      BY <1>3, <1>4, <2>1
    <2>11. Keeps
      BY <1>1, <2>1, <2>6, <2>10 DEF Keeps, IInv, TypeOK, RequestTypes, Handling
    <2>12. ServeInv'
      BY <2>1, <2>8, <2>9, <2>10 DEF ServeInv, NeverRefused
    <2> QED
      BY <2>11, <2>12, StepKeeps
  <1> QED
    BY <1>7, <1>8

LEMMA StampedHolds ==
    ASSUME IInv, Stamped
    PROVE  IInv'
  <1>1. /\ pc = "sids" /\ pc \in Handling /\ ~Stamping /\ Servable
        /\ IsH2 /\ turn <= AllIds /\ IsResponse(turn)
        /\ turn' = 0 /\ pc' = "redirect"
        /\ UNCHANGED <<attachVars, req, msg, charged, failed>>
    BY DEF Stamped, Goto, servingVars, IInv, ServeInv, Handling
  <1>2. /\ Path \in Paths /\ Asked.h2_sid_offs = Http2[Path].sid_offs
        /\ Len(Http2[Path].sid_offs) <= MaxSidOffs
    BY <1>1, ServableIs DEF IInv, Fits
  <1>3. AllIds \in Nat /\ AllIds = Len(Asked.h2_sid_offs) /\ turn \in Nat
        /\ MaxSidOffs \in Nat /\ AllIds <= MaxSidOffs
    BY <1>2, Renderings, LenProperties, ResponseAssumption
       DEF AllIds, IInv, TypeOK, LayoutTypes
  <1>4. turn = AllIds
    BY <1>1, <1>3 DEF Stamping, Lesser
  <1>5. Servable' /\ Whole' = Whole /\ AllIds' = AllIds
    BY <1>1, RequestKept DEF IInv
  <1>6. IsResponse(AllIds)'
    BY <1>1, <1>4, <1>5 DEF IsResponse, WithIds, IsH2, Path
  <1>7. Keeps
    BY <1>1 DEF Keeps, IInv, TypeOK, RequestTypes, Handling
  <1>8. ServeInv'
    BY <1>1, <1>5, <1>6 DEF ServeInv, NeverRefused
  <1> QED
    BY <1>7, <1>8, StepKeeps

LEMMA RedirectHolds ==
    ASSUME IInv, Redirect
    PROVE  IInv'
  <1>1. pc = "redirect" /\ pc \in Handling /\ Servable /\ IsResponse(AllIds)
    BY DEF Redirect, IInv, ServeInv, Handling
  <1>2. CASE Fails("redirect")
    BY <1>1, <1>2, FailsHolds
  <1>3. CASE ~Fails("redirect")
    <2>1. /\ pc' = "served" /\ turn' = 0 /\ UNCHANGED <<attachVars, req, msg, failed>>
          /\ charged' = IF IsH2 THEN Asked.h2_data_len ELSE 0
      BY <1>3 DEF Redirect, Goto
    <2>2. charged' \in Nat
      <3>1. IsH2 => Asked.h2_data_len \in Nat
        BY <1>1, ServableIs, Renderings DEF IInv
      <3> QED
        BY <2>1, <3>1
    <2>3. Servable' /\ Whole' = Whole /\ AllIds' = AllIds
      BY <1>1, <2>1, RequestKept DEF IInv
    <2>4. IsResponse(AllIds)'
      BY <1>1, <2>1, <2>3 DEF IsResponse, WithIds, IsH2, Path
    <2>5. Keeps
      BY <1>1, <2>1, <2>2 DEF Keeps, IInv, TypeOK, RequestTypes, Handling
    <2>6. charged' = IF IsH2' THEN Http2[Path'].data_len ELSE 0
      BY <1>1, <2>1, ServableIs DEF IInv, IsH2, Path
    <2>7. ServeInv'
      BY <2>1, <2>3, <2>4, <2>6 DEF ServeInv, NeverRefused
    <2> QED
      BY <2>5, <2>7, StepKeeps
  <1> QED
    BY <1>2, <1>3

LEMMA ReceiveHolds ==
    ASSUME IInv, NEW p \in Paths, NEW form \in {"plain", "huffman"},
           NEW sid \in Streams \cup {0}, NEW n \in Sizes, NEW room \in Rooms,
           Receive(p, form, sid, n, room)
    PROVE  IInv'
  <1>1. /\ pc = "idle" /\ pc' = "check"
        /\ req' = [key |-> <<form, p>>, sid |-> sid, size |-> n, room |-> room]
        /\ msg' = Request(n)
        /\ UNCHANGED <<turn, attachVars, charged, failed>>
    BY DEF Receive
  <1>2. sid \in Nat /\ n \in Nat /\ room \in Nat
    BY ResponseAssumption
  <1>3. req' \in Asking
    BY <1>1, <1>2 DEF Asking
  <1>4. msg' \in Seq(Byte)
    <2>1. \A i \in 1 .. n : <<"request", i>> \in Byte
      BY <1>2 DEF Byte
    <2>2. [i \in 1 .. n |-> <<"request", i>>] \in Seq(Byte)
      BY <1>2, <2>1, IsASeq
    <2> QED
      BY <1>1, <2>2 DEF Request
  <1>5. RequestTypes'
    BY <1>1, <1>3, <1>4 DEF IInv, TypeOK, RequestTypes
  <1>6. LayoutTypes' /\ AttachInv'
    BY <1>1, LayoutKept DEF IInv, TypeOK, LayoutTypes, Handling
  <1>7. ServeInv'
    BY <1>1 DEF ServeInv, NeverRefused
  <1> QED
    BY <1>5, <1>6, <1>7 DEF IInv, TypeOK

LEMMA LeaveHolds ==
    ASSUME IInv, Leave
    PROVE  IInv'
  <1>1. /\ pc \in Handling /\ pc' = "idle" /\ turn' = 0
        /\ req' = NoRequest /\ msg' = <<>> /\ charged' = 0 /\ failed' = FALSE
        /\ UNCHANGED attachVars
    BY DEF Leave, Goto, Handling
  <1>2. RequestTypes'
    BY <1>1, EmptySeq DEF RequestTypes, Handling
  <1>3. LayoutTypes' /\ AttachInv'
    BY <1>1, LayoutKept DEF IInv
  <1>4. ServeInv'
    BY <1>1 DEF ServeInv, NeverRefused
  <1> QED
    BY <1>2, <1>3, <1>4 DEF IInv, TypeOK

-----------------------------------------------------------------------------
LEMMA InitHolds == Init => IInv
  <1> SUFFICES ASSUME Init PROVE IInv
    OBVIOUS
  <1> USE DEF Init
  <1>1. <<>> \in Seq(Prepared) /\ <<>> \in Seq(Byte) /\ DOMAIN <<>> = {}
    BY EmptySeq
  <1>2. LayoutTypes
    BY <1>1 DEF LayoutTypes, Attaching
  <1>3. RequestTypes
    BY <1>1 DEF RequestTypes, Handling
  <1>4. AttachInv
    BY <1>1 DEF AttachInv, PlacesInv, ArenaInv, IndexInv
  <1>5. ServeInv
    BY DEF ServeInv, NeverRefused
  <1> QED
    BY <1>2, <1>3, <1>4, <1>5 DEF IInv, TypeOK

(* While attach runs there is no request.                                  *)
LEMMA AttachHolds ==
    ASSUME IInv, Attach
    PROVE  IInv'
  <1>1. /\ pc \notin Handling /\ pc' \in Attaching \cup {"idle"}
        /\ UNCHANGED servingVars
    BY DEF Attach, CountRoutes, Prepare, Load, CopyIn, Index, Handling, Attaching
  <1>2. LayoutTypes' /\ AttachInv'
    BY CountHolds, PrepareHolds, LoadHolds, CopyInHolds, IndexHolds
       DEF Attach, IInv
  <1>3. RequestTypes'
    BY <1>1 DEF IInv, TypeOK, RequestTypes, servingVars, Handling, Attaching
  <1>4. ServeInv'
    BY <1>1 DEF ServeInv, NeverRefused, Attaching
  <1> QED
    BY <1>2, <1>3, <1>4 DEF IInv, TypeOK

LEMMA StutterHolds ==
    ASSUME IInv, UNCHANGED vars
    PROVE  IInv'
  <1>1. CASE pc \in Handling
    <2>1. Keeps
      BY <1>1, SMTT(30) DEF Keeps, vars, attachVars, IInv, TypeOK, LayoutTypes, RequestTypes
    <2>2. ServeInv'
      BY RequestKept, SMTT(30)
         DEF vars, IInv, ServeInv, NeverRefused, IsResponse, WithIds, IsH2, Path,
             Growing, Whole, AllIds
    <2> QED
      BY <2>1, <2>2, StepKeeps
  <1>2. CASE pc \notin Handling
    <2>1. ServeInv' /\ RequestTypes' /\ LayoutTypes'
      BY <1>2 DEF vars, attachVars, IInv, ServeInv, NeverRefused, Handling, TypeOK,
                  LayoutTypes, RequestTypes
    <2>2. AttachInv'
      BY DEF vars, attachVars, IInv, AttachInv, PlacesInv, ArenaInv, IndexInv,
             Renders, Within, Holds
    <2> QED
      BY <2>1, <2>2 DEF IInv, TypeOK
  <1> QED
    BY <1>1, <1>2

LEMMA StepHolds == IInv /\ [Next]_vars => IInv'
  <1> SUFFICES ASSUME IInv, [Next]_vars PROVE IInv'
    OBVIOUS
  <1>1. CASE Attach
    BY <1>1, AttachHolds
  <1>2. CASE Serve
    BY <1>2, ReceiveHolds, CheckHolds, GrowHolds, GrownHolds, PopHolds,
       CopyWindowHolds, CopiedHolds, WriteSidHolds, StampedHolds, RedirectHolds,
       LeaveHolds DEF Serve
  <1>3. CASE UNCHANGED vars
    BY <1>3, StutterHolds
  <1> QED
    BY <1>1, <1>2, <1>3 DEF Next

LEMMA Always == Spec => []IInv
  BY InitHolds, StepHolds, PTL DEF Spec

-----------------------------------------------------------------------------
(* FastPath::attach (fast_path.rs:203-332): a key of the index leads to    *)
(* the renderings of its own path, whole, for any routes in any order.     *)
THEOREM RoutesLoadedWhole == Spec => []LoadedWhole
  <1>1. ASSUME IInv PROVE LoadedWhole
    <2> SUFFICES ASSUME Attached, NEW k \in DOMAIN route_idx
                 PROVE  LET r == routes[route_idx[k] + 1]
                            at(off, len) == SubSeq(arena, off + 1, off + len)
                        IN  /\ at(r.body_off, r.body_len) = Http1[k[2]]
                            /\ IF Fits(Http2[k[2]])
                               THEN at(r.h2_body_off, r.h2_body_len)
                                      = Http2[k[2]].body
                               ELSE r.h2_body_len = 0
      BY DEF LoadedWhole
    <2>1. pc \in Handling \cup {"idle"}
      BY <1>1 DEF Attached, IInv, TypeOK, LayoutTypes, Attaching
    <2>2. PICK r \in Prepared :
              /\ routes[route_idx[k] + 1] = Route(r)
              /\ k[2] \in Paths /\ r.path = k[2]
              /\ Renders(r) /\ Within(r, 0, arena_len) /\ Holds(r)
      BY <1>1, <2>1, RouteIs DEF IInv
    <2>3. arena \in Seq(Byte) /\ arena_len \in Nat /\ Len(arena) \in Nat
          /\ arena_len <= Len(arena)
      BY <1>1, <2>1, LenProperties
         DEF IInv, TypeOK, LayoutTypes, AttachInv, ArenaInv, Handling
    <2>4. /\ r.body \in Seq(Byte) /\ r.h2.body \in Seq(Byte)
          /\ Len(r.body) \in Nat /\ Len(r.h2.body) \in Nat
          /\ r.body_off \in Nat /\ r.h2.off \in Nat
          /\ r.body_off + Len(r.body) <= Len(arena)
          /\ Len(r.h2.body) = 0 \/ r.h2.off + Len(r.h2.body) <= Len(arena)
      <3>1. /\ r.body_off + Len(r.body) <= arena_len
            /\ \/ Len(r.h2.body) = 0
               \/ r.h2.off + Len(r.h2.body) <= arena_len
        BY <2>2, <2>3, Lies
      <3> QED
        BY <2>2, <2>3, <3>1, Lies, SMTT(30)
    <2>5. SubSeq(arena, r.body_off + 1, r.body_off + Len(r.body)) = Http1[k[2]]
      BY <2>2, <2>3, <2>4, SubSeqIs DEF Holds, Renders
    <2>6. CASE Fits(Http2[k[2]])
      <3>1. r.h2.body = Http2[k[2]].body /\ Len(r.h2.body) # 0
        BY <2>2, <2>6, Renderings DEF Renders
      <3>2. SubSeq(arena, r.h2.off + 1, r.h2.off + Len(r.h2.body)) = r.h2.body
        BY <2>2, <2>3, <2>4, <3>1, SubSeqIs DEF Holds
      <3> QED
        BY <2>2, <2>5, <2>6, <3>1, <3>2 DEF Route
    <2>7. CASE ~Fits(Http2[k[2]])
      <3>1. r.h2.body = <<>> /\ Len(<<>>) = 0
        BY <2>2, <2>7 DEF Renders, None
      <3> QED
        BY <2>2, <2>5, <2>7, <3>1 DEF Route
    <2> QED
      BY <2>6, <2>7
  <1> QED
    BY <1>1, Always, PTL

(* serve_route (fast_path.bpf.c:637-735): what is redirected is the        *)
(* rendering with the stream id in its places, byte for byte, for any      *)
(* length of it and of the request it is written over.                     *)
THEOREM ServedByteForByte == Spec => []ServedAsRendered
  <1>1. ASSUME IInv PROVE ServedAsRendered
    <2> SUFFICES ASSUME pc = "served"
                 PROVE  /\ Len(msg) = Len(Whole)
                        /\ \A i \in DOMAIN Whole :
                              msg[i] = IF IsH2 /\ InSid(i) THEN <<"sid", req.sid>>
                                       ELSE Whole[i]
      BY DEF ServedAsRendered, Whole
    <2>1. IsResponse(AllIds) /\ Servable /\ pc \in Handling
      BY <1>1 DEF IInv, ServeInv, Handling
    <2>2. Path \in Paths /\ Whole \in Seq(Byte)
      BY <1>1, <2>1, ServableIs DEF IInv
    <2>3. DOMAIN Http2[Path].sid_offs = 1 .. AllIds /\ DOMAIN Whole = 1 .. Len(Whole)
      BY <2>2, Renderings, LenProperties DEF AllIds
    <2> QED
      BY <2>1, <2>3 DEF IsResponse, WithIds, InSid
  <1> QED
    BY <1>1, Always, PTL

(* The limits of attach and of serve_route agree: without a failing helper *)
(* no request for a loaded rendering is refused after it was looked up.    *)
THEOREM LimitsAgree == Spec => []NeverRefused
  <1>1. IInv => NeverRefused
    BY DEF IInv, ServeInv
  <1> QED
    BY <1>1, Always, PTL
-----------------------------------------------------------------------------
(* What FlattenSeq returns: its recursive function exists, and each piece  *)
(* is where the lengths of those before it put it.                         *)
Joins(s, n, h) ==
    h = [i \in 1 .. n |-> IF i = 1 THEN s[i] ELSE h[i - 1] \o s[i]]

LEMMA JoinsExists == \A s : \A n \in Nat : \E h : Joins(s, n, h)
  <1> SUFFICES ASSUME NEW s PROVE \A n \in Nat : \E h : Joins(s, n, h)
    OBVIOUS
  <1> DEFINE A == {n \in Nat : \E h : Joins(s, n, h)}
  <1>1. 0 \in A
    <2>1. Joins(s, 0, [i \in 1 .. 0 |-> s])
      BY DEF Joins
    <2> QED
      BY <2>1
  <1>2. ASSUME NEW n \in A PROVE n + 1 \in A
    <2>1. PICK h : Joins(s, n, h)
      OBVIOUS
    <2> DEFINE k == [i \in 1 .. n + 1 |->
                       IF i # n + 1 THEN h[i]
                       ELSE IF i = 1 THEN s[i] ELSE h[n] \o s[i]]
    <2>2. n \in Nat
      OBVIOUS
    <2>3. ASSUME NEW i \in 1 .. n + 1
          PROVE  k[i] = IF i = 1 THEN s[i] ELSE k[i - 1] \o s[i]
      <3>1. i # 1 => i - 1 \in 1 .. n + 1 /\ i - 1 # n + 1
        BY <2>2
      <3>2. CASE i = n + 1
        BY <2>2, <3>1, <3>2
      <3>3. CASE i # n + 1
        <4>1. i \in 1 .. n
          BY <2>2, <3>3
        <4>2. h[i] = IF i = 1 THEN s[i] ELSE h[i - 1] \o s[i]
          BY <2>1, <4>1 DEF Joins
        <4> QED
          BY <3>1, <3>3, <4>2
      <3> QED
        BY <3>2, <3>3
    <2>4. k = [i \in 1 .. n + 1 |-> k[i]]
      OBVIOUS
    <2> HIDE DEF k
    <2>5. Joins(s, n + 1, k)
      BY <2>3, <2>4 DEF Joins
    <2> QED
      BY <2>2, <2>5
  <1> HIDE DEF A
  <1>3. A = Nat
    <2>1. A \subseteq Nat
      BY DEF A
    <2> QED
      BY <1>1, <1>2, <2>1, InductiveSet
  <1> QED
    BY <1>3 DEF A

Join(s) ==
    CHOOSE h : h = [i \in 1 .. Len(s) |->
                      IF i = 1 THEN s[i] ELSE h[i - 1] \o s[i]]

LEMMA FlattenIs ==
    \A s : FlattenSeq(s) = IF Len(s) = 0 THEN s ELSE Join(s)[Len(s)]
  BY Zenon DEF FlattenSeq, Join

LEMMA JoinIs ==
    ASSUME NEW s, Len(s) \in Nat
    PROVE  Joins(s, Len(s), Join(s))
  <1>1. \E h : Joins(s, Len(s), h)
    BY JoinsExists
  <1> QED
    BY <1>1, Zenon DEF Joins, Join

LEMMA JoinAt ==
    ASSUME NEW s, Len(s) \in Nat, NEW i \in 1 .. Len(s)
    PROVE  Join(s)[i] = IF i = 1 THEN s[i] ELSE Join(s)[i - 1] \o s[i]
  <1> DEFINE n == Len(s)
             h == Join(s)
  <1>1. Joins(s, n, h)
    BY JoinIs
  <1> HIDE DEF n, h
  <1>2. h = [j \in 1 .. n |-> IF j = 1 THEN s[j] ELSE h[j - 1] \o s[j]]
    BY <1>1 DEF Joins
  <1>3. i \in 1 .. n
    BY DEF n
  <1>4. h[i] = IF i = 1 THEN s[i] ELSE h[i - 1] \o s[i]
    BY <1>2, <1>3
  <1> QED
    BY <1>4 DEF h

Lengths(s) == [i \in DOMAIN s |-> Len(s[i])]

LEMMA LengthsAre ==
    ASSUME NEW S, NEW s \in Seq(Seq(S))
    PROVE  /\ Len(s) \in Nat /\ DOMAIN s = 1 .. Len(s)
           /\ \A i \in 1 .. Len(s) :
                 s[i] \in Seq(S) /\ Lengths(s)[i] = Len(s[i])
                 /\ Lengths(s)[i] \in Nat
           /\ \A i \in 0 .. Len(s) : SumTo(Lengths(s), i) \in Nat
  <1>1. Len(s) \in Nat /\ DOMAIN s = 1 .. Len(s)
    BY LenProperties
  <1>2. \A i \in 1 .. Len(s) : s[i] \in Seq(S) /\ Lengths(s)[i] = Len(s[i])
                               /\ Lengths(s)[i] \in Nat
    BY <1>1, ElementOfSeq, LenProperties DEF Lengths
  <1> QED
    BY <1>1, <1>2, SumNat

(* The bytes of one sequence, then those of the other.                     *)
LEMMA ConcatIs ==
    ASSUME NEW S, NEW s \in Seq(S), NEW t \in Seq(S)
    PROVE  /\ s \o t \in Seq(S)
           /\ Len(s \o t) = Len(s) + Len(t)
           /\ \A b \in 1 .. Len(s) : (s \o t)[b] = s[b]
           /\ \A b \in 1 .. Len(t) : (s \o t)[Len(s) + b] = t[b]
  BY ConcatProperties, LenProperties

LEMMA InSum ==
    ASSUME NEW p \in Nat, NEW q \in Nat, NEW r \in Nat, NEW l \in Nat,
           q = p + l, q <= r, NEW b \in 1 .. l
    PROVE  p + b \in 1 .. r
  OBVIOUS

(* The first `k` pieces are joined.                                        *)
Joined(s, k) ==
    /\ Len(Join(s)[k]) = SumTo(Lengths(s), k)
    /\ \A i \in 1 .. k : \A b \in 1 .. Len(s[i]) :
          Join(s)[k][SumTo(Lengths(s), i - 1) + b] = s[i][b]

LEMMA JoinedNext ==
    ASSUME NEW S, NEW s \in Seq(Seq(S)), NEW k \in Nat, k + 1 \in 1 .. Len(s),
           k # 0 => Join(s)[k] \in Seq(S) /\ Joined(s, k)
    PROVE  Join(s)[k + 1] \in Seq(S) /\ Joined(s, k + 1)
  <1> DEFINE g == Lengths(s)
             f == Join(s)
  <1>1. /\ Len(s) \in Nat
        /\ \A i \in 1 .. Len(s) : s[i] \in Seq(S) /\ g[i] = Len(s[i])
                                  /\ g[i] \in Nat
        /\ \A i \in 0 .. Len(s) : SumTo(g, i) \in Nat
    BY LengthsAre
  <1>2. f[k + 1] = IF k + 1 = 1 THEN s[k + 1] ELSE f[(k + 1) - 1] \o s[k + 1]
    BY <1>1, JoinAt
  <1>3. SumTo(g, k + 1) = SumTo(g, k) + g[k + 1]
    BY SumNext
  <1>4. /\ s[k + 1] \in Seq(S) /\ g[k + 1] = Len(s[k + 1]) /\ g[k + 1] \in Nat
        /\ SumTo(g, k) \in Nat
    BY <1>1
  <1>5. CASE k = 0
    <2>1. f[1] = s[1] /\ SumTo(g, 1) = Len(s[1])
      BY <1>2, <1>3, <1>4, <1>5, SumNone
    <2>2. ASSUME NEW i \in 1 .. 1, NEW b \in 1 .. Len(s[i])
          PROVE  f[1][SumTo(g, i - 1) + b] = s[i][b]
      <3>1. i = 1 /\ i - 1 = 0
        OBVIOUS
      <3>2. b \in Nat
        BY <1>4, <1>5, <3>1
      <3> QED
        BY <2>1, <3>1, <3>2, SumNone
    <2> QED
      BY <1>4, <1>5, <2>1, <2>2 DEF Joined
  <1>6. CASE k # 0
    <2>1. f[k] \in Seq(S) /\ Len(f[k]) = SumTo(g, k)
          /\ \A i \in 1 .. k : \A b \in 1 .. Len(s[i]) :
                f[k][SumTo(g, i - 1) + b] = s[i][b]
      BY <1>6 DEF Joined
    <2> HIDE DEF f, g
    <2>2. f[k + 1] = f[k] \o s[k + 1]
      <3>1. k + 1 # 1 /\ (k + 1) - 1 = k
        BY <1>6
      <3> QED
        BY <1>2, <3>1
    <2>3. /\ f[k + 1] \in Seq(S)
          /\ Len(f[k + 1]) = SumTo(g, k) + Len(s[k + 1])
          /\ \A b \in 1 .. SumTo(g, k) : f[k + 1][b] = f[k][b]
          /\ \A b \in 1 .. Len(s[k + 1]) :
                f[k + 1][SumTo(g, k) + b] = s[k + 1][b]
      <3>0. f[k] \in Seq(S) /\ s[k + 1] \in Seq(S)
        BY <1>4, <2>1
      <3>1. /\ f[k] \o s[k + 1] \in Seq(S)
            /\ Len(f[k] \o s[k + 1]) = Len(f[k]) + Len(s[k + 1])
            /\ \A b \in 1 .. Len(f[k]) : (f[k] \o s[k + 1])[b] = f[k][b]
            /\ \A b \in 1 .. Len(s[k + 1]) :
                  (f[k] \o s[k + 1])[Len(f[k]) + b] = s[k + 1][b]
        <4> DEFINE a == f[k]
                   c == s[k + 1]
        <4>1. a \in Seq(S) /\ c \in Seq(S)
          BY <3>0
        <4> HIDE DEF a, c
        <4>2. /\ a \o c \in Seq(S)
              /\ Len(a \o c) = Len(a) + Len(c)
              /\ \A b \in 1 .. Len(a) : (a \o c)[b] = a[b]
              /\ \A b \in 1 .. Len(c) : (a \o c)[Len(a) + b] = c[b]
          BY <4>1, ConcatIs
        <4> QED
          BY <4>2 DEF a, c
      <3>2. Len(f[k]) = SumTo(g, k)
        BY <2>1
      <3> QED
        BY <2>2, <3>1, <3>2
    <2>4. ASSUME NEW i \in 1 .. k + 1, NEW b \in 1 .. Len(s[i])
          PROVE  f[k + 1][SumTo(g, i - 1) + b] = s[i][b]
      <3>1. CASE i = k + 1
        <4>1. i - 1 = k
          BY <3>1
        <4> QED
          BY <2>3, <3>1, <4>1
      <3>2. CASE i # k + 1
        <4>1. i \in 1 .. k /\ i \in 1 .. Len(s) /\ i - 1 \in Nat
              /\ i \in 0 .. Len(s) /\ i - 1 \in 0 .. Len(s)
              /\ k \in i .. Len(s) /\ (i - 1) + 1 = i
          BY <1>1, <3>2
        <4>2. SumTo(g, i) <= SumTo(g, k)
          BY <1>1, <4>1, SumGrows
        <4>3. SumTo(g, (i - 1) + 1) = SumTo(g, i - 1) + g[(i - 1) + 1]
          BY <4>1, SumNext
        <4>4. SumTo(g, i - 1) \in Nat /\ SumTo(g, i) \in Nat
              /\ SumTo(g, i) = SumTo(g, i - 1) + Len(s[i]) /\ Len(s[i]) \in Nat
          BY <1>1, <4>1, <4>3
        <4>5. SumTo(g, i - 1) + b \in 1 .. SumTo(g, k)
          BY <1>4, <4>2, <4>4, InSum
        <4> QED
          BY <2>1, <2>3, <4>1, <4>5
      <3> QED
        BY <3>1, <3>2
    <2>5. Len(f[k + 1]) = SumTo(g, k + 1)
      BY <1>3, <1>4, <2>3
    <2> QED
      BY <2>3, <2>4, <2>5 DEF f, g, Joined
  <1> QED
    BY <1>5, <1>6

LEMMA Flat ==
    ASSUME NEW S, NEW s \in Seq(Seq(S))
    PROVE  /\ FlattenSeq(s) \in Seq(S)
           /\ Len(FlattenSeq(s)) = SumTo(Lengths(s), Len(s))
           /\ \A i \in 1 .. Len(s) : \A b \in 1 .. Len(s[i]) :
                 FlattenSeq(s)[SumTo(Lengths(s), i - 1) + b] = s[i][b]
  <1> DEFINE Done(k) == Join(s)[k] \in Seq(S) /\ Joined(s, k)
             A == {k \in Nat : k <= Len(s) /\ k # 0 => Done(k)}
  <1>1. Len(s) \in Nat
    BY LengthsAre
  <1>2. 0 \in A
    OBVIOUS
  <1>3. ASSUME NEW k \in A PROVE k + 1 \in A
    <2> SUFFICES ASSUME k + 1 <= Len(s) PROVE Done(k + 1)
      OBVIOUS
    <2>1. k \in Nat /\ k + 1 \in 1 .. Len(s) /\ k <= Len(s)
      BY <1>1
    <2>2. k # 0 => Done(k)
      BY <2>1
    <2> QED
      BY <2>1, <2>2, JoinedNext
  <1> HIDE DEF A
  <1>4. A = Nat
    <2>1. A \subseteq Nat
      BY DEF A
    <2> QED
      BY <1>2, <1>3, <2>1, InductiveSet
  <1>5. CASE Len(s) = 0
    <2>1. s = <<>> /\ FlattenSeq(s) = s
      BY <1>5, FlattenIs, EmptySeq
    <2>2. FlattenSeq(s) \in Seq(S) /\ Len(FlattenSeq(s)) = 0
      BY <2>1, EmptySeq
    <2>3. SumTo(Lengths(s), Len(s)) = 0
      BY <1>5, SumNone
    <2> QED
      BY <1>5, <2>2, <2>3
  <1>6. CASE Len(s) # 0
    <2>1. Done(Len(s))
      BY <1>1, <1>4, <1>6 DEF A
    <2>2. FlattenSeq(s) = Join(s)[Len(s)]
      BY <1>6, FlattenIs
    <2> QED
      BY <2>1, <2>2 DEF Joined
  <1> QED
    BY <1>5, <1>6

-----------------------------------------------------------------------------
(* What ReadFrames returns: its recursive function exists, as each frame   *)
(* it reads is behind the one before.                                      *)
FromHere(s, h, k) ==
    IF k > Len(s) THEN <<>>
    ELSE IF ~IsFrame(s, k) THEN <<Unread>>
    ELSE <<FrameAt(s, k)>> \o h[k + 9 + s[k][2]]

Reading(s) ==
    CHOOSE h : h = [k \in 1 .. Len(s) + 1 |->
                      IF k > Len(s) THEN <<>>
                      ELSE IF ~IsFrame(s, k) THEN <<Unread>>
                      ELSE <<FrameAt(s, k)>> \o h[k + 9 + s[k][2]]]

LEMMA ReadFramesIs == \A s : ReadFrames(s) = Reading(s)[1]
  BY Zenon DEF ReadFrames, Reading

(* Lengths are numbers, wherever one is read.                              *)
Readable(s) ==
    Len(s) \in Nat /\ \A k \in 1 .. Len(s) : s[k][1] = "length" => s[k][2] \in Nat

LEMMA FromHereOnly ==
    ASSUME NEW s, Readable(s), NEW g, NEW h, NEW k \in 1 .. Len(s) + 1,
           \A j \in k + 1 .. Len(s) + 1 : g[j] = h[j]
    PROVE  FromHere(s, g, k) = FromHere(s, h, k)
  <1>1. CASE k > Len(s) \/ ~IsFrame(s, k)
    BY <1>1 DEF FromHere
  <1>2. CASE k <= Len(s) /\ IsFrame(s, k)
    <2>1. Len(s) \in Nat /\ k \in 1 .. Len(s)
      BY <1>2 DEF Readable
    <2>2. s[k][2] \in Nat /\ k + 8 + s[k][2] <= Len(s)
      BY <1>2, <2>1 DEF Readable, IsFrame
    <2>3. k + 9 + s[k][2] \in k + 1 .. Len(s) + 1
      BY <2>1, <2>2
    <2>4. g[k + 9 + s[k][2]] = h[k + 9 + s[k][2]]
      BY <2>3
    <2> QED
      BY <2>4 DEF FromHere
  <1>3. Len(s) \in Nat
    BY DEF Readable
  <1> QED
    BY <1>1, <1>2, <1>3

(* The last `n` positions.                                                 *)
ReadsLast(s, n, h) ==
    \A k \in Len(s) + 1 - n .. Len(s) + 1 : h[k] = FromHere(s, h, k)

LEMMA ReadsLastExists ==
    ASSUME NEW s, Readable(s)
    PROVE  \A n \in 0 .. Len(s) : \E h : ReadsLast(s, n, h)
  <1> DEFINE A == {n \in Nat : n <= Len(s) => \E h : ReadsLast(s, n, h)}
  <1>1. Len(s) \in Nat
    BY DEF Readable
  <1>2. 0 \in A
    <2> DEFINE h == [k \in {Len(s) + 1} |-> <<>>]
    <2>1. ASSUME NEW k \in Len(s) + 1 - 0 .. Len(s) + 1
          PROVE  h[k] = FromHere(s, h, k)
      <3>1. k = Len(s) + 1 /\ k > Len(s)
        BY <1>1
      <3> QED
        BY <3>1 DEF FromHere
    <2> HIDE DEF h
    <2>2. ReadsLast(s, 0, h)
      BY <2>1 DEF ReadsLast
    <2> QED
      BY <2>2
  <1>3. ASSUME NEW n \in A PROVE n + 1 \in A
    <2> SUFFICES ASSUME n + 1 <= Len(s) PROVE \E h : ReadsLast(s, n + 1, h)
      OBVIOUS
    <2>1. n \in Nat /\ n <= Len(s)
      BY <1>1
    <2>2. PICK h : ReadsLast(s, n, h)
      BY <2>1
    <2> DEFINE m == Len(s) - n
               g == [k \in m .. Len(s) + 1 |->
                       IF k = m THEN FromHere(s, h, m) ELSE h[k]]
    <2>3. /\ m \in 1 .. Len(s) + 1 /\ Len(s) + 1 - (n + 1) = m
          /\ Len(s) + 1 - n = m + 1
      BY <1>1, <2>1
    <2> HIDE DEF m
    <2>4. \A k \in m + 1 .. Len(s) + 1 : g[k] = h[k]
      BY <1>1, <2>3
    <2>5. ASSUME NEW k \in m .. Len(s) + 1
          PROVE  g[k] = FromHere(s, g, k)
      <3>1. /\ k \in 1 .. Len(s) + 1
            /\ \A j \in k + 1 .. Len(s) + 1 : j \in m + 1 .. Len(s) + 1
        BY <1>1, <2>3
      <3>2. \A j \in k + 1 .. Len(s) + 1 : g[j] = h[j]
        BY <2>4, <3>1
      <3>3. g[k] = IF k = m THEN FromHere(s, h, m) ELSE h[k]
        OBVIOUS
      <3> HIDE DEF g
      <3>4. FromHere(s, g, k) = FromHere(s, h, k)
        BY <3>1, <3>2, FromHereOnly
      <3>5. k # m => h[k] = FromHere(s, h, k)
        <4>1. k # m => k \in m + 1 .. Len(s) + 1
          BY <1>1, <2>3
        <4> QED
          BY <2>2, <2>3, <4>1 DEF ReadsLast
      <3> QED
        BY <3>3, <3>4, <3>5
    <2> HIDE DEF g
    <2>6. ReadsLast(s, n + 1, g)
      BY <2>3, <2>5 DEF ReadsLast
    <2> QED
      BY <2>6
  <1> HIDE DEF A
  <1>4. A = Nat
    <2>1. A \subseteq Nat
      BY DEF A
    <2> QED
      BY <1>2, <1>3, <2>1, InductiveSet
  <1> QED
    BY <1>1, <1>4 DEF A

LEMMA ReadingIs ==
    ASSUME NEW s, Readable(s), NEW k \in 1 .. Len(s) + 1
    PROVE  Reading(s)[k] = FromHere(s, Reading(s), k)
  <1>1. Len(s) \in Nat /\ Len(s) \in 0 .. Len(s) /\ Len(s) + 1 - Len(s) = 1
    BY DEF Readable
  <1>2. PICK h : ReadsLast(s, Len(s), h)
    BY <1>1, ReadsLastExists
  <1> DEFINE g == [j \in 1 .. Len(s) + 1 |-> h[j]]
  <1>3. \A j \in 1 .. Len(s) + 1 : h[j] = FromHere(s, h, j)
    BY <1>1, <1>2 DEF ReadsLast
  <1>4. \A j \in 1 .. Len(s) + 1 : g[j] = h[j]
    OBVIOUS
  <1>5. g = [j \in 1 .. Len(s) + 1 |-> g[j]]
    OBVIOUS
  <1> HIDE DEF g
  <1>6. ASSUME NEW j \in 1 .. Len(s) + 1
        PROVE  g[j] = FromHere(s, g, j)
    <2>1. \A i \in j + 1 .. Len(s) + 1 : g[i] = h[i]
      BY <1>1, <1>4
    <2>2. FromHere(s, g, j) = FromHere(s, h, j)
      BY <2>1, FromHereOnly
    <2> QED
      BY <1>3, <1>4, <2>2
  <1>7. g = [j \in 1 .. Len(s) + 1 |-> FromHere(s, g, j)]
    BY <1>5, <1>6
  <1> DEFINE r == Reading(s)
  <1>8. r = [j \in 1 .. Len(s) + 1 |-> FromHere(s, r, j)]
    BY <1>7, Zenon DEF Reading, FromHere
  <1> HIDE DEF r
  <1>9. r[k] = FromHere(s, r, k)
    BY <1>8
  <1> QED
    BY <1>9 DEF r

-----------------------------------------------------------------------------
(* `s` is `n` frames of the lengths `g`, one behind the other, which read  *)
(* as the records `r`.                                                     *)
Framed(s, n, g, r) ==
    /\ Readable(s)
    /\ n \in Nat
    /\ Len(s) = SumTo(g, n)
    /\ \A i \in 1 .. n :
          /\ g[i] \in Nat /\ g[i] >= 9
          /\ s[SumTo(g, i - 1) + 1] = <<"length", g[i] - 9>>
          /\ FrameAt(s, SumTo(g, i - 1) + 1) = r[i]

(* The `m` records behind the `j`th.                                       *)
Behind(r, j, m) == [i \in 1 .. m |-> r[j + i]]

LEMMA OneMore ==
    ASSUME NEW r, NEW j \in Nat, NEW m \in Nat
    PROVE  <<r[j]>> \o Behind(r, j, m) = Behind(r, j - 1, m + 1)
  <1> DEFINE S == {r[j + i] : i \in Int}
             a == <<r[j]>>
             c == [i \in 1 .. m |-> r[j + i]]
             d == [i \in 1 .. m + 1 |-> r[j - 1 + i]]
  <1>1. r[j + 0] \in S /\ j + 0 = j
    OBVIOUS
  <1>2. a \in Seq(S) /\ Len(a) = 1 /\ a[1] = r[j]
    <2>1. r[j] \in S
      BY <1>1
    <2> HIDE DEF S
    <2> QED
      BY <2>1
  <1>3. \A i \in 1 .. m : c[i] \in S /\ c[i] = r[j + i]
    OBVIOUS
  <1>4. c \in Seq(S) /\ Len(c) = m
    BY <1>3, IsASeq
  <1>5. /\ a \o c \in Seq(S)
        /\ Len(a \o c) = 1 + m
        /\ (a \o c)[1] = a[1]
        /\ \A b \in 1 .. m : (a \o c)[1 + b] = c[b]
    <2> HIDE DEF a, c, S
    <2> QED
      BY <1>2, <1>4, ConcatIs
  <1>6. ASSUME NEW i \in 1 .. m + 1
        PROVE  (a \o c)[i] = d[i]
    <2>1. d[i] = r[j - 1 + i]
      OBVIOUS
    <2> HIDE DEF a, c, S, d
    <2>2. CASE i = 1
      <3>1. j - 1 + 1 = j
        OBVIOUS
      <3> QED
        BY <1>2, <1>5, <2>1, <2>2, <3>1
    <2>3. CASE i # 1
      <3>1. i - 1 \in 1 .. m /\ 1 + (i - 1) = i /\ j + (i - 1) = j - 1 + i
        BY <2>3
      <3> QED
        BY <1>3, <1>5, <2>1, <3>1
    <2> QED
      BY <2>2, <2>3
  <1>7. d = [i \in 1 .. m + 1 |-> d[i]]
    OBVIOUS
  <1>8. a \o c = [i \in 1 .. m + 1 |-> (a \o c)[i]]
    <2> HIDE DEF a, c, S
    <2>1. Len(a \o c) = m + 1
      BY <1>5
    <2> QED
      BY <1>5, <2>1, LenProperties
  <1> HIDE DEF a, c, S, d
  <1>9. a \o c = d
    BY <1>6, <1>7, <1>8
  <1> QED
    BY <1>9 DEF a, c, d, Behind

(* From `m` frames before the end on.                                      *)
ReadsFrom(s, n, g, r, m) ==
    m <= n => Reading(s)[SumTo(g, n - m) + 1] = Behind(r, n - m, m)

LEMMA InFrame ==
    ASSUME NEW p \in Nat, NEW q \in Nat, NEW l \in Nat, NEW n \in Nat,
           l >= 9, q = p + l, q <= n
    PROVE  /\ p + 1 \in 1 .. n + 1 /\ ~(p + 1 > n)
           /\ (p + 1) + 8 <= n
           /\ (p + 1) + 8 + (l - 9) <= n
           /\ (p + 1) + 9 + (l - 9) = q + 1
  OBVIOUS

LEMMA ReadsBack ==
    ASSUME NEW s, NEW n, NEW g, NEW r, Framed(s, n, g, r)
    PROVE  ReadFrames(s) = [i \in 1 .. n |-> r[i]]
  <1> DEFINE A == {m \in Nat : ReadsFrom(s, n, g, r, m)}
  <1>1. /\ n \in Nat /\ Len(s) = SumTo(g, n) /\ Readable(s) /\ Len(s) \in Nat
        /\ \A i \in 1 .. n : g[i] \in Nat /\ g[i] >= 9
        /\ \A i \in 0 .. n : SumTo(g, i) \in Nat
    BY SumNat DEF Framed, Readable
  <1>2. 0 \in A
    <2>1. n - 0 = n /\ Len(s) + 1 \in 1 .. Len(s) + 1 /\ Len(s) + 1 > Len(s)
      BY <1>1
    <2>2. Reading(s)[Len(s) + 1] = FromHere(s, Reading(s), Len(s) + 1)
      BY <1>1, <2>1, ReadingIs
    <2>3. Reading(s)[SumTo(g, n - 0) + 1] = <<>>
      BY <1>1, <2>1, <2>2 DEF FromHere
    <2>4. <<>> = Behind(r, n - 0, 0)
      BY DEF Behind
    <2> QED
      BY <2>3, <2>4 DEF ReadsFrom
  <1>3. ASSUME NEW m \in A PROVE m + 1 \in A
    <2> SUFFICES ASSUME m + 1 <= n
                 PROVE  Reading(s)[SumTo(g, n - (m + 1)) + 1]
                          = Behind(r, n - (m + 1), m + 1)
      BY DEF ReadsFrom
    <2>0. m \in Nat /\ ReadsFrom(s, n, g, r, m)
      OBVIOUS
    <2> DEFINE j == n - m
               p == SumTo(g, j - 1)
    <2>1. /\ m \in Nat /\ j \in 1 .. n /\ j - 1 \in 0 .. n /\ j \in 0 .. n
          /\ n - (m + 1) = j - 1 /\ j - 1 \in Nat /\ (j - 1) + 1 = j
          /\ n \in j .. n /\ j \in Nat
      BY <1>1, <2>0
    <2>2. Reading(s)[SumTo(g, j) + 1] = Behind(r, j, m)
      BY <1>1, <2>0 DEF ReadsFrom
    <2> HIDE DEF j
    <2>3. SumTo(g, j) = p + g[j] /\ p \in Nat /\ SumTo(g, j) \in Nat
          /\ g[j] \in Nat /\ g[j] >= 9 /\ SumTo(g, j) <= Len(s)
      <3>1. SumTo(g, (j - 1) + 1) = SumTo(g, j - 1) + g[(j - 1) + 1]
        BY <2>1, SumNext
      <3>2. SumTo(g, j) <= SumTo(g, n)
        BY <1>1, <2>1, SumGrows
      <3> QED
        BY <1>1, <2>1, <3>1, <3>2
    <2>4. s[p + 1] = <<"length", g[j] - 9>> /\ FrameAt(s, p + 1) = r[j]
      BY <2>1 DEF Framed
    <2> HIDE DEF p
    <2>5. s[p + 1][1] = "length" /\ s[p + 1][2] = g[j] - 9
      BY <2>4
    <2>6. /\ p + 1 \in 1 .. Len(s) + 1 /\ ~(p + 1 > Len(s))
          /\ (p + 1) + 8 <= Len(s)
          /\ (p + 1) + 8 + (g[j] - 9) <= Len(s)
          /\ (p + 1) + 9 + (g[j] - 9) = SumTo(g, j) + 1
      <3> DEFINE q == SumTo(g, j)
                 l == g[j]
                 z == Len(s)
      <3>1. p \in Nat /\ q \in Nat /\ l \in Nat /\ z \in Nat
            /\ l >= 9 /\ q = p + l /\ q <= z
        BY <1>1, <2>3
      <3> HIDE DEF q, l, z
      <3>2. /\ p + 1 \in 1 .. z + 1 /\ ~(p + 1 > z)
            /\ (p + 1) + 8 <= z
            /\ (p + 1) + 8 + (l - 9) <= z
            /\ (p + 1) + 9 + (l - 9) = q + 1
        BY <3>1, InFrame
      <3> QED
        BY <3>2 DEF q, l, z
    <2>7. IsFrame(s, p + 1)
      BY <2>5, <2>6 DEF IsFrame
    <2>8. Reading(s)[p + 1] = FromHere(s, Reading(s), p + 1)
      BY <1>1, <2>6, ReadingIs
    <2>9. Reading(s)[p + 1] = <<r[j]>> \o Behind(r, j, m)
      BY <2>2, <2>4, <2>5, <2>6, <2>7, <2>8 DEF FromHere
    <2>10. <<r[j]>> \o Behind(r, j, m) = Behind(r, j - 1, m + 1)
      BY <2>1, OneMore
    <2> QED
      BY <2>1, <2>9, <2>10 DEF p
  <1> HIDE DEF A
  <1>4. A = Nat
    <2>1. A \subseteq Nat
      BY DEF A
    <2> QED
      BY <1>2, <1>3, <2>1, InductiveSet
  <1>5. Reading(s)[SumTo(g, n - n) + 1] = Behind(r, n - n, n)
    <2>1. n <= n /\ ReadsFrom(s, n, g, r, n)
      BY <1>1, <1>4 DEF A
    <2> QED
      BY <2>1 DEF ReadsFrom
  <1>6. n - n = 0 /\ \A i \in 1 .. n : n - n + i = i
    BY <1>1
  <1>7. Reading(s)[1] = [i \in 1 .. n |-> r[i]]
    <2>1. SumTo(g, n - n) + 1 = 1
      BY <1>6, SumNone
    <2>2. Behind(r, n - n, n) = [i \in 1 .. n |-> r[i]]
      BY <1>6 DEF Behind
    <2> QED
      BY <1>5, <2>1, <2>2, Zenon
  <1> QED
    BY <1>7, ReadFramesIs

-----------------------------------------------------------------------------
(* A frame as the code renders it: nine bytes, then the payload.           *)
Headings == {"length", "kind", "flags", "sid", "status", "content-length"} \X Nat

FrameOf(f, kind, flags, payload) ==
    /\ Len(f) = 9 + Len(payload)
    /\ f[1] = <<"length", Len(payload)>>
    /\ f[4] = <<"kind", kind>>
    /\ f[5] = <<"flags", flags>>
    /\ \A b \in 1 .. Len(payload) : f[9 + b] = payload[b]

(* The `k` elements of `s`, then the `n` of `t`.                           *)
Abut(S, u, s, t, k, n) ==
    /\ u \in Seq(S)
    /\ Len(u) = k + n
    /\ \A b \in 1 .. k : u[b] = s[b]
    /\ \A b \in 1 .. n : u[k + b] = t[b]

LEMMA ConcatAbut ==
    ASSUME NEW S, NEW s \in Seq(S), NEW t \in Seq(S)
    PROVE  Abut(S, s \o t, s, t, Len(s), Len(t))
  BY ConcatIs DEF Abut

LEMMA ConcatAt ==
    ASSUME NEW S, NEW s \in Seq(S), NEW t \in Seq(S), NEW k, NEW n,
           Len(s) = k, Len(t) = n
    PROVE  \E u : u = s \o t /\ Abut(S, u, s, t, k, n)
  <1>1. Abut(S, s \o t, s, t, Len(s), Len(t))
    BY ConcatAbut
  <1> QED
    BY <1>1

LEMMA H2FrameIs ==
    ASSUME NEW T, Headings \subseteq T, NEW kind \in Nat, NEW flags \in Nat,
           NEW payload \in Seq(T)
    PROVE  /\ H2Frame(kind, flags, payload) \in Seq(T)
           /\ FrameOf(H2Frame(kind, flags, payload), kind, flags, payload)
  <1> DEFINE l == Len(payload)
             a == [i \in 1 .. 3 |-> <<"length", l>>]
             c == <<<<"kind", kind>>, <<"flags", flags>>>>
             d == [i \in 1 .. 4 |-> <<"sid", 0>>]
             f == H2Frame(kind, flags, payload)
  <1>1. l \in Nat
    BY LenProperties
  <1>2. /\ <<"length", l>> \in T /\ <<"kind", kind>> \in T
        /\ <<"flags", flags>> \in T /\ <<"sid", 0>> \in T
    BY <1>1 DEF Headings
  <1>3. a \in Seq(T) /\ Len(a) = 3 /\ a[1] = <<"length", l>>
    <2> HIDE DEF l
    <2>1. \A i \in 1 .. 3 : a[i] \in T
      BY <1>2
    <2>2. a \in Seq(T) /\ Len(a) = 3
      BY <1>2, IsASeq
    <2> QED
      BY <2>2
  <1>4. c \in Seq(T) /\ Len(c) = 2 /\ c[1] = <<"kind", kind>>
        /\ c[2] = <<"flags", flags>>
    BY <1>2
  <1>5. d \in Seq(T) /\ Len(d) = 4
    BY <1>2, IsASeq
  <1>6. f = ((a \o c) \o d) \o payload
    BY DEF H2Frame
  <1> HIDE DEF a, c, d, f
  <1>7. PICK e : e = a \o c /\ Abut(T, e, a, c, 3, 2)
    BY <1>3, <1>4, ConcatAt
  <1>8. /\ e[1] = a[1] /\ e[3 + 1] = c[1] /\ e[3 + 2] = c[2]
        /\ e \in Seq(T) /\ Len(e) = 5
    BY <1>7 DEF Abut
  <1>9. PICK h : h = e \o d /\ Abut(T, h, e, d, 5, 4)
    BY <1>5, <1>8, ConcatAt
  <1>10. h[1] = <<"length", l>> /\ h[4] = <<"kind", kind>>
         /\ h[5] = <<"flags", flags>> /\ h \in Seq(T) /\ Len(h) = 9
    <2>1. Abut(T, h, e, d, 5, 4)
      BY <1>9
    <2>2. h[1] = e[1] /\ h[4] = e[4] /\ h[5] = e[5]
          /\ h \in Seq(T) /\ Len(h) = 9
      BY <2>1 DEF Abut
    <2> QED
      BY <1>3, <1>4, <1>8, <2>2
  <1>11. Len(payload) = l
    OBVIOUS
  <1> HIDE DEF l
  <1>12. PICK k : k = h \o payload /\ Abut(T, k, h, payload, 9, l)
    BY <1>10, <1>11, ConcatAt
  <1>13. f = k
    BY <1>6, <1>7, <1>9, <1>12
  <1>14. /\ f \in Seq(T) /\ Len(f) = 9 + l
         /\ f[1] = <<"length", l>> /\ f[4] = <<"kind", kind>>
         /\ f[5] = <<"flags", flags>>
         /\ \A b \in 1 .. l : f[9 + b] = payload[b]
    <2>1. Abut(T, k, h, payload, 9, l)
      BY <1>12
    <2>2. k[1] = h[1] /\ k[4] = h[4] /\ k[5] = h[5]
      BY <2>1 DEF Abut
    <2> QED
      BY <1>10, <1>13, <2>1, <2>2 DEF Abut
  <1> QED
    BY <1>11, <1>14 DEF f, FrameOf

-----------------------------------------------------------------------------
(* The pieces of a body: each of at most a frame's payload, and the body   *)
(* when they are joined.                                                   *)
Upto(i, m, n) == Min({i * m, n})

LEMMA LeastIs ==
    ASSUME NEW m \in Nat, NEW n \in Nat
    PROVE  /\ Min({m, n}) \in Nat
           /\ m <= n => Min({m, n}) = m
           /\ n <= m => Min({m, n}) = n
  <1> DEFINE P(x) == x \in {m, n} /\ \A y \in {m, n} : x <= y
  <1>1. \E x : P(x)
    <2>1. P(m) \/ P(n)
      OBVIOUS
    <2> QED
      BY <2>1
  <1>2. Min({m, n}) = CHOOSE x \in {m, n} : \A y \in {m, n} : x <= y
    BY DEF Min
  <1>3. P(Min({m, n}))
    BY <1>1, <1>2, Zenon
  <1> QED
    BY <1>3

LEMMA PiecesCount ==
    ASSUME NEW l \in Nat \ {0}, NEW m \in Nat \ {0}
    PROVE  /\ Ceil(l, m) \in Nat \ {0}
           /\ Ceil(l, m) * m \in Nat /\ l <= Ceil(l, m) * m
           /\ Ceil(l, m) * m < l + m
  <1> DEFINE n == Ceil(l, m)
  <1>1. l + m - 1 \in Nat
    OBVIOUS
  <1>2. n \in Nat /\ n * m \in Nat /\ n * m <= l + m - 1 /\ l + m - 1 < n * m + m
    BY <1>1, Quotient DEF Ceil
  <1> HIDE DEF n
  <1> DEFINE q == n * m
  <1>3. n = 0 => q = 0
    OBVIOUS
  <1>4. q \in Nat /\ q <= l + m - 1 /\ l + m - 1 < q + m
    BY <1>2
  <1> HIDE DEF q
  <1>5. l <= q /\ q < l + m /\ n # 0
    BY <1>3, <1>4
  <1> QED
    BY <1>2, <1>5 DEF n, q

(* The `i`th of the pieces of a body of `l` bytes.                         *)
LEMMA PieceEnds ==
    ASSUME NEW l \in Nat \ {0}, NEW m \in Nat \ {0},
           NEW i \in 1 .. Ceil(l, m)
    PROVE  /\ i - 1 \in Nat /\ (i - 1) * m \in Nat
           /\ Upto(i - 1, m, l) = (i - 1) * m
           /\ Upto(i, m, l) \in Nat /\ Upto(i, m, l) <= l
           /\ (i - 1) * m <= Upto(i, m, l)
           /\ Upto(i, m, l) <= (i - 1) * m + m
  <1> DEFINE n == Ceil(l, m)
             p == (i - 1) * m
             q == i * m
             e == (n - 1) * m
             z == n * m
  <1>1. n \in Nat \ {0} /\ z \in Nat /\ l <= z /\ z < l + m
    BY PiecesCount
  <1>2. i \in Nat /\ i - 1 \in Nat /\ n - 1 \in Nat /\ i - 1 <= n - 1
    BY <1>1
  <1> HIDE DEF n
  <1>3. ((i - 1) + 1) * m = p + m /\ p \in Nat
    BY <1>2, Distribute
  <1>4. ((n - 1) + 1) * m = e + m /\ e \in Nat
    BY <1>2, Distribute
  <1>5. p <= e
    BY <1>2, Monotone
  <1>6. (i - 1) + 1 = i /\ (n - 1) + 1 = n
    BY <1>1, <1>2
  <1>7. q = p + m /\ z = e + m
    BY <1>3, <1>4, <1>6
  <1> HIDE DEF p, q, e, z
  <1>8. p <= l /\ p \in Nat /\ q \in Nat /\ q = p + m
    BY <1>1, <1>3, <1>4, <1>5, <1>7
  <1>9. Min({p, l}) = p /\ Min({q, l}) \in Nat
        /\ (q <= l => Min({q, l}) = q) /\ (l <= q => Min({q, l}) = l)
    BY <1>8, LeastIs
  <1>10. Min({q, l}) <= l /\ p <= Min({q, l}) /\ Min({q, l}) <= p + m
    BY <1>8, <1>9
  <1> QED
    BY <1>2, <1>8, <1>9, <1>10 DEF p, q, Upto

(* Piece `i` of `s`: what is behind the pieces before it.                  *)
Piece(s, i) ==
    SubSeq(s, (i - 1) * MaxFrameSize + 1, Min({i * MaxFrameSize, Len(s)}))

LEMMA StretchIs ==
    ASSUME NEW T, NEW s \in Seq(T), NEW p \in Nat, NEW u \in Nat,
           p <= u, u <= Len(s)
    PROVE  /\ SubSeq(s, p + 1, u) \in Seq(T)
           /\ Len(SubSeq(s, p + 1, u)) = u - p
           /\ \A b \in 1 .. u - p : SubSeq(s, p + 1, u)[b] = s[p + b]
  <1>1. Len(s) \in Nat /\ \A b \in 1 .. Len(s) : s[b] \in T
    BY LenProperties, ElementOfSeq
  <1> DEFINE k == u - p
             c == [b \in 1 .. k |-> s[p + b]]
  <1>2. k \in Nat /\ \A b \in 1 .. k : p + b \in 1 .. Len(s)
    BY <1>1
  <1>3. SubSeq(s, p + 1, u) = c
    BY <1>1, SMTT(30)
  <1> HIDE DEF k
  <1>4. \A b \in 1 .. k : c[b] = s[p + b] /\ c[b] \in T
    BY <1>1, <1>2
  <1> HIDE DEF c
  <1>5. c \in Seq(T) /\ Len(c) = k
    <2>1. c = [b \in 1 .. k |-> c[b]]
      BY DEF c
    <2> QED
      BY <1>2, <1>4, <2>1, IsASeq
  <1> QED
    BY <1>3, <1>4, <1>5 DEF k

LEMMA PieceIs ==
    ASSUME NEW T, NEW s \in Seq(T), Len(s) # 0,
           NEW i \in 1 .. Ceil(Len(s), MaxFrameSize)
    PROVE  /\ Piece(s, i) \in Seq(T)
           /\ Len(Piece(s, i)) <= MaxFrameSize
           /\ Len(Piece(s, i))
                = Upto(i, MaxFrameSize, Len(s)) - (i - 1) * MaxFrameSize
           /\ \A b \in 1 .. Len(Piece(s, i)) :
                 Piece(s, i)[b] = s[(i - 1) * MaxFrameSize + b]
  <1> DEFINE m == MaxFrameSize
             l == Len(s)
             p == (i - 1) * m
             u == Upto(i, m, l)
  <1>1. m \in Nat \ {0} /\ l \in Nat \ {0}
    BY AnswerAssumption, LenProperties
  <1>2. p \in Nat /\ u \in Nat /\ u <= l /\ p <= u /\ u <= p + m
    BY <1>1, PieceEnds
  <1>3. Piece(s, i) = SubSeq(s, p + 1, u)
    BY DEF Piece, Upto
  <1> HIDE DEF m, l, p, u
  <1>4. /\ SubSeq(s, p + 1, u) \in Seq(T)
        /\ Len(SubSeq(s, p + 1, u)) = u - p
        /\ \A b \in 1 .. u - p : SubSeq(s, p + 1, u)[b] = s[p + b]
    <2>1. u <= Len(s)
      BY <1>2 DEF l
    <2> QED
      BY <1>2, <2>1, StretchIs
  <1>5. u - p <= m
    BY <1>1, <1>2
  <1> QED
    BY <1>3, <1>4, <1>5 DEF m, l, p, u

LEMMA ChunksEnd ==
    ASSUME NEW T, NEW s \in Seq(T), Len(s) # 0, NEW g,
           \A i \in 1 .. Ceil(Len(s), MaxFrameSize) : g[i] = Len(Piece(s, i))
    PROVE  \A i \in 0 .. Ceil(Len(s), MaxFrameSize) :
              SumTo(g, i) = Upto(i, MaxFrameSize, Len(s))
  <1> DEFINE m == MaxFrameSize
             l == Len(s)
             n == Ceil(l, m)
             A == {i \in Nat : i <= n => SumTo(g, i) = Upto(i, m, l)}
  <1>1. m \in Nat \ {0} /\ l \in Nat \ {0}
    BY AnswerAssumption, LenProperties
  <1>2. n \in Nat
    BY <1>1, PiecesCount
  <1>3. 0 \in A
    <2>1. 0 * m = 0 /\ 0 <= l
      BY <1>1
    <2>2. Upto(0, m, l) = 0
      BY <1>1, <2>1, LeastIs DEF Upto
    <2> QED
      BY <2>2, SumNone
  <1>4. ASSUME NEW i \in A PROVE i + 1 \in A
    <2> SUFFICES ASSUME i + 1 <= n PROVE SumTo(g, i + 1) = Upto(i + 1, m, l)
      OBVIOUS
    <2>1. i \in Nat /\ i <= n /\ i + 1 \in 1 .. n /\ (i + 1) - 1 = i
      BY <1>2
    <2>2. SumTo(g, i) = Upto(i, m, l)
      BY <2>1
    <2>3. /\ Upto(i, m, l) = i * m /\ i * m \in Nat
          /\ Upto(i + 1, m, l) \in Nat
      BY <1>1, <2>1, PieceEnds
    <2>4. g[i + 1] = Upto(i + 1, m, l) - i * m
      BY <2>1, PieceIs
    <2>5. SumTo(g, i + 1) = SumTo(g, i) + g[i + 1]
      BY <2>1, SumNext
    <2> QED
      BY <2>2, <2>3, <2>4, <2>5
  <1> HIDE DEF A
  <1>5. A = Nat
    <2>1. A \subseteq Nat
      BY DEF A
    <2> QED
      BY <1>3, <1>4, <2>1, InductiveSet
  <1>6. \A i \in 0 .. n : i \in Nat /\ i <= n
    BY <1>2
  <1>7. \A i \in 0 .. n : SumTo(g, i) = Upto(i, m, l)
    <2> HIDE DEF n
    <2> QED
      BY <1>5, <1>6 DEF A
  <1> QED
    BY <1>7

(* The pieces of a body are all of it, in order, none too long for a       *)
(* frame; and there is one even if the body is empty.                      *)
LEMMA ChunksAre ==
    ASSUME NEW T, NEW s \in Seq(T)
    PROVE  /\ Chunks(s) \in Seq(Seq(T))
           /\ Len(Chunks(s)) \in Nat \ {0}
           /\ \A i \in 1 .. Len(Chunks(s)) : Len(Chunks(s)[i]) <= MaxFrameSize
           /\ FlattenSeq(Chunks(s)) = s
  <1> DEFINE c == Chunks(s)
             l == Len(s)
             m == MaxFrameSize
  <1>1. m \in Nat \ {0} /\ l \in Nat
    BY AnswerAssumption, LenProperties
  <1>2. CASE s = <<>>
    <2>1. c = <<s>>
      BY <1>2 DEF Chunks
    <2>2. c \in Seq(Seq(T)) /\ Len(c) = 1 /\ c[1] = s /\ Len(s) = 0
      <3> DEFINE Q == Seq(T)
      <3>1. s \in Q
        OBVIOUS
      <3> HIDE DEF Q, c
      <3>2. c \in Seq(Q) /\ Len(c) = 1 /\ c[1] = s
        BY <2>1, <3>1
      <3> QED
        BY <1>2, <3>2 DEF Q
    <2> HIDE DEF c
    <2>3. Lengths(c)[1] = 0
      BY <2>2, LengthsAre
    <2>4. SumTo(Lengths(c), 0 + 1) = SumTo(Lengths(c), 0) + Lengths(c)[0 + 1]
      BY SumNext
    <2>5. SumTo(Lengths(c), 1) = 0
      BY <2>3, <2>4, SumNone
    <2>6. FlattenSeq(c) \in Seq(T) /\ Len(FlattenSeq(c)) = 0
      BY <2>2, <2>5, Flat
    <2>7. FlattenSeq(c) = s
      BY <1>2, <2>6, EmptySeq
    <2>8. \A i \in 1 .. Len(c) : Len(c[i]) <= m
      BY <1>1, <2>2
    <2> QED
      BY <2>2, <2>7, <2>8 DEF c, m
  <1>3. CASE s # <<>>
    <2> DEFINE n == Ceil(l, m)
               g == Lengths(c)
    <2>1. l # 0
      BY <1>3, EmptySeq
    <2>2. n \in Nat \ {0} /\ l <= n * m /\ n * m \in Nat
      BY <1>1, <2>1, PiecesCount
    <2>3. c = [i \in 1 .. n |-> Piece(s, i)]
      BY <1>3 DEF Chunks, Piece
    <2>4. \A i \in 1 .. n : Piece(s, i) \in Seq(T)
      BY <2>1, PieceIs
    <2> HIDE DEF n
    <2>5. c \in Seq(Seq(T)) /\ Len(c) = n /\ \A i \in 1 .. n : c[i] = Piece(s, i)
      <3> DEFINE Q == Seq(T)
      <3> HIDE DEF c, Q
      <3>1. \A i \in 1 .. n : c[i] = Piece(s, i) /\ c[i] \in Q
        BY <2>3, <2>4 DEF Q
      <3>2. c = [i \in 1 .. n |-> c[i]]
        BY <2>3
      <3>3. n \in Nat /\ \A i \in 1 .. n : c[i] \in Q
        BY <2>2, <3>1
      <3>4. c \in Seq(Q) /\ Len(c) = n
        BY <3>2, <3>3, IsASeq
      <3> QED
        BY <3>1, <3>4 DEF Q
    <2> HIDE DEF c
    <2>6. \A i \in 1 .. n : g[i] = Len(Piece(s, i)) /\ g[i] \in Nat
      BY <2>5, LengthsAre
    <2>7. \A i \in 0 .. n : SumTo(g, i) = Upto(i, m, l)
      BY <2>1, <2>6, ChunksEnd DEF n
    <2>8. Upto(n, m, l) = l
      BY <1>1, <2>2, LeastIs DEF Upto
    <2>9. FlattenSeq(c) \in Seq(T) /\ Len(FlattenSeq(c)) = l
          /\ \A i \in 1 .. n : \A b \in 1 .. Len(c[i]) :
                FlattenSeq(c)[SumTo(g, i - 1) + b] = c[i][b]
      <3>1. SumTo(g, n) = l
        BY <2>2, <2>7, <2>8
      <3>2. /\ FlattenSeq(c) \in Seq(T)
            /\ Len(FlattenSeq(c)) = SumTo(g, Len(c))
            /\ \A i \in 1 .. Len(c) : \A b \in 1 .. Len(c[i]) :
                  FlattenSeq(c)[SumTo(g, i - 1) + b] = c[i][b]
        BY <2>5, Flat
      <3>3. Len(c) = n
        BY <2>5
      <3> HIDE DEF g
      <3> QED
        BY <3>1, <3>2, <3>3, Zenon
    <2>10. ASSUME NEW p \in 1 .. l
           PROVE  FlattenSeq(c)[p] = s[p]
      <3>1. SumTo(g, n) = l
        BY <2>2, <2>7, <2>8
      <3>a. PICK i \in 1 .. n : \E b \in 1 .. g[i] : p = SumTo(g, i - 1) + b
        BY <2>2, <2>6, <3>1, SumCovers, SMTT(30)
      <3>2. PICK b \in 1 .. g[i] : p = SumTo(g, i - 1) + b
        BY <3>a
      <3>3. i - 1 \in 0 .. n /\ i - 1 \in Nat
        BY <2>2
      <3>4. SumTo(g, i - 1) = (i - 1) * m
        BY <1>1, <2>1, <2>7, <3>3, PieceEnds DEF n
      <3>5. b \in 1 .. Len(Piece(s, i)) /\ c[i] = Piece(s, i)
        BY <2>5, <2>6
      <3>6. Piece(s, i)[b] = s[(i - 1) * m + b]
        BY <2>1, <3>5, PieceIs DEF n
      <3>7. FlattenSeq(c)[SumTo(g, i - 1) + b] = c[i][b]
        BY <2>9, <3>5
      <3> QED
        BY <3>2, <3>4, <3>5, <3>6, <3>7
    <2>11. FlattenSeq(c) = s
      BY <2>9, <2>10, SeqEqual
    <2>12. \A i \in 1 .. Len(c) : Len(c[i]) <= m
      BY <2>1, <2>5, PieceIs DEF n
    <2> QED
      BY <2>2, <2>5, <2>11, <2>12 DEF c, m
  <1> QED
    BY <1>2, <1>3

-----------------------------------------------------------------------------
(* A response in HTTP/2: its frames, and where they lie in its bytes.      *)
Wire == Bytes \cup Headings

(* What a client is to read of it on stream `sid`.                         *)
Reply(file, sid) ==
    LET last == Len(Chunks(file))
    IN  [i \in 1 .. last + 1 |->
           [kind    |-> IF i = 1 THEN HEADERS ELSE DATA,
            flags   |-> IF i = 1 THEN EndHeaders
                        ELSE IF i - 1 = last THEN EndStream ELSE 0,
            sid     |-> {<<"sid", sid>>},
            payload |-> IF i = 1 THEN Fields(file) ELSE Chunks(file)[i - 1]]]

Frames(sid) == [kind : Nat, flags : Nat, sid : {{<<"sid", sid>>}},
                payload : Seq(Wire)]

LEMMA ReplyIs ==
    ASSUME NEW file \in Seq(Bytes), NEW sid
    PROVE  /\ Len(ResponseFrames(file)) = Len(Chunks(file)) + 1
           /\ ResponseFrames(file) \in Seq(Seq(Wire))
           /\ \A i \in 1 .. Len(Chunks(file)) + 1 :
                 LET r == Reply(file, sid)[i]
                 IN  /\ r \in Frames(sid)
                     /\ ResponseFrames(file)[i] = H2Frame(r.kind, r.flags, r.payload)
  <1> DEFINE c == Chunks(file)
             n == Len(c)
             r == Reply(file, sid)
             x == H2Frame(HEADERS, EndHeaders, Fields(file))
             h == <<x>>
             d == [i \in 1 .. n |->
                     H2Frame(DATA, IF i = n THEN EndStream ELSE 0, c[i])]
             f == ResponseFrames(file)
             Q == Seq(Wire)
  <1>1. file \in Seq(Wire) /\ Len(file) \in Nat /\ Headings \subseteq Wire
    BY SeqMonotonic, LenProperties DEF Wire
  <1>2. n \in Nat \ {0} /\ \A i \in 1 .. n : c[i] \in Q
    BY <1>1, ChunksAre, ElementOfSeq
  <1>3. Fields(file) \in Q
    <2>1. <<"status", 200>> \in Wire /\ <<"content-length", Len(file)>> \in Wire
      BY <1>1 DEF Headings
    <2> QED
      BY <2>1 DEF Fields
  <1>4. f = h \o d
    BY DEF ResponseFrames
  <1>5. h \in Seq(Q) /\ Len(h) = 1 /\ h[1] = x
    <2>1. x \in Q
      BY <1>1, <1>3, H2FrameIs DEF HEADERS, EndHeaders
    <2> HIDE DEF x, Q
    <2> QED
      BY <2>1
  <1>6. d \in Seq(Q) /\ Len(d) = n
    <2>1. \A i \in 1 .. n : d[i] \in Q
      <3> SUFFICES ASSUME NEW i \in 1 .. n PROVE d[i] \in Q
        OBVIOUS
      <3> DEFINE k == IF i = n THEN EndStream ELSE 0
      <3>1. k \in Nat /\ DATA \in Nat /\ c[i] \in Seq(Wire)
        BY <1>2 DEF EndStream, DATA
      <3>2. d[i] = H2Frame(DATA, k, c[i])
        OBVIOUS
      <3> HIDE DEF k, d, c, n
      <3> QED
        BY <1>1, <3>1, <3>2, H2FrameIs
    <2>2. d = [i \in 1 .. n |-> d[i]]
      OBVIOUS
    <2> HIDE DEF d, Q, n
    <2> QED
      BY <1>2, <2>1, <2>2, IsASeq
  <1>7. ASSUME NEW i \in 1 .. n
        PROVE  d[i] = H2Frame(DATA, IF i = n THEN EndStream ELSE 0, c[i])
    OBVIOUS
  <1> HIDE DEF h, x, d, f, Q, c, n, r
  <1>8. PICK u : u = h \o d /\ Abut(Q, u, h, d, 1, n)
    BY <1>5, <1>6, ConcatAt
  <1>9. Abut(Q, f, h, d, 1, n)
    BY <1>4, <1>8
  <1>10. f \in Seq(Q) /\ Len(f) = n + 1
    BY <1>2, <1>9 DEF Abut
  <1>11. r = [i \in 1 .. n + 1 |->
               [kind    |-> IF i = 1 THEN HEADERS ELSE DATA,
                flags   |-> IF i = 1 THEN EndHeaders
                            ELSE IF i - 1 = n THEN EndStream ELSE 0,
                sid     |-> {<<"sid", sid>>},
                payload |-> IF i = 1 THEN Fields(file) ELSE c[i - 1]]]
    BY DEF r, Reply, n, c
  <1>12. ASSUME NEW i \in 1 .. n + 1
         PROVE  /\ r[i] \in Frames(sid)
                /\ f[i] = H2Frame(r[i].kind, r[i].flags, r[i].payload)
    <2>1. CASE i = 1
      <3>1. r[i] = [kind |-> HEADERS, flags |-> EndHeaders,
                    sid |-> {<<"sid", sid>>}, payload |-> Fields(file)]
        BY <1>11, <2>1
      <3>2. f[1] = h[1]
        BY <1>9 DEF Abut
      <3> QED
        BY <1>3, <1>5, <2>1, <3>1, <3>2 DEF Frames, HEADERS, EndHeaders, Q, x
    <2>2. CASE i # 1
      <3> DEFINE j == i - 1
                 k == IF j = n THEN EndStream ELSE 0
      <3>1. j \in 1 .. n /\ 1 + j = i
        BY <1>2, <2>2
      <3>2. r[i] = [kind |-> DATA, flags |-> k,
                    sid |-> {<<"sid", sid>>}, payload |-> c[j]]
        BY <1>11, <2>2
      <3>3. f[1 + j] = d[j]
        BY <1>9, <3>1 DEF Abut
      <3>4. d[j] = H2Frame(DATA, IF j = n THEN EndStream ELSE 0, c[j])
        BY <1>7, <3>1
      <3>5. c[j] \in Q /\ k \in Nat /\ DATA \in Nat
        BY <1>2, <3>1 DEF EndStream, DATA
      <3>6. f[i] = H2Frame(DATA, k, c[j])
        BY <3>1, <3>3, <3>4
      <3> HIDE DEF k, j
      <3> QED
        BY <3>2, <3>5, <3>6 DEF Frames, Q
    <2> QED
      BY <2>1, <2>2
  <1> QED
    BY <1>10, <1>12 DEF f, n, c, r, Q

(* The bytes of the frames `f`, with a stream id where it belongs.         *)
Marked(m, f, sid) ==
    /\ Len(m) = SumTo(Lengths(f), Len(f))
    /\ \A i \in 1 .. Len(f) : \A b \in 1 .. Len(f[i]) :
          m[SumTo(Lengths(f), i - 1) + b]
            = IF b \in 6 .. 9 THEN <<"sid", sid>> ELSE f[i][b]

LEMMA MarkedFrame ==
    ASSUME NEW S, NEW m \in Seq(S), NEW sid, NEW p \in Nat,
           NEW r \in Frames(sid), NEW x, FrameOf(x, r.kind, r.flags, r.payload),
           p + Len(x) <= Len(m),
           \A b \in 1 .. Len(x) :
              m[p + b] = IF b \in 6 .. 9 THEN <<"sid", sid>> ELSE x[b]
    PROVE  /\ Len(x) \in Nat /\ Len(x) >= 9
           /\ m[p + 1] = <<"length", Len(x) - 9>>
           /\ FrameAt(m, p + 1) = r
  <1> DEFINE l == Len(r.payload)
             z == Len(x)
  <1>1. /\ r.payload \in Seq(Wire) /\ r.sid = {<<"sid", sid>>}
        /\ r = [kind |-> r.kind, flags |-> r.flags, sid |-> r.sid,
                payload |-> r.payload]
    BY DEF Frames
  <1>2. l \in Nat /\ Len(m) \in Nat
    BY <1>1, LenProperties
  <1>3. /\ z = 9 + l /\ x[1] = <<"length", l>> /\ x[4] = <<"kind", r.kind>>
        /\ x[5] = <<"flags", r.flags>>
        /\ \A b \in 1 .. l : x[9 + b] = r.payload[b]
    BY DEF FrameOf
  <1> HIDE DEF l, z
  <1>4. \A b \in 1 .. 9 + l :
           m[p + b] = IF b \in 6 .. 9 THEN <<"sid", sid>> ELSE x[b]
    BY <1>3 DEF z
  <1>5. m[p + 1] = <<"length", l>> /\ m[p + 4] = <<"kind", r.kind>>
        /\ m[p + 5] = <<"flags", r.flags>>
    <2>1. m[p + 1] = x[1] /\ m[p + 4] = x[4] /\ m[p + 5] = x[5]
      BY <1>2, <1>4
    <2> QED
      BY <1>3, <2>1
  <1>6. {m[j] : j \in (p + 1) + 5 .. (p + 1) + 8} = {<<"sid", sid>>}
    <2>1. ASSUME NEW j \in (p + 1) + 5 .. (p + 1) + 8
          PROVE  m[j] = <<"sid", sid>>
      <3> DEFINE b == j - p
      <3>1. b \in 6 .. 9 /\ b \in 1 .. 9 + l /\ p + b = j
        BY <1>2
      <3> HIDE DEF b
      <3> QED
        BY <1>4, <3>1
    <2>2. (p + 1) + 5 \in (p + 1) + 5 .. (p + 1) + 8
      OBVIOUS
    <2> DEFINE D == (p + 1) + 5 .. (p + 1) + 8
               y == <<"sid", sid>>
    <2>3. D # {} /\ \A j \in D : m[j] = y
      BY <2>1, <2>2
    <2> HIDE DEF D, y
    <2>4. {m[j] : j \in D} = {y}
      BY <2>3
    <2> QED
      BY <2>4 DEF D, y
  <1>7. SubSeq(m, (p + 9) + 1, (p + 9) + l) = r.payload
    <2>1. (p + 9) + l <= Len(m) /\ p + 9 \in Nat
      BY <1>2, <1>3 DEF z
    <2>2. ASSUME NEW b \in 1 .. l
          PROVE  m[(p + 9) + b] = r.payload[b]
      <3> DEFINE k == 9 + b
      <3>1. k \in 1 .. 9 + l /\ k \notin 6 .. 9 /\ p + k = (p + 9) + b
        BY <1>2
      <3>2. x[k] = r.payload[b]
        BY <1>3
      <3> HIDE DEF k
      <3> QED
        BY <1>4, <3>1, <3>2
    <2> DEFINE y == r.payload
    <2>3. y \in Seq(Wire) /\ Len(y) = l /\ \A b \in 1 .. Len(y) : m[(p + 9) + b] = y[b]
      BY <1>1, <2>2 DEF l
    <2> HIDE DEF y
    <2>4. SubSeq(m, (p + 9) + 1, (p + 9) + Len(y)) = y
      BY <2>1, <2>3, SubSeqIs
    <2> QED
      BY <2>3, <2>4 DEF y
  <1>8. FrameAt(m, p + 1)
          = [kind    |-> m[(p + 1) + 3][2],
             flags   |-> m[(p + 1) + 4][2],
             sid     |-> {m[j] : j \in (p + 1) + 5 .. (p + 1) + 8},
             payload |-> SubSeq(m, (p + 1) + 9, (p + 1) + 8 + m[p + 1][2])]
    BY DEF FrameAt
  <1>9. (p + 1) + 3 = p + 4 /\ (p + 1) + 4 = p + 5 /\ (p + 1) + 9 = (p + 9) + 1
        /\ (p + 1) + 8 + l = (p + 9) + l /\ z - 9 = l
    BY <1>2, <1>3
  <1>10. /\ m[(p + 1) + 3][2] = r.kind
         /\ m[(p + 1) + 4][2] = r.flags
         /\ SubSeq(m, (p + 1) + 9, (p + 1) + 8 + m[p + 1][2]) = r.payload
    <2>1. m[p + 4][2] = r.kind /\ m[p + 5][2] = r.flags /\ m[p + 1][2] = l
      BY <1>5
    <2> QED
      BY <1>7, <1>9, <2>1
  <1>11. FrameAt(m, p + 1) = r
    BY <1>1, <1>6, <1>8, <1>10, Zenon
  <1>12. z \in Nat /\ z >= 9
    BY <1>2, <1>3
  <1> QED
    BY <1>5, <1>9, <1>11, <1>12 DEF z

LEMMA MarkedFramed ==
    ASSUME NEW T, NEW f \in Seq(Seq(T)), NEW S, NEW m \in Seq(S),
           NEW sid, NEW r, Readable(m), Marked(m, f, sid),
           \A i \in 1 .. Len(f) :
              r[i] \in Frames(sid)
              /\ FrameOf(f[i], r[i].kind, r[i].flags, r[i].payload)
    PROVE  Framed(m, Len(f), Lengths(f), r)
  <1> DEFINE n == Len(f)
             g == Lengths(f)
  <1>1. /\ n \in Nat /\ \A i \in 1 .. n : g[i] = Len(f[i]) /\ g[i] \in Nat
        /\ \A i \in 0 .. n : SumTo(g, i) \in Nat
    BY LengthsAre
  <1>2. /\ Len(m) = SumTo(g, n)
        /\ \A i \in 1 .. n : \A b \in 1 .. Len(f[i]) :
              m[SumTo(g, i - 1) + b]
                = IF b \in 6 .. 9 THEN <<"sid", sid>> ELSE f[i][b]
    BY DEF Marked
  <1> HIDE DEF n, g
  <1>3. ASSUME NEW i \in 1 .. n
        PROVE  /\ g[i] \in Nat /\ g[i] >= 9
               /\ m[SumTo(g, i - 1) + 1] = <<"length", g[i] - 9>>
               /\ FrameAt(m, SumTo(g, i - 1) + 1) = r[i]
    <2> DEFINE p == SumTo(g, i - 1)
               x == f[i]
    <2>1. i - 1 \in Nat /\ i - 1 \in 0 .. n /\ i \in 0 .. n /\ (i - 1) + 1 = i
          /\ n \in i .. n
      BY <1>1
    <2>2. SumTo(g, i) <= SumTo(g, n)
      BY <1>1, <2>1, SumGrows
    <2>3. SumTo(g, (i - 1) + 1) = SumTo(g, i - 1) + g[(i - 1) + 1]
      BY <2>1, SumNext
    <2>4. p \in Nat /\ p + Len(x) <= Len(m) /\ g[i] = Len(x)
      BY <1>1, <1>2, <2>1, <2>2, <2>3
    <2>5. \A b \in 1 .. Len(x) :
             m[p + b] = IF b \in 6 .. 9 THEN <<"sid", sid>> ELSE x[b]
      BY <1>2
    <2>6. r[i] \in Frames(sid) /\ FrameOf(x, r[i].kind, r[i].flags, r[i].payload)
      BY DEF n
    <2> HIDE DEF p, x
    <2>7. /\ Len(x) \in Nat /\ Len(x) >= 9
          /\ m[p + 1] = <<"length", Len(x) - 9>>
          /\ FrameAt(m, p + 1) = r[i]
      BY <2>4, <2>5, <2>6, MarkedFrame, SMTT(30)
    <2> QED
      BY <2>4, <2>7 DEF p
  <1> QED
    BY <1>1, <1>2, <1>3 DEF Framed, n, g

(* Where the frames of a response lie, and where its stream ids.           *)
LEMMA Prefix ==
    ASSUME NEW T, NEW f \in Seq(Seq(T)), NEW i \in 1 .. Len(f)
    PROVE  Len(FlattenSeq(SubSeq(f, 1, i - 1))) = SumTo(Lengths(f), i - 1)
  <1> DEFINE Q == Seq(T)
             k == i - 1
             e == SubSeq(f, 0 + 1, k)
  <1>1. Len(f) \in Nat /\ k \in Nat /\ 0 <= k /\ k <= Len(f) /\ k - 0 = k
        /\ 0 + 1 = 1
    BY LenProperties
  <1> HIDE DEF k
  <1>2. e \in Seq(Q) /\ Len(e) = k /\ \A b \in 1 .. k : e[b] = f[0 + b]
    <2>1. f \in Seq(Q)
      OBVIOUS
    <2> HIDE DEF Q
    <2>2. /\ e \in Seq(Q) /\ Len(e) = k - 0
          /\ \A b \in 1 .. k - 0 : e[b] = f[0 + b]
      BY <1>1, <2>1, StretchIs
    <2> HIDE DEF e
    <2> QED
      BY <1>1, <2>2
  <1>3. e = SubSeq(f, 1, k)
    BY <1>1
  <1> HIDE DEF e
  <1>4. \A b \in 1 .. k : Lengths(e)[b] = Lengths(f)[b]
    <2> SUFFICES ASSUME NEW b \in 1 .. k PROVE Lengths(e)[b] = Lengths(f)[b]
      OBVIOUS
    <2>1. b \in 1 .. Len(f) /\ e[b] = f[b] /\ b \in 1 .. Len(e)
      BY <1>1, <1>2
    <2>2. Lengths(e)[b] = Len(e[b]) /\ Lengths(f)[b] = Len(f[b])
      BY <1>2, <2>1, LengthsAre DEF Q
    <2> QED
      BY <2>1, <2>2
  <1>5. SumTo(Lengths(e), k) = SumTo(Lengths(f), k)
    BY <1>1, <1>4, SumSame
  <1>6. Len(FlattenSeq(e)) = SumTo(Lengths(e), Len(e))
    BY <1>2, Flat DEF Q
  <1>7. Len(FlattenSeq(e)) = SumTo(Lengths(f), k)
    BY <1>2, <1>5, <1>6
  <1> QED
    BY <1>3, <1>7 DEF k

LEMMA InPlace ==
    ASSUME NEW n \in Nat, NEW g, \A i \in 1 .. n : g[i] \in Nat /\ g[i] >= 9,
           NEW i \in 1 .. n, NEW b \in 1 .. g[i], NEW j \in 1 .. n
    PROVE  (SumTo(g, i - 1) + b) - (SumTo(g, j - 1) + 5) \in 1 .. 4
             <=> j = i /\ b \in 6 .. 9
  <1> DEFINE p == SumTo(g, i - 1)
             q == SumTo(g, j - 1)
             u == SumTo(g, i)
             v == SumTo(g, j)
  <1>1. /\ i - 1 \in Nat /\ (i - 1) + 1 = i /\ i - 1 \in 0 .. n /\ i \in 0 .. n
        /\ j - 1 \in Nat /\ (j - 1) + 1 = j /\ j - 1 \in 0 .. n /\ j \in 0 .. n
    OBVIOUS
  <1>2. /\ SumTo(g, (i - 1) + 1) = SumTo(g, i - 1) + g[(i - 1) + 1]
        /\ SumTo(g, (j - 1) + 1) = SumTo(g, j - 1) + g[(j - 1) + 1]
    BY <1>1, SumNext
  <1>3. u = p + g[i] /\ v = q + g[j]
    BY <1>1, <1>2
  <1>4. p \in Nat /\ q \in Nat /\ u \in Nat /\ v \in Nat
    BY <1>1, SumNat
  <1>5. CASE j = i
    BY <1>4, <1>5
  <1>6. CASE j < i
    <2>1. i - 1 \in j .. n
      BY <1>1, <1>6
    <2>2. v <= p
      BY <1>1, <2>1, SumGrows
    <2> HIDE DEF p, q, u, v
    <2>3. g[j] \in Nat /\ g[j] >= 9
      OBVIOUS
    <2>4. (p + b) - (q + 5) > 4
      BY <1>3, <1>4, <2>2, <2>3
    <2> QED
      BY <1>4, <1>6, <2>4 DEF p, q
  <1>7. CASE i < j
    <2>1. j - 1 \in i .. n
      BY <1>1, <1>7
    <2>2. u <= q
      BY <1>1, <2>1, SumGrows
    <2> HIDE DEF p, q, u, v
    <2>3. (p + b) - (q + 5) < 0
      BY <1>3, <1>4, <2>2
    <2> QED
      BY <1>4, <1>7, <2>3 DEF p, q
  <1> QED
    BY <1>5, <1>6, <1>7

(* What serve_route makes of a rendering is its frames on the stream.      *)
LEMMA RenderedMarked ==
    ASSUME NEW file \in Seq(Bytes), NEW sid, NEW m,
           LET r == RenderH2Response(file)
           IN  /\ Len(m) = Len(r.body)
               /\ \A i \in DOMAIN r.body :
                     m[i] = IF \E j \in DOMAIN r.sid_offs :
                                  i - r.sid_offs[j] \in 1 .. 4
                            THEN <<"sid", sid>> ELSE r.body[i]
    PROVE  Marked(m, ResponseFrames(file), sid)
  <1> DEFINE f == ResponseFrames(file)
             n == Len(f)
             g == Lengths(f)
             body == FlattenSeq(f)
             offs == [i \in DOMAIN f |-> Len(FlattenSeq(SubSeq(f, 1, i - 1))) + 5]
  <1>1. f \in Seq(Seq(Wire)) /\ n = Len(Chunks(file)) + 1
        /\ \A i \in 1 .. n : LET r == Reply(file, sid)[i]
                             IN  /\ r \in Frames(sid)
                                 /\ f[i] = H2Frame(r.kind, r.flags, r.payload)
    BY ReplyIs
  <1>2. /\ n \in Nat /\ DOMAIN f = 1 .. n
        /\ \A i \in 1 .. n : g[i] = Len(f[i]) /\ g[i] \in Nat
        /\ \A i \in 0 .. n : SumTo(g, i) \in Nat
    BY <1>1, LengthsAre
  <1>3. /\ body \in Seq(Wire) /\ Len(body) = SumTo(g, n)
        /\ \A i \in 1 .. n : \A b \in 1 .. Len(f[i]) :
              body[SumTo(g, i - 1) + b] = f[i][b]
    BY <1>1, Flat
  <1>4. ASSUME NEW i \in 1 .. n PROVE offs[i] = SumTo(g, i - 1) + 5
    <2>1. Len(FlattenSeq(SubSeq(f, 1, i - 1))) = SumTo(g, i - 1)
      BY <1>1, Prefix
    <2> QED
      BY <1>2, <2>1
  <1>5. DOMAIN offs = 1 .. n
    BY <1>2
  <1>6. \A i \in 1 .. n : g[i] >= 9
    <2> SUFFICES ASSUME NEW i \in 1 .. n PROVE g[i] >= 9
      OBVIOUS
    <2> DEFINE r == Reply(file, sid)[i]
    <2>1. r \in Frames(sid) /\ f[i] = H2Frame(r.kind, r.flags, r.payload)
      BY <1>1
    <2> HIDE DEF r
    <2>2. r.kind \in Nat /\ r.flags \in Nat /\ r.payload \in Seq(Wire)
      BY <2>1 DEF Frames
    <2>3. FrameOf(f[i], r.kind, r.flags, r.payload)
      BY <2>1, <2>2, H2FrameIs DEF Wire
    <2>4. Len(r.payload) \in Nat
      BY <2>2, LenProperties
    <2> QED
      BY <1>2, <2>3, <2>4, SMTT(30) DEF FrameOf
  <1>7. RenderH2Response(file)
          = [body |-> body, sid_offs |-> offs, data_len |-> Len(file)]
    BY DEF RenderH2Response
  <1>8. /\ Len(m) = Len(body)
        /\ \A i \in DOMAIN body :
              m[i] = IF \E j \in DOMAIN offs : i - offs[j] \in 1 .. 4
                     THEN <<"sid", sid>> ELSE body[i]
    <2> HIDE DEF body, offs
    <2> QED
      BY <1>7
  <1> HIDE DEF f, n, g, body, offs
  <1>9. ASSUME NEW i \in 1 .. n, NEW b \in 1 .. Len(f[i])
        PROVE  m[SumTo(g, i - 1) + b]
                 = IF b \in 6 .. 9 THEN <<"sid", sid>> ELSE f[i][b]
    <2> DEFINE k == SumTo(g, i - 1) + b
    <2>1. b \in 1 .. g[i]
      BY <1>2
    <2>2. \A j \in 1 .. n : k - (SumTo(g, j - 1) + 5) \in 1 .. 4
                              <=> j = i /\ b \in 6 .. 9
      BY <1>2, <1>6, <2>1, InPlace
    <2>3. (\E j \in DOMAIN offs : k - offs[j] \in 1 .. 4) <=> b \in 6 .. 9
      <3> HIDE DEF k
      <3> QED
        BY <1>4, <1>5, <2>2
    <2>4. k \in DOMAIN body
      <3>1. i - 1 \in Nat /\ i - 1 \in 0 .. n /\ i \in 0 .. n /\ (i - 1) + 1 = i
            /\ n \in i .. n
        BY <1>2
      <3>2. SumTo(g, i) <= SumTo(g, n)
        BY <1>2, <3>1, SumGrows
      <3>3. SumTo(g, (i - 1) + 1) = SumTo(g, i - 1) + g[(i - 1) + 1]
        BY <3>1, SumNext
      <3>4. k \in 1 .. SumTo(g, n)
        <4> DEFINE p == SumTo(g, i - 1)
                   q == SumTo(g, i)
                   z == SumTo(g, n)
                   l == g[i]
        <4>1. p \in Nat /\ q \in Nat /\ z \in Nat /\ l \in Nat
              /\ q = p + l /\ q <= z /\ b \in 1 .. l
          BY <1>2, <2>1, <3>1, <3>2, <3>3
        <4> HIDE DEF p, q, z, l
        <4>2. p + b \in 1 .. z
          BY <4>1, InSum
        <4> QED
          BY <4>2 DEF p, z
      <3> QED
        BY <1>3, <3>4, LenProperties
    <2>5. body[k] = f[i][b]
      BY <1>3
    <2> HIDE DEF k
    <2>6. m[k] = IF b \in 6 .. 9 THEN <<"sid", sid>> ELSE f[i][b]
      BY <1>8, <2>3, <2>4, <2>5
    <2> QED
      BY <2>6 DEF k
  <1>10. Len(m) = SumTo(g, n)
    BY <1>3, <1>8
  <1> QED
    BY <1>9, <1>10 DEF Marked, f, n, g

LEMMA MarkedReads ==
    ASSUME NEW file \in Seq(Bytes), NEW sid, NEW S, NEW m \in Seq(S),
           Readable(m), Marked(m, ResponseFrames(file), sid)
    PROVE  ReadFrames(m) = Reply(file, sid)
  <1> DEFINE f == ResponseFrames(file)
             n == Len(Chunks(file))
             r == Reply(file, sid)
  <1>1. /\ Len(f) = n + 1 /\ f \in Seq(Seq(Wire))
        /\ \A i \in 1 .. n + 1 :
              r[i] \in Frames(sid) /\ f[i] = H2Frame(r[i].kind, r[i].flags, r[i].payload)
    BY ReplyIs
  <1>2. r = [i \in 1 .. n + 1 |-> r[i]]
    BY DEF Reply
  <1> HIDE DEF f, r, n
  <1>3. ASSUME NEW i \in 1 .. n + 1
        PROVE  FrameOf(f[i], r[i].kind, r[i].flags, r[i].payload)
    <2> DEFINE x == r[i]
    <2>1. x \in Frames(sid) /\ f[i] = H2Frame(x.kind, x.flags, x.payload)
      BY <1>1
    <2> HIDE DEF x
    <2>2. x.kind \in Nat /\ x.flags \in Nat /\ x.payload \in Seq(Wire)
      BY <2>1 DEF Frames
    <2>3. FrameOf(f[i], x.kind, x.flags, x.payload)
      BY <2>1, <2>2, H2FrameIs DEF Wire
    <2> QED
      BY <2>3 DEF x
  <1>4. Marked(m, f, sid)
    BY DEF f
  <1>5. \A i \in 1 .. Len(f) :
           r[i] \in Frames(sid)
           /\ FrameOf(f[i], r[i].kind, r[i].flags, r[i].payload)
    BY <1>1, <1>3
  <1>6. Framed(m, Len(f), Lengths(f), r)
    BY <1>1, <1>4, <1>5, MarkedFramed
  <1>7. ReadFrames(m) = [i \in 1 .. Len(f) |-> r[i]]
    BY <1>6, ReadsBack
  <1> QED
    BY <1>1, <1>2, <1>7 DEF r

(* A client that reads the frames of a reply has the file.                 *)
LEMMA ReplyAnswers ==
    ASSUME NEW file \in Seq(Bytes), NEW sid \in Nat, NEW m,
           ReadFrames(m) = Reply(file, sid)
    PROVE  AnswersH2(m, file, sid) /\ DataBytes(m) = Len(file)
  <1> DEFINE c == Chunks(file)
             n == Len(c)
             r == Reply(file, sid)
             d == Tail(r)
             Q == Frames(sid)
  <1>1. /\ c \in Seq(Seq(Bytes)) /\ n \in Nat \ {0}
        /\ \A i \in 1 .. n : Len(c[i]) <= MaxFrameSize
        /\ FlattenSeq(c) = file
    BY ChunksAre
  <1>2. r = [i \in 1 .. n + 1 |->
               [kind    |-> IF i = 1 THEN HEADERS ELSE DATA,
                flags   |-> IF i = 1 THEN EndHeaders
                            ELSE IF i - 1 = n THEN EndStream ELSE 0,
                sid     |-> {<<"sid", sid>>},
                payload |-> IF i = 1 THEN Fields(file) ELSE c[i - 1]]]
    BY DEF Reply
  <1>3. \A i \in 1 .. n + 1 : r[i] \in Q
    BY ReplyIs
  <1> HIDE DEF c, n, r, Q
  <1>4. r \in Seq(Q) /\ Len(r) = n + 1 /\ DOMAIN r = 1 .. n + 1
    <2>1. r = [i \in 1 .. n + 1 |-> r[i]] /\ n + 1 \in Nat
      BY <1>1, <1>2
    <2> QED
      BY <1>3, <2>1, IsASeq
  <1>5. /\ r[1].kind = HEADERS /\ r[1].flags = EndHeaders
        /\ r[1].payload = Fields(file)
    BY <1>1, <1>2
  <1>6. \A i \in 1 .. n + 1 : r[i].sid = {<<"sid", sid>>}
    BY <1>2
  <1>7. ASSUME NEW i \in 1 .. n
        PROVE  /\ r[i + 1].kind = DATA
               /\ r[i + 1].flags = IF i = n THEN EndStream ELSE 0
               /\ r[i + 1].payload = c[i]
    <2>1. i + 1 \in 1 .. n + 1 /\ i + 1 # 1 /\ (i + 1) - 1 = i
      BY <1>1
    <2> QED
      BY <1>2, <2>1
  <1>8. /\ Len(d) = n /\ DOMAIN d = 1 .. n
        /\ \A i \in 1 .. n : d[i] = r[i + 1]
    <2>1. r # <<>>
      BY <1>1, <1>4
    <2> QED
      BY <1>1, <1>4, <2>1, HeadTailProperties
  <1> HIDE DEF d
  <1>9. [i \in DOMAIN d |-> d[i].payload] = c
    <2>1. c = [i \in 1 .. n |-> c[i]]
      BY <1>1, LenProperties DEF n
    <2> QED
      BY <1>7, <1>8, <2>1
  <1>10. AnswersH2(m, file, sid)
    <2>1. Len(r) >= 2 /\ r[1].kind = HEADERS /\ r[1].flags = EndHeaders
          /\ r[1].payload = Fields(file)
      BY <1>1, <1>4, <1>5
    <2>2. \A i \in DOMAIN r : r[i].sid = {<<"sid", sid>>}
      BY <1>4, <1>6
    <2>3. \A i \in DOMAIN d :
             /\ d[i].kind = DATA
             /\ d[i].flags = IF i = Len(d) THEN EndStream ELSE 0
             /\ Len(d[i].payload) <= MaxFrameSize
      BY <1>1, <1>7, <1>8
    <2>4. FlattenSeq([i \in DOMAIN d |-> d[i].payload]) = file
      BY <1>1, <1>9
    <2>5. ReadFrames(m) = r /\ Tail(r) = d
      BY DEF r, d
    <2> QED
      BY <2>1, <2>2, <2>3, <2>4, <2>5, Zenon DEF AnswersH2
  <1>11. DataBytes(m) = Len(file)
    <2> DEFINE h == [i \in DOMAIN r |->
                       IF r[i].kind = DATA THEN Len(r[i].payload) ELSE 0]
               g == Lengths(c)
    <2>1. h[1] = 0
      BY <1>1, <1>4, <1>5 DEF HEADERS, DATA
    <2>2. \A i \in 1 .. n : g[i] \in Nat /\ g[i] = Len(c[i])
      BY <1>1, LengthsAre DEF n
    <2>3. ASSUME NEW i \in 1 .. n PROVE h[i + 1] = g[i]
      <3>1. i + 1 \in DOMAIN r
        BY <1>1, <1>4
      <3> QED
        BY <1>7, <2>2, <3>1
    <2> HIDE DEF g, h
    <2>4. SumTo(h, n + 1) = 0 + SumTo(g, n)
      <3>1. n \in Nat /\ n \in 0 .. n
        BY <1>1
      <3>2. Shifted(g, h, 0, n)
        BY <2>1, <2>2, <2>3 DEF Shifted
      <3>4. \A i \in 0 .. n : SumTo(h, i + 1) = 0 + SumTo(g, i)
        BY <3>1, <3>2, SumShift
      <3> QED
        BY <3>1, <3>4
    <2>5. Len(FlattenSeq(c)) = SumTo(g, n) /\ SumTo(g, n) \in Nat
      <3>1. Len(FlattenSeq(c)) = SumTo(g, n)
        BY <1>1, Flat DEF n, g
      <3>2. Len(file) \in Nat
        BY LenProperties
      <3> QED
        BY <1>1, <3>1, <3>2
    <2>6. DataBytes(m) = SumTo(h, Len(r))
      BY Zenon DEF DataBytes, h, r
    <2> QED
      BY <1>1, <1>4, <2>4, <2>5, <2>6
  <1> QED
    BY <1>10, <1>11

(* render_response and render_h2_response (fast_path.rs:95-177) with       *)
(* serve_route (fast_path.bpf.c:637-735): whatever the file and the        *)
(* request, a client that is answered by the fast path reads the whole     *)
(* file, in frames it may refuse none of, on the stream it asked on, and   *)
(* its windows are charged for what it counts.                             *)
THEOREM AnsweredInFull == Spec => []AnsweredWhole
  <1>1. ASSUME IInv PROVE AnsweredWhole
    <2> SUFFICES ASSUME pc = "served"
                 PROVE  IF IsH2
                        THEN /\ AnswersH2(msg, File[Path], req.sid)
                             /\ charged = DataBytes(msg)
                        ELSE msg = RenderResponse(File[Path]) /\ charged = 0
      BY DEF AnsweredWhole
    <2>1. /\ IsResponse(AllIds) /\ Servable /\ pc \in Handling
          /\ charged = IF IsH2 THEN Http2[Path].data_len ELSE 0
      BY <1>1 DEF IInv, ServeInv, Handling
    <2>2. Path \in Paths /\ Whole \in Seq(Byte) /\ msg \in Seq(Byte) /\ req.sid \in Nat
      BY <1>1, <2>1, ServableIs DEF IInv, TypeOK, RequestTypes, Asking
    <2>3. File[Path] \in Seq(Bytes) /\ Http1[Path] = RenderResponse(File[Path])
          /\ Http2[Path] = RenderH2Response(File[Path])
      BY <2>2, AnswerAssumption
    <2>4. CASE IsH2
      <3> DEFINE r == RenderH2Response(File[Path])
      <3>1. /\ r.body \in Seq(Bytes) /\ DOMAIN r.body = 1 .. Len(r.body)
            /\ DOMAIN r.sid_offs = 1 .. AllIds
        BY <2>2, <2>3, Renderings, LenProperties DEF AllIds
      <3>2. Whole = r.body
        BY <2>3, <2>4 DEF Whole
      <3>3. /\ Len(msg) = Len(r.body)
            /\ \A i \in DOMAIN r.body :
                  msg[i] = IF \E j \in DOMAIN r.sid_offs :
                                 i - r.sid_offs[j] \in 1 .. 4
                           THEN <<"sid", req.sid>> ELSE r.body[i]
        BY <2>1, <2>3, <2>4, <3>1, <3>2 DEF IsResponse, WithIds
      <3> HIDE DEF r
      <3>4. Readable(msg)
        <4> SUFFICES ASSUME NEW k \in 1 .. Len(msg), msg[k][1] = "length"
                     PROVE  msg[k][2] \in Nat
          BY <2>2, LenProperties DEF Readable
        <4>1. k \in DOMAIN r.body /\ r.body[k] \in Bytes
          BY <3>1, <3>3, ElementOfSeq
        <4>2. msg[k] = <<"sid", req.sid>> \/ msg[k] = r.body[k]
          BY <3>3, <4>1
        <4>3. msg[k] # <<"sid", req.sid>>
          OBVIOUS
        <4> QED
          BY <4>1, <4>2, <4>3, AnswerAssumption
      <3>5. Marked(msg, ResponseFrames(File[Path]), req.sid)
        BY <2>3, <3>3, RenderedMarked DEF r
      <3>6. ReadFrames(msg) = Reply(File[Path], req.sid)
        BY <2>2, <2>3, <3>4, <3>5, MarkedReads
      <3>7. AnswersH2(msg, File[Path], req.sid)
            /\ DataBytes(msg) = Len(File[Path])
        BY <2>2, <2>3, <3>6, ReplyAnswers
      <3>8. Http2[Path].data_len = Len(File[Path])
        BY <2>3 DEF RenderH2Response
      <3> QED
        BY <2>1, <2>4, <3>7, <3>8
    <2>5. CASE ~IsH2
      <3>1. Whole = Http1[Path]
        BY <2>5 DEF Whole
      <3>2. Len(msg) = Len(Whole) /\ \A i \in 1 .. Len(Whole) : msg[i] = Whole[i]
        BY <2>1, <2>5 DEF IsResponse, WithIds
      <3>3. msg = Whole
        BY <2>2, <3>2, SeqEqual
      <3> QED
        BY <2>1, <2>3, <2>5, <3>1, <3>3
    <2> QED
      BY <2>4, <2>5
  <1> QED
    BY <1>1, Always, PTL
=============================================================================
