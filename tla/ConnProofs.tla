------------------------------ MODULE ConnProofs ------------------------------
(***************************************************************************)
(* Theorems about ConnMaps, for any number of connections, ports and map   *)
(* entries.                                                                *)
(*                                                                         *)
(* The mark of a connection can only be lost if dt_dirty is full when it   *)
(* is written.  It is not: only ports in upgraded_conns are ever marked,   *)
(* the maps are of one size, and a port in upgraded_conns that has no      *)
(* entry in dt_dirty yet leaves room for one.  That the mark is not wiped  *)
(* by another connection rests on open connections having different ports. *)
(***************************************************************************)
EXTENDS ConnMaps, FiniteSetTheorems, TLAPS

Places ==
    /\ life \in [Conns -> {"new", "open", "closed"}]
    /\ tuple \in [Conns -> Tuples]
    /\ \A c, d \in Conns : Open(c) /\ Open(d) /\ tuple[c] = tuple[d] => c = d

Room ==
    /\ IsFiniteSet(DOMAIN upgraded)
    /\ Cardinality(DOMAIN upgraded) <= Cap
    /\ DOMAIN marked \subseteq DOMAIN upgraded

Owing ==
    /\ owed \subseteq Conns
    /\ \A c \in owed : life[c] # "new"
    /\ MarksKept

IInv == Places /\ Room /\ Owing

-----------------------------------------------------------------------------
(* A key that is there is written over, and nothing else changes.          *)
LEMMA PutThere ==
    ASSUME NEW map, NEW t \in DOMAIN map, NEW v
    PROVE  /\ DOMAIN Put(map, t, v) = DOMAIN map
           /\ Put(map, t, v)[t] = v
           /\ \A u \in DOMAIN map : u # t => Put(map, t, v)[u] = map[u]
  BY DEF Put

(* A write adds no key but its own.                                        *)
LEMMA PutAdds ==
    ASSUME NEW map, NEW t, NEW v
    PROVE  /\ DOMAIN map \subseteq DOMAIN Put(map, t, v)
           /\ DOMAIN Put(map, t, v) \subseteq DOMAIN map \cup {t}
           /\ \A u \in DOMAIN map : u # t => Put(map, t, v)[u] = map[u]
           /\ t \in DOMAIN Put(map, t, v) => Put(map, t, v)[t] = v \/ Put(map, t, v) = map
  BY DEF Put

(* A map within its capacity stays within it.                              *)
LEMMA PutFits ==
    ASSUME NEW map, NEW t, NEW v,
           IsFiniteSet(DOMAIN map), Cardinality(DOMAIN map) <= Cap
    PROVE  /\ IsFiniteSet(DOMAIN Put(map, t, v))
           /\ Cardinality(DOMAIN Put(map, t, v)) <= Cap
  <1>1. CASE t \in DOMAIN map
    BY <1>1, PutThere
  <1>2. CASE t \notin DOMAIN map /\ Cardinality(DOMAIN map) < Cap
    <2>1. DOMAIN Put(map, t, v) = DOMAIN map \cup {t}
      BY <1>2 DEF Put
    <2>2. /\ IsFiniteSet(DOMAIN map \cup {t})
          /\ Cardinality(DOMAIN map \cup {t}) = Cardinality(DOMAIN map) + 1
      BY <1>2, FS_AddElement
    <2>3. Cardinality(DOMAIN map) \in Nat
      BY FS_CardinalityType
    <2> QED
      BY <1>2, <2>1, <2>2, <2>3, ConnAssumption
  <1>3. CASE t \notin DOMAIN map /\ ~(Cardinality(DOMAIN map) < Cap)
    BY <1>3 DEF Put
  <1> QED
    BY <1>1, <1>2, <1>3

(* There is room in dt_dirty for the mark of an upgraded connection.       *)
LEMMA MarkFits ==
    ASSUME Room, NEW t \in DOMAIN upgraded
    PROVE  t \in DOMAIN Put(marked, t, TRUE) /\ Put(marked, t, TRUE)[t] = TRUE
  <1>1. CASE t \in DOMAIN marked
    BY <1>1 DEF Put
  <1>2. CASE t \notin DOMAIN marked
    <2>1. DOMAIN marked \in SUBSET DOMAIN upgraded
      BY DEF Room
    <2>2. DOMAIN marked # DOMAIN upgraded
      BY <1>2
    <2>3. Cardinality(DOMAIN marked) < Cardinality(DOMAIN upgraded)
      <3>1. /\ IsFiniteSet(DOMAIN marked)
            /\ Cardinality(DOMAIN marked) <= Cardinality(DOMAIN upgraded)
            /\ Cardinality(DOMAIN marked) # Cardinality(DOMAIN upgraded)
        BY <2>1, <2>2, FS_Subset DEF Room
      <3>2. /\ Cardinality(DOMAIN marked) \in Nat
            /\ Cardinality(DOMAIN upgraded) \in Nat
        BY <3>1, FS_CardinalityType DEF Room
      <3> QED
        BY <3>1, <3>2
    <2>4. IsFiniteSet(DOMAIN marked)
      BY <2>1, FS_Subset DEF Room
    <2>5. Cardinality(DOMAIN marked) < Cap
      BY <2>3, <2>4, FS_CardinalityType, ConnAssumption DEF Room
    <2> QED
      BY <2>5 DEF Put
  <1> QED
    BY <1>1, <1>2

-----------------------------------------------------------------------------
LEMMA InitHolds == Init => IInv
  <1> SUFFICES ASSUME Init PROVE IInv
    OBVIOUS
  <1>1. Places
    <2>1. (CHOOSE t \in Tuples : TRUE) \in Tuples
      BY ConnAssumption
    <2> QED
      BY <2>1 DEF Init, Places, Open
  <1>2. Room
    <2>1. DOMAIN upgraded = {} /\ DOMAIN marked = {}
      BY DEF Init, Nothing
    <2> QED
      BY <2>1, FS_EmptySet, ConnAssumption DEF Room
  <1>3. Owing
    BY DEF Init, Owing, MarksKept
  <1> QED
    BY <1>1, <1>2, <1>3 DEF IInv

(* A new connection finds the marks of others where they were.             *)
LEMMA ConnectHolds ==
    ASSUME IInv, NEW c \in Conns, NEW t \in Tuples, Connect(c, t)
    PROVE  IInv'
  <1> USE DEF IInv, Connect, kernelVars, mapVars
  <1>1. Places'
    BY DEF Places, Open
  <1>2. Room'
    BY DEF Room
  <1>3. \A d \in Conns : d # c => life'[d] = life[d] /\ tuple'[d] = tuple[d]
    BY DEF Places
  <1>4. life'[c] = "open" /\ tuple'[c] = t /\ life[c] = "new"
    BY DEF Places
  <1>5. Owing'
    BY <1>3, <1>4 DEF Owing, MarksKept, Open, Set
  <1> QED
    BY <1>1, <1>2, <1>5

LEMMA CloseHolds ==
    ASSUME IInv, NEW c \in Conns, Close(c)
    PROVE  IInv'
  <1> USE DEF IInv, Close, kernelVars, mapVars, clientVars
  <1>1. \A d \in Conns : d # c => life'[d] = life[d]
    BY DEF Places
  <1>2. life'[c] = "closed"
    BY DEF Places
  <1>3. Places'
    BY <1>1, <1>2 DEF Places, Open
  <1>4. Room'
    BY DEF Room
  <1>5. Owing'
    BY <1>1, <1>2 DEF Owing, MarksKept, Open, Set
  <1> QED
    BY <1>3, <1>4, <1>5

-----------------------------------------------------------------------------
(* What a verdict leaves alone.                                            *)
LEMMA SendFrame ==
    ASSUME IInv, NEW c \in Conns, Send(c)
    PROVE  Places' /\ Open(c) /\ UNCHANGED <<life, tuple>>
  BY DEF IInv, Send, clientVars, Places, Open

(* The mark that is cleared is the connection's own.                       *)
LEMMA HandOverHolds ==
    ASSUME IInv, NEW c \in Conns, NEW m, Open(c), tuple[c] \in DOMAIN upgraded,
           HandOver(c, m), UNCHANGED <<life, tuple>>,
           DOMAIN upgraded' = DOMAIN upgraded
    PROVE  Room' /\ Owing'
  <1> DEFINE t == tuple[c]
  <1>1. DOMAIN marked' = DOMAIN marked
        /\ \A u \in DOMAIN marked : u # t => marked'[u] = marked[u]
    <2>1. CASE Set(marked, t)
      <3>1. t \in DOMAIN marked /\ marked' = Put(marked, t, FALSE)
        BY <2>1 DEF HandOver, Set
      <3> QED
        BY <3>1 DEF Put
    <2>2. CASE ~Set(marked, t)
      BY <2>2 DEF HandOver
    <2> QED
      BY <2>1, <2>2
  <1>3. Room'
    BY <1>1 DEF IInv, Room
  <1>4. owed' = owed \ {c}
    BY DEF HandOver
  <1>5. ASSUME NEW d \in owed', Open(d)'
        PROVE  Set(marked, tuple[d])'
    <2>1. d \in owed /\ d # c /\ d \in Conns /\ Open(d)
      BY <1>4, <1>5 DEF IInv, Owing, Open
    <2>2. tuple[d] # t
      BY <2>1 DEF IInv, Places
    <2>3. Set(marked, tuple[d])
      BY <2>1 DEF IInv, Owing, MarksKept
    <2> QED
      BY <1>1, <2>2, <2>3 DEF Set
  <1>6. Owing'
    BY <1>4, <1>5 DEF IInv, Owing, MarksKept
  <1> QED
    BY <1>3, <1>6

LEMMA AnswerH2Holds ==
    ASSUME IInv, NEW c \in Conns, NEW m, Open(c), AnswerH2(c, m),
           UNCHANGED <<life, tuple>>
    PROVE  Room' /\ Owing'
  <1> DEFINE t == tuple[c]
  <1>1. t \in DOMAIN upgraded /\ upgraded' = upgraded
    BY DEF AnswerH2, IsH2
  <1>2. marked' = Put(marked, t, TRUE)
    BY DEF AnswerH2, Mark
  <1>3. t \in DOMAIN marked' /\ marked'[t] = TRUE
    BY <1>1, <1>2, MarkFits DEF IInv
  <1>5. /\ DOMAIN marked \subseteq DOMAIN marked'
        /\ DOMAIN marked' \subseteq DOMAIN marked \cup {t}
        /\ \A u \in DOMAIN marked : u # t => marked'[u] = marked[u]
    BY <1>2 DEF Put
  <1>6. Room'
    BY <1>1, <1>5 DEF IInv, Room
  <1>7. owed' = owed \cup {c}
    BY DEF AnswerH2
  <1>8. ASSUME NEW d \in owed', Open(d)'
        PROVE  Set(marked, tuple[d])'
    <2>1. CASE tuple[d] = t
      BY <2>1, <1>3 DEF Set
    <2>2. CASE tuple[d] # t
      <3>1. d \in owed /\ Open(d)
        BY <1>7, <1>8, <2>2 DEF Open
      <3>2. Set(marked, tuple[d])
        BY <3>1 DEF IInv, Owing, MarksKept
      <3> QED
        BY <1>5, <2>2, <3>2 DEF Set
    <2> QED
      BY <2>1, <2>2
  <1>9. Owing'
    BY <1>7, <1>8 DEF IInv, Owing, MarksKept, Open
  <1> QED
    BY <1>6, <1>9

LEMMA UpgradeHolds ==
    ASSUME IInv, NEW c \in Conns, NEW m, Upgrade(c, m),
           UNCHANGED <<life, tuple>>
    PROVE  Room' /\ Owing'
  <1> DEFINE t == tuple[c]
  <1>1. upgraded' = Put(upgraded, t, "upgraded") /\ UNCHANGED <<marked, owed>>
    BY DEF Upgrade
  <1>2. IsFiniteSet(DOMAIN upgraded') /\ Cardinality(DOMAIN upgraded') <= Cap
    BY <1>1, PutFits DEF IInv, Room
  <1>3. DOMAIN upgraded \subseteq DOMAIN upgraded'
    BY <1>1, PutAdds
  <1>5. Room'
    BY <1>1, <1>2, <1>3 DEF IInv, Room
  <1>6. Owing'
    BY <1>1 DEF IInv, Owing, MarksKept, Open, Set
  <1> QED
    BY <1>5, <1>6

LEMMA SendHolds ==
    ASSUME IInv, NEW c \in Conns, Send(c)
    PROVE  IInv'
  <1>1. Places' /\ Open(c) /\ UNCHANGED <<life, tuple>>
    BY SendFrame
  <1>2. PICK m : Verdict(c, m)
    BY DEF Send
  <1>3. ASSUME UNCHANGED <<mapVars, owed>>
        PROVE  Room' /\ Owing'
    BY <1>1, <1>3 DEF IInv, mapVars, Room, Owing, MarksKept,
                      Open, Set
  <1>4. CASE Unseen(c, m) \/ AnswerH1(c, m) \/ PassH1(c, m) \/ Unparsed(c, m)
    <2>1. UNCHANGED <<mapVars, owed>>
      BY <1>4 DEF Unseen, AnswerH1, PassH1, Unparsed, kernelVars
    <2> QED
      BY <1>1, <1>3, <2>1 DEF IInv
  <1>5. CASE Upgrade(c, m)
    BY <1>1, <1>5, UpgradeHolds DEF IInv
  <1>6. CASE Misread(c, m)
    <2>1. tuple[c] \in DOMAIN upgraded /\ upgraded' = upgraded
      BY <1>6 DEF Misread, IsH2
    <2>2. CASE HandOver(c, m)
      BY <1>1, <2>1, <2>2, HandOverHolds DEF IInv
    <2>3. CASE UNCHANGED <<flow, marked, owed>>
      BY <1>1, <1>3, <2>1, <2>3 DEF mapVars, IInv
    <2> QED
      BY <1>6, <2>2, <2>3 DEF Misread
  <1>7. CASE PassOn(c, m)
    <2>1. tuple[c] \in DOMAIN upgraded
      BY <1>7 DEF PassOn, IsH2
    <2>2. DOMAIN upgraded' = DOMAIN upgraded
      BY <1>7, <2>1, PutThere DEF PassOn
    <2>3. HandOver(c, m)
      BY <1>7 DEF PassOn
    <2> QED
      BY <1>1, <2>1, <2>2, <2>3, HandOverHolds DEF IInv
  <1>8. CASE AnswerH2(c, m)
    BY <1>1, <1>8, AnswerH2Holds DEF IInv
  <1> QED
    BY <1>2, <1>4, <1>5, <1>6, <1>7, <1>8 DEF Verdict

(* The server changes nothing that the invariant speaks of, nor does the   *)
(* second half of an upgrade.                                              *)
LEMMA ServerHolds ==
    ASSUME IInv, UNCHANGED <<life, tuple, upgraded, marked, owed>>
    PROVE  IInv'
  BY DEF IInv, Places, Room, Owing, MarksKept, Open, Set

LEMMA StepHolds == IInv /\ [Next]_vars => IInv'
  <1> SUFFICES ASSUME IInv, [Next]_vars PROVE IInv'
    OBVIOUS
  <1>1. ASSUME NEW c \in Conns, NEW t \in Tuples, Connect(c, t) PROVE IInv'
    BY <1>1, ConnectHolds
  <1>2. ASSUME NEW c \in Conns, Close(c) PROVE IInv'
    BY <1>2, CloseHolds
  <1>3. ASSUME NEW c \in Conns, Send(c) PROVE IInv'
    BY <1>3, SendHolds
  <1>4. CASE Server
    <2>1. UNCHANGED <<life, clientVars, kernelVars, sock_map>>
      BY <1>4 DEF Server, Accept, AcceptFails, Protocol, Return, Become
    <2> QED
      BY <2>1, ServerHolds DEF clientVars, kernelVars, mapVars
  <1>5. CASE UNCHANGED vars
    BY <1>5, ServerHolds DEF vars, clientVars, kernelVars, mapVars
  <1>6. ASSUME NEW c \in Conns, StartWindows(c) PROVE IInv'
    BY <1>6, ServerHolds DEF StartWindows, clientVars
  <1> QED
    BY <1>1, <1>2, <1>3, <1>4, <1>5, <1>6 DEF Next

LEMMA Always == Spec => []IInv
  BY InitHolds, StepHolds, PTL DEF Spec

-----------------------------------------------------------------------------
(* bpf_map_update_elem on dt_dirty is not checked (fast_path.bpf.c:910),   *)
(* and need not be: the mark of a connection answered in the kernel is     *)
(* there until its table was handed over, however many connections there   *)
(* are and whatever ports they reuse.                                      *)
THEOREM MarksAreKept == Spec => []MarksKept
  <1>1. IInv => MarksKept
    BY DEF IInv, Owing
  <1> QED
    BY <1>1, Always, PTL

-----------------------------------------------------------------------------
(* Types.  That every map stays within its capacity needs to know that     *)
(* their domains are finite, which Room says of the other two.             *)
TypeInv ==
    /\ TypeOK
    /\ IsFiniteSet(DOMAIN sock_map)
    /\ IsFiniteSet(DOMAIN flow)

LEMMA MapIs ==
    ASSUME NEW S, NEW map
    PROVE  map \in Map(S) <=> /\ map \in [DOMAIN map -> S]
                              /\ DOMAIN map \subseteq Tuples
                              /\ Cardinality(DOMAIN map) <= Cap
  BY DEF Map

(* A write leaves a map of its type, within its capacity.                  *)
LEMMA PutTyped ==
    ASSUME NEW S, NEW map \in Map(S), IsFiniteSet(DOMAIN map),
           NEW t \in Tuples, NEW v \in S
    PROVE  Put(map, t, v) \in Map(S) /\ IsFiniteSet(DOMAIN Put(map, t, v))
  <1>1. /\ map \in [DOMAIN map -> S]
        /\ DOMAIN map \subseteq Tuples
        /\ Cardinality(DOMAIN map) <= Cap
    BY MapIs
  <1>2. /\ IsFiniteSet(DOMAIN Put(map, t, v))
        /\ Cardinality(DOMAIN Put(map, t, v)) <= Cap
    BY <1>1, PutFits
  <1>3. /\ DOMAIN Put(map, t, v) \subseteq Tuples
        /\ Put(map, t, v) \in [DOMAIN Put(map, t, v) -> S]
    BY <1>1 DEF Put
  <1> QED
    BY <1>2, <1>3, MapIs

(* So does the change of an entry.                                         *)
LEMMA ChangeTyped ==
    ASSUME NEW S, NEW map \in Map(S), NEW t, NEW v \in S
    PROVE  [map EXCEPT ![t] = v] \in Map(S)
  <1>1. map \in [DOMAIN map -> S]
    BY MapIs
  <1>2. DOMAIN [map EXCEPT ![t] = v] = DOMAIN map
    OBVIOUS
  <1>3. [map EXCEPT ![t] = v] \in [DOMAIN map -> S]
    BY <1>1
  <1> QED
    BY <1>2, <1>3, MapIs

(* The domains are finite.                                                 *)
LEMMA Finite ==
    ASSUME IInv
    PROVE  IsFiniteSet(DOMAIN upgraded) /\ IsFiniteSet(DOMAIN marked)
  BY FS_Subset DEF IInv, Room

LEMMA TypeInit == Init => TypeInv
  <1> SUFFICES ASSUME Init PROVE TypeInv
    OBVIOUS
  <1>1. DOMAIN Nothing = {} /\ \A S : Nothing \in [{} -> S]
    BY DEF Nothing
  <1>2. IsFiniteSet(DOMAIN Nothing) /\ Cardinality(DOMAIN Nothing) = 0
    BY <1>1, FS_EmptySet
  <1>3. \A S : Nothing \in Map(S)
    <2> TAKE S
    <2>1. /\ Nothing \in [DOMAIN Nothing -> S]
          /\ DOMAIN Nothing \subseteq Tuples
          /\ Cardinality(DOMAIN Nothing) <= Cap
      BY <1>1, <1>2, ConnAssumption
    <2> QED
      BY <2>1, MapIs
  <1>4. (CHOOSE t \in Tuples : TRUE) \in Tuples
    BY ConnAssumption
  <1> QED
    BY <1>2, <1>3, <1>4 DEF Init, TypeInv, TypeOK

Messaging == {"preface", "get", "private"} \cup Frames

(* What user space gets to read first.                                     *)
LEMMA DeliverTyped ==
    ASSUME TypeInv, NEW c \in Conns, NEW m \in Messaging, Deliver(c, m)
    PROVE  first' \in [Conns -> {"none", "preface", "get", "private"} \cup Frames]
  BY DEF TypeInv, TypeOK, Deliver, Messaging

MapsTyped ==
    /\ upgraded \in Map({"upgraded", "handshaked"})
    /\ flow \in Map(BOOLEAN) /\ IsFiniteSet(DOMAIN flow)
    /\ marked \in Map(BOOLEAN)
    /\ blind \subseteq Conns /\ midway \subseteq Conns /\ owed \subseteq Conns
    /\ first \in [Conns -> {"none", "preface", "get", "private"} \cup Frames]

LEMMA HandOverTyped ==
    ASSUME TypeInv, IInv, NEW c \in Conns, NEW m \in Messaging, HandOver(c, m)
    PROVE  /\ flow' \in Map(BOOLEAN) /\ IsFiniteSet(DOMAIN flow')
           /\ marked' \in Map(BOOLEAN)
           /\ owed' \subseteq Conns
           /\ first' \in [Conns -> {"none", "preface", "get", "private"}
                                     \cup Frames]
  <1> DEFINE t == tuple[c]
  <1>1. /\ t \in Tuples /\ flow \in Map(BOOLEAN) /\ marked \in Map(BOOLEAN)
        /\ owed \subseteq Conns
    BY DEF TypeInv, TypeOK
  <1>2. Put(marked, t, FALSE) \in Map(BOOLEAN)
    BY <1>1, Finite, PutTyped
  <1>3. [flow EXCEPT ![t] = FALSE] \in Map(BOOLEAN)
    BY <1>1, ChangeTyped
  <1>4. marked' \in Map(BOOLEAN)
    BY <1>1, <1>2 DEF HandOver
  <1>5. flow' \in Map(BOOLEAN) /\ IsFiniteSet(DOMAIN flow')
    <2>1. flow' = flow \/ flow' = [flow EXCEPT ![t] = FALSE]
      BY DEF HandOver
    <2>2. DOMAIN flow' = DOMAIN flow
      BY <2>1
    <2> QED
      BY <1>1, <1>3, <2>1, <2>2 DEF TypeInv
  <1>6. owed' \subseteq Conns
    BY <1>1 DEF HandOver
  <1>7. PICK n \in Messaging : Deliver(c, n)
    BY DEF HandOver, Messaging
  <1> QED
    BY <1>4, <1>5, <1>6, <1>7, DeliverTyped

LEMMA VerdictTyped ==
    ASSUME TypeInv, IInv, NEW c \in Conns, NEW m \in Messages(c), Verdict(c, m)
    PROVE  MapsTyped'
  <1> USE DEF MapsTyped
  <1>1. m \in Messaging
    BY DEF Messages, Messaging, Frames
  <1>2. /\ MapsTyped /\ tuple[c] \in Tuples
    BY DEF TypeInv, TypeOK
  <1>3. CASE Unseen(c, m) /\ UNCHANGED midway
    BY <1>1, <1>2, <1>3, DeliverTyped DEF Unseen, mapVars
  <1>4. CASE Upgrade(c, m)
    <2>1. Put(upgraded, tuple[c], "upgraded") \in Map({"upgraded", "handshaked"})
      BY <1>2, Finite, PutTyped
    <2> QED
      BY <1>2, <1>4, <2>1 DEF Upgrade
  <1>5. CASE AnswerH1(c, m) /\ UNCHANGED midway
    BY <1>2, <1>5 DEF AnswerH1, kernelVars, mapVars
  <1>6. CASE PassH1(c, m) /\ UNCHANGED midway
    BY <1>1, <1>2, <1>6, DeliverTyped DEF PassH1, mapVars
  <1>7. CASE Unparsed(c, m) /\ UNCHANGED midway
    BY <1>1, <1>2, <1>7, DeliverTyped DEF Unparsed, mapVars
  <1>8. CASE Misread(c, m) /\ UNCHANGED midway
    <2>1. UNCHANGED <<upgraded, midway>> /\ blind' \subseteq Conns
      BY <1>2, <1>8 DEF Misread
    <2>2. CASE HandOver(c, m)
      BY <1>1, <1>2, <2>1, <2>2, HandOverTyped
    <2>3. CASE Deliver(c, m) /\ UNCHANGED <<flow, marked, owed>>
      BY <1>1, <1>2, <2>1, <2>3, DeliverTyped
    <2> QED
      BY <1>8, <2>2, <2>3 DEF Misread
  <1>9. CASE PassOn(c, m) /\ UNCHANGED midway
    <2>1. Put(upgraded, tuple[c], "handshaked") \in Map({"upgraded", "handshaked"})
      BY <1>2, Finite, PutTyped
    <2>2. upgraded' \in Map({"upgraded", "handshaked"})
      BY <1>2, <1>9, <2>1 DEF PassOn
    <2> QED
      BY <1>1, <1>2, <1>9, <2>2, HandOverTyped DEF PassOn
  <1>10. CASE AnswerH2(c, m) /\ UNCHANGED midway
    <2>1. Put(marked, tuple[c], TRUE) \in Map(BOOLEAN)
      BY <1>2, Finite, PutTyped
    <2>2. [flow EXCEPT ![tuple[c]] = TRUE] \in Map(BOOLEAN)
      BY <1>2, ChangeTyped
    <2>3. flow' \in Map(BOOLEAN) /\ IsFiniteSet(DOMAIN flow')
      <3>1. flow' = flow \/ flow' = [flow EXCEPT ![tuple[c]] = TRUE]
        BY <1>10 DEF AnswerH2
      <3>2. DOMAIN flow' = DOMAIN flow
        BY <3>1
      <3> QED
        BY <1>2, <2>2, <3>1, <3>2
    <2> QED
      BY <1>2, <1>10, <2>1, <2>3 DEF AnswerH2, Mark
  <1> QED
    BY <1>3, <1>4, <1>5, <1>6, <1>7, <1>8, <1>9, <1>10 DEF Verdict

LEMMA TypeStep == TypeInv /\ IInv /\ [Next]_vars => TypeInv'
  <1> SUFFICES ASSUME TypeInv, IInv, [Next]_vars PROVE TypeInv'
    OBVIOUS
  <1> USE DEF TypeInv, TypeOK
  <1>1. ASSUME NEW c \in Conns, NEW t \in Tuples, Connect(c, t) PROVE TypeInv'
    <2>1. Put(sock_map, t, c) \in Map(Conns)
          /\ IsFiniteSet(DOMAIN Put(sock_map, t, c))
      BY PutTyped
    <2> QED
      BY <1>1, <2>1 DEF Connect, kernelVars, mapVars
  <1>2. ASSUME NEW c \in Conns, Close(c) PROVE TypeInv'
    <2>1. /\ DOMAIN sock_map' \subseteq DOMAIN sock_map
          /\ sock_map' = [t \in DOMAIN sock_map' |-> sock_map[t]]
      BY <1>2 DEF Close, Forget
    <2>2. sock_map \in [DOMAIN sock_map -> Conns] /\ DOMAIN sock_map \subseteq Tuples
          /\ Cardinality(DOMAIN sock_map) <= Cap
      BY MapIs
    <2>3. IsFiniteSet(DOMAIN sock_map')
          /\ Cardinality(DOMAIN sock_map') <= Cardinality(DOMAIN sock_map)
      BY <2>1, FS_Subset
    <2>4. Cardinality(DOMAIN sock_map') \in Nat /\ Cardinality(DOMAIN sock_map) \in Nat
      BY <2>3, FS_CardinalityType
    <2>5. Cardinality(DOMAIN sock_map') <= Cap
      BY <2>2, <2>3, <2>4, ConnAssumption
    <2>6. sock_map' \in [DOMAIN sock_map' -> Conns]
      BY <2>1, <2>2
    <2>7. sock_map' \in Map(Conns)
      BY <2>1, <2>2, <2>5, <2>6, MapIs
    <2>8. life' \in [Conns -> {"new", "open", "closed"}]
      BY <1>2 DEF Close
    <2>9. UNCHANGED <<tuple, speaks, said, upgraded, flow, marked, blind, midway,
                      owed, first, backlog, serving>>
      BY <1>2 DEF Close, clientVars, kernelVars, mapVars, serverVars
    <2> QED
      BY <2>3, <2>7, <2>8, <2>9
  <1>3. ASSUME NEW c \in Conns, Send(c) PROVE TypeInv'
    <2>1. PICK m \in Messages(c) : Verdict(c, m)
      BY <1>3 DEF Send
    <2>2. MapsTyped'
      BY <2>1, VerdictTyped
    <2>3. said' \in [Conns -> Nat]
      BY <1>3 DEF Send
    <2> QED
      BY <1>3, <2>2, <2>3 DEF Send, clientVars, serverVars, MapsTyped
  <1>4. CASE Server
    <2> USE DEF Become, kernelVars, mapVars, clientVars
    <2>1. ASSUME backlog # <<>>
          PROVE  Head(backlog) \in Conns /\ Tail(backlog) \in Seq(Conns)
      BY <2>1
    <2>2. CASE Accept
      BY <2>1, <2>2 DEF Accept
    <2>3. CASE AcceptFails
      BY <2>1, <2>3 DEF AcceptFails
    <2>4. ASSUME NEW c \in Conns, Protocol(c) PROVE TypeInv'
      BY <2>4 DEF Protocol
    <2>5. ASSUME NEW c \in Conns, Return(c) PROVE TypeInv'
      BY <2>5 DEF Return
    <2> QED
      BY <1>4, <2>2, <2>3, <2>4, <2>5 DEF Server
  <1>5. CASE UNCHANGED vars
    BY <1>5 DEF vars, clientVars, kernelVars, mapVars, serverVars
  <1>6. ASSUME NEW c \in Conns, StartWindows(c) PROVE TypeInv'
    <2>1. Put(flow, tuple[c], FALSE) \in Map(BOOLEAN)
          /\ IsFiniteSet(DOMAIN Put(flow, tuple[c], FALSE))
      BY PutTyped
    <2>2. first' \in [Conns -> {"none", "preface", "get", "private"} \cup Frames]
      BY <1>6, DeliverTyped DEF StartWindows, Messaging
    <2> QED
      BY <1>6, <2>1, <2>2 DEF StartWindows, clientVars, serverVars
  <1> QED
    BY <1>1, <1>2, <1>3, <1>4, <1>5, <1>6 DEF Next

(* Every variable keeps its type, and no map outgrows the max_entries it   *)
(* was created with, however many connections there are.                   *)
THEOREM TypeCorrect == Spec => []TypeOK
  <1>1. TypeInv => TypeOK
    BY DEF TypeInv
  <1> QED
    BY <1>1, TypeInit, TypeStep, Always, PTL DEF Spec
=============================================================================
