---------------------------- MODULE BeeperProofs ----------------------------
(***************************************************************************)
(* Theorems about a connection, for every value of its constants: every    *)
(* variable keeps its type; no request is answered or passed on twice,     *)
(* whatever fails and however frames are batched; and with one frame per   *)
(* message, and no message spoilt, none is lost.  And lemmas on what the   *)
(* steps of each component leave alone or add to, on which WindowProofs,   *)
(* AccountProofs and TableProofs build.                                    *)
(***************************************************************************)
EXTENDS BeeperInvariants, FiniteSetTheorems, SequenceTheorems, TLAPS

(* What a frame of each kind carries.                                      *)
LEMMA FrameFields ==
    ASSUME NEW f \in Frame
    PROVE  /\ f.kind = "settings" => f.win \in Windows
           /\ f.kind = "window" => f.inc \in Incs /\ f.upto \in Nat
           /\ f.kind = "headers" => /\ f.sid \in Nat
                                    /\ f.path \in Paths
                                    /\ f.add \in Entries \cup {NoEntry}
                                    /\ f.ctx \in Table
           /\ f.kind = "dt" => f.table \in Table
           /\ f.kind = "fc" => f.sent \in Nat /\ f.upto \in Nat
  BY DEF Frame, Preface, SettingsAck, Other, Junk

(* Every frame the components build is a frame.                            *)
LEMMA FramesBuilt ==
    /\ Preface \in Frame /\ SettingsAck \in Frame
    /\ Other \in Frame /\ Junk \in Frame
    /\ \A w \in Windows : Settings(w) \in Frame
    /\ \A n \in Incs, u \in Nat : Update(n, u) \in Frame
    /\ \A s \in Nat, p \in Paths, e \in Entries \cup {NoEntry}, t \in Table :
           Headers(s, p, e, t) \in Frame
    /\ \A t \in Table : DtSync(t) \in Frame
    /\ \A n, u \in Nat : FcSync(n, u) \in Frame
  BY DEF Frame, Settings, Update, Headers, DtSync, FcSync

(* Inserting into a table yields a table.                                  *)
LEMMA LearnType ==
    ASSUME NEW t \in Table, NEW e \in Entries \cup {NoEntry}
    PROVE  Learn(t, e) \in Table
  BY TableAssumption DEF Table, Learn, Evict

LEMMA LearnFromType ==
    ASSUME NEW t \in Table, NEW f \in Frame
    PROVE  LearnFrom(t, f) \in Table
  BY LearnType, FrameFields DEF LearnFrom

-----------------------------------------------------------------------------
LEMMA TypeInit == Init => TypeOK
  <1> SUFFICES ASSUME Init PROVE TypeOK
    OBVIOUS
  <1> USE DEF Init, Table
  <1>1. SocketTypeOK
    <2>1. msg \in Seq(Frame) /\ wire \in Seq(Frame)
      BY DEF SocketInit
    <2>2. cut \in BOOLEAN
      BY Zenon DEF SocketInit
    <2> QED
      BY <2>1, <2>2 DEF SocketTypeOK
  <1>2. ClientTypeOK
    <2>1. cliTable \in Table /\ asked \in Seq(Paths) /\ granted \in Nat /\ sent \in Nat
      BY WindowAssumption DEF ClientInit
    <2>2. acked \in BOOLEAN
      BY Zenon DEF ClientInit
    <2> QED
      BY <2>1, <2>2 DEF ClientTypeOK
  <1>3. FastTypeOK
    <2>1. /\ h2_state = "none" /\ mirror \in Table /\ served = {}
          /\ conn_window = 0 /\ stream_window = 0
          /\ unreported = 0 /\ servedBytes = 0
      BY DEF FastInit
    <2>2. dirty \in BOOLEAN /\ skip \in BOOLEAN
      BY Zenon DEF FastInit
    <2> QED
      BY <2>1, <2>2, WindowAssumption DEF FastTypeOK
  <1>4. ListenerTypeOK
    <2>1. arrived \in Nat /\ scanned \in Nat /\ handed \in Nat /\ reported \in Nat
      BY DEF ListenerInit
    <2>2. scanning \in BOOLEAN /\ pending \in BOOLEAN
      BY Zenon DEF ListenerInit
    <2> QED
      BY <2>1, <2>2 DEF ListenerTypeOK
  <1>5. ServerTypeOK
    <2>1. /\ pc = "protocol" /\ decoded = 0 /\ decTable \in Table
          /\ sndWindow \in Int /\ taken = 0 /\ incoming \in Seq(Request)
          /\ inService = {} /\ responded = {} /\ left = {}
          /\ queued = 0 /\ srvSent = 0
      BY WindowAssumption DEF ServerInit
    <2>2. awake \in BOOLEAN /\ greeted \in BOOLEAN
      BY Zenon DEF ServerInit
    <2> QED
      BY <2>1, <2>2 DEF ServerTypeOK
  <1> QED
    BY <1>1, <1>2, <1>3, <1>4, <1>5 DEF TypeOK

LEMMA TypeClient == TypeOK /\ ClientStep => TypeOK'
  <1> SUFFICES ASSUME TypeOK, ClientStep PROVE TypeOK'
    OBVIOUS
  <1> USE DEF TypeOK
  <1>1. UNCHANGED <<fastVars, userVars, awake>>
    BY DEF ClientStep
  <1>2. FastTypeOK' /\ ListenerTypeOK' /\ ServerTypeOK'
    BY <1>1 DEF FastTypeOK, ListenerTypeOK, ServerTypeOK, fastVars, userVars,
                listenerVars, serverVars, Request
  <1>3. ASSUME NEW f \in Frame, Send(f)
        PROVE  SocketTypeOK' /\ sent' \in Nat
    BY <1>3 DEF Send, SocketTypeOK, ClientTypeOK
  <1>4. SocketTypeOK' /\ ClientTypeOK'
    <2> USE DEF ClientTypeOK
    <2>1. CASE SendPreface
      BY <1>3, <2>1, FramesBuilt DEF SendPreface
    <2>2. ASSUME NEW w \in Windows, SendSettings(w)
          PROVE  SocketTypeOK' /\ ClientTypeOK'
      BY <1>3, <2>2, FramesBuilt DEF SendSettings
    <2>3. CASE SendAck
      BY <1>3, <2>3, FramesBuilt DEF SendAck
    <2>4. ASSUME NEW n \in Incs, SendUpdate(OpenWindow, n)
          PROVE  SocketTypeOK' /\ ClientTypeOK'
      <3>1. granted + n \in Nat
        BY WindowAssumption
      <3>2. Update(n, granted + n) \in Frame
        BY <3>1, FramesBuilt
      <3> QED
        BY <1>3, <2>4, <3>1, <3>2 DEF SendUpdate
    <2>5. ASSUME NEW p \in Paths, NEW e \in Entries \cup {NoEntry},
                 SendRequest(p, e)
          PROVE  SocketTypeOK' /\ ClientTypeOK'
      <3>1. Headers(Len(asked) + 1, p, e, cliTable) \in Frame
        BY FramesBuilt
      <3>2. Learn(cliTable, e) \in Table
        BY LearnType
      <3> QED
        BY <1>3, <2>5, <3>1, <3>2 DEF SendRequest
    <2>6. CASE SendOther
      BY <1>3, <2>6, FramesBuilt DEF SendOther
    <2> QED
      BY <2>1, <2>2, <2>3, <2>4, <2>5, <2>6 DEF ClientStep, ClientSends
  <1> QED
    BY <1>2, <1>4

LEMMA FollowType ==
    ASSUME NEW f \in Frame, FastTypeOK, Follow(f)
    PROVE  /\ h2_state' \in {"none", "upgraded", "handshaked"}
           /\ conn_window' \in 0..MaxWindow
           /\ stream_window' \in 0..MaxWindow
  <1> USE DEF FastTypeOK
  <1>1. h2_state' \in {"none", "upgraded", "handshaked"}
    BY DEF Follow
  <1>2. CASE UNCHANGED <<conn_window, stream_window>>
    BY <1>1, <1>2
  <1>3. CASE /\ conn_window' = IF f.kind # "window" THEN conn_window
                               ELSE IF conn_window + f.inc > MaxWindow
                               THEN MaxWindow ELSE conn_window + f.inc
             /\ stream_window' = IF f.kind = "settings" THEN f.win
                                 ELSE stream_window
    <2>1. f.kind = "window" => f.inc \in 1..MaxWindow
      BY FrameFields, WindowAssumption
    <2>2. f.kind = "settings" => f.win \in 0..MaxWindow
      BY FrameFields, WindowAssumption
    <2>3. conn_window' \in 0..MaxWindow
      BY <1>3, <2>1, WindowAssumption
    <2> QED
      BY <1>1, <1>3, <2>2, <2>3
  <1> QED
    BY <1>2, <1>3 DEF Follow

(* A verdict that passes on `x` for the frame `f` in front: what Forward,  *)
(* ServePartly and Overwrite have in common.                               *)
Passes(f, x) ==
    /\ Parsed(f)
    /\ \/ x = f
       \/ Servable(f) /\ Fault("pull") /\ x \in {Junk, Other}
    /\ dirty => Renderable(mirror)
    /\ Follow(f)
    /\ Report(x) \/ NoReport(x) \/ Stray(x)
    /\ mirror' = LearnFrom(mirror, f)
    /\ dirty' = FALSE
    /\ UNCHANGED <<cut, served, servedBytes>>

(* `q` is what was behind the first frame, cut short or with bytes that    *)
(* are no frame.                                                           *)
Behind(q) ==
    \A i \in DOMAIN q :
        q[i] = Junk \/ (i + 1 \in DOMAIN msg /\ q[i] = msg[i + 1])

LEMMA BehindAppended ==
    ASSUME NEW q \in Seq(Frame), Behind(q)
    PROVE  /\ q \o <<Junk>> \in Seq(Frame)
           /\ Behind(q \o <<Junk>>)
  <1>1. Junk \in Frame
    BY FramesBuilt
  <1> HIDE DEF Junk
  <1>2. /\ q \o <<Junk>> \in Seq(Frame)
        /\ DOMAIN (q \o <<Junk>>) = 1 .. Len(q) + 1
        /\ DOMAIN q = 1 .. Len(q) /\ Len(q) \in Nat
        /\ (q \o <<Junk>>)[Len(q) + 1] = Junk
        /\ \A i \in 1 .. Len(q) : (q \o <<Junk>>)[i] = q[i]
    BY <1>1
  <1> DEFINE r == q \o <<Junk>>
  <1> HIDE DEF r
  <1>3. \A i \in DOMAIN r : (i \in DOMAIN q /\ r[i] = q[i]) \/ r[i] = Junk
    BY <1>2 DEF r
  <1>4. Behind(r)
    BY <1>3 DEF Behind
  <1> QED
    BY <1>2, <1>4 DEF r

LEMMA Passing ==
    ASSUME TypeOK, NEW f, f = Head(msg), msg # <<>>,
           Forward(f) \/ ServePartly(f) \/ Overwrite(f)
    PROVE  /\ \E x : Passes(f, x)
           /\ skip' \in BOOLEAN
           /\ msg' \in Seq(Frame)
           /\ Behind(msg')
  <1>1. msg \in Seq(Frame) /\ Junk \in Frame
    BY FramesBuilt DEF TypeOK, SocketTypeOK
  <1>2. /\ Tail(msg) \in Seq(Frame)
        /\ \A i \in DOMAIN Tail(msg) :
              i + 1 \in DOMAIN msg /\ Tail(msg)[i] = msg[i + 1]
    BY <1>1
  <1>3. Tail(msg) \in Seq(Frame) /\ Behind(Tail(msg))
    BY <1>2 DEF Behind
  <1>4. <<>> \in Seq(Frame) /\ Behind(<<>>)
    BY DEF Behind
  <1>5. <<Junk>> \in Seq(Frame) /\ Behind(<<Junk>>)
    BY <1>1 DEF Behind
  <1>6. ASSUME NEW n \in 0 .. Len(Tail(msg))
        PROVE  /\ SubSeq(Tail(msg), 1, n) \in Seq(Frame)
               /\ Behind(SubSeq(Tail(msg), 1, n))
    <2>1. /\ SubSeq(Tail(msg), 1, n) \in Seq(Frame)
          /\ \A i \in DOMAIN SubSeq(Tail(msg), 1, n) :
                /\ i \in DOMAIN Tail(msg)
                /\ SubSeq(Tail(msg), 1, n)[i] = Tail(msg)[i]
      BY <1>2
    <2> QED
      BY <1>3, <2>1, Zenon DEF Behind
  <1>7. ASSUME NEW x, NEW lost \in BOOLEAN, PassOn(f, x, lost), Parsed(f),
               x = f \/ (Servable(f) /\ Fault("pull") /\ x \in {Junk, Other})
        PROVE  Passes(f, x) /\ skip' \in BOOLEAN
    BY <1>7, Zenon DEF Passes, PassOn
  <1>8. CASE Forward(f)
    <2>1. Passes(f, f) /\ skip' \in BOOLEAN
      BY <1>7, <1>8, Zenon DEF Forward
    <2> QED
      BY <1>3, <1>8, <2>1, Zenon DEF Forward
  <1>9. CASE ServePartly(f)
    <2>1. Passes(f, f) /\ skip' \in BOOLEAN
      BY <1>7, <1>9, Zenon DEF ServePartly
    <2>2. Append(Tail(msg), Junk) = Tail(msg) \o <<Junk>>
      BY <1>1, <1>3
    <2>3. CASE msg' = Append(Tail(msg), Junk)
      BY <1>3, <2>1, <2>2, <2>3, BehindAppended, Zenon
    <2>4. CASE Resize(Tail(msg))
      <3>1. PICK n \in 0 .. Len(Tail(msg)), t \in {<<>>, <<Junk>>} :
              msg' = SubSeq(Tail(msg), 1, n) \o t
        BY <2>4, Zenon DEF Resize
      <3>2. SubSeq(Tail(msg), 1, n) \o <<>> = SubSeq(Tail(msg), 1, n)
        BY <1>6, ConcatEmptySeq, Zenon
      <3>3. t = <<>> \/ t = <<Junk>>
        OBVIOUS
      <3> QED
        BY <1>6, <2>1, <3>1, <3>2, <3>3, BehindAppended, Zenon
    <2> QED
      BY <1>9, <2>3, <2>4, Zenon DEF ServePartly
  <1>10. CASE Overwrite(f)
    <2>1. PICK x \in {Junk, Other}, lost \in BOOLEAN :
              /\ PassOn(f, x, lost)
              /\ msg' = <<>> \/ (~lost /\ msg' = <<Junk>>)
      BY <1>10, Zenon DEF Overwrite
    <2>2. Passes(f, x) /\ skip' \in BOOLEAN
      BY <1>7, <1>10, <2>1, Zenon DEF Overwrite
    <2> QED
      BY <1>4, <1>5, <2>1, <2>2, Zenon
  <1> QED
    BY <1>8, <1>9, <1>10

(* What is passed on for a frame is one.                                   *)
LEMMA PassesFrame ==
    ASSUME NEW f \in Frame, NEW x, Passes(f, x)
    PROVE  x \in Frame
  BY FramesBuilt, Zenon DEF Passes

(* What a verdict may put on the wire.                                     *)
LEMMA PassOnType ==
    ASSUME NEW f \in Frame, SocketTypeOK, FastTypeOK, NEW x, Passes(f, x),
           skip' \in BOOLEAN
    PROVE  FastTypeOK' /\ wire' \in Seq(Frame)
  <1>1. Sync(x) \in Seq(Frame) /\ x \in Frame
    <2>1. DtSync(mirror) \in Frame
      BY FramesBuilt DEF FastTypeOK
    <2> QED
      BY <2>1, PassesFrame DEF Sync
  <1>2. FcSync(unreported, servedBytes) \in Frame /\ Junk \in Frame
    BY FramesBuilt DEF FastTypeOK
  <1>3. wire \in Seq(Frame) /\ unreported \in Nat
    BY DEF SocketTypeOK, FastTypeOK
  <1>4. wire' \in Seq(Frame) /\ unreported' \in Nat
    <2>1. CASE Report(x)
      <3>1. wire \o <<FcSync(unreported, servedBytes)>> \in Seq(Frame)
        BY <1>2, <1>3
      <3>2. wire \o <<FcSync(unreported, servedBytes)>> \o Sync(x) \in Seq(Frame)
        BY <1>1, <3>1
      <3> QED
        BY <1>1, <2>1, <3>2 DEF Report
    <2>2. CASE NoReport(x)
      <3>1. wire \o Sync(x) \in Seq(Frame)
        BY <1>1, <1>3
      <3> QED
        BY <1>1, <1>3, <2>2, <3>1 DEF NoReport
    <2>3. CASE Stray(x)
      <3> HIDE DEF Junk
      <3>1. wire \o <<Junk>> \in Seq(Frame)
        BY <1>2, <1>3
      <3>2. wire \o <<Junk>> \o Sync(x) \in Seq(Frame)
        BY <1>1, <3>1
      <3> QED
        BY <1>1, <1>3, <2>3, <3>2 DEF Stray
    <2> QED
      BY <2>1, <2>2, <2>3 DEF Passes
  <1>5. LearnFrom(mirror, f) \in Table
    BY LearnFromType DEF FastTypeOK
  <1>6. Follow(f)
    BY DEF Passes
  <1> QED
    BY <1>4, <1>5, <1>6, FollowType DEF Passes, FastTypeOK

LEMMA ServeType ==
    ASSUME NEW f \in Frame, SocketTypeOK, FastTypeOK, Serve(f)
    PROVE  SocketTypeOK' /\ FastTypeOK'
  <1>1. f.kind = "headers" /\ f.path \in Routes
    BY DEF Serve, Servable
  <1>2. f.sid \in Nat /\ f.path \in Paths /\ DataLen[f.path] \in Nat
    BY <1>1, FrameFields, RouteAssumption
  <1>3. DataLen[f.path] <= conn_window
    BY <1>2 DEF Serve, Servable, FastTypeOK
  <1>4. /\ conn_window' \in 0..MaxWindow
        /\ unreported' \in Nat
        /\ servedBytes' \in Nat
    BY <1>2, <1>3, WindowAssumption DEF Serve, Charge, FastTypeOK
  <1>5. served' \subseteq [sid : Nat, path : Paths]
    BY <1>2 DEF Serve, FastTypeOK
  <1>6. LearnFrom(mirror, f) \in Table
    BY LearnFromType DEF FastTypeOK
  <1>7. FastTypeOK'
    BY <1>4, <1>5, <1>6 DEF Serve, MarkDirty, FastTypeOK
  <1> QED
    BY <1>7 DEF Serve, Redirect, SocketTypeOK

LEMMA DropType ==
    ASSUME NEW f \in Frame, SocketTypeOK, FastTypeOK, Drop(f)
    PROVE  SocketTypeOK' /\ FastTypeOK'
  <1>1. Follow(f) /\ LearnFrom(mirror, f) \in Table
    BY LearnFromType DEF FastTypeOK, Drop
  <1> QED
    BY <1>1, FollowType DEF Drop, SocketTypeOK, FastTypeOK

LEMMA TypeKernel == TypeOK /\ KernelStep => TypeOK'
  <1> SUFFICES ASSUME TypeOK, KernelStep PROVE TypeOK'
    OBVIOUS
  <1> USE DEF TypeOK
  <1>1. ClientTypeOK' /\ ListenerTypeOK'
    BY DEF KernelStep, ClientTypeOK, ListenerTypeOK, clientVars,
           userVars, listenerVars
  <1>2. ServerTypeOK'
    BY DEF KernelStep, ServerTypeOK, userVars, serverVars, Request
  <1>3. CASE Upgrade
    BY <1>1, <1>2, <1>3, WindowAssumption
    DEF Upgrade, SocketTypeOK, FastTypeOK
  <1>4. CASE ParseFails
    BY <1>1, <1>2, <1>4 DEF ParseFails, SocketTypeOK, FastTypeOK
  <1>5. CASE PassUnparsed
    BY <1>1, <1>2, <1>5 DEF PassUnparsed, fastVars, SocketTypeOK, FastTypeOK
  <1>6. CASE msg # <<>>
    <2> DEFINE f == Head(msg)
    <2> HIDE DEF f
    <2>1. f \in Frame /\ Tail(msg) \in Seq(Frame)
      BY <1>6 DEF SocketTypeOK, f
    <2>2. CASE Serve(f)
      BY <1>1, <1>2, <2>1, <2>2, ServeType
    <2>3. CASE Forward(f) \/ ServePartly(f) \/ Overwrite(f)
      <3>1. PICK x : Passes(f, x)
        BY <1>6, <2>3, Passing DEF f
      <3>2. skip' \in BOOLEAN /\ msg' \in Seq(Frame)
        BY <1>6, <2>3, Passing DEF f
      <3>3. FastTypeOK' /\ wire' \in Seq(Frame)
        BY <2>1, <3>1, <3>2, PassOnType
      <3> QED
        BY <1>1, <1>2, <3>1, <3>2, <3>3 DEF Passes, SocketTypeOK
    <2>4. CASE Drop(f)
      BY <1>1, <1>2, <2>1, <2>4, DropType
    <2> QED
      BY <1>3, <1>4, <1>5, <1>6, <2>2, <2>3, <2>4
      DEF KernelStep, Verdict, f
  <1>7. CASE msg = <<>>
    BY <1>3, <1>4, <1>5, <1>7 DEF KernelStep, Verdict
  <1> QED
    BY <1>6, <1>7

-----------------------------------------------------------------------------
(* A verdict leaves what is on the wire where it is.                       *)
LEMMA WireGrows ==
    ASSUME TypeOK, TypeOK', KernelStep
    PROVE  /\ Len(wire) <= Len(wire')
           /\ \A i \in 1 .. Len(wire) : wire'[i] = wire[i]
  <1>1. /\ msg \in Seq(Frame)
        /\ wire \in Seq(Frame)
        /\ wire' \in Seq(Frame)
    BY DEF TypeOK, SocketTypeOK
  <1>2. ASSUME NEW t \in Seq(Frame), wire' = wire \o t
        PROVE  /\ Len(wire) <= Len(wire')
               /\ \A i \in 1 .. Len(wire) : wire'[i] = wire[i]
    BY <1>1, <1>2
  <1>3. CASE Upgrade
    BY <1>1, <1>3 DEF Upgrade
  <1>4. CASE ParseFails \/ PassUnparsed
    BY <1>1, <1>2, <1>4 DEF ParseFails, PassUnparsed
  <1>5. CASE UNCHANGED wire
    BY <1>1, <1>5
  <1>6. ASSUME NEW f, f = Head(msg), msg # <<>>,
               Forward(f) \/ ServePartly(f) \/ Overwrite(f)
        PROVE  /\ Len(wire) <= Len(wire')
               /\ \A i \in 1 .. Len(wire) : wire'[i] = wire[i]
    <2>1. PICK x : Passes(f, x)
      BY <1>6, Passing
    <2>2. f \in Frame
      BY <1>1, <1>6
    <2>3. /\ Sync(x) \in Seq(Frame) /\ x \in Frame
          /\ FcSync(unreported, servedBytes) \in Frame /\ Junk \in Frame
      <3>1. /\ DtSync(mirror) \in Frame
            /\ FcSync(unreported, servedBytes) \in Frame /\ Junk \in Frame
        BY FramesBuilt DEF TypeOK, FastTypeOK
      <3> QED
        BY <2>1, <2>2, <3>1, PassesFrame DEF Sync
    <2>4. ASSUME NEW y \in Frame, wire' = wire \o <<y>> \o Sync(x) \o <<x>>
          PROVE  /\ Len(wire) <= Len(wire')
                 /\ \A i \in 1 .. Len(wire) : wire'[i] = wire[i]
      <3>1. /\ <<y>> \o Sync(x) \o <<x>> \in Seq(Frame)
            /\ wire \o <<y>> \o Sync(x) \o <<x>>
                 = wire \o (<<y>> \o Sync(x) \o <<x>>)
        BY <1>1, <2>3, SMTT(30)
      <3> QED
        BY <1>2, <2>4, <3>1
    <2>5. CASE Report(x)
      BY <2>3, <2>4, <2>5, Zenon DEF Report
    <2>6. CASE NoReport(x)
      <3>1. /\ Sync(x) \o <<x>> \in Seq(Frame)
            /\ wire \o Sync(x) \o <<x>> = wire \o (Sync(x) \o <<x>>)
        BY <1>1, <2>3
      <3> QED
        BY <1>2, <2>6, <3>1 DEF NoReport
    <2>7. CASE Stray(x)
      BY <2>3, <2>4, <2>7, Zenon DEF Stray
    <2> QED
      BY <2>1, <2>5, <2>6, <2>7 DEF Passes
  <1> QED
    BY <1>3, <1>4, <1>5, <1>6 DEF KernelStep, Verdict, Serve, Redirect, Drop

(* The bounds of what the codec still has to decode.                       *)
LEMMA UndecodedBounds ==
    ASSUME TypeInv, NEW i \in Undecoded
    PROVE  /\ i \in decoded + 1 .. handed
           /\ i \in 1 .. Len(wire)
           /\ wire[i] \in Frame
           /\ ~Private(wire[i])
  <1>1. i \in decoded + 1 .. handed /\ ~Private(wire[i])
    BY DEF Undecoded, Public
  <1>2. i \in 1 .. Len(wire)
    BY <1>1 DEF TypeInv, Cursors, TypeOK, ListenerTypeOK, ServerTypeOK,
                SocketTypeOK
  <1> QED
    BY <1>1, <1>2 DEF TypeInv, TypeOK, SocketTypeOK

LEMMA TypeTask == TypeInv /\ TaskStep => TypeInv'
  <1> SUFFICES ASSUME TypeInv, TaskStep PROVE TypeInv'
    OBVIOUS
  <1>1. SocketTypeOK' /\ ClientTypeOK' /\ FastTypeOK' /\ wire' = wire
    BY DEF TypeInv, TypeOK, TaskStep, socketVars, clientVars, fastVars,
           SocketTypeOK, ClientTypeOK, FastTypeOK
  <1> SUFFICES ListenerTypeOK' /\ ServerTypeOK' /\ Cursors'
    BY <1>1 DEF TypeInv, TypeOK
  <1>2. ListenerTypeOK /\ ServerTypeOK /\ Cursors /\ wire \in Seq(Frame)
    BY DEF TypeInv, TypeOK, SocketTypeOK
  <1> USE DEF ListenerTypeOK, Cursors
  <1>3. ASSUME UNCHANGED <<awake, serverVars>> PROVE ServerTypeOK'
    BY <1>2, <1>3 DEF ServerTypeOK, serverVars, Request
  <1>4. CASE AwaitProtocol
    <2>1. PICK n \in 1 .. Len(wire) - arrived : ReadSocket(n)
      BY <1>4 DEF AwaitProtocol
    <2> QED
      BY <1>1, <1>2, <1>3, <1>4, <2>1
      DEF AwaitProtocol, ReadSocket, serverVars
  <1>5. CASE Scan
    <2>1. wire[scanned + 1] \in Frame
      BY <1>2, <1>5 DEF Scan, ScanFrame
    <2>2. wire[scanned + 1].kind = "fc" => wire[scanned + 1].sent \in Nat
      BY <2>1, FrameFields
    <2>3. ListenerTypeOK'
      BY <1>2, <1>5, <2>2 DEF Scan, ScanFrame
    <2>4. pending' => wire[scanned + 1].kind = "dt"
      BY <1>5 DEF Scan, ScanFrame
    <2>5. /\ UNCHANGED <<arrived, handed, decoded, pc>>
          /\ scanned' = scanned + 1 /\ scanned < arrived
      BY <1>5 DEF Scan, ScanFrame, serverVars
    <2>6. Cursors'
      BY <1>1, <1>2, <2>4, <2>5
    <2> QED
      BY <1>3, <1>5, <2>3, <2>6 DEF Scan
  <1>6. CASE Handshake
    BY <1>1, <1>2, <1>6 DEF Handshake, ServerTypeOK
  <1>7. CASE Drain
    <2>1. pending => wire[scanned].table \in Table
      <3>1. pending => wire[scanned] \in Frame
        BY <1>2
      <3> QED
        BY <1>2, <3>1, FrameFields
    <2>2. decTable' \in Table
      BY <1>2, <1>7, <2>1 DEF Drain, ServerTypeOK
    <2>3. pending' \in BOOLEAN /\ ~pending'
      BY <1>7, Zenon DEF Drain
    <2>4. /\ sndWindow' \in Int /\ taken' \in Nat /\ reported' \in Nat
          /\ pc' = "poll"
          /\ UNCHANGED <<arrived, scanned, handed, scanning, awake, decoded,
                         greeted, incoming, inService, responded, left, queued,
                         srvSent>>
      BY <1>2, <1>7 DEF Drain, TakeFlow, ServerTypeOK
    <2>5. ListenerTypeOK' /\ Cursors'
      BY <1>1, <1>2, <2>3, <2>4
    <2> QED
      BY <1>2, <2>2, <2>4, <2>5 DEF ServerTypeOK
  <1>8. CASE DrainFails
    <2>1. pending' \in BOOLEAN /\ (pending' => pending)
      <3>1. CASE FlowRefused
        BY <1>2, <3>1 DEF FlowRefused
      <3>2. CASE TableRefused
        BY <3>2, Zenon DEF TableRefused
      <3> QED
        BY <1>8, <3>1, <3>2, Zenon DEF DrainFails
    <2>2. /\ sndWindow' \in Int /\ taken' \in Nat /\ reported' \in Nat
          /\ pc' = "closed"
          /\ UNCHANGED <<arrived, scanned, handed, scanning, awake, decoded,
                         decTable, greeted, incoming, inService, responded,
                         left, queued, srvSent>>
      BY <1>2, <1>8 DEF DrainFails, FlowRefused, TableRefused, TakeFlow,
                        ServerTypeOK
    <2>3. ListenerTypeOK' /\ Cursors'
      BY <1>1, <1>2, <2>1, <2>2
    <2> QED
      BY <1>2, <2>2, <2>3 DEF ServerTypeOK
  <1>9. CASE PollStream
    <2>1. ServerTypeOK' /\ UNCHANGED <<decoded, pc>>
      BY <1>3, <1>9 DEF PollStream, serverVars
    <2>2. CASE \E i \in handed + 1 .. scanned : HandOut(i)
      <3>1. PICK i \in handed + 1 .. scanned : HandOut(i)
        BY <2>2
      <3>2. /\ handed' = i /\ pc = "poll"
            /\ UNCHANGED <<arrived, scanned, scanning, pending, reported>>
        BY <1>9, <3>1 DEF HandOut, PollStream
      <3>3. decoded <= i /\ i <= scanned /\ i \in Nat
        BY <1>2 DEF ServerTypeOK
      <3> QED
        BY <1>1, <1>2, <2>1, <3>2, <3>3
    <2>3. CASE ScanHeld
      BY <1>1, <1>2, <2>1, <2>3 DEF ScanHeld
    <2>4. CASE \E n \in 1 .. Len(wire) - arrived : ReadSocket(n)
      BY <1>1, <1>2, <2>1, <2>4 DEF ReadSocket
    <2> QED
      BY <1>9, <2>2, <2>3, <2>4 DEF PollStream
  <1>10. CASE Decode
    <2>1. PICK i \in Undecoded :
            /\ decoded' = i
            /\ \/ DecodeHeaders(wire[i])
               \/ DecodeUpdate(wire[i])
               \/ DecodeOther(wire[i])
               \/ DecodeJunk(wire[i])
      BY <1>10 DEF Decode
    <2>2. i \in decoded + 1 .. handed /\ wire[i] \in Frame
      BY UndecodedBounds
    <2>3. UNCHANGED <<listenerVars, awake, taken, greeted, inService,
                      responded, left, queued, srvSent>> /\ pc = "poll"
      BY <1>10 DEF Decode
    <2>4. ListenerTypeOK' /\ decoded' \in Nat
      BY <1>2, <2>1, <2>2, <2>3 DEF listenerVars, ServerTypeOK
    <2>5. pc' \in {"poll", "closed"}
      BY <2>1, <2>3 DEF DecodeHeaders, DecodeUpdate, DecodeOther, DecodeJunk
    <2>6. Cursors'
      BY <1>1, <1>2, <2>1, <2>2, <2>3, <2>5 DEF listenerVars, ServerTypeOK
    <2>7. decTable' \in Table /\ sndWindow' \in Int /\ incoming' \in Seq(Request)
      <3>1. CASE DecodeHeaders(wire[i])
        <4>1. /\ wire[i].sid \in Nat
              /\ wire[i].path \in Paths
              /\ wire[i].add \in Entries \cup {NoEntry}
          BY <2>2, <3>1, FrameFields DEF DecodeHeaders
        <4>2. RequestOf(wire[i]) \in Request
          BY <4>1 DEF RequestOf, Request
        <4>3. Learn(decTable, wire[i].add) \in Table
          BY <1>2, <4>1, LearnType DEF ServerTypeOK
        <4> QED
          BY <1>2, <3>1, <4>2, <4>3 DEF DecodeHeaders, ServerTypeOK
      <3>2. CASE DecodeUpdate(wire[i])
        BY <1>2, <2>2, <3>2, FrameFields, WindowAssumption
        DEF DecodeUpdate, ServerTypeOK
      <3>3. CASE DecodeOther(wire[i]) \/ DecodeJunk(wire[i])
        BY <1>2, <3>3 DEF DecodeOther, DecodeJunk, ServerTypeOK
      <3> QED
        BY <2>1, <3>1, <3>2, <3>3
    <2> QED
      BY <1>2, <2>3, <2>4, <2>5, <2>6, <2>7 DEF ServerTypeOK
  <1>11. ASSUME (StreamDry /\ Flush) \/ Yield
         PROVE  queued' \in Nat /\ sndWindow' \in Int /\ srvSent' \in Nat
    BY <1>2, <1>11 DEF Flush, Yield, ServerTypeOK
  <1>12. CASE Accept
    <2>1. incoming \in Seq(Request) /\ incoming # <<>>
      BY <1>2, <1>12 DEF Accept, ServerTypeOK
    <2>2. Head(incoming) \in Request /\ Tail(incoming) \in Seq(Request)
      BY <2>1
    <2> QED
      BY <1>1, <1>2, <1>11, <1>12, <2>2 DEF Accept, ServerTypeOK, listenerVars
  <1>13. CASE Await
    <2>1. awake' \in BOOLEAN
      BY <1>2, <1>13 DEF Await, WakeIfPending
    <2> QED
      BY <1>1, <1>2, <1>11, <1>13, <2>1 DEF Await, ServerTypeOK, listenerVars
  <1> QED
    BY <1>4, <1>5, <1>6, <1>7, <1>8, <1>9, <1>10, <1>12, <1>13
    DEF TaskStep, ConnTask

LEMMA TypeRespond == TypeInv /\ RespondStep => TypeInv'
  <1> SUFFICES ASSUME TypeInv, RespondStep PROVE TypeInv'
    OBVIOUS
  <1>1. SocketTypeOK' /\ ClientTypeOK' /\ FastTypeOK' /\ wire' = wire
    BY DEF TypeInv, TypeOK, RespondStep, socketVars, clientVars, fastVars,
           SocketTypeOK, ClientTypeOK, FastTypeOK
  <1>2. PICK r \in inService : Respond(r) \/ Leave(r)
    BY DEF RespondStep
  <1>3. ListenerTypeOK' /\ Cursors'
    BY <1>1, <1>2 DEF TypeInv, TypeOK, ListenerTypeOK, Cursors, Respond,
                      Leave, listenerVars
  <1>4. ServerTypeOK'
    <2>1. ServerTypeOK /\ RespLen \in Nat
      BY ServerAssumption DEF TypeInv, TypeOK
    <2>2. CASE Respond(r)
      BY <2>1, <2>2 DEF ServerTypeOK, Respond
    <2>3. CASE Leave(r)
      BY <2>1, <2>3 DEF ServerTypeOK, Leave
    <2> QED
      BY <1>2, <2>2, <2>3
  <1> QED
    BY <1>1, <1>3, <1>4 DEF TypeInv, TypeOK

LEMMA TypeInductive == TypeInv /\ [Next]_vars => TypeInv'
  <1> SUFFICES ASSUME TypeInv, [Next]_vars PROVE TypeInv'
    OBVIOUS
  <1>1. CASE ClientStep
    <2>1. TypeOK'
      BY <1>1, TypeClient DEF TypeInv
    <2>2. wire' = wire /\ UNCHANGED userVars
      BY <1>1 DEF ClientStep, ClientSends, SendPreface, SendSettings, SendAck,
                  SendUpdate, SendRequest, SendOther, Send
    <2>3. Cursors'
      BY <2>2 DEF TypeInv, Cursors, userVars, listenerVars, serverVars
    <2> QED
      BY <2>1, <2>3 DEF TypeInv
  <1>2. CASE KernelStep
    <2>1. TypeOK'
      BY <1>2, TypeKernel DEF TypeInv
    <2>2. /\ Len(wire) <= Len(wire')
          /\ \A i \in 1 .. Len(wire) : wire'[i] = wire[i]
      BY <1>2, <2>1, WireGrows DEF TypeInv
    <2>3. UNCHANGED userVars
      BY <1>2 DEF KernelStep
    <2>4. scanned \in Nat /\ arrived \in Nat /\ Len(wire) \in Nat /\ Len(wire') \in Nat
      BY <2>1 DEF TypeInv, TypeOK, ListenerTypeOK, SocketTypeOK
    <2>5. Cursors'
      BY <2>2, <2>3, <2>4
      DEF TypeInv, Cursors, userVars, listenerVars, serverVars
    <2> QED
      BY <2>1, <2>5 DEF TypeInv
  <1>3. CASE TaskStep
    BY <1>3, TypeTask
  <1>4. CASE RespondStep
    BY <1>4, TypeRespond
  <1>5. CASE UNCHANGED vars
    BY <1>5 DEF vars, socketVars, clientVars, fastVars, userVars, listenerVars,
                serverVars, TypeInv, TypeOK, SocketTypeOK, ClientTypeOK,
                FastTypeOK, ListenerTypeOK, ServerTypeOK, Cursors, Request
  <1> QED
    BY <1>1, <1>2, <1>3, <1>4, <1>5 DEF Next

(* The initial states satisfy the type invariant.                          *)
LEMMA TypeInvInit == Init => TypeInv
  <1>1. Init => TypeOK
    BY TypeInit
  <1>2. Init => Cursors
    BY DEF Init, ListenerInit, ServerInit, SocketInit, Cursors
  <1> QED
    BY <1>1, <1>2 DEF TypeInv

(* The state of every component keeps its type, whatever fails.            *)
THEOREM TypeCorrect == Spec => []TypeOK
  <1>1. TypeInv => TypeOK
    BY DEF TypeInv
  <1> QED
    BY <1>1, TypeInvInit, TypeInductive, PTL DEF Spec

-----------------------------------------------------------------------------
(* What each step of the other components leaves alone.                    *)
LEMMA TaskLeaves ==
    ASSUME TaskStep \/ RespondStep
    PROVE  UNCHANGED <<msg, wire, cut, cliTable, asked, granted, sent, acked,
                       h2_state, mirror, dirty, conn_window, stream_window,
                       unreported, skip, served, servedBytes>>
  BY DEF TaskStep, RespondStep, socketVars, clientVars, fastVars

LEMMA KernelLeaves ==
    ASSUME KernelStep
    PROVE  UNCHANGED <<cliTable, asked, granted, sent, acked, arrived, scanned,
                       handed, scanning, pending, reported, pc, decoded,
                       decTable, sndWindow, taken, greeted, incoming,
                       inService, responded, left, queued, srvSent>>
  BY DEF KernelStep, clientVars, userVars, listenerVars, serverVars

(* A client's step sends one frame, which is none of the fast path's own.  *)
LEMMA ClientLeaves ==
    ASSUME ClientStep
    PROVE  /\ UNCHANGED <<wire, cut, h2_state, mirror, dirty, conn_window,
                          stream_window, unreported, skip, served, servedBytes,
                          arrived, scanned, handed, scanning, pending,
                          reported, pc, awake, decoded, decTable, sndWindow,
                          taken, greeted, incoming, inService, responded,
                          left, queued, srvSent>>
           /\ \E f : /\ Send(f)
                     /\ f.kind \in {"preface", "settings", "ack", "window",
                                    "headers", "other"}
  <1>1. UNCHANGED <<h2_state, mirror, dirty, conn_window,
                    stream_window, unreported, skip, served, servedBytes,
                    arrived, scanned, handed, scanning, pending,
                    reported, pc, awake, decoded, decTable, sndWindow,
                    taken, greeted, incoming, inService, responded,
                    left, queued, srvSent>>
    BY DEF ClientStep, fastVars, userVars, listenerVars, serverVars
  <1>2. \E f : /\ Send(f)
              /\ f.kind \in {"preface", "settings", "ack", "window",
                             "headers", "other"}
    <2>1. CASE SendPreface
      BY <2>1 DEF SendPreface, Preface
    <2>2. CASE \E w \in Windows : SendSettings(w)
      BY <2>2 DEF SendSettings, Settings
    <2>3. CASE SendAck
      BY <2>3 DEF SendAck, SettingsAck
    <2>4. CASE \E n \in Incs : SendUpdate(OpenWindow, n)
      BY <2>4 DEF SendUpdate, Update
    <2>5. CASE \E p \in Paths, e \in Entries \cup {NoEntry} : SendRequest(p, e)
      BY <2>5 DEF SendRequest, Headers
    <2>6. CASE SendOther
      BY <2>6 DEF SendOther, Other
    <2> QED
      BY <2>1, <2>2, <2>3, <2>4, <2>5, <2>6 DEF ClientStep, ClientSends
  <1> QED
    BY <1>1, <1>2 DEF Send

-----------------------------------------------------------------------------
(* Where a forwarded frame and what goes in front of it end up.            *)
LEMMA ReportWire ==
    ASSUME NEW f \in Frame, TypeOK, Report(f)
    PROVE  /\ wire'[Len(wire) + 1] = FcSync(unreported, servedBytes)
           /\ dirty => /\ Len(wire') = Len(wire) + 3
                       /\ wire'[Len(wire) + 2] = DtSync(mirror)
                       /\ wire'[Len(wire) + 3] = f
           /\ ~dirty => /\ Len(wire') = Len(wire) + 2
                        /\ wire'[Len(wire) + 2] = f
  <1>1. /\ wire \in Seq(Frame)
        /\ FcSync(unreported, servedBytes) \in Frame
        /\ DtSync(mirror) \in Frame
    BY FramesBuilt DEF TypeOK, SocketTypeOK, FastTypeOK
  <1>2. CASE dirty
    <2>1. wire' = wire \o <<FcSync(unreported, servedBytes)>>
                       \o <<DtSync(mirror)>> \o <<f>>
      BY <1>2 DEF Report, Sync
    <2> QED
      BY <1>1, <1>2, <2>1
  <1>3. CASE ~dirty
    <2>1. wire' = wire \o <<FcSync(unreported, servedBytes)>> \o << >> \o <<f>>
      BY <1>3 DEF Report, Sync
    <2> QED
      BY <1>1, <1>3, <2>1
  <1> QED
    BY <1>2, <1>3

LEMMA StrayWire ==
    ASSUME NEW f \in Frame, TypeOK, Stray(f)
    PROVE  /\ wire'[Len(wire) + 1] = Junk
           /\ dirty => /\ Len(wire') = Len(wire) + 3
                       /\ wire'[Len(wire) + 2] = DtSync(mirror)
                       /\ wire'[Len(wire) + 3] = f
           /\ ~dirty => /\ Len(wire') = Len(wire) + 2
                        /\ wire'[Len(wire) + 2] = f
  <1>1. /\ wire \in Seq(Frame)
        /\ Junk \in Frame
        /\ DtSync(mirror) \in Frame
    BY FramesBuilt DEF TypeOK, SocketTypeOK, FastTypeOK
  <1> HIDE DEF Junk
  <1>2. CASE dirty
    <2>1. wire' = wire \o <<Junk>> \o <<DtSync(mirror)>> \o <<f>>
      BY <1>2 DEF Stray, Sync
    <2> QED
      BY <1>1, <1>2, <2>1
  <1>3. CASE ~dirty
    <2>1. wire' = wire \o <<Junk>> \o << >> \o <<f>>
      BY <1>3 DEF Stray, Sync
    <2> QED
      BY <1>1, <1>3, <2>1
  <1> QED
    BY <1>2, <1>3

LEMMA NoReportWire ==
    ASSUME NEW f \in Frame, TypeOK, NoReport(f)
    PROVE  /\ dirty => /\ Len(wire') = Len(wire) + 2
                       /\ wire'[Len(wire) + 1] = DtSync(mirror)
                       /\ wire'[Len(wire) + 2] = f
           /\ ~dirty => /\ Len(wire') = Len(wire) + 1
                        /\ wire'[Len(wire) + 1] = f
  <1>1. wire \in Seq(Frame) /\ DtSync(mirror) \in Frame
    BY FramesBuilt DEF TypeOK, SocketTypeOK, FastTypeOK
  <1>2. CASE dirty
    <2>1. wire' = wire \o <<DtSync(mirror)>> \o <<f>>
      BY <1>2 DEF NoReport, Sync
    <2> QED
      BY <1>1, <1>2, <2>1
  <1>3. CASE ~dirty
    <2>1. wire' = wire \o << >> \o <<f>>
      BY <1>3 DEF NoReport, Sync
    <2> QED
      BY <1>1, <1>3, <2>1
  <1> QED
    BY <1>2, <1>3

-----------------------------------------------------------------------------
(* The requests.  Positions tell them apart: a request is at one place of  *)
(* the message or of the stream.  Only the last step turns positions into  *)
(* numbers.                                                                *)

LEMMA OnceTypes ==
    ASSUME TypeInv
    PROVE  /\ msg \in Seq(Frame) /\ wire \in Seq(Frame)
           /\ Len(msg) \in Nat /\ Len(wire) \in Nat
           /\ served \subseteq [sid : Nat, path : Paths]
           /\ asked \in Seq(Paths) /\ Len(asked) \in Nat
           /\ incoming \in Seq(Request)
           /\ inService \subseteq Request /\ responded \subseteq Request
           /\ left \subseteq Request
           /\ decoded \in Nat /\ handed \in Nat /\ handed <= Len(wire)
           /\ decoded <= handed
  <1>1. /\ msg \in Seq(Frame) /\ wire \in Seq(Frame)
        /\ served \subseteq [sid : Nat, path : Paths]
        /\ asked \in Seq(Paths)
        /\ incoming \in Seq(Request)
        /\ inService \subseteq Request /\ responded \subseteq Request
        /\ left \subseteq Request
        /\ decoded \in Nat /\ handed \in Nat
        /\ arrived \in Nat /\ scanned \in Nat
    BY DEF TypeInv, TypeOK, SocketTypeOK, ClientTypeOK, FastTypeOK,
           ListenerTypeOK, ServerTypeOK
  <1>2. /\ decoded <= handed /\ handed <= scanned
        /\ scanned <= arrived /\ arrived <= Len(wire)
    BY DEF TypeInv, Cursors
  <1>3. Len(msg) \in Nat /\ Len(wire) \in Nat /\ Len(asked) \in Nat
    BY <1>1
  <1> QED
    BY <1>1, <1>2, <1>3

(* What passes with a frame is in front of it, and is the fast path's own  *)
(* or no frame.                                                            *)
LEMMA PassOnWire ==
    ASSUME TypeOK, NEW f \in Frame, NEW x, Passes(f, x)
    PROVE  /\ Len(wire') \in Nat /\ Len(wire) < Len(wire')
           /\ wire'[Len(wire')] = x
           /\ \A i \in Len(wire) + 1 .. Len(wire') - 1 :
                 Private(wire'[i]) \/ wire'[i] = Junk
  <1>1. Len(wire) \in Nat /\ Private(DtSync(mirror)) /\ x \in Frame
        /\ Private(FcSync(unreported, servedBytes))
    BY PassesFrame DEF TypeOK, SocketTypeOK, DtSync, FcSync, Private
  <1> HIDE DEF Junk
  <1>2. CASE Report(x) /\ dirty
    BY <1>1, <1>2, ReportWire
  <1>3. CASE Report(x) /\ ~dirty
    BY <1>1, <1>3, ReportWire
  <1>4. CASE NoReport(x) /\ dirty
    BY <1>1, <1>4, NoReportWire
  <1>5. CASE NoReport(x) /\ ~dirty
    BY <1>1, <1>5, NoReportWire
  <1>6. CASE Stray(x) /\ dirty
    BY <1>1, <1>6, StrayWire
  <1>7. CASE Stray(x) /\ ~dirty
    BY <1>1, <1>7, StrayWire
  <1> QED
    BY <1>2, <1>3, <1>4, <1>5, <1>6, <1>7 DEF Passes

-----------------------------------------------------------------------------
(* One place each, on the kernel's side.                                   *)

(* The first `d` frames of the message leave it.  Those that are requests  *)
(* and pass go to the stream in their order, `c` places further on.        *)
LEMMA PlaceMoves ==
    ASSUME TypeInv, TypeOK', PlaceInv, UNCHANGED <<asked, served>>,
           NEW c \in Int, NEW d \in Nat,
           Len(wire) <= Len(wire'),
           \A i \in 1 .. Len(wire) : wire'[i] = wire[i],
           \A i \in Len(wire) + 1 .. Len(wire') : wire'[i].kind = "headers" =>
               i - c \in 1 .. d /\ i - c \in DOMAIN msg /\ wire'[i] = msg[i - c],
           \A i \in DOMAIN msg' : msg'[i].kind = "headers" =>
               i + d \in DOMAIN msg /\ msg'[i] = msg[i + d]
    PROVE  PlaceInv'
  <1>1. /\ wire \in Seq(Frame) /\ wire' \in Seq(Frame)
        /\ msg \in Seq(Frame) /\ msg' \in Seq(Frame)
        /\ Len(wire) \in Nat /\ Len(wire') \in Nat
    BY OnceTypes DEF TypeOK, SocketTypeOK
  <1>2. ASSUME NEW s \in Nat, NEW i \in DOMAIN wire', Asks(wire'[i], s)
        PROVE  \/ i \in DOMAIN wire /\ Asks(wire[i], s)
               \/ /\ i \notin DOMAIN wire
                  /\ i - c \in 1 .. d /\ i - c \in DOMAIN msg
                  /\ Asks(msg[i - c], s)
    <2>1. CASE i \in 1 .. Len(wire)
      BY <1>1, <1>2, <2>1
    <2>2. CASE i \in Len(wire) + 1 .. Len(wire')
      BY <1>1, <1>2, <2>2 DEF Asks
    <2> QED
      BY <1>1, <2>1, <2>2
  <1>3. ASSUME NEW s \in Nat, NEW i \in DOMAIN msg', Asks(msg'[i], s)
        PROVE  i + d \in DOMAIN msg /\ Asks(msg[i + d], s)
    BY <1>3 DEF Asks
  <1>4. \A s \in Nat : /\ Waiting(s)' => Waiting(s)
                       /\ Passed(s)' => Passed(s) \/ Waiting(s)
                       /\ Served(s)' <=> Served(s)
    BY <1>2, <1>3 DEF Waiting, Passed, Served, Asks
  <1>5. \A s \in Nat : (Waiting(s) \/ Passed(s) \/ Served(s))'
                          => s \in DOMAIN asked'
    BY <1>4 DEF PlaceInv
  <1>6. ASSUME NEW s \in Nat, Waiting(s)'
        PROVE  ~Passed(s)' /\ ~Served(s)'
    <2>1. PICK j \in DOMAIN msg' : Asks(msg'[j], s)
      BY <1>6 DEF Waiting, Asks
    <2>2. j + d \in DOMAIN msg /\ Asks(msg[j + d], s) /\ j \in Nat \ {0}
      BY <1>1, <1>3, <2>1
    <2>3. ~Passed(s) /\ ~Served(s)
      BY <2>2 DEF PlaceInv, Waiting
    <2>4. ASSUME NEW i \in DOMAIN wire', Asks(wire'[i], s)
          PROVE  FALSE
      <3>1. /\ i - c \in 1 .. d /\ i - c \in DOMAIN msg
            /\ Asks(msg[i - c], s)
        BY <1>2, <2>3, <2>4 DEF Passed
      <3>2. i - c = j + d
        BY <2>2, <3>1 DEF PlaceInv
      <3> QED
        BY <2>2, <3>1, <3>2
    <2> QED
      BY <1>4, <2>3, <2>4 DEF Passed, Asks
  <1>7. ASSUME NEW s \in Nat, Passed(s)'
        PROVE  ~Served(s)'
    BY <1>4, <1>7 DEF PlaceInv
  <1>8. ASSUME NEW s \in Nat, NEW i \in DOMAIN msg', NEW j \in DOMAIN msg',
               Asks(msg'[i], s), Asks(msg'[j], s)
        PROVE  i = j
    <2>1. i + d = j + d
      BY <1>3, <1>8 DEF PlaceInv
    <2> QED
      BY <1>1, <2>1
  <1>9. ASSUME NEW s \in Nat, NEW i \in DOMAIN wire', NEW j \in DOMAIN wire',
               Asks(wire'[i], s), Asks(wire'[j], s)
        PROVE  i = j
    <2>1. CASE i \in DOMAIN wire /\ j \in DOMAIN wire
      BY <1>1, <1>9, <2>1 DEF PlaceInv
    <2>2. CASE i \notin DOMAIN wire /\ j \notin DOMAIN wire
      <3>1. /\ i - c \in DOMAIN msg /\ Asks(msg[i - c], s)
            /\ j - c \in DOMAIN msg /\ Asks(msg[j - c], s)
        BY <1>2, <1>9, <2>2
      <3>2. i - c = j - c
        BY <3>1 DEF PlaceInv
      <3> QED
        BY <1>1, <3>2
    <2>3. CASE ~(i \in DOMAIN wire <=> j \in DOMAIN wire)
      <3>1. Passed(s) /\ Waiting(s)
        BY <1>2, <1>9, <2>3 DEF Passed, Waiting
      <3> QED
        BY <3>1 DEF PlaceInv
    <2> QED
      BY <2>1, <2>2, <2>3
  <1>10. \A r, q \in served' : r.sid = q.sid => r = q
    BY DEF PlaceInv
  <1> HIDE DEF Asks
  <1> QED
    BY <1>5, <1>6, <1>7, <1>8, <1>9, <1>10 DEF PlaceInv, Asks

LEMMA PlaceServe ==
    ASSUME TypeInv, PlaceInv, UNCHANGED asked,
           NEW f, f = Head(msg), msg # <<>>, Serve(f)
    PROVE  PlaceInv'
  <1>1. /\ wire' = wire /\ msg' = <<>> /\ f.kind = "headers"
        /\ served' = served \cup {[sid |-> f.sid, path |-> f.path]}
    BY DEF Serve, Redirect, Servable
  <1>2. /\ f = msg[1] /\ 1 \in DOMAIN msg /\ f \in Frame
        /\ f.sid \in Nat
    <2>1. f = msg[1] /\ 1 \in DOMAIN msg /\ f \in Frame
      BY OnceTypes
    <2> QED
      BY <1>1, <2>1, FrameFields
  <1>3. Waiting(f.sid)
    BY <1>1, <1>2 DEF Waiting, Asks
  <1>4. ~Passed(f.sid) /\ ~Served(f.sid) /\ f.sid \in DOMAIN asked
    BY <1>2, <1>3 DEF PlaceInv
  <1>5. \A s \in Nat : /\ ~Waiting(s)'
                       /\ Passed(s)' <=> Passed(s)
                       /\ Served(s)' <=> Served(s) \/ s = f.sid
    <2> TAKE s \in Nat
    <2>1. ~Waiting(s)'
      BY <1>1 DEF Waiting
    <2>2. Passed(s)' <=> Passed(s)
      BY <1>1 DEF Passed, Asks
    <2>3. Served(s)' <=> Served(s) \/ s = f.sid
      <3> DEFINE q == [sid |-> f.sid, path |-> f.path]
      <3>1. q.sid = f.sid /\ served' = served \cup {q}
        BY <1>1
      <3> HIDE DEF q
      <3> QED
        BY <3>1 DEF Served
    <2> QED
      BY <2>1, <2>2, <2>3
  <1>6. \A r, q \in served' : r.sid = q.sid => r = q
    BY <1>1, <1>4 DEF PlaceInv, Served
  <1>7. \A s \in Nat : \A i, j \in DOMAIN wire' :
            Asks(wire'[i], s) /\ Asks(wire'[j], s) => i = j
    BY <1>1 DEF PlaceInv, Asks
  <1>8. \A s \in Nat : (Waiting(s) \/ Passed(s) \/ Served(s))'
                          => s \in DOMAIN asked'
    BY <1>4, <1>5 DEF PlaceInv
  <1>9. \A s \in Nat : Passed(s)' => ~Served(s)'
    BY <1>4, <1>5 DEF PlaceInv
  <1> QED
    BY <1>1, <1>5, <1>6, <1>7, <1>8, <1>9 DEF PlaceInv, Asks

LEMMA PlaceKernel ==
    ASSUME TypeInv, TypeOK', PlaceInv, KernelStep
    PROVE  PlaceInv'
  <1>1. /\ wire \in Seq(Frame) /\ wire' \in Seq(Frame) /\ msg \in Seq(Frame)
        /\ Len(wire) \in Nat /\ Len(wire') \in Nat /\ Len(msg) \in Nat
        /\ Len(wire) <= Len(wire')
        /\ \A i \in 1 .. Len(wire) : wire'[i] = wire[i]
        /\ asked' = asked /\ TypeOK
    BY OnceTypes, WireGrows, KernelLeaves DEF TypeInv, TypeOK, SocketTypeOK
  <1>2. CASE Upgrade
    <2>1. /\ wire' = Append(wire, Preface) /\ msg' = Tail(msg) /\ msg # <<>>
          /\ served' = served
      BY <1>2 DEF Upgrade
    <2> DEFINE c == Len(wire)
               d == 1
    <2>2. \A i \in Len(wire) + 1 .. Len(wire') : wire'[i].kind = "headers" =>
              i - c \in 1 .. d /\ i - c \in DOMAIN msg /\ wire'[i] = msg[i - c]
      BY <1>1, <2>1 DEF Preface
    <2>3. \A i \in DOMAIN msg' : msg'[i].kind = "headers" =>
              i + d \in DOMAIN msg /\ msg'[i] = msg[i + d]
      BY <1>1, <2>1
    <2>4. c \in Int /\ d \in Nat
      BY <1>1
    <2> HIDE DEF c, d
    <2> QED
      BY <1>1, <2>1, <2>2, <2>3, <2>4, PlaceMoves
  <1>3. CASE ParseFails \/ PassUnparsed
    <2>1. wire' = wire \o msg /\ msg' = <<>> /\ served' = served
      BY <1>3 DEF ParseFails, PassUnparsed, fastVars
    <2> DEFINE c == Len(wire)
               d == Len(msg)
    <2>2. \A i \in Len(wire) + 1 .. Len(wire') : wire'[i].kind = "headers" =>
              i - c \in 1 .. d /\ i - c \in DOMAIN msg /\ wire'[i] = msg[i - c]
      BY <1>1, <2>1
    <2>3. \A i \in DOMAIN msg' : msg'[i].kind = "headers" =>
              i + d \in DOMAIN msg /\ msg'[i] = msg[i + d]
      BY <2>1
    <2>4. c \in Int /\ d \in Nat
      BY <1>1
    <2> HIDE DEF c, d
    <2> QED
      BY <1>1, <2>1, <2>2, <2>3, <2>4, PlaceMoves
  <1>4. ASSUME NEW f, f = Head(msg), msg # <<>>, Serve(f)
        PROVE  PlaceInv'
    BY <1>1, <1>4, PlaceServe
  <1>5. ASSUME NEW f, f = Head(msg), msg # <<>>, Drop(f)
        PROVE  PlaceInv'
    <2>1. wire' = wire /\ msg' = <<>> /\ served' = served
      BY <1>5 DEF Drop
    <2> DEFINE c == 0
               d == 0
    <2>2. \A i \in Len(wire) + 1 .. Len(wire') : wire'[i].kind = "headers" =>
              i - c \in 1 .. d /\ i - c \in DOMAIN msg /\ wire'[i] = msg[i - c]
      BY <1>1, <2>1
    <2>3. \A i \in DOMAIN msg' : msg'[i].kind = "headers" =>
              i + d \in DOMAIN msg /\ msg'[i] = msg[i + d]
      BY <2>1
    <2>4. c \in Int /\ d \in Nat
      OBVIOUS
    <2> HIDE DEF c, d
    <2> QED
      BY <1>1, <2>1, <2>2, <2>3, <2>4, PlaceMoves
  <1>6. ASSUME NEW f, f = Head(msg), msg # <<>>,
               Forward(f) \/ ServePartly(f) \/ Overwrite(f)
        PROVE  PlaceInv'
    <2>1. PICK x : Passes(f, x)
      BY <1>1, <1>6, Passing
    <2>2. f = msg[1] /\ 1 \in DOMAIN msg /\ f \in Frame /\ served' = served
      BY <1>1, <1>6, <2>1 DEF Passes
    <2>3. \A i \in DOMAIN msg' : msg'[i].kind = "headers" =>
              i + 1 \in DOMAIN msg /\ msg'[i] = msg[i + 1]
      BY <1>1, <1>6, Passing DEF Behind, Junk
    <2> DEFINE c == Len(wire') - 1
    <2>4. \A i \in Len(wire) + 1 .. Len(wire') : wire'[i].kind = "headers" =>
              i - c \in 1 .. 1 /\ i - c \in DOMAIN msg /\ wire'[i] = msg[i - c]
      <3> SUFFICES ASSUME NEW i \in Len(wire) + 1 .. Len(wire'),
                          wire'[i].kind = "headers"
                   PROVE  i - c \in 1 .. 1 /\ i - c \in DOMAIN msg
                          /\ wire'[i] = msg[i - c]
        OBVIOUS
      <3>1. i = Len(wire')
        BY <1>1, <2>1, <2>2, PassOnWire DEF Private, Junk
      <3>2. i - c = 1 /\ wire'[i] = x
        BY <1>1, <2>1, <2>2, <3>1, PassOnWire
      <3>3. x = f
        BY <2>1, <3>2 DEF Passes, Junk, Other
      <3> QED
        BY <2>2, <3>2, <3>3
    <2>5. c \in Int /\ 1 \in Nat
      BY <1>1
    <2> HIDE DEF c
    <2> QED
      BY <1>1, <2>2, <2>3, <2>4, <2>5, PlaceMoves
  <1> QED
    BY <1>2, <1>3, <1>4, <1>5, <1>6 DEF KernelStep, Verdict

(* A request is new: its stream was not asked on before.                   *)
LEMMA PlaceAsk ==
    ASSUME TypeInv, PlaceInv, UNCHANGED <<wire, served>>,
           NEW f, msg' = Append(msg, f), f.kind = "headers",
           f.sid = Len(asked) + 1,
           NEW p, asked' = Append(asked, p)
    PROVE  PlaceInv'
  <1> DEFINE n == Len(asked) + 1
  <1>1. /\ msg \in Seq(Frame) /\ asked \in Seq(Paths) /\ Len(asked) \in Nat
        /\ Len(msg) \in Nat
    BY OnceTypes
  <1>2. /\ n \in Nat /\ n \notin DOMAIN asked
        /\ DOMAIN asked' = DOMAIN asked \cup {n}
    BY <1>1
  <1>3. ~Waiting(n) /\ ~Passed(n) /\ ~Served(n)
    BY <1>2 DEF PlaceInv
  <1>4. /\ DOMAIN msg' = 1 .. Len(msg) + 1 /\ DOMAIN msg = 1 .. Len(msg)
        /\ msg'[Len(msg) + 1] = f
        /\ \A i \in DOMAIN msg : msg'[i] = msg[i]
    BY <1>1
  <1>5. \A s \in Nat : /\ Waiting(s)' => Waiting(s) \/ s = n
                       /\ Passed(s)' <=> Passed(s)
                       /\ Served(s)' <=> Served(s)
    BY <1>1, <1>4 DEF Waiting, Passed, Served, Asks
  <1>6. ASSUME NEW s \in Nat, NEW i \in DOMAIN msg', NEW j \in DOMAIN msg',
               Asks(msg'[i], s), Asks(msg'[j], s)
        PROVE  i = j
    <2>1. CASE s = n
      <3>1. \A k \in DOMAIN msg : ~Asks(msg'[k], n)
        BY <1>3, <1>4 DEF Waiting
      <3>2. i \notin DOMAIN msg /\ j \notin DOMAIN msg
        BY <1>6, <2>1, <3>1
      <3> QED
        BY <1>1, <1>4, <3>2
    <2>2. CASE s # n
      <3>1. ~Asks(f, s)
        BY <1>1, <2>2 DEF Asks
      <3>2. i # Len(msg) + 1 /\ j # Len(msg) + 1
        BY <1>4, <1>6, <3>1
      <3>3. i \in DOMAIN msg /\ j \in DOMAIN msg
        BY <1>1, <1>4, <3>2
      <3>4. Asks(msg[i], s) /\ Asks(msg[j], s)
        BY <1>4, <1>6, <3>3
      <3> QED
        BY <3>3, <3>4 DEF PlaceInv
    <2> QED
      BY <2>1, <2>2
  <1>7. \A s \in Nat : (Waiting(s) \/ Passed(s) \/ Served(s))'
                          => s \in DOMAIN asked'
    BY <1>2, <1>5 DEF PlaceInv
  <1>8. \A s \in Nat : /\ Waiting(s)' => ~Passed(s)' /\ ~Served(s)'
                       /\ Passed(s)' => ~Served(s)'
    BY <1>3, <1>5 DEF PlaceInv
  <1>9. \A s \in Nat : \A i, j \in DOMAIN wire' :
            Asks(wire'[i], s) /\ Asks(wire'[j], s) => i = j
    BY DEF PlaceInv, Asks
  <1>10. \A r, q \in served' : r.sid = q.sid => r = q
    BY DEF PlaceInv
  <1> QED
    BY <1>6, <1>7, <1>8, <1>9, <1>10 DEF PlaceInv, Asks

LEMMA PlaceClient ==
    ASSUME TypeInv, TypeOK', PlaceInv, ClientStep
    PROVE  PlaceInv'
  <1>1. /\ msg \in Seq(Frame) /\ wire \in Seq(Frame)
        /\ Len(wire) \in Nat /\ Len(msg) \in Nat
        /\ UNCHANGED <<wire, served>>
    BY OnceTypes, ClientLeaves
  <1>2. ASSUME NEW f, Send(f), f.kind # "headers", asked' = asked
        PROVE  PlaceInv'
    <2>1. \A i \in DOMAIN msg' : msg'[i].kind = "headers" =>
              i + 0 \in DOMAIN msg /\ msg'[i] = msg[i + 0]
      BY <1>1, <1>2 DEF Send
    <2>2. Len(wire) + 1 .. Len(wire') = {}
      BY <1>1
    <2> QED
      BY <1>1, <1>2, <2>1, <2>2, PlaceMoves
  <1>3. CASE \E p \in Paths, e \in Entries \cup {NoEntry} : SendRequest(p, e)
    <2>1. PICK p \in Paths, e \in Entries \cup {NoEntry} : SendRequest(p, e)
      BY <1>3
    <2> DEFINE f == Headers(Len(asked) + 1, p, e, cliTable)
    <2>2. /\ msg' = Append(msg, f) /\ asked' = Append(asked, p)
          /\ f.kind = "headers" /\ f.sid = Len(asked) + 1
      BY <2>1 DEF SendRequest, Send, Headers
    <2> QED
      BY <1>1, <2>2, PlaceAsk
  <1>4. CASE SendPreface
    BY <1>2, <1>4 DEF SendPreface, Preface
  <1>5. CASE \E w \in Windows : SendSettings(w)
    BY <1>2, <1>5 DEF SendSettings, Settings
  <1>6. CASE SendAck
    BY <1>2, <1>6 DEF SendAck, SettingsAck
  <1>7. CASE \E n \in Incs : SendUpdate(OpenWindow, n)
    BY <1>2, <1>7 DEF SendUpdate, Update
  <1>8. CASE SendOther
    BY <1>2, <1>8 DEF SendOther, Other
  <1> QED
    BY <1>3, <1>4, <1>5, <1>6, <1>7, <1>8 DEF ClientStep, ClientSends

LEMMA PlaceInit == Init => PlaceInv
  BY DEF Init, SocketInit, FastInit, PlaceInv, Waiting, Passed, Served

LEMMA PlaceInductive ==
    ASSUME TypeInv, TypeOK', PlaceInv, [Next]_vars
    PROVE  PlaceInv'
  <1>1. CASE KernelStep
    BY <1>1, PlaceKernel
  <1>2. CASE ClientStep
    BY <1>2, PlaceClient
  <1>3. CASE TaskStep \/ RespondStep \/ UNCHANGED vars
    <2>1. UNCHANGED <<msg, wire, served, asked>>
      BY <1>3, TaskLeaves DEF vars, socketVars, clientVars, fastVars
    <2> QED
      BY <2>1 DEF PlaceInv, Waiting, Passed, Served, Asks
  <1> QED
    BY <1>1, <1>2, <1>3 DEF Next

-----------------------------------------------------------------------------
(* One place each, in user space.                                          *)

(* A step that neither decodes a request nor moves one but out of the      *)
(* hands of respond_to.                                                    *)
LEMMA AnswerKeeps ==
    ASSUME TypeInv, AnswerInv, decoded' \in Nat, decoded <= decoded',
           \A i \in 1 .. decoded : wire'[i] = wire[i],
           incoming' = incoming,
           Accepted' = Accepted,
           \A r \in inService' : r \notin responded' /\ r \notin left'
    PROVE  AnswerInv'
  <1>1. decoded \in Nat
    BY OnceTypes
  <1>2. \A s : Decoded(s) => Decoded(s)'
    BY <1>1 DEF Decoded, Asks
  <1> QED
    BY <1>2 DEF AnswerInv

LEMMA AnswerDecode ==
    ASSUME TypeInv, PlaceInv, AnswerInv,
           UNCHANGED <<wire, inService, responded, left>>,
           NEW i \in Undecoded, decoded' = i, DecodeHeaders(wire[i])
    PROVE  AnswerInv'
  <1> DEFINE q == RequestOf(wire[i])
             n == Len(incoming) + 1
  <1>1. /\ i \in decoded + 1 .. handed /\ i \in DOMAIN wire
        /\ wire[i] \in Frame /\ decoded \in Nat /\ handed \in Nat
        /\ handed <= Len(wire) /\ Len(wire) \in Nat /\ DOMAIN wire = 1 .. Len(wire)
        /\ incoming \in Seq(Request) /\ Len(incoming) \in Nat
    BY UndecodedBounds, OnceTypes
  <1>2. /\ q.sid \in Nat /\ Asks(wire[i], q.sid)
        /\ incoming' = Append(incoming, q)
    BY <1>1, FrameFields DEF DecodeHeaders, RequestOf, Asks
  <1>3. ~Decoded(q.sid)
    BY <1>1, <1>2, SMTT(30) DEF PlaceInv, Decoded
  <1>4. \A s : Decoded(s) => Decoded(s)'
    BY <1>1 DEF Decoded, Asks
  <1>5. \A s : s = q.sid => Decoded(s)'
    BY <1>1, <1>2 DEF Decoded, Asks
  <1> HIDE DEF q
  <1>6. /\ Accepted' = Accepted
        /\ DOMAIN incoming' = 1 .. n /\ DOMAIN incoming = 1 .. Len(incoming)
        /\ incoming'[n] = q
        /\ \A k \in DOMAIN incoming : incoming'[k] = incoming[k]
    BY <1>1, <1>2 DEF Accepted
  <1>7. \A k \in DOMAIN incoming' : k \in DOMAIN incoming \/ k = n
    BY <1>1, <1>6
  <1>8. \A k \in DOMAIN incoming : incoming[k].sid # q.sid
    BY <1>3 DEF AnswerInv
  <1>9. \A r \in Accepted : r.sid # q.sid
    BY <1>3 DEF AnswerInv
  <1>10. /\ \A k \in DOMAIN incoming' : Decoded(incoming[k].sid)'
         /\ \A r \in Accepted' : Decoded(r.sid)'
    BY <1>4, <1>5, <1>6, <1>7 DEF AnswerInv
  <1>11. \A k, l \in DOMAIN incoming' :
            incoming'[k].sid = incoming'[l].sid => k = l
    BY <1>6, <1>7, <1>8 DEF AnswerInv
  <1>12. \A k \in DOMAIN incoming', r \in Accepted' :
            incoming'[k].sid # r.sid
    BY <1>6, <1>7, <1>9 DEF AnswerInv
  <1> QED
    BY <1>6, <1>10, <1>11, <1>12 DEF AnswerInv

LEMMA AnswerAccept ==
    ASSUME TypeInv, AnswerInv, Accept, UNCHANGED wire
    PROVE  AnswerInv'
  <1> DEFINE q == Head(incoming)
  <1>1. /\ incoming \in Seq(Request) /\ incoming # <<>>
        /\ incoming' = Tail(incoming)
        /\ inService' = inService \cup {q}
        /\ Accepted' = Accepted \cup {q}
        /\ UNCHANGED <<responded, left, decoded>>
    BY OnceTypes DEF Accept, Accepted
  <1>2. /\ 1 \in DOMAIN incoming /\ q = incoming[1]
        /\ \A k \in DOMAIN incoming' :
              k + 1 \in DOMAIN incoming /\ incoming'[k] = incoming[k + 1]
        /\ \A k \in DOMAIN incoming' : k \in Nat \ {0}
    BY <1>1
  <1> HIDE DEF q
  <1>3. \A s : Decoded(s)' <=> Decoded(s)
    BY <1>1 DEF Decoded, Asks
  <1>4. /\ \A k \in DOMAIN incoming' : Decoded(incoming[k].sid)'
        /\ \A r \in Accepted' : Decoded(r.sid)'
    BY <1>1, <1>2, <1>3 DEF AnswerInv
  <1>5. \A k, l \in DOMAIN incoming' :
            incoming'[k].sid = incoming'[l].sid => k = l
    <2> SUFFICES ASSUME NEW k \in DOMAIN incoming', NEW l \in DOMAIN incoming',
                        incoming'[k].sid = incoming'[l].sid
                 PROVE  k = l
      OBVIOUS
    <2>1. k + 1 = l + 1
      BY <1>2 DEF AnswerInv
    <2> QED
      BY <1>2, <2>1
  <1>6. \A k \in DOMAIN incoming' : incoming'[k].sid # q.sid
    <2> SUFFICES ASSUME NEW k \in DOMAIN incoming', incoming'[k].sid = q.sid
                 PROVE  FALSE
      OBVIOUS
    <2>1. k + 1 = 1
      BY <1>2 DEF AnswerInv
    <2> QED
      BY <1>2, <2>1
  <1>7. \A k \in DOMAIN incoming', r \in Accepted' :
            incoming'[k].sid # r.sid
    BY <1>1, <1>2, <1>6 DEF AnswerInv
  <1>8. \A r, t \in Accepted' : r.sid = t.sid => r = t
    BY <1>1, <1>2 DEF AnswerInv
  <1>9. \A r \in inService' : r \notin responded' /\ r \notin left'
    BY <1>1, <1>2 DEF AnswerInv, Accepted
  <1> QED
    BY <1>4, <1>5, <1>7, <1>8, <1>9 DEF AnswerInv

LEMMA AnswerTask ==
    ASSUME TypeInv, PlaceInv, AnswerInv, TaskStep
    PROVE  AnswerInv'
  <1>1. wire' = wire /\ decoded \in Nat
    BY TaskLeaves, OnceTypes
  <1>2. CASE AwaitProtocol \/ Scan \/ Drain \/ DrainFails \/ PollStream \/ Await
    <2>1. UNCHANGED <<decoded, incoming, inService, responded, left>>
      BY <1>2 DEF AwaitProtocol, Scan, Drain, DrainFails, PollStream, Await,
                  serverVars
    <2> QED
      BY <1>1, <2>1, AnswerKeeps DEF Accepted, AnswerInv
  <1>3. CASE Handshake
    <2>1. decoded' = 1 /\ decoded = 0
          /\ UNCHANGED <<incoming, inService, responded, left>>
      BY <1>3 DEF Handshake, TypeInv, Cursors
    <2> QED
      BY <1>1, <2>1, AnswerKeeps DEF Accepted, AnswerInv
  <1>4. CASE Decode
    <2>1. PICK i \in Undecoded :
              /\ decoded' = i
              /\ \/ DecodeHeaders(wire[i])
                 \/ /\ \/ DecodeUpdate(wire[i])
                       \/ DecodeOther(wire[i])
                       \/ DecodeJunk(wire[i])
      BY <1>4 DEF Decode
    <2>2. UNCHANGED <<inService, responded, left>>
      BY <1>4 DEF Decode
    <2>3. i \in Nat /\ decoded <= i
      BY <1>1, UndecodedBounds, OnceTypes
    <2>4. CASE DecodeHeaders(wire[i])
      BY <1>1, <2>1, <2>2, <2>4, AnswerDecode
    <2>5. CASE ~DecodeHeaders(wire[i])
      <3>1. incoming' = incoming
        BY <2>1, <2>5 DEF DecodeUpdate, DecodeOther, DecodeJunk
      <3> QED
        BY <1>1, <2>1, <2>2, <2>3, <3>1, AnswerKeeps DEF Accepted, AnswerInv
    <2> QED
      BY <2>4, <2>5
  <1>5. CASE Accept
    BY <1>1, <1>5, AnswerAccept
  <1> QED
    BY <1>2, <1>3, <1>4, <1>5 DEF TaskStep, ConnTask

LEMMA AnswerInit == Init => AnswerInv
  BY DEF Init, ServerInit, AnswerInv, Accepted

LEMMA AnswerInductive ==
    ASSUME TypeInv, TypeOK', PlaceInv, AnswerInv, [Next]_vars
    PROVE  AnswerInv'
  <1>1. decoded \in Nat /\ decoded <= Len(wire) /\ Len(wire) \in Nat
    BY OnceTypes
  <1>2. CASE TaskStep
    BY <1>2, AnswerTask
  <1>3. CASE RespondStep
    <2>1. PICK r \in inService : Respond(r) \/ Leave(r)
      BY <1>3 DEF RespondStep
    <2>2. /\ Accepted' = Accepted
          /\ \A q \in inService' : q \notin responded' /\ q \notin left'
      BY <2>1 DEF Respond, Leave, Accepted, AnswerInv
    <2>3. UNCHANGED <<wire, decoded, incoming>>
      BY <1>3, <2>1, TaskLeaves DEF Respond, Leave
    <2> QED
      BY <1>1, <2>2, <2>3, AnswerKeeps
  <1>4. CASE KernelStep
    <2>1. UNCHANGED <<decoded, incoming, inService, responded, left>>
      BY <1>4, KernelLeaves
    <2>2. \A i \in 1 .. decoded : wire'[i] = wire[i]
      BY <1>1, <1>4, WireGrows DEF TypeInv
    <2> QED
      BY <1>1, <2>1, <2>2, AnswerKeeps DEF Accepted, AnswerInv
  <1>5. CASE ClientStep \/ UNCHANGED vars
    <2>1. UNCHANGED <<wire, decoded, incoming, inService, responded, left>>
      BY <1>5, ClientLeaves DEF vars, socketVars, userVars, serverVars
    <2> QED
      BY <1>1, <2>1, AnswerKeeps DEF Accepted, AnswerInv
  <1> QED
    BY <1>2, <1>3, <1>4, <1>5 DEF Next

-----------------------------------------------------------------------------
(* As asked.                                                               *)

(* A verdict makes up no request: those on the stream and those left in    *)
(* the message were in the message before.                                 *)
LEMMA KernelFrames ==
    ASSUME TypeInv, TypeOK', KernelStep
    PROVE  /\ \A i \in DOMAIN wire' : wire'[i].kind = "headers" =>
                  \/ i \in DOMAIN wire /\ wire'[i] = wire[i]
                  \/ \E k \in DOMAIN msg : wire'[i] = msg[k]
           /\ \A i \in DOMAIN msg' : msg'[i].kind = "headers" =>
                  \E k \in DOMAIN msg : msg'[i] = msg[k]
  <1>1. /\ wire \in Seq(Frame) /\ wire' \in Seq(Frame) /\ msg \in Seq(Frame)
        /\ Len(wire) \in Nat /\ Len(wire') \in Nat /\ Len(msg) \in Nat
        /\ \A i \in 1 .. Len(wire) : wire'[i] = wire[i]
        /\ TypeOK
    <2>1. TypeOK /\ wire' \in Seq(Frame)
      BY DEF TypeInv, TypeOK, SocketTypeOK
    <2>2. Len(wire') \in Nat
      BY <2>1
    <2> QED
      BY <2>1, <2>2, OnceTypes, WireGrows
  <1>2. CASE Upgrade
    <2>1. /\ wire' = Append(wire, Preface) /\ msg' = Tail(msg) /\ msg # <<>>
      BY <1>2 DEF Upgrade
    <2>2. \A i \in DOMAIN wire' :
              (i \in DOMAIN wire /\ wire'[i] = wire[i]) \/ wire'[i] = Preface
      BY <1>1, <2>1
    <2>3. \A i \in DOMAIN msg' : i + 1 \in DOMAIN msg /\ msg'[i] = msg[i + 1]
      BY <1>1, <2>1
    <2> QED
      BY <2>2, <2>3 DEF Preface
  <1>3. CASE ParseFails \/ PassUnparsed
    <2>1. wire' = wire \o msg /\ msg' = <<>>
      BY <1>3 DEF ParseFails, PassUnparsed
    <2>2. ASSUME NEW i \in DOMAIN wire'
          PROVE  \/ i \in DOMAIN wire /\ wire'[i] = wire[i]
                 \/ \E k \in DOMAIN msg : wire'[i] = msg[k]
      <3>1. CASE i \in 1 .. Len(wire)
        BY <1>1, <3>1
      <3>2. CASE i \notin 1 .. Len(wire)
        <4>1. i - Len(wire) \in DOMAIN msg /\ wire'[i] = msg[i - Len(wire)]
          BY <1>1, <2>1, <3>2
        <4> QED
          BY <4>1
      <3> QED
        BY <3>1, <3>2
    <2> QED
      BY <2>1, <2>2
  <1>4. ASSUME NEW f, f = Head(msg), msg # <<>>, Serve(f) \/ Drop(f)
        PROVE  wire' = wire /\ msg' = <<>>
    BY <1>4 DEF Serve, Redirect, Drop
  <1>5. ASSUME NEW f, f = Head(msg), msg # <<>>,
               Forward(f) \/ ServePartly(f) \/ Overwrite(f)
        PROVE  /\ \A i \in DOMAIN wire' : wire'[i].kind = "headers" =>
                      \/ i \in DOMAIN wire /\ wire'[i] = wire[i]
                      \/ \E k \in DOMAIN msg : wire'[i] = msg[k]
               /\ \A i \in DOMAIN msg' : msg'[i].kind = "headers" =>
                      \E k \in DOMAIN msg : msg'[i] = msg[k]
    <2>1. f = msg[1] /\ 1 \in DOMAIN msg /\ f \in Frame
      BY <1>1, <1>5
    <2>2. PICK x : Passes(f, x)
      BY <1>1, <1>5, Passing
    <2>3. \A i \in DOMAIN wire' : wire'[i].kind = "headers" =>
              (i \in DOMAIN wire /\ wire'[i] = wire[i]) \/ wire'[i] = msg[1]
      <3> SUFFICES ASSUME NEW i \in DOMAIN wire', wire'[i].kind = "headers",
                          i \notin 1 .. Len(wire)
                   PROVE  wire'[i] = msg[1]
        BY <1>1
      <3>1. i \in Len(wire) + 1 .. Len(wire')
        BY <1>1
      <3>2. i = Len(wire')
        BY <1>1, <2>1, <2>2, <3>1, PassOnWire DEF Private, Junk
      <3>3. wire'[i] = x
        BY <1>1, <2>1, <2>2, <3>2, PassOnWire
      <3> QED
        BY <2>1, <2>2, <3>3 DEF Passes, Junk, Other
    <2>4. \A i \in DOMAIN msg' : msg'[i].kind = "headers" =>
              i + 1 \in DOMAIN msg /\ msg'[i] = msg[i + 1]
      BY <1>1, <1>5, Passing DEF Behind, Junk
    <2> QED
      BY <2>1, <2>3, <2>4
  <1> QED
    BY <1>2, <1>3, <1>4, <1>5 DEF KernelStep, Verdict

LEMMA AskedKernel ==
    ASSUME TypeInv, TypeOK', AskedInv, KernelStep
    PROVE  AskedInv'
  <1>1. UNCHANGED <<asked, incoming, inService, responded>>
    BY KernelLeaves
  <1>2. \A i \in DOMAIN wire' : wire'[i].kind = "headers" =>
            wire'[i].path = asked[wire'[i].sid]
    BY KernelFrames DEF AskedInv
  <1>3. \A i \in DOMAIN msg' : msg'[i].kind = "headers" =>
            msg'[i].path = asked[msg'[i].sid]
    BY KernelFrames DEF AskedInv
  <1> QED
    BY <1>1, <1>2, <1>3 DEF AskedInv

(* Asking adds to what was asked and changes none of it.                   *)
LEMMA AskedClient ==
    ASSUME TypeInv, PlaceInv, AnswerInv, AskedInv, ClientStep
    PROVE  AskedInv'
  <1>1. /\ msg \in Seq(Frame) /\ wire \in Seq(Frame) /\ Len(msg) \in Nat
        /\ Len(wire) \in Nat /\ asked \in Seq(Paths) /\ Len(asked) \in Nat
        /\ decoded \in Nat /\ decoded <= Len(wire)
        /\ UNCHANGED <<wire, incoming, inService, responded>>
    BY OnceTypes, ClientLeaves
  <1>2. ASSUME NEW f, Send(f), f.kind # "headers", asked' = asked
        PROVE  AskedInv'
    <2>1. \A i \in DOMAIN msg' : msg'[i].kind = "headers" =>
              i \in DOMAIN msg /\ msg'[i] = msg[i]
      BY <1>1, <1>2 DEF Send
    <2> QED
      BY <1>1, <1>2, <2>1 DEF AskedInv
  <1>3. CASE \E p \in Paths, e \in Entries \cup {NoEntry} : SendRequest(p, e)
    <2>1. PICK p \in Paths, e \in Entries \cup {NoEntry} : SendRequest(p, e)
      BY <1>3
    <2> DEFINE n == Len(asked) + 1
               f == Headers(n, p, e, cliTable)
    <2>2. /\ msg' = Append(msg, f) /\ asked' = Append(asked, p)
          /\ f.sid = n /\ f.path = p
      BY <2>1 DEF SendRequest, Send, Headers
    <2> HIDE DEF f
    <2>3. asked'[n] = p /\ \A s \in DOMAIN asked : asked'[s] = asked[s]
      BY <1>1, <2>2
    <2> HIDE DEF n
    <2>4. \A i \in DOMAIN msg' :
              (i \in DOMAIN msg /\ msg'[i] = msg[i]) \/ msg'[i] = f
      BY <1>1, <2>2
    <2>5. ASSUME NEW i \in DOMAIN msg, msg[i].kind = "headers"
          PROVE  msg[i].sid \in DOMAIN asked
      <3>1. msg[i] \in Frame /\ msg[i].sid \in Nat
        BY <1>1, <2>5, FrameFields
      <3> QED
        BY <2>5, <3>1 DEF PlaceInv, Waiting, Asks
    <2>6. ASSUME NEW s, Passed(s), s \in Nat
          PROVE  s \in DOMAIN asked
      BY <2>6 DEF PlaceInv
    <2>7. ASSUME NEW i \in DOMAIN wire, wire[i].kind = "headers"
          PROVE  wire[i].sid \in DOMAIN asked
      <3>1. wire[i] \in Frame /\ wire[i].sid \in Nat
        BY <1>1, <2>7, FrameFields
      <3> QED
        BY <2>6, <2>7, <3>1 DEF Passed, Asks
    <2>8. ASSUME NEW s, Decoded(s)
          PROVE  s \in DOMAIN asked
      <3>1. PICK i \in 1 .. decoded : wire[i].kind = "headers" /\ wire[i].sid = s
        BY <2>8 DEF Decoded, Asks
      <3>2. i \in DOMAIN wire
        BY <1>1
      <3> QED
        BY <2>7, <3>1, <3>2
    <2>9. /\ \A i \in DOMAIN incoming : incoming[i].sid \in DOMAIN asked
          /\ \A r \in inService \cup responded : r.sid \in DOMAIN asked
      BY <2>8 DEF AnswerInv, Accepted
    <2>10. \A i \in DOMAIN msg' : msg'[i].kind = "headers" =>
              msg'[i].path = asked'[msg'[i].sid]
      <3>1. f.path = asked'[f.sid]
        BY <2>2, <2>3
      <3>2. \A i \in DOMAIN msg : msg[i].kind = "headers" =>
                msg[i].path = asked'[msg[i].sid]
        BY <2>3, <2>5 DEF AskedInv
      <3> QED
        BY <2>4, <3>1, <3>2, Zenon
    <2>11. \A i \in DOMAIN wire : wire[i].kind = "headers" =>
              wire[i].path = asked'[wire[i].sid]
      BY <2>3, <2>7 DEF AskedInv
    <2>12. /\ \A i \in DOMAIN incoming :
                 incoming[i].path \in {asked'[incoming[i].sid], Garbled}
           /\ \A r \in inService \cup responded :
                 r.path \in {asked'[r.sid], Garbled}
      BY <2>3, <2>9 DEF AskedInv
    <2> QED
      BY <1>1, <2>10, <2>11, <2>12 DEF AskedInv
  <1>4. CASE SendPreface
    BY <1>2, <1>4 DEF SendPreface, Preface
  <1>5. CASE \E w \in Windows : SendSettings(w)
    BY <1>2, <1>5 DEF SendSettings, Settings
  <1>6. CASE SendAck
    BY <1>2, <1>6 DEF SendAck, SettingsAck
  <1>7. CASE \E n \in Incs : SendUpdate(OpenWindow, n)
    BY <1>2, <1>7 DEF SendUpdate, Update
  <1>8. CASE SendOther
    BY <1>2, <1>8 DEF SendOther, Other
  <1> QED
    BY <1>3, <1>4, <1>5, <1>6, <1>7, <1>8 DEF ClientStep, ClientSends

LEMMA AskedTask ==
    ASSUME TypeInv, AskedInv, TaskStep \/ RespondStep
    PROVE  AskedInv'
  <1>1. UNCHANGED <<msg, wire, asked>> /\ incoming \in Seq(Request)
    BY TaskLeaves, OnceTypes
  <1>2. CASE incoming' = incoming
             /\ inService' \cup responded' = inService \cup responded
    BY <1>1, <1>2 DEF AskedInv
  <1>3. CASE \E i \in Undecoded : DecodeHeaders(wire[i])
                                  /\ UNCHANGED <<inService, responded>>
    <2>1. PICK i \in Undecoded : DecodeHeaders(wire[i])
      BY <1>3
    <2> DEFINE q == RequestOf(wire[i])
    <2>2. i \in DOMAIN wire /\ wire[i].kind = "headers"
          /\ incoming' = Append(incoming, q)
      BY <2>1, UndecodedBounds, OnceTypes DEF DecodeHeaders
    <2>3. q.path \in {asked[q.sid], Garbled}
      BY <2>2 DEF RequestOf, AskedInv
    <2> HIDE DEF q
    <2>4. \A k \in DOMAIN incoming' :
              (k \in DOMAIN incoming /\ incoming'[k] = incoming[k])
              \/ incoming'[k] = q
      BY <1>1, <2>2
    <2>5. \A k \in DOMAIN incoming' :
              incoming'[k].path \in {asked[incoming'[k].sid], Garbled}
      BY <2>3, <2>4 DEF AskedInv
    <2> QED
      BY <1>1, <1>3, <2>5 DEF AskedInv
  <1>4. CASE Accept
    <2>1. /\ incoming' = Tail(incoming) /\ incoming # <<>>
          /\ inService' = inService \cup {Head(incoming)}
          /\ responded' = responded
      BY <1>4 DEF Accept
    <2>2. /\ 1 \in DOMAIN incoming /\ Head(incoming) = incoming[1]
          /\ \A k \in DOMAIN incoming' :
                k + 1 \in DOMAIN incoming /\ incoming'[k] = incoming[k + 1]
      BY <1>1, <2>1
    <2>3. \A k \in DOMAIN incoming' :
              incoming'[k].path \in {asked[incoming'[k].sid], Garbled}
      BY <2>2 DEF AskedInv
    <2>4. \A r \in inService' \cup responded' :
              r.path \in {asked[r.sid], Garbled}
      BY <2>1, <2>2 DEF AskedInv
    <2> QED
      BY <1>1, <2>3, <2>4 DEF AskedInv
  <1>5. CASE AwaitProtocol \/ Scan \/ Handshake \/ Drain \/ DrainFails
             \/ PollStream \/ Await
    BY <1>2, <1>5 DEF AwaitProtocol, Scan, Handshake, Drain, DrainFails,
                      PollStream, Await, serverVars
  <1>6. CASE Decode
    <2>1. PICK i \in Undecoded :
              DecodeHeaders(wire[i]) \/ incoming' = incoming
      BY <1>6 DEF Decode, DecodeUpdate, DecodeOther, DecodeJunk
    <2>2. UNCHANGED <<inService, responded>>
      BY <1>6 DEF Decode
    <2> QED
      BY <1>2, <1>3, <2>1, <2>2
  <1>7. CASE RespondStep
    <2>1. /\ incoming' = incoming
          /\ inService' \cup responded' \subseteq inService \cup responded
      BY <1>7 DEF RespondStep, Respond, Leave
    <2> QED
      BY <1>1, <2>1 DEF AskedInv
  <1> QED
    BY <1>4, <1>5, <1>6, <1>7 DEF TaskStep, ConnTask

LEMMA AskedInit == Init => AskedInv
  BY DEF Init, SocketInit, ServerInit, AskedInv

LEMMA AskedInductive ==
    ASSUME TypeInv, TypeOK', PlaceInv, AnswerInv, AskedInv, [Next]_vars
    PROVE  AskedInv'
  <1>1. CASE UNCHANGED vars
    BY <1>1 DEF vars, socketVars, clientVars, userVars, serverVars, AskedInv
  <1> QED
    BY <1>1, AskedKernel, AskedClient, AskedTask DEF Next

-----------------------------------------------------------------------------
(* From positions to numbers.                                              *)

LEMMA AtMostOne ==
    ASSUME NEW S, \A x, y \in S : x = y
    PROVE  Cardinality(S) = IF S = {} THEN 0 ELSE 1
  <1>1. CASE S = {}
    BY <1>1, FS_EmptySet
  <1>2. CASE S # {}
    <2>1. PICK x : x \in S
      BY <1>2
    <2>2. S = {x}
      BY <2>1
    <2> QED
      BY <1>2, <2>2, FS_Singleton
  <1> QED
    BY <1>1, <1>2

LEMMA PlacesCounted ==
    ASSUME PlaceInv, NEW s \in Nat
    PROVE  /\ Carrying(msg, s) = IF Waiting(s) THEN 1 ELSE 0
           /\ Carrying(wire, s) = IF Passed(s) THEN 1 ELSE 0
           /\ Answering(served, s) = IF Served(s) THEN 1 ELSE 0
  <1> DEFINE M == {i \in DOMAIN msg : msg[i].kind = "headers" /\ msg[i].sid = s}
             W == {i \in DOMAIN wire : wire[i].kind = "headers" /\ wire[i].sid = s}
             R == {r \in served : r.sid = s}
  <1>1. \A i, j \in M : i = j
    BY DEF PlaceInv, Asks
  <1>2. \A i, j \in W : i = j
    BY DEF PlaceInv, Asks
  <1>3. \A r, q \in R : r = q
    BY DEF PlaceInv
  <1>4. /\ M = {} <=> ~Waiting(s)
        /\ W = {} <=> ~Passed(s)
        /\ R = {} <=> ~Served(s)
    BY DEF Waiting, Passed, Served, Asks
  <1>5. /\ Carrying(msg, s) = Cardinality(M)
        /\ Carrying(wire, s) = Cardinality(W)
        /\ Answering(served, s) = Cardinality(R)
    BY DEF Carrying, Answering
  <1> HIDE DEF M, W, R
  <1>6. /\ Cardinality(M) = IF M = {} THEN 0 ELSE 1
        /\ Cardinality(W) = IF W = {} THEN 0 ELSE 1
        /\ Cardinality(R) = IF R = {} THEN 0 ELSE 1
    BY <1>1, <1>2, <1>3, AtMostOne
  <1> QED
    BY <1>4, <1>5, <1>6

LEMMA OnceInductive ==
    TypeInv /\ PlaceInv /\ AnswerInv /\ [Next]_vars
        => (TypeInv /\ PlaceInv /\ AnswerInv)'
  <1> SUFFICES ASSUME TypeInv, PlaceInv, AnswerInv, [Next]_vars
               PROVE  (TypeInv /\ PlaceInv /\ AnswerInv)'
    OBVIOUS
  <1>1. TypeInv' /\ TypeOK'
    BY TypeInductive DEF TypeInv
  <1> QED
    BY <1>1, PlaceInductive, AnswerInductive

(* Whatever fails and however many frames a message holds, no request is   *)
(* both answered by the fast path and passed on, and none is passed on or  *)
(* answered twice.                                                         *)
THEOREM OnceAtMost == Spec => []NeverTwice
  <1>1. TypeInv /\ PlaceInv /\ AnswerInv => NeverTwice
    <2> SUFFICES ASSUME TypeInv, PlaceInv, AnswerInv, NEW s \in DOMAIN asked
                 PROVE  /\ Places(s) <= 1
                        /\ Answering(served \cup responded, s) <= 1
      BY DEF NeverTwice
    <2>1. s \in Nat
      BY OnceTypes
    <2>2. Places(s) <= 1
      BY <2>1, PlacesCounted DEF Places, PlaceInv
    <2> DEFINE A == {r \in served \cup responded : r.sid = s}
    <2>3. \A r \in responded : r.sid = s => Passed(s)
      BY OnceTypes, SMTT(30) DEF AnswerInv, Accepted, Decoded, Passed
    <2>4. \A r, q \in A : r = q
      BY <2>1, <2>3 DEF PlaceInv, AnswerInv, Accepted, Served
    <2>5. Answering(served \cup responded, s) = Cardinality(A)
      BY DEF Answering
    <2> HIDE DEF A
    <2>6. Cardinality(A) = IF A = {} THEN 0 ELSE 1
      BY <2>4, AtMostOne
    <2> QED
      BY <2>2, <2>5, <2>6
  <1>2. Init => TypeInv /\ PlaceInv /\ AnswerInv
    BY TypeInvInit, PlaceInit, AnswerInit
  <1> QED
    BY <1>1, <1>2, OnceInductive, PTL DEF Spec

-----------------------------------------------------------------------------
(* None is lost.                                                           *)

LEMMA OneFrame ==
    ASSUME NEW q \in Seq(Frame), q # <<>>, Len(q) <= 1
    PROVE  /\ Len(q) = 1 /\ Head(q) = q[1] /\ Tail(q) = <<>>
           /\ Head(q) \in Frame /\ DOMAIN q = {1}
  <1>1. Len(q) = 1
    <2>1. Len(q) \in Nat \ {0} /\ Len(q) <= 1
      BY EmptySeq
    <2>2. \A n \in Nat \ {0} : n <= 1 => n = 1
      OBVIOUS
    <2> QED
      BY <2>1, <2>2, Zenon
  <1>2. Head(q) = q[1] /\ Head(q) \in Frame /\ DOMAIN q = {1}
    BY <1>1
  <1>3. Tail(q) \in Seq(Frame) /\ Len(Tail(q)) = 0
    BY <1>1, HeadTailProperties
  <1>4. Tail(q) = <<>>
    BY <1>3, EmptySeq
  <1> QED
    BY <1>1, <1>2, <1>4

LEMMA KeptKernel ==
    ASSUME ~Fault("pull"), TypeInv, TypeOK', KeptInv, KernelStep
    PROVE  KeptInv'
  <1>1. /\ wire \in Seq(Frame) /\ wire' \in Seq(Frame) /\ msg \in Seq(Frame)
        /\ Len(wire) \in Nat /\ Len(wire') \in Nat /\ Len(msg) \in Nat
        /\ asked' = asked /\ TypeOK /\ Len(msg) <= 1
    <2>1. wire' \in Seq(Frame) /\ TypeOK
      BY DEF TypeInv, TypeOK, SocketTypeOK
    <2> QED
      BY <2>1, OnceTypes, KernelLeaves DEF KeptInv
  <1>2. \A s : Passed(s) => Passed(s)'
    <2>1. \A i \in DOMAIN wire : i \in DOMAIN wire' /\ wire'[i] = wire[i]
      BY <1>1, WireGrows
    <2> QED
      BY <2>1 DEF Passed, Asks
  <1>3. msg # <<>> => Len(msg) = 1 /\ Head(msg) = msg[1] /\ Tail(msg) = <<>>
                      /\ Head(msg) \in Frame /\ DOMAIN msg = {1}
    BY <1>1, OneFrame
  <1>4. CASE Upgrade
    <2>1. msg # <<>> /\ Head(msg) = Preface /\ msg' = <<>>
          /\ UNCHANGED <<cut, served>>
      BY <1>3, <1>4 DEF Upgrade
    <2>2. \A s : ~Waiting(s)
      BY <1>3, <2>1 DEF Waiting, Asks, Preface
    <2> QED
      BY <1>1, <1>2, <2>1, <2>2 DEF KeptInv, Served
  <1>5. CASE ParseFails \/ PassUnparsed
    <2>1. msg # <<>> /\ wire' = wire \o msg /\ msg' = <<>>
          /\ UNCHANGED <<cut, served>>
      BY <1>5 DEF ParseFails, PassUnparsed, fastVars
    <2>2. wire'[Len(wire')] = msg[1] /\ Len(wire') \in DOMAIN wire'
      BY <1>1, <1>3, <2>1
    <2>3. \A s : Waiting(s) => Passed(s)'
      BY <1>3, <2>1, <2>2 DEF Waiting, Passed, Asks
    <2> QED
      BY <1>1, <1>2, <2>1, <2>3 DEF KeptInv, Served
  <1>6. ASSUME NEW f, f = Head(msg), msg # <<>>, Serve(f)
        PROVE  KeptInv'
    <2> DEFINE q == [sid |-> f.sid, path |-> f.path]
    <2>1. /\ msg' = <<>> /\ cut' = cut /\ q.sid = f.sid
          /\ served' = served \cup {q}
      BY <1>6 DEF Serve, Redirect
    <2> HIDE DEF q
    <2>2. \A s : Waiting(s) => Served(s)'
      BY <1>3, <1>6, <2>1 DEF Waiting, Served, Asks
    <2>3. \A s : Served(s) => Served(s)'
      BY <2>1 DEF Served
    <2> QED
      BY <1>1, <1>2, <2>1, <2>2, <2>3 DEF KeptInv
  <1>7. ASSUME NEW f, f = Head(msg), msg # <<>>, Drop(f)
        PROVE  KeptInv'
    BY <1>7 DEF Drop, KeptInv
  <1>8. ASSUME NEW f, f = Head(msg), msg # <<>>,
               Forward(f) \/ ServePartly(f) \/ Overwrite(f)
        PROVE  KeptInv'
    <2>1. PICK x : Passes(f, x)
      BY <1>1, <1>8, Passing
    <2>2. x = f /\ UNCHANGED <<cut, served>> /\ f \in Frame /\ f = msg[1]
      BY <1>3, <1>8, <2>1 DEF Passes
    <2>3. Len(msg') <= 1
      <3>1. Tail(msg) = <<>> /\ (msg' = Tail(msg) \/ msg' = Append(Tail(msg), Junk))
        BY <1>3, <1>8 DEF Forward, ServePartly, Overwrite
      <3>2. Len(<<>>) = 0 /\ Len(Append(<<>>, Junk)) = 1
        BY FramesBuilt, EmptySeq, AppendProperties
      <3>3. 0 <= 1 /\ 1 <= 1
        OBVIOUS
      <3> QED
        BY <3>1, <3>2, <3>3, Zenon
    <2>4. wire'[Len(wire')] = f /\ Len(wire') \in DOMAIN wire'
      BY <1>1, <2>1, <2>2, PassOnWire
    <2>5. \A s : Waiting(s) => Passed(s)'
      BY <1>3, <1>8, <2>2, <2>4 DEF Waiting, Passed, Asks
    <2> QED
      BY <1>1, <1>2, <2>2, <2>3, <2>5 DEF KeptInv, Served
  <1> QED
    BY <1>4, <1>5, <1>6, <1>7, <1>8 DEF KernelStep, Verdict

LEMMA KeptClient ==
    ASSUME MaxBatch = 1, TypeInv, KeptInv, ClientStep
    PROVE  KeptInv'
  <1>1. /\ msg \in Seq(Frame) /\ asked \in Seq(Paths) /\ Len(asked) \in Nat
        /\ UNCHANGED <<wire, served, cut>>
    BY OnceTypes, ClientLeaves
  <1>2. ASSUME NEW f, Send(f)
        PROVE  /\ Len(msg') <= 1 /\ msg'[1] = f /\ 1 \in DOMAIN msg'
               /\ \A s : ~Waiting(s)
    BY <1>1, <1>2 DEF Send, Waiting
  <1>3. \A s : (Passed(s)' <=> Passed(s)) /\ (Served(s)' <=> Served(s))
    BY <1>1 DEF Passed, Served, Asks
  <1>4. CASE \E p \in Paths, e \in Entries \cup {NoEntry} : SendRequest(p, e)
    <2>1. PICK p \in Paths, e \in Entries \cup {NoEntry} : SendRequest(p, e)
      BY <1>4
    <2> DEFINE f == Headers(Len(asked) + 1, p, e, cliTable)
    <2>2. /\ Send(f) /\ asked' = Append(asked, p)
          /\ Asks(f, Len(asked) + 1)
      BY <2>1 DEF SendRequest, Headers, Asks
    <2>3. DOMAIN asked' = DOMAIN asked \cup {Len(asked) + 1}
      BY <1>1, <2>2
    <2> HIDE DEF f
    <2>4. \A s : s = Len(asked) + 1 => Waiting(s)'
      BY <1>2, <2>2 DEF Waiting, Asks
    <2> QED
      BY <1>1, <1>2, <1>3, <2>2, <2>3, <2>4 DEF KeptInv
  <1>5. ASSUME NEW f, Send(f), asked' = asked
        PROVE  KeptInv'
    BY <1>1, <1>2, <1>3, <1>5 DEF KeptInv
  <1> QED
    BY <1>4, <1>5 DEF ClientStep, ClientSends, SendPreface, SendSettings,
                      SendAck, SendUpdate, SendOther

LEMMA KeptInductive ==
    ASSUME MaxBatch = 1, ~Fault("pull"), TypeInv, TypeOK', KeptInv, [Next]_vars
    PROVE  KeptInv'
  <1>1. CASE KernelStep
    BY <1>1, KeptKernel
  <1>2. CASE ClientStep
    BY <1>2, KeptClient
  <1>3. CASE TaskStep \/ RespondStep \/ UNCHANGED vars
    <2>1. UNCHANGED <<msg, wire, cut, served, asked>>
      BY <1>3, TaskLeaves DEF vars, socketVars, clientVars, fastVars
    <2> QED
      BY <2>1 DEF KeptInv, Waiting, Passed, Served, Asks
  <1> QED
    BY <1>1, <1>2, <1>3 DEF Next

(* With one frame in a message, every request of a connection that is not  *)
(* cut is in exactly one place: in front of the program, answered by it,   *)
(* or passed on.  So it is whatever the parser, pushing and popping bytes  *)
(* and user space fail at, but not if a message that was made over already *)
(* cannot be read or redirected: the request in it is gone.                *)
THEOREM NoneLost ==
    ASSUME MaxBatch = 1, ~Fault("pull")
    PROVE  Spec => []RequestsKept
  <1>1. TypeInv /\ PlaceInv /\ KeptInv => RequestsKept
    <2> SUFFICES ASSUME TypeInv, PlaceInv, KeptInv, ~cut, NEW s \in DOMAIN asked
                 PROVE  Places(s) = 1
      BY DEF RequestsKept
    <2>1. s \in Nat
      BY OnceTypes
    <2>2. Waiting(s) \/ Passed(s) \/ Served(s)
      BY DEF KeptInv
    <2> QED
      BY <2>1, <2>2, PlacesCounted DEF Places, PlaceInv
  <1>2. Init => TypeInv /\ PlaceInv /\ KeptInv
    <2>1. Init => KeptInv
      BY DEF Init, SocketInit, ClientInit, KeptInv
    <2> QED
      BY <2>1, TypeInvInit, PlaceInit
  <1>3. TypeInv /\ PlaceInv /\ KeptInv /\ [Next]_vars
            => (TypeInv /\ PlaceInv /\ KeptInv)'
    <2> SUFFICES ASSUME TypeInv, PlaceInv, KeptInv, [Next]_vars
                 PROVE  (TypeInv /\ PlaceInv /\ KeptInv)'
      OBVIOUS
    <2>1. TypeInv' /\ TypeOK'
      BY TypeInductive DEF TypeInv
    <2> QED
      BY <2>1, PlaceInductive, KeptInductive
  <1> QED
    BY <1>1, <1>2, <1>3, PTL DEF Spec
=============================================================================
