----------------------------- MODULE TableProofs -----------------------------
(***************************************************************************)
(* The dynamic tables: on a connection whose messages hold one frame each  *)
(* and on which nothing fails but pushing bytes into a message that was    *)
(* not yet changed, the client, the fast path and the codec never disagree *)
(* about a table a header block refers to.  The runs Batch, Unparsed and   *)
(* HalfServed show what the assumption is for.                             *)
(***************************************************************************)
EXTENDS WindowProofs

Clean ==
    /\ MaxBatch = 1
    /\ Faults \subseteq {"push"}
    /\ Fault("push") => BigRoutes = {}

-----------------------------------------------------------------------------
(* Reading a table off a stretch of the stream.                            *)

LEMMA TableExtend ==
    ASSUME NEW s \in Seq(Frame), NEW t \in Seq(Frame), NEW u,
           NEW i \in Nat, i <= Len(s), Len(s) <= Len(t),
           \A k \in 1 .. Len(s) : t[k] = s[k],
           TableAt(s, i, u)
    PROVE  TableAt(t, i, u)
  <1>1. \A k \in 1 .. i : t[k] = s[k]
    OBVIOUS
  <1>2. \A j \in 1 .. i : \A k \in j + 1 .. i : t[k] = s[k]
    BY <1>1
  <1> QED
    BY <1>1, <1>2 DEF TableAt

(* Frames that change nothing leave the table as it is.                    *)
LEMMA TableSkip ==
    ASSUME NEW s, NEW u, NEW i \in Nat, NEW j \in Nat, i <= j,
           \A k \in i + 1 .. j : ~Changes(s[k]),
           TableAt(s, i, u)
    PROVE  TableAt(s, j, u)
  <1>1. CASE u = <<>> /\ \A k \in 1 .. i : ~Changes(s[k])
    <2>1. \A k \in 1 .. j : ~Changes(s[k])
      BY <1>1
    <2> QED
      BY <1>1, <2>1 DEF TableAt
  <1>2. ASSUME NEW m \in 1 .. i, Changes(s[m]), u = After(s[m]),
               \A k \in m + 1 .. i : ~Changes(s[k])
        PROVE  TableAt(s, j, u)
    <2>1. m \in 1 .. j /\ \A k \in m + 1 .. j : ~Changes(s[k])
      BY <1>2
    <2> QED
      BY <1>2, <2>1 DEF TableAt
  <1> QED
    BY <1>1, <1>2 DEF TableAt

LEMMA TableHere ==
    ASSUME NEW s, NEW i \in Nat \ {0}, Changes(s[i])
    PROVE  TableAt(s, i, After(s[i]))
  <1>1. i \in 1 .. i /\ \A k \in i + 1 .. i : ~Changes(s[k])
    OBVIOUS
  <1> QED
    BY <1>1 DEF TableAt

LEMMA TableUnique ==
    ASSUME NEW s, NEW u, NEW v, NEW i \in Nat,
           TableAt(s, i, u), TableAt(s, i, v)
    PROVE  u = v
  <1>1. CASE \A j \in 1 .. i : ~Changes(s[j])
    BY <1>1 DEF TableAt
  <1>2. CASE ~ \A j \in 1 .. i : ~Changes(s[j])
    <2>1. PICK a \in 1 .. i : /\ Changes(s[a]) /\ u = After(s[a])
                              /\ \A k \in a + 1 .. i : ~Changes(s[k])
      BY <1>2 DEF TableAt
    <2>2. PICK b \in 1 .. i : /\ Changes(s[b]) /\ v = After(s[b])
                              /\ \A k \in b + 1 .. i : ~Changes(s[k])
      BY <1>2 DEF TableAt
    <2>3. ~(a < b) /\ ~(b < a)
      BY <2>1, <2>2
    <2>4. a = b
      BY <2>3
    <2> QED
      BY <2>1, <2>2, <2>4
  <1> QED
    BY <1>1, <1>2

-----------------------------------------------------------------------------
(* A step of the client.                                                   *)

LEMMA ClientSent ==
    ASSUME TypeOK, ClientStep
    PROVE  \E f \in Frame :
              /\ Send(f)
              /\ ~Private(f) /\ f.kind # "junk"
              /\ IF sent = 0 THEN f = Preface ELSE f.kind # "preface"
              /\ cliTable' = LearnFrom(cliTable, f)
              /\ f.kind = "headers" => f.ctx = cliTable
  <1> DEFINE P(f) == /\ Send(f)
                     /\ ~Private(f) /\ f.kind # "junk"
                     /\ IF sent = 0 THEN f = Preface ELSE f.kind # "preface"
                     /\ cliTable' = LearnFrom(cliTable, f)
                     /\ f.kind = "headers" => f.ctx = cliTable
  <1>1. granted \in Nat /\ sent \in Nat /\ cliTable \in Table
        /\ asked \in Seq(Paths) /\ Len(asked) + 1 \in Nat
    BY DEF TypeOK, ClientTypeOK
  <1>2. CASE SendPreface
    <2>1. P(Preface) /\ Preface \in Frame
      BY <1>2, FramesBuilt DEF SendPreface, Preface, Private, LearnFrom
    <2> QED
      BY <2>1
  <1>3. ASSUME NEW w \in Windows, SendSettings(w)
        PROVE  \E f \in Frame : P(f)
    <2>1. P(Settings(w)) /\ Settings(w) \in Frame
      BY <1>1, <1>3, FramesBuilt
      DEF SendSettings, Settings, Private, LearnFrom
    <2> QED
      BY <2>1
  <1>4. CASE SendAck
    <2>1. P(SettingsAck) /\ SettingsAck \in Frame
      BY <1>1, <1>4, FramesBuilt
      DEF SendAck, SettingsAck, Private, LearnFrom
    <2> QED
      BY <2>1
  <1>5. ASSUME NEW n \in Incs, SendUpdate(OpenWindow, n)
        PROVE  \E f \in Frame : P(f)
    <2>1. granted + n \in Nat
      BY <1>1, WindowAssumption
    <2>2. Update(n, granted + n) \in Frame
      BY <2>1, FramesBuilt
    <2>3. P(Update(n, granted + n))
      BY <1>1, <1>5 DEF SendUpdate, Update, Private, LearnFrom
    <2> QED
      BY <2>2, <2>3
  <1>6. ASSUME NEW p \in Paths, NEW e \in Entries \cup {NoEntry},
               SendRequest(p, e)
        PROVE  \E f \in Frame : P(f)
    <2> DEFINE h == Headers(Len(asked) + 1, p, e, cliTable)
    <2>1. h \in Frame
      BY <1>1, FramesBuilt
    <2>2. P(h)
      BY <1>1, <1>6 DEF SendRequest, Headers, Private, LearnFrom
    <2> QED
      BY <2>1, <2>2
  <1>7. CASE SendOther
    <2>1. P(Other) /\ Other \in Frame
      BY <1>1, <1>7, FramesBuilt DEF SendOther, Other, Private, LearnFrom
    <2> QED
      BY <2>1
  <1> QED
    BY <1>2, <1>3, <1>4, <1>5, <1>6, <1>7 DEF ClientStep, ClientSends

LEMMA TablesClient ==
    ASSUME Clean, TypeOK, TablesInv, ClientStep
    PROVE  TablesInv'
  <1>1. PICK f \in Frame :
              /\ Send(f)
              /\ ~Private(f) /\ f.kind # "junk"
              /\ IF sent = 0 THEN f = Preface ELSE f.kind # "preface"
              /\ cliTable' = LearnFrom(cliTable, f)
              /\ f.kind = "headers" => f.ctx = cliTable
    BY ClientSent
  <1>2. UNCHANGED <<wire, h2_state, mirror, dirty, skip, scanned, scanning,
                    pending, pc, decoded, decTable, incoming, inService,
                    responded>>
    BY ClientLeaves
  <1>3. msg = <<>>
    <2>1. msg \in Seq(Frame) /\ Len(msg) < 1
      BY <1>1 DEF Send, Clean, TypeOK, SocketTypeOK
    <2> QED
      BY <2>1
  <1>4. /\ msg' = <<f>> /\ DOMAIN msg' = {1} /\ msg'[1] = f /\ Len(msg') = 1
        /\ sent' = sent + 1 /\ sent \in Nat
    BY <1>1, <1>3 DEF Send, TypeOK, ClientTypeOK
  <1>5. ClientInv'
    <2>1. ~skip' /\ Len(msg') <= 1
      BY <1>2, <1>4 DEF TablesInv, ClientInv
    <2>2. \A i \in DOMAIN msg' : ~Private(msg'[i]) /\ msg'[i].kind # "junk"
      BY <1>1, <1>4
    <2>3. CASE h2_state = "none"
      <3>1. /\ wire = <<>> /\ mirror = <<>> /\ ~dirty /\ cliTable = <<>>
            /\ sent = 0
        BY <1>3, <2>3 DEF TablesInv, ClientInv
      <3>2. f = Preface
        BY <1>1, <3>1
      <3>3. cliTable' = <<>>
        BY <1>1, <3>1, <3>2 DEF LearnFrom, Preface
      <3>4. /\ sent' = Len(msg')
            /\ \A i \in DOMAIN msg' : msg'[i] = Preface
        BY <1>4, <3>1, <3>2
      <3> QED
        BY <1>2, <2>1, <2>2, <2>3, <3>1, <3>3, <3>4 DEF ClientInv
    <2>4. CASE h2_state # "none"
      <3>1. sent >= 1 /\ wire # <<>> /\ wire[1] = Preface
        BY <2>4 DEF TablesInv, ClientInv
      <3>2. f.kind # "preface" /\ sent' >= 1
        BY <1>1, <1>4, <3>1
      <3>3. \A i \in DOMAIN msg' : msg'[i].kind # "preface"
        BY <1>4, <3>2
      <3> QED
        BY <1>2, <2>1, <2>2, <2>4, <3>1, <3>2, <3>3 DEF ClientInv
    <2> QED
      BY <2>3, <2>4
  <1>6. MirrorInv'
    <2>1. cliTable = mirror
      BY <1>3 DEF TablesInv, MirrorInv
    <2>2. \A i \in DOMAIN msg' : cliTable' = LearnFrom(mirror', msg'[i])
      BY <1>1, <1>2, <1>4, <2>1
    <2>3. \A i \in DOMAIN msg' :
              msg'[i].kind = "headers" => msg'[i].ctx = mirror'
      BY <1>1, <1>2, <1>4, <2>1
    <2>4. msg' # <<>>
      BY <1>4
    <2> QED
      BY <1>2, <2>2, <2>3, <2>4 DEF TablesInv, MirrorInv
  <1>7. DecoderInv'
    BY <1>2 DEF TablesInv, DecoderInv, AppliedTo, DecodesInStep
  <1> QED
    BY <1>5, <1>6, <1>7 DEF TablesInv

-----------------------------------------------------------------------------
(* A verdict.                                                              *)

(* What stands behind `wire` after a frame was passed on: perhaps a report,*)
(* the mirror if the connection was marked, then the frame itself.         *)
LEMMA PassedOn ==
    ASSUME NEW f \in Frame, TypeOK, Report(f) \/ NoReport(f)
    PROVE  /\ wire'[Len(wire')] = f
           /\ Len(wire) < Len(wire')
           /\ dirty => /\ Len(wire) + 1 < Len(wire')
                       /\ wire'[Len(wire') - 1] = DtSync(mirror)
           /\ \A i \in Len(wire) + 1 .. Len(wire') - 1 :
                 \/ wire'[i] = FcSync(unreported, servedBytes)
                 \/ dirty /\ i = Len(wire') - 1
  <1>1. Len(wire) \in Nat
    BY DEF TypeOK, SocketTypeOK
  <1>2. CASE Report(f) /\ dirty
    BY <1>1, <1>2, ReportWire
  <1>3. CASE Report(f) /\ ~dirty
    BY <1>1, <1>3, ReportWire
  <1>4. CASE NoReport(f) /\ dirty
    BY <1>1, <1>4, NoReportWire
  <1>5. CASE NoReport(f) /\ ~dirty
    BY <1>1, <1>5, NoReportWire
  <1> QED
    BY <1>2, <1>3, <1>4, <1>5

(* The stream grows behind what the codec reads.                           *)
LEMMA DecoderKernel ==
    ASSUME TypeInv, TypeOK', DecoderInv, KernelStep
    PROVE  DecoderInv'
  <1>1. /\ wire \in Seq(Frame) /\ wire' \in Seq(Frame)
        /\ scanned \in Nat /\ scanned <= Len(wire) /\ decoded \in Nat
    <2>1. /\ wire \in Seq(Frame) /\ wire' \in Seq(Frame)
          /\ scanned \in Nat /\ arrived \in Nat /\ decoded \in Nat
      BY DEF TypeInv, TypeOK, SocketTypeOK, ListenerTypeOK, ServerTypeOK
    <2>2. scanned <= arrived /\ arrived <= Len(wire)
      BY DEF TypeInv, Cursors
    <2> QED
      BY <2>1, <2>2
  <1>2. /\ Len(wire) <= Len(wire')
        /\ \A i \in 1 .. Len(wire) : wire'[i] = wire[i]
    BY WireGrows DEF TypeInv
  <1>3. UNCHANGED <<scanned, scanning, pending, pc, decoded, decTable, incoming,
                    inService, responded>>
    BY KernelLeaves
  <1>4. \A i \in decoded + 1 .. scanned : wire'[i] = wire[i]
    BY <1>1, <1>2
  <1>5. PICK d \in 0 .. scanned : AppliedTo(d)
    BY DEF DecoderInv
  <1>6. AppliedTo(d)'
    <2>1. d \in Nat /\ d <= Len(wire) /\ d <= scanned
      BY <1>1
    <2>2. TableAt(wire', d, decTable)
      BY <1>1, <1>2, <1>5, <2>1, TableExtend DEF AppliedTo
    <2>3. /\ \A i \in decoded + 1 .. d : wire'[i] = wire[i]
          /\ \A i \in d + 1 .. scanned : wire'[i] = wire[i]
      BY <1>1, <1>2, <2>1
    <2> QED
      BY <1>3, <1>5, <2>2, <2>3 DEF AppliedTo
  <1> QED
    BY <1>3, <1>4, <1>6 DEF DecoderInv, DecodesInStep

(* Only one frame is in front of the program, and what the program may do  *)
(* with it.                                                                *)
LEMMA CleanVerdict ==
    ASSUME Clean, TypeOK, TablesInv, KernelStep
    PROVE  /\ msg # <<>> /\ Head(msg) \in Frame
           /\ msg = <<Head(msg)>> /\ msg[1] = Head(msg) /\ 1 \in DOMAIN msg
           /\ msg' = <<>>
           /\ \/ Upgrade
              \/ Serve(Head(msg)) \/ Forward(Head(msg)) \/ Drop(Head(msg))
  <1>1. msg # <<>>
    BY DEF KernelStep, Verdict, Upgrade, ParseFails, PassUnparsed
  <1>2. msg \in Seq(Frame) /\ Len(msg) <= 1
    BY DEF TypeOK, SocketTypeOK, TablesInv, ClientInv
  <1>3. /\ Head(msg) \in Frame /\ msg = <<Head(msg)>> /\ msg[1] = Head(msg)
        /\ 1 \in DOMAIN msg /\ Tail(msg) = <<>>
    <2>1. Len(msg) = 1
      <3>1. Len(msg) \in Nat \ {0}
        BY <1>1, <1>2, EmptySeq
      <3>2. Len(msg) <= 1
        BY <1>2
      <3>3. \A n \in Nat \ {0} : n <= 1 => n = 1
        OBVIOUS
      <3> QED
        BY <3>1, <3>2, <3>3, Zenon
    <2>2. Head(msg) = msg[1] /\ msg[1] \in Frame /\ 1 \in DOMAIN msg
      BY <1>2, <2>1
    <2>3. Tail(msg) = <<>>
      <3>1. Tail(msg) \in Seq(Frame) /\ Len(Tail(msg)) = 0
        BY <1>1, <1>2, <2>1, HeadTailProperties
      <3> QED
        BY <3>1, EmptySeq
    <2>4. msg = <<msg[1]>>
      <3>1. /\ <<msg[1]>> \in Seq(Frame) /\ Len(<<msg[1]>>) = 1
            /\ <<msg[1]>>[1] = msg[1]
        BY <2>2
      <3>2. \A i \in 1 .. Len(msg) : msg[i] = <<msg[1]>>[i]
        BY <2>1, <3>1
      <3> QED
        BY <1>2, <2>1, <3>1, <3>2, SeqEqual
    <2> QED
      BY <2>2, <2>3, <2>4
  <1>4. /\ Head(msg).kind # "junk" /\ ~skip
        /\ ~Fault("parse") /\ ~Fault("pull")
    BY <1>3 DEF TablesInv, ClientInv, Clean, Fault
  <1>5. ~ParseFails /\ ~PassUnparsed
    BY <1>4 DEF ParseFails, PassUnparsed
  <1>6. ~ServePartly(Head(msg)) /\ ~Overwrite(Head(msg))
    BY <1>4 DEF ServePartly, Overwrite, Clean
  <1>7. \/ Upgrade
        \/ Serve(Head(msg)) \/ Forward(Head(msg)) \/ Drop(Head(msg))
    BY <1>5, <1>6 DEF KernelStep, Verdict
  <1>8. msg' = <<>>
    BY <1>3, <1>7 DEF Upgrade, Serve, Redirect, Forward, Drop
  <1> QED
    BY <1>1, <1>3, <1>7, <1>8

LEMMA TablesUpgrade ==
    ASSUME Clean, TypeOK, TablesInv, KernelStep, Upgrade
    PROVE  ClientInv' /\ MirrorInv'
  <1>1. msg' = <<>> /\ Len(msg) = 1 /\ DOMAIN msg' = {} /\ Len(msg') = 0
    BY CleanVerdict
  <1>2. /\ wire = <<>> /\ mirror = <<>> /\ ~dirty /\ cliTable = <<>>
        /\ sent = 1 /\ ~skip
    BY <1>1 DEF Upgrade, TablesInv, ClientInv
  <1>3. /\ wire' = <<Preface>> /\ h2_state' = "upgraded"
        /\ UNCHANGED <<mirror, dirty, skip, cliTable, sent>>
    BY <1>2, KernelLeaves DEF Upgrade
  <1>4. DOMAIN wire' = {1} /\ wire'[1] = Preface /\ Len(wire') = 1
    BY <1>3
  <1>5. ClientInv'
    BY <1>1, <1>2, <1>3, <1>4 DEF ClientInv
  <1>6. TableAt(wire', Len(wire'), mirror')
    BY <1>2, <1>3, <1>4 DEF TableAt, Changes, Preface
  <1>7. MirrorInv'
    BY <1>1, <1>2, <1>3, <1>4, <1>6 DEF MirrorInv, Preface
  <1> QED
    BY <1>5, <1>7

(* A verdict on an upgraded connection keeps what ClientInv says.          *)
LEMMA ClientKernel ==
    ASSUME Clean, TypeOK, TypeOK', TablesInv, KernelStep, ~Upgrade
    PROVE  /\ ClientInv' /\ h2_state # "none" /\ h2_state' # "none"
           /\ cliTable' = mirror'
  <1> DEFINE f == Head(msg)
  <1>1. /\ Serve(f) \/ Forward(f) \/ Drop(f)
        /\ msg' = <<>> /\ DOMAIN msg' = {} /\ Len(msg') = 0
        /\ msg[1] = f /\ 1 \in DOMAIN msg
    BY CleanVerdict
  <1>2. /\ h2_state # "none" /\ ~skip'
        /\ mirror' = LearnFrom(mirror, f)
    <2>1. ~Stray(f) /\ ~skip
      BY DEF Stray, Clean, Fault, TablesInv, ClientInv
    <2>2. skip' = skip \/ skip' = FALSE
      BY <1>1, <2>1 DEF Serve, Forward, Drop, PassOn
    <2>3. ~skip'
      BY <2>1, <2>2, Zenon
    <2>4. h2_state # "none" /\ mirror' = LearnFrom(mirror, f)
      BY <1>1 DEF Serve, Forward, Drop, PassOn, Parsed
    <2> QED
      BY <2>3, <2>4
  <1>3. h2_state' # "none"
    BY <1>1, <1>2 DEF Serve, Forward, Drop, PassOn, Follow
  <1>4. cliTable' = mirror' /\ sent' = sent
    BY <1>1, <1>2, KernelLeaves DEF TablesInv, MirrorInv
  <1>5. ~skip /\ sent >= 1 /\ wire # <<>> /\ wire[1] = Preface
    BY <1>2 DEF TablesInv, ClientInv
  <1>6. wire' # <<>> /\ wire'[1] = Preface
    <2>1. wire \in Seq(Frame) /\ wire' \in Seq(Frame)
      BY DEF TypeOK, SocketTypeOK
    <2>2. Len(wire) >= 1
      BY <1>5, <2>1
    <2>3. Len(wire') >= 1 /\ wire'[1] = wire[1]
      BY <2>1, <2>2, WireGrows
    <2> QED
      BY <1>5, <2>1, <2>3
  <1>7. ClientInv'
    BY <1>1, <1>2, <1>3, <1>4, <1>5, <1>6 DEF ClientInv
  <1> QED
    BY <1>2, <1>3, <1>4, <1>7

(* An answer and a dropped message pass nothing on and leave the           *)
(* connection marked.                                                      *)
LEMMA MirrorMarked ==
    ASSUME Clean, TypeOK, TypeOK', TablesInv, KernelStep, ~Upgrade,
           Serve(Head(msg)) \/ Drop(Head(msg))
    PROVE  MirrorInv'
  <1>1. wire' = wire /\ dirty'
    BY DEF Serve, Redirect, MarkDirty, Drop
  <1>2. h2_state' = "handshaked"
    <2>1. CASE Serve(Head(msg))
      BY <2>1 DEF Serve, Servable
    <2>2. CASE Drop(Head(msg))
      <3>1. h2_state = "handshaked"
        BY <2>2 DEF Drop, TablesInv, MirrorInv
      <3> QED
        BY <2>2, <3>1 DEF Drop, Follow
    <2> QED
      BY <2>1, <2>2
  <1>3. msg' = <<>> /\ DOMAIN msg' = {} /\ cliTable' = mirror'
    BY CleanVerdict, ClientKernel
  <1> QED
    BY <1>1, <1>2, <1>3 DEF TablesInv, MirrorInv

LEMMA MirrorForward ==
    ASSUME Clean, TypeOK, TypeOK', TablesInv, KernelStep, ~Upgrade,
           Forward(Head(msg))
    PROVE  MirrorInv'
  <1> DEFINE f == Head(msg)
             n == Len(wire')
  <1>1. /\ f \in Frame /\ msg[1] = f /\ 1 \in DOMAIN msg
        /\ msg' = <<>> /\ DOMAIN msg' = {} /\ cliTable' = mirror'
    BY CleanVerdict, ClientKernel
  <1>2. /\ Report(f) \/ NoReport(f)
        /\ Follow(f) /\ mirror' = LearnFrom(mirror, f) /\ ~dirty'
    <2>1. ~Fault("pull")
      BY DEF Clean, Fault
    <2>2. PassOn(f, f, FALSE)
      BY DEF Forward
    <2>3. ~Stray(f)
      BY <2>1 DEF Stray
    <2>4. dirty' = FALSE /\ Follow(f) /\ mirror' = LearnFrom(mirror, f)
      BY <2>2 DEF PassOn
    <2>5. Report(f) \/ NoReport(f)
      BY <2>2, <2>3 DEF PassOn
    <2> QED
      BY <2>4, <2>5, Zenon
  <1>3. /\ wire \in Seq(Frame) /\ wire' \in Seq(Frame)
        /\ Len(wire) \in Nat /\ n \in Nat /\ Len(wire) < n
        /\ \A i \in 1 .. Len(wire) : wire'[i] = wire[i]
    <2>1. wire \in Seq(Frame) /\ wire' \in Seq(Frame)
      BY DEF TypeOK, SocketTypeOK
    <2>2. Len(wire) < n
      BY <1>1, <1>2, PassedOn
    <2>3. \A i \in 1 .. Len(wire) : wire'[i] = wire[i]
      BY WireGrows
    <2> QED
      BY <2>1, <2>2, <2>3
  <1>4. wire'[n] = f /\ ~Private(f)
    <2>1. wire'[n] = f
      BY <1>1, <1>2, PassedOn
    <2> QED
      BY <1>1, <2>1 DEF TablesInv, ClientInv
  <1>5. \A i \in Len(wire) + 1 .. n - 1 :
            \/ wire'[i].kind = "fc"
            \/ dirty /\ i = n - 1 /\ wire'[i].kind = "dt"
    <2>1. FcSync(unreported, servedBytes).kind = "fc"
      BY DEF FcSync
    <2>2. dirty => wire'[n - 1].kind = "dt"
      BY <1>1, <1>2, PassedOn DEF DtSync
    <2>3. ASSUME NEW i \in Len(wire) + 1 .. n - 1
          PROVE  \/ wire'[i] = FcSync(unreported, servedBytes)
                 \/ dirty /\ i = n - 1
      BY <1>1, <1>2, PassedOn
    <2>4. ASSUME NEW i \in Len(wire) + 1 .. n - 1
          PROVE  \/ wire'[i].kind = "fc"
                 \/ dirty /\ i = n - 1 /\ wire'[i].kind = "dt"
      <3>1. CASE wire'[i] = FcSync(unreported, servedBytes)
        BY <2>1, <3>1
      <3>2. CASE dirty /\ i = n - 1
        BY <2>2, <3>2
      <3> QED
        BY <2>3, <3>1, <3>2
    <2> QED
      BY <2>4
  <1>6. TableAt(wire', n - 1, mirror)
    <2>1. CASE dirty
      <3>1. /\ wire'[n - 1].kind = "dt" /\ wire'[n - 1].table = mirror
            /\ n - 1 \in Nat \ {0}
        BY <1>1, <1>2, <1>3, <2>1, PassedOn DEF DtSync
      <3>2. Changes(wire'[n - 1]) /\ After(wire'[n - 1]) = mirror
        BY <3>1 DEF Changes, After
      <3> QED
        BY <3>1, <3>2, TableHere
    <2>2. CASE ~dirty
      <3>1. TableAt(wire', Len(wire), mirror)
        BY <1>3, <2>2, TableExtend DEF TablesInv, MirrorInv
      <3>2. \A i \in Len(wire) + 1 .. n - 1 : ~Changes(wire'[i])
        BY <1>5, <2>2 DEF Changes
      <3>3. n - 1 \in Nat /\ Len(wire) <= n - 1
        BY <1>3
      <3> QED
        BY <1>3, <3>1, <3>2, <3>3, TableSkip
    <2> QED
      BY <2>1, <2>2
  <1>7. f.kind = "headers" => f.ctx = mirror
    BY <1>1 DEF TablesInv, MirrorInv
  <1>8. TableAt(wire', n, mirror')
    <2>1. CASE f.kind = "headers"
      <3>1. Changes(wire'[n]) /\ After(wire'[n]) = mirror'
        BY <1>2, <1>4, <1>7, <2>1 DEF Changes, After, LearnFrom
      <3>2. n \in Nat \ {0}
        BY <1>3
      <3> QED
        BY <3>1, <3>2, TableHere
    <2>2. CASE f.kind # "headers"
      <3>1. mirror' = mirror /\ ~Changes(wire'[n])
        BY <1>2, <1>4, <2>2 DEF LearnFrom, Changes, Private
      <3>2. \A i \in (n - 1) + 1 .. n : ~Changes(wire'[i])
        BY <1>3, <3>1
      <3>3. n - 1 \in Nat /\ n - 1 <= n
        BY <1>3
      <3> QED
        BY <1>3, <1>6, <3>1, <3>2, <3>3, TableSkip
    <2> QED
      BY <2>1, <2>2
  <1>9. ASSUME NEW i \in DOMAIN wire', wire'[i].kind = "headers"
        PROVE  TableAt(wire', i - 1, wire'[i].ctx)
    <2>1. i \in 1 .. Len(wire) \/ i \in Len(wire) + 1 .. n - 1 \/ i = n
      BY <1>3
    <2>2. CASE i \in 1 .. Len(wire)
      <3>1. wire'[i] = wire[i] /\ i \in DOMAIN wire
        BY <1>3, <2>2
      <3>2. TableAt(wire, i - 1, wire'[i].ctx)
        BY <1>9, <3>1 DEF TablesInv, MirrorInv
      <3>3. i - 1 \in Nat /\ i - 1 <= Len(wire)
        BY <1>3, <2>2
      <3> QED
        BY <1>3, <3>2, <3>3, TableExtend
    <2>3. CASE i \in Len(wire) + 1 .. n - 1
      BY <1>5, <1>9, <2>3
    <2>4. CASE i = n
      BY <1>4, <1>6, <1>7, <1>9, <2>4
    <2> QED
      BY <2>1, <2>2, <2>3, <2>4
  <1>10. ASSUME NEW i \in DOMAIN wire', wire'[i].kind = "dt"
         PROVE  h2_state' = "handshaked"
    <2>1. i \in 1 .. Len(wire) \/ i \in Len(wire) + 1 .. n - 1 \/ i = n
      BY <1>3
    <2>2. h2_state = "handshaked"
      <3>1. CASE i \in 1 .. Len(wire)
        <4>1. wire'[i] = wire[i] /\ i \in DOMAIN wire
          BY <1>3, <3>1
        <4> QED
          BY <1>10, <4>1 DEF TablesInv, MirrorInv
      <3>2. CASE i \in Len(wire) + 1 .. n - 1
        <4>1. dirty
          BY <1>5, <1>10, <3>2
        <4> QED
          BY <4>1 DEF TablesInv, MirrorInv
      <3>3. CASE i = n
        BY <1>4, <1>10, <3>3 DEF Private
      <3> QED
        BY <2>1, <3>1, <3>2, <3>3
    <2> QED
      BY <1>2, <2>2 DEF Follow
  <1> QED
    BY <1>1, <1>2, <1>8, <1>9, <1>10 DEF MirrorInv

LEMMA TablesKernel ==
    ASSUME Clean, TypeInv, TypeOK', TablesInv, KernelStep
    PROVE  TablesInv'
  <1>1. TypeOK /\ DecoderInv
    BY DEF TypeInv, TablesInv
  <1>2. DecoderInv'
    BY <1>1, DecoderKernel
  <1>3. CASE Upgrade
    BY <1>1, <1>2, <1>3, TablesUpgrade DEF TablesInv
  <1>4. CASE ~Upgrade
    <2>1. ClientInv'
      BY <1>1, <1>4, ClientKernel
    <2>2. Serve(Head(msg)) \/ Forward(Head(msg)) \/ Drop(Head(msg))
      BY <1>1, <1>4, CleanVerdict
    <2>3. MirrorInv'
      BY <1>1, <1>4, <2>2, MirrorMarked, MirrorForward
    <2> QED
      BY <1>2, <2>1, <2>3 DEF TablesInv
  <1> QED
    BY <1>3, <1>4

-----------------------------------------------------------------------------
(* A step of user space.                                                   *)

LEMMA UserTypes ==
    ASSUME TypeInv
    PROVE  /\ wire \in Seq(Frame) /\ Len(wire) \in Nat
           /\ arrived \in Nat /\ scanned \in Nat /\ handed \in Nat
           /\ decoded \in Nat
           /\ decoded <= handed /\ handed <= scanned
           /\ scanned <= arrived /\ arrived <= Len(wire)
  <1>1. /\ wire \in Seq(Frame)
        /\ arrived \in Nat /\ scanned \in Nat /\ handed \in Nat
        /\ decoded \in Nat
    BY DEF TypeInv, TypeOK, SocketTypeOK, ListenerTypeOK, ServerTypeOK
  <1>2. /\ decoded <= handed /\ handed <= scanned
        /\ scanned <= arrived /\ arrived <= Len(wire)
    BY DEF TypeInv, Cursors
  <1> QED
    BY <1>1, <1>2

(* No update is on its way before the server has sent its SETTINGS.        *)
LEMMA NoEarlyUpdate ==
    ASSUME MirrorInv, HandshakeInv, pc = "protocol"
    PROVE  \A i \in DOMAIN wire : wire[i].kind # "dt"
  BY DEF MirrorInv, HandshakeInv

LEMMA DecoderRead ==
    ASSUME DecoderInv, UNCHANGED <<wire, pc, decoded, decTable, incoming,
                                   inService, responded, scanned, pending>>,
           ~pending
    PROVE  DecoderInv'
  <1>1. PICK d \in 0 .. scanned : AppliedTo(d)
    BY DEF DecoderInv
  <1>2. AppliedTo(d)'
    BY <1>1 DEF AppliedTo
  <1> QED
    BY <1>1, <1>2 DEF DecoderInv, DecodesInStep

LEMMA DecoderScan ==
    ASSUME TypeInv, DecoderInv, Scan, UNCHANGED wire
    PROVE  DecoderInv'
  <1>1. /\ wire \in Seq(Frame) /\ scanned \in Nat /\ decoded \in Nat
        /\ scanned + 1 \in Nat
    BY UserTypes
  <1>2. /\ scanning /\ scanned' = scanned + 1
        /\ pending' = (wire[scanned + 1].kind = "dt")
        /\ scanning' => wire[scanned + 1].kind # "dt"
        /\ pc \in {"protocol", "poll"}
        /\ UNCHANGED <<pc, decoded, decTable, incoming, inService, responded>>
    BY DEF Scan, ScanFrame, serverVars
  <1>3. ~pending
    BY <1>2 DEF DecoderInv
  <1>4. PICK d \in 0 .. scanned : AppliedTo(d)
    BY DEF DecoderInv
  <1>5. d \in 0 .. scanned'
    BY <1>1, <1>2
  <1>6. AppliedTo(d)'
    <2>1. decoded <= d /\ d <= scanned'
      BY <1>1, <1>2, <1>4 DEF AppliedTo
    <2>2. TableAt(wire, d, decTable) /\ \A i \in decoded + 1 .. d : Private(wire[i])
      BY <1>4 DEF AppliedTo
    <2>3. ASSUME NEW i \in d + 1 .. scanned + 1, wire[i].kind = "dt"
          PROVE  pending' /\ i = scanned'
      <3>1. i \in d + 1 .. scanned \/ i = scanned + 1
        BY <1>1
      <3>2. ~(i \in d + 1 .. scanned)
        BY <1>3, <1>4, <2>3 DEF AppliedTo
      <3> QED
        BY <1>2, <2>3, <3>1, <3>2
    <2> QED
      BY <1>2, <2>1, <2>2, <2>3 DEF AppliedTo
  <1>7. scanning' => ~pending'
    BY <1>2
  <1>8. DecodesInStep'
    BY <1>2 DEF DecoderInv, DecodesInStep
  <1>9. pc' # "drain"
    BY <1>2
  <1> QED
    BY <1>5, <1>6, <1>7, <1>8, <1>9 DEF DecoderInv

LEMMA DecoderHandshake ==
    ASSUME TypeInv, HandshakeInv, TablesInv, Handshake, UNCHANGED wire
    PROVE  DecoderInv'
  <1>1. /\ wire \in Seq(Frame) /\ scanned \in Nat /\ scanned >= 1
        /\ Len(wire) \in Nat /\ scanned <= Len(wire)
    BY UserTypes DEF Handshake
  <1>2. wire[1] = Preface
    <2>1. wire # <<>>
      BY <1>1
    <2> QED
      BY <2>1 DEF TablesInv, ClientInv
  <1>3. \A i \in DOMAIN wire : wire[i].kind # "dt"
    BY NoEarlyUpdate DEF Handshake, TablesInv
  <1>4. ~pending
    BY <1>3, <1>1 DEF TypeInv, Cursors
  <1>5. /\ decoded' = 1 /\ ~scanning
        /\ UNCHANGED <<scanned, scanning, pending, decTable, incoming, inService,
                       responded>>
    BY DEF Handshake
  <1>6. decoded = 0
    BY DEF Handshake, TypeInv, Cursors
  <1>7. PICK d \in 0 .. scanned : AppliedTo(d)
    BY DEF TablesInv, DecoderInv
  <1>8. d = 0
    <2>1. ~Private(wire[1])
      BY <1>2 DEF Preface, Private
    <2>2. \A i \in 1 .. d : Private(wire[i])
      BY <1>6, <1>7 DEF AppliedTo
    <2> QED
      BY <1>1, <2>1, <2>2
  <1>9. TableAt(wire, 1, decTable)
    <2>1. TableAt(wire, 0, decTable)
      BY <1>7, <1>8 DEF AppliedTo
    <2>2. \A i \in 0 + 1 .. 1 : ~Changes(wire[i])
      BY <1>2 DEF Preface, Changes
    <2> QED
      BY <2>1, <2>2, TableSkip
  <1>10. AppliedTo(1)'
    <2>1. \A i \in 1 + 1 .. 1 : Private(wire[i])
      OBVIOUS
    <2>2. \A i \in 1 + 1 .. scanned : wire[i].kind # "dt"
      BY <1>1, <1>3
    <2> QED
      BY <1>1, <1>5, <1>9, <2>1, <2>2 DEF AppliedTo
  <1>11. 1 \in 0 .. scanned'
    BY <1>1, <1>5
  <1>12. DecodesInStep'
    BY <1>5 DEF TablesInv, DecoderInv, DecodesInStep
  <1> QED
    BY <1>4, <1>5, <1>10, <1>11, <1>12 DEF DecoderInv

LEMMA DecoderDrain ==
    ASSUME TypeInv, DecoderInv, Drain, UNCHANGED wire
    PROVE  DecoderInv'
  <1>1. wire \in Seq(Frame) /\ scanned \in Nat /\ decoded \in Nat
        /\ decoded <= scanned
    BY UserTypes
  <1>2. /\ pc = "drain" /\ pc' = "poll"
        /\ decTable' = IF pending THEN wire[scanned].table ELSE decTable
        /\ UNCHANGED <<scanned, scanning, decoded, incoming, inService, responded>>
    BY DEF Drain, TakeFlow
  <1>3. ~pending'
    <2>1. pending' = FALSE
      BY DEF Drain
    <2> QED
      BY <2>1, Zenon
  <1>4. DecodesInStep'
    BY <1>2 DEF DecoderInv, DecodesInStep
  <1>5. \E d \in 0 .. scanned : AppliedTo(d)'
    <2>1. CASE pending
      <3>1. scanned \in Nat \ {0} /\ wire[scanned].kind = "dt"
        BY <1>1, <2>1 DEF TypeInv, Cursors
      <3>2. TableAt(wire, scanned, decTable')
        <4>1. Changes(wire[scanned]) /\ After(wire[scanned]) = decTable'
          BY <1>2, <2>1, <3>1 DEF Changes, After
        <4> QED
          BY <3>1, <4>1, TableHere
      <3>3. \A i \in decoded + 1 .. scanned : Private(wire[i])
        BY <1>2, <2>1 DEF DecoderInv
      <3>4. \A i \in scanned + 1 .. scanned : wire[i].kind # "dt"
        BY <1>1
      <3>5. AppliedTo(scanned)'
        BY <1>1, <1>2, <3>2, <3>3, <3>4 DEF AppliedTo
      <3> QED
        BY <1>1, <1>2, <3>5
    <2>2. CASE ~pending
      <3>1. PICK d \in 0 .. scanned : AppliedTo(d)
        BY DEF DecoderInv
      <3>2. \A i \in d + 1 .. scanned : wire[i].kind # "dt"
        BY <2>2, <3>1 DEF AppliedTo
      <3>3. AppliedTo(d)'
        BY <1>2, <2>2, <3>1, <3>2 DEF AppliedTo
      <3> QED
        BY <3>3
    <2> QED
      BY <2>1, <2>2
  <1> QED
    BY <1>2, <1>3, <1>4, <1>5 DEF DecoderInv

(* The next frame the codec decodes: nothing between what its table        *)
(* accounts for and this frame changes a table.                            *)
LEMMA DecodeNext ==
    ASSUME TypeInv, NEW d \in 0 .. scanned, AppliedTo(d),
           NEW i, NextUndecoded(i)
    PROVE  /\ i \in DOMAIN wire /\ i \in Nat \ {0}
           /\ d < i /\ decoded < i /\ i <= handed
           /\ ~Private(wire[i])
           /\ TableAt(wire, i - 1, decTable)
  <1>1. /\ wire \in Seq(Frame) /\ scanned \in Nat /\ handed \in Nat
        /\ decoded \in Nat /\ handed <= scanned /\ scanned <= Len(wire)
        /\ Len(wire) \in Nat
    BY UserTypes
  <1>2. /\ i \in decoded + 1 .. handed /\ ~Private(wire[i])
        /\ \A j \in decoded + 1 .. handed : ~Private(wire[j]) => i <= j
    BY DEF NextUndecoded, Undecoded, Public
  <1>3. i \in Nat \ {0} /\ decoded < i /\ i <= handed /\ i <= Len(wire)
    BY <1>1, <1>2
  <1>4. d < i
    <2>1. \A j \in decoded + 1 .. d : Private(wire[j])
      BY DEF AppliedTo
    <2> QED
      BY <1>1, <1>2, <1>3, <2>1
  <1>5. ASSUME NEW k \in d + 1 .. i - 1
        PROVE  ~Changes(wire[k])
    <2>1. k \in decoded + 1 .. handed /\ k < i /\ k \in d + 1 .. scanned
          /\ k # scanned
      BY <1>1, <1>3 DEF AppliedTo
    <2>2. Private(wire[k])
      BY <1>2, <1>3, <2>1
    <2>3. wire[k].kind # "dt"
      BY <2>1 DEF AppliedTo
    <2> QED
      BY <2>2, <2>3 DEF Private, Changes
  <1>6. TableAt(wire, i - 1, decTable)
    <2>1. d \in Nat /\ i - 1 \in Nat /\ d <= i - 1
      BY <1>3, <1>4
    <2> QED
      BY <1>5, <2>1, TableSkip DEF AppliedTo
  <1> QED
    BY <1>1, <1>2, <1>3, <1>4, <1>6

LEMMA DecoderDecode ==
    ASSUME TypeInv, MirrorInv, DecoderInv, Decode, UNCHANGED wire
    PROVE  DecoderInv'
  <1>1. /\ wire \in Seq(Frame) /\ scanned \in Nat /\ handed \in Nat
        /\ decoded \in Nat /\ handed <= scanned
    BY UserTypes
  <1>2. PICK d \in 0 .. scanned : AppliedTo(d)
    BY DEF DecoderInv
  <1>3. PICK i : /\ NextUndecoded(i) /\ decoded' = i
                 /\ \/ DecodeHeaders(wire[i])
                    \/ DecodeUpdate(wire[i])
                    \/ DecodeOther(wire[i])
                    \/ DecodeJunk(wire[i])
    BY DEF Decode
  <1>4. /\ i \in DOMAIN wire /\ i \in Nat \ {0} /\ d < i /\ i <= handed
        /\ ~Private(wire[i]) /\ TableAt(wire, i - 1, decTable)
    BY <1>2, <1>3, DecodeNext
  <1>5. /\ ~scanning /\ pc' # "drain"
        /\ UNCHANGED <<scanned, scanning, pending, inService, responded>>
    BY <1>3 DEF Decode, DecodeHeaders, DecodeUpdate, DecodeOther, DecodeJunk,
                listenerVars
  <1>6. TableAt(wire, i, decTable') /\ DecodesInStep'
    <2>1. CASE DecodeHeaders(wire[i])
      <3>1. /\ wire[i].kind = "headers"
            /\ decTable' = Learn(decTable, wire[i].add)
            /\ incoming' = Append(incoming, RequestOf(wire[i]))
        BY <2>1 DEF DecodeHeaders
      <3>2. wire[i].ctx = decTable
        <4>1. TableAt(wire, i - 1, wire[i].ctx)
          BY <1>4, <3>1 DEF MirrorInv
        <4>2. i - 1 \in Nat
          BY <1>4
        <4> QED
          BY <1>4, <4>1, <4>2, TableUnique
      <3>3. TableAt(wire, i, decTable')
        <4>1. Changes(wire[i]) /\ After(wire[i]) = decTable'
          BY <3>1, <3>2 DEF Changes, After
        <4> QED
          BY <1>4, <4>1, TableHere
      <3>4. RequestOf(wire[i]).path # Garbled
        <4>1. wire[i] \in Frame
          BY <1>1, <1>4
        <4>2. wire[i].path \in Paths
          BY <3>1, <4>1, FrameFields
        <4> QED
          BY <3>2, <4>2, PathAssumption DEF RequestOf
      <3>5. incoming \in Seq(Request)
        BY DEF TypeInv, TypeOK, ServerTypeOK
      <3>6. \A k \in DOMAIN incoming' : incoming'[k].path # Garbled
        BY <3>1, <3>4, <3>5 DEF DecoderInv, DecodesInStep
      <3> QED
        BY <1>5, <3>3, <3>6 DEF DecoderInv, DecodesInStep
    <2>2. CASE ~DecodeHeaders(wire[i])
      <3>1. wire[i].kind # "headers" /\ UNCHANGED <<decTable, incoming>>
        BY <1>3, <2>2 DEF DecodeUpdate, DecodeOther, DecodeJunk
      <3>2. ~Changes(wire[i])
        BY <1>4, <3>1 DEF Changes, Private
      <3>3. \A k \in (i - 1) + 1 .. i : ~Changes(wire[k])
        BY <1>4, <3>2
      <3>4. i - 1 \in Nat /\ i \in Nat /\ i - 1 <= i
        BY <1>4
      <3>5. TableAt(wire, i, decTable)
        BY <1>4, <3>3, <3>4, TableSkip
      <3> QED
        BY <1>5, <3>1, <3>5 DEF DecoderInv, DecodesInStep
    <2> QED
      BY <2>1, <2>2
  <1>7. AppliedTo(i)'
    <2>1. \A k \in i + 1 .. i : Private(wire[k])
      BY <1>4
    <2>2. \A k \in i + 1 .. scanned :
              wire[k].kind = "dt" => pending /\ k = scanned
      BY <1>1, <1>2, <1>4 DEF AppliedTo
    <2>3. i <= i /\ i <= scanned
      BY <1>1, <1>4
    <2> QED
      BY <1>3, <1>5, <1>6, <2>1, <2>2, <2>3 DEF AppliedTo
  <1>8. i \in 0 .. scanned'
    BY <1>1, <1>4, <1>5
  <1> QED
    BY <1>5, <1>6, <1>7, <1>8 DEF DecoderInv

(* The end of a poll: nothing is left to decode in front of an update.     *)
LEMMA DecoderRest ==
    ASSUME TypeInv, DecoderInv, StreamDry,
           UNCHANGED <<wire, decoded, decTable, scanned, scanning, pending>>,
           DecodesInStep'
    PROVE  DecoderInv'
  <1>1. scanned \in Nat /\ handed \in Nat /\ decoded \in Nat
    BY UserTypes
  <1>2. PICK d \in 0 .. scanned : AppliedTo(d)
    BY DEF DecoderInv
  <1>3. AppliedTo(d)'
    BY <1>2 DEF AppliedTo
  <1>4. ASSUME NEW i \in decoded + 1 .. scanned
        PROVE  Private(wire[i])
    <2>1. CASE i \in decoded + 1 .. handed
      BY <2>1 DEF StreamDry, CodecEmpty, Undecoded, Public
    <2>2. CASE i \in handed + 1 .. scanned
      BY <2>2 DEF StreamDry, OutEmpty, Public
    <2> QED
      BY <1>1, <2>1, <2>2
  <1> QED
    BY <1>2, <1>3, <1>4 DEF DecoderInv

LEMMA DecoderWait ==
    ASSUME Clean, TypeInv, DecoderInv, Accept \/ Await, UNCHANGED wire
    PROVE  DecoderInv'
  <1>1. StreamDry
    BY DEF Accept, Await, Yield, Clean, Fault
  <1>2. UNCHANGED <<decoded, decTable, scanned, scanning, pending, responded>>
    BY DEF Accept, Await, listenerVars
  <1>3. DecodesInStep'
    <2>1. CASE Accept
      <3>1. /\ incoming \in Seq(Request) /\ incoming # <<>>
            /\ incoming' = Tail(incoming)
            /\ inService' = inService \cup {Head(incoming)}
        BY <2>1 DEF Accept, TypeInv, TypeOK, ServerTypeOK
      <3>2. /\ 1 \in DOMAIN incoming /\ Head(incoming) = incoming[1]
            /\ \A i \in DOMAIN incoming' :
                  i + 1 \in DOMAIN incoming /\ incoming'[i] = incoming[i + 1]
        BY <3>1
      <3> QED
        BY <1>2, <3>1, <3>2 DEF DecoderInv, DecodesInStep
    <2>2. CASE Await
      BY <2>2 DEF Await, DecoderInv, DecodesInStep
    <2> QED
      BY <2>1, <2>2
  <1> QED
    BY <1>1, <1>2, <1>3, DecoderRest

LEMMA DecoderTask ==
    ASSUME Clean, TypeInv, HandshakeInv, TablesInv, TaskStep
    PROVE  DecoderInv'
  <1>1. wire' = wire /\ DecoderInv /\ MirrorInv /\ ~Fault("refuse")
    BY TaskLeaves DEF TablesInv, Clean, Fault
  <1>2. CASE AwaitProtocol
    BY <1>1, <1>2, DecoderRead DEF AwaitProtocol, ReadSocket, serverVars
  <1>3. CASE Scan
    BY <1>1, <1>3, DecoderScan
  <1>4. CASE Handshake
    BY <1>1, <1>4, DecoderHandshake
  <1>5. CASE Drain
    BY <1>1, <1>5, DecoderDrain
  <1>6. CASE PollStream
    <2>1. UNCHANGED <<pc, decoded, decTable, incoming, inService, responded,
                      scanned, pending>>
      BY <1>6 DEF PollStream, HandOut, ScanHeld, ReadSocket, serverVars
    <2>2. CASE ~pending
      BY <1>1, <2>1, <2>2, DecoderRead
    <2>3. CASE pending
      <3>1. UNCHANGED scanning
        BY <1>6, <2>3 DEF PollStream, HandOut, ScanHeld, ReadSocket
      <3>2. PICK d \in 0 .. scanned : AppliedTo(d)
        BY <1>1 DEF DecoderInv
      <3>3. AppliedTo(d)'
        BY <1>1, <2>1, <3>2 DEF AppliedTo
      <3> QED
        BY <1>1, <2>1, <3>1, <3>2, <3>3 DEF DecoderInv, DecodesInStep
    <2> QED
      BY <2>2, <2>3
  <1>7. CASE Decode
    BY <1>1, <1>7, DecoderDecode
  <1>8. CASE Accept \/ Await
    BY <1>1, <1>8, DecoderWait
  <1>9. ~DrainFails
    BY <1>1 DEF DrainFails
  <1> QED
    BY <1>2, <1>3, <1>4, <1>5, <1>6, <1>7, <1>8, <1>9 DEF TaskStep, ConnTask

LEMMA DecoderRespond ==
    ASSUME DecoderInv, RespondStep
    PROVE  DecoderInv'
  <1>1. PICK r \in inService : Respond(r) \/ Leave(r)
    BY DEF RespondStep
  <1>2. UNCHANGED <<wire, scanned, scanning, pending, pc, decoded, decTable,
                    incoming>>
    BY <1>1, TaskLeaves DEF Respond, Leave, listenerVars
  <1>3. DecodesInStep'
    BY <1>1, <1>2 DEF Respond, Leave, DecoderInv, DecodesInStep
  <1>4. PICK d \in 0 .. scanned : AppliedTo(d)
    BY DEF DecoderInv
  <1>5. AppliedTo(d)'
    BY <1>2, <1>4 DEF AppliedTo
  <1> QED
    BY <1>2, <1>3, <1>4, <1>5 DEF DecoderInv

LEMMA TablesTask ==
    ASSUME Clean, TypeInv, HandshakeInv, TablesInv, TaskStep \/ RespondStep
    PROVE  TablesInv'
  <1>1. ClientInv' /\ MirrorInv'
    BY TaskLeaves DEF TablesInv, ClientInv, MirrorInv
  <1>2. DecoderInv'
    BY DecoderTask, DecoderRespond DEF TablesInv
  <1> QED
    BY <1>1, <1>2 DEF TablesInv

-----------------------------------------------------------------------------
LEMMA TablesInit == Init => TablesInv
  <1> SUFFICES ASSUME Init PROVE TablesInv
    OBVIOUS
  <1>1. /\ msg = <<>> /\ wire = <<>> /\ h2_state = "none" /\ mirror = <<>>
        /\ ~dirty /\ ~skip /\ cliTable = <<>> /\ sent = 0 /\ scanned = 0
        /\ ~scanning /\ ~pending /\ decoded = 0 /\ decTable = <<>>
        /\ incoming = <<>> /\ inService = {} /\ responded = {}
        /\ pc = "protocol"
    BY DEF Init, SocketInit, ClientInit, FastInit, ListenerInit, ServerInit
  <1>2. ClientInv
    BY <1>1 DEF ClientInv
  <1>3. MirrorInv
    BY <1>1 DEF MirrorInv, TableAt
  <1>4. AppliedTo(0) /\ 0 \in 0 .. scanned
    BY <1>1 DEF AppliedTo, TableAt
  <1>5. DecoderInv
    BY <1>1, <1>4 DEF DecoderInv, DecodesInStep
  <1> QED
    BY <1>2, <1>3, <1>5 DEF TablesInv

LEMMA TablesInductive ==
    ASSUME Clean
    PROVE  TypeInv /\ HandshakeInv /\ TablesInv /\ [Next]_vars => TablesInv'
  <1> SUFFICES ASSUME TypeInv, HandshakeInv, TablesInv, [Next]_vars
               PROVE  TablesInv'
    OBVIOUS
  <1>1. TypeOK /\ TypeOK'
    BY TypeInductive DEF TypeInv
  <1>2. CASE UNCHANGED vars
    <2>1. UNCHANGED <<msg, wire, skip, h2_state, mirror, dirty, cliTable, sent,
                      scanned, scanning, pending, pc, decoded, decTable,
                      incoming, inService, responded>>
      BY <1>2 DEF vars, socketVars, clientVars, fastVars, userVars,
                  listenerVars, serverVars
    <2> QED
      BY <2>1 DEF TablesInv, ClientInv, MirrorInv, DecoderInv, AppliedTo,
                  DecodesInStep
  <1> QED
    BY <1>1, <1>2, TablesClient, TablesKernel, TablesTask DEF Next

LEMMA TablesHold == ASSUME Clean PROVE Spec => [](TypeInv /\ TablesInv)
  <1>1. TypeInv /\ HandshakeInv /\ TablesInv /\ [Next]_vars => TablesInv'
    BY TablesInductive
  <1>2. TypeInv => TypeOK
    BY DEF TypeInv
  <1> QED
    BY <1>1, <1>2, TypeInvInit, TypeInductive, HandshakeInit,
       HandshakeInductive, TablesInit, PTL DEF Spec

(* Every request user space gets to see is the one the client encoded,     *)
(* although header blocks in front of it never reached user space.         *)
THEOREM RequestsDecoded == ASSUME Clean PROVE Spec => []DecodesInStep
  <1>1. TablesInv => DecodesInStep
    BY DEF TablesInv, DecoderInv
  <1> QED
    BY <1>1, TablesHold, PTL

(* Once user space has caught up with an unmarked connection, its table,   *)
(* the fast path's and the client's are one.                               *)
THEOREM TablesMeet == ASSUME Clean PROVE Spec => []EndsInStep
  <1>1. TypeInv /\ TablesInv => EndsInStep
    <2> SUFFICES ASSUME TypeInv, TablesInv, CaughtUp, ~dirty
                 PROVE  decTable = mirror /\ mirror = cliTable
      BY DEF EndsInStep
    <2>1. /\ msg = <<>> /\ scanned = Len(wire) /\ ~pending
          /\ OutEmpty /\ CodecEmpty
      BY DEF CaughtUp
    <2>2. mirror = cliTable /\ TableAt(wire, Len(wire), mirror)
      BY <2>1 DEF TablesInv, MirrorInv
    <2>3. /\ scanned \in Nat /\ handed \in Nat /\ decoded \in Nat
      BY UserTypes
    <2>4. PICK d \in 0 .. scanned : AppliedTo(d)
      BY DEF TablesInv, DecoderInv
    <2>5. ASSUME NEW i \in d + 1 .. scanned
          PROVE  ~Changes(wire[i])
      <3>1. i \in decoded + 1 .. handed \/ i \in handed + 1 .. scanned
        BY <2>3, <2>4 DEF AppliedTo
      <3>2. Private(wire[i])
        BY <2>1, <3>1 DEF CodecEmpty, Undecoded, OutEmpty, Public
      <3>3. wire[i].kind # "dt"
        BY <2>1, <2>4 DEF AppliedTo
      <3> QED
        BY <3>2, <3>3 DEF Private, Changes
    <2>6. TableAt(wire, scanned, decTable)
      <3>1. TableAt(wire, d, decTable) /\ d \in Nat /\ d <= scanned
        BY <2>3, <2>4 DEF AppliedTo
      <3> QED
        BY <2>3, <2>5, <3>1, TableSkip
    <2>7. decTable = mirror
      BY <2>1, <2>2, <2>3, <2>6, TableUnique
    <2> QED
      BY <2>2, <2>7
  <1> QED
    BY <1>1, TablesHold, PTL
-----------------------------------------------------------------------------
(* The promise.                                                            *)

LEMMA PromiseAsks ==
    ASSUME TypeInv, ClientStep
    PROVE  \/ UNCHANGED <<asked, served, responded, left, cut, pc>>
           \/ \E p \in Paths : Promise!Ask(p)
  <1>1. UNCHANGED <<served, responded, left, cut, pc>>
    BY ClientLeaves
  <1>2. CASE \E p \in Paths, e \in Entries \cup {NoEntry} : SendRequest(p, e)
    <2>1. PICK p \in Paths : asked' = Append(asked, p)
      BY <1>2 DEF SendRequest
    <2> QED
      BY <1>1, <2>1 DEF Promise!Ask
  <1>3. CASE asked' = asked
    BY <1>1, <1>3
  <1> QED
    BY <1>2, <1>3 DEF ClientStep, ClientSends, SendPreface, SendSettings,
                      SendAck, SendUpdate, SendOther

(* What either side answers or leaves, nobody has answered or left before. *)
LEMMA StillOpen ==
    ASSUME TypeInv, PlaceInv, AnswerInv, NEW s \in Nat,
           Waiting(s) \/ \E r \in inService : r.sid = s
    PROVE  Promise!Open(s)
  <1>1. \A r \in Accepted : Passed(r.sid)
    BY OnceTypes DEF AnswerInv, Decoded, Passed
  <1>2. \A a \in served : Served(a.sid)
    BY DEF Served
  <1>3. s \in DOMAIN asked /\ ~Served(s)
    <2>1. Waiting(s) \/ Passed(s)
      BY <1>1 DEF Accepted
    <2> QED
      BY <2>1 DEF PlaceInv
  <1>4. \A a \in responded \cup left : a.sid # s
    <2>1. CASE Waiting(s)
      BY <1>1, <2>1 DEF PlaceInv, Accepted
    <2>2. CASE \E r \in inService : r.sid = s
      BY <2>2 DEF AnswerInv, Accepted
    <2> QED
      BY <2>1, <2>2
  <1> QED
    BY <1>2, <1>3, <1>4 DEF Promise!Open

LEMMA PromiseServes ==
    ASSUME TypeInv, PlaceInv, AnswerInv, AskedInv, KernelStep
    PROVE  \/ UNCHANGED <<asked, served, responded, left, cut, pc>>
           \/ \E s \in DOMAIN asked : Promise!Answer(s)
           \/ Promise!GiveUp
  <1>1. UNCHANGED <<asked, responded, left, pc>>
    BY KernelLeaves
  <1>2. ASSUME NEW f, f = Head(msg), msg # <<>>, Serve(f)
        PROVE  \E s \in DOMAIN asked : Promise!Answer(s)
    <2>1. /\ f.kind = "headers" /\ UNCHANGED cut
          /\ served' = served \cup {[sid |-> f.sid, path |-> f.path]}
      BY <1>2 DEF Serve, Servable
    <2>2. f = msg[1] /\ 1 \in DOMAIN msg /\ f \in Frame
      BY <1>2, OnceTypes
    <2>3. f.sid \in Nat /\ Waiting(f.sid) /\ f.path = asked[f.sid]
      BY <2>1, <2>2, FrameFields DEF Waiting, Asks, AskedInv
    <2>4. Promise!Open(f.sid)
      BY <2>3, StillOpen
    <2>5. (served \cup responded)'
              = (served \cup responded)
                    \cup {[sid |-> f.sid, path |-> asked[f.sid]]}
      BY <1>1, <2>1, <2>3
    <2>6. Promise!Answer(f.sid)
      BY <1>1, <2>1, <2>4, <2>5 DEF Promise!Answer
    <2> QED
      BY <2>4, <2>6 DEF Promise!Open
  <1>3. ASSUME NEW f, Drop(f)
        PROVE  Promise!GiveUp
    BY <1>1, <1>3 DEF Drop, Promise!GiveUp
  <1>4. CASE UNCHANGED <<served, cut>>
    BY <1>1, <1>4
  <1> QED
    BY <1>2, <1>3, <1>4 DEF KernelStep, Verdict, Upgrade, ParseFails,
           PassUnparsed, fastVars, Forward, ServePartly, Overwrite, PassOn

LEMMA PromiseTask ==
    ASSUME TaskStep
    PROVE  \/ UNCHANGED <<asked, served, responded, left, cut, pc>>
           \/ /\ UNCHANGED <<asked, served, responded, left, cut>>
              /\ pc # "closed"
  <1>1. UNCHANGED <<asked, served, cut>>
    BY TaskLeaves
  <1>2. UNCHANGED <<responded, left>>
    BY DEF TaskStep, ConnTask, AwaitProtocol, Scan, Handshake, Drain,
           DrainFails, PollStream, Decode, Accept, Await, serverVars
  <1>3. UNCHANGED pc \/ pc # "closed"
    BY DEF TaskStep, ConnTask, AwaitProtocol, Scan, Handshake, Drain,
           DrainFails, PollStream, Decode, Accept, Await, serverVars
  <1> QED
    BY <1>1, <1>2, <1>3

LEMMA PromiseResponds ==
    ASSUME TypeInv, PlaceInv, AnswerInv, AskedInv, DecodesInStep, RespondStep
    PROVE  \E s \in DOMAIN asked : Promise!Answer(s) \/ Promise!Refuse(s)
  <1>1. PICK r \in inService : Respond(r) \/ Leave(r)
    BY DEF RespondStep
  <1>2. UNCHANGED <<asked, served, cut, pc>>
    BY <1>1, TaskLeaves DEF Respond, Leave
  <1>3. r \in Request /\ r.sid \in Nat
    <2>1. r \in Request
      BY OnceTypes
    <2> QED
      BY <2>1 DEF Request
  <1>4. Promise!Open(r.sid)
    BY <1>3, StillOpen
  <1>5. CASE Respond(r)
    <2>1. r = [sid |-> r.sid, path |-> asked[r.sid]]
      BY <1>3 DEF AskedInv, DecodesInStep, Request
    <2>2. responded' = responded \cup {r} /\ left' = left
      BY <1>5 DEF Respond
    <2>3. (served \cup responded)'
              = (served \cup responded)
                    \cup {[sid |-> r.sid, path |-> asked[r.sid]]}
      BY <1>2, <2>1, <2>2
    <2>4. Promise!Answer(r.sid)
      BY <1>2, <1>4, <2>2, <2>3 DEF Promise!Answer
    <2> QED
      BY <1>4, <2>4 DEF Promise!Open
  <1>6. CASE Leave(r)
    <2>1. left' = left \cup {r} /\ responded' = responded
      BY <1>6 DEF Leave
    <2>2. {q.sid : q \in left'} = {q.sid : q \in left} \cup {r.sid}
      BY <2>1
    <2>3. Promise!Refuse(r.sid)
      BY <1>2, <1>4, <2>1, <2>2 DEF Promise!Refuse
    <2> QED
      BY <1>4, <2>3 DEF Promise!Open
  <1> QED
    BY <1>1, <1>5, <1>6

(* Every step of the connection is one of the promise, or none.            *)
LEMMA PromiseStep ==
    ASSUME TypeInv, PlaceInv, AnswerInv, AskedInv, DecodesInStep, [Next]_vars
    PROVE  [Promise!Next]_(Promise!vars)
  <1>1. CASE UNCHANGED <<asked, served, responded, left, cut, pc>>
    BY <1>1 DEF Promise!vars
  <1>2. CASE /\ UNCHANGED <<asked, served, responded, left, cut>>
             /\ pc # "closed"
    <2>1. CASE cut
      BY <1>2, <2>1 DEF Promise!vars
    <2>2. CASE pc' # "closed"
      BY <1>2, <2>2 DEF Promise!vars
    <2>3. CASE ~cut /\ pc' = "closed"
      BY <1>2, <2>3 DEF Promise!Next, Promise!GiveUp
    <2> QED
      BY <2>1, <2>2, <2>3
  <1>3. CASE UNCHANGED vars
    BY <1>1, <1>3 DEF vars, socketVars, clientVars, fastVars, userVars,
                      serverVars
  <1>4. CASE ClientStep
    BY <1>1, <1>4, PromiseAsks DEF Promise!Next
  <1>5. CASE KernelStep
    BY <1>1, <1>5, PromiseServes DEF Promise!Next
  <1>6. CASE TaskStep
    BY <1>1, <1>2, <1>6, PromiseTask
  <1>7. CASE RespondStep
    BY <1>7, PromiseResponds DEF Promise!Next
  <1> QED
    BY <1>3, <1>4, <1>5, <1>6, <1>7 DEF Next

(* Kernel and user space together answer as one server would: each stream  *)
(* at most once, and with what the client asked for there, although        *)
(* neither of them sees the requests that the other one answers.           *)
THEOREM OneServer == ASSUME Clean PROVE Spec => AnswersAsAsked
  <1> DEFINE I == TypeInv /\ PlaceInv /\ AnswerInv /\ AskedInv
  <1>1. Init => Promise!Init
    BY DEF Init, ClientInit, SocketInit, FastInit, ServerInit, Promise!Init
  <1>2. Init => I
    BY TypeInvInit, PlaceInit, AnswerInit, AskedInit
  <1>3. I /\ [Next]_vars => I'
    BY TypeInductive, PlaceInductive, AnswerInductive, AskedInductive
    DEF TypeInv
  <1>4. I /\ DecodesInStep /\ [Next]_vars => [Promise!Next]_(Promise!vars)
    BY PromiseStep
  <1>5. Spec => []DecodesInStep
    BY RequestsDecoded
  <1> QED
    BY <1>1, <1>2, <1>3, <1>4, <1>5, PTL
    DEF Spec, AnswersAsAsked, Promise!Safe
=============================================================================
