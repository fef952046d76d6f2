---------------------------- MODULE AccountProofs ----------------------------
(***************************************************************************)
(* Theorems about the accounts that the fast path and user space keep of   *)
(* the window they share.  A report is no barrier to the scan, but the     *)
(* table is that follows it; so the order of reports needs every report to *)
(* have one.  What reports and updates come to is a sum over the stream;   *)
(* FlowInv and, with one frame per message, UpdateInv follow it by what    *)
(* the last of them says.                                                  *)
(***************************************************************************)
EXTENDS WindowProofs, SumProofs

LEMMA OrderTypes ==
    ASSUME TypeInv
    PROVE  /\ msg \in Seq(Frame) /\ wire \in Seq(Frame) /\ Len(wire) \in Nat
           /\ unreported \in Nat
           /\ decoded \in Nat /\ handed \in Nat /\ scanned \in Nat
           /\ reported \in Nat /\ taken \in Nat
           /\ decoded <= handed /\ handed <= scanned /\ scanned <= Len(wire)
  <1>1. /\ msg \in Seq(Frame) /\ wire \in Seq(Frame)
        /\ unreported \in Nat
        /\ decoded \in Nat /\ handed \in Nat /\ scanned \in Nat
        /\ arrived \in Nat /\ reported \in Nat /\ taken \in Nat
    BY DEF TypeInv, TypeOK, SocketTypeOK, FastTypeOK, ListenerTypeOK,
           ServerTypeOK
  <1>2. /\ decoded <= handed /\ handed <= scanned
        /\ scanned <= arrived /\ arrived <= Len(wire)
    BY DEF TypeInv, Cursors
  <1>3. Len(wire) \in Nat
    BY <1>1
  <1> QED
    BY <1>1, <1>2, <1>3

-----------------------------------------------------------------------------
(* Reports and tables come in pairs.                                       *)

(* What is added to the stream without a report.                           *)
LEMMA PairQuiet ==
    ASSUME TypeInv, TypeOK', PairInv, KernelStep,
           \A i \in Len(wire) + 1 .. Len(wire') : wire'[i].kind # "fc",
           unreported' > 0 => dirty',
           h2_state' # "none" => wire' # <<>>,
           wire = <<>> /\ wire' # <<>> => ~Private(wire'[1])
    PROVE  PairInv'
  <1>1. /\ wire \in Seq(Frame) /\ wire' \in Seq(Frame)
        /\ Len(wire) \in Nat /\ Len(wire') \in Nat
        /\ Len(wire) <= Len(wire')
        /\ \A i \in 1 .. Len(wire) : wire'[i] = wire[i]
    BY OrderTypes, WireGrows DEF TypeInv, TypeOK, SocketTypeOK
  <1>2. ASSUME NEW i \in DOMAIN wire', wire'[i].kind = "fc"
        PROVE  i + 1 \in DOMAIN wire' /\ wire'[i + 1].kind = "dt"
    <2>1. i \in 1 .. Len(wire) /\ wire'[i] = wire[i] /\ i \in DOMAIN wire
      BY <1>1, <1>2
    <2>2. i + 1 \in DOMAIN wire /\ wire[i + 1].kind = "dt"
      BY <1>2, <2>1 DEF PairInv
    <2>3. i + 1 \in 1 .. Len(wire)
      BY <1>1, <2>2
    <2> QED
      BY <1>1, <2>2, <2>3
  <1>3. wire' # <<>> => ~Private(wire'[1])
    <2>1. CASE wire = <<>>
      BY <2>1
    <2>2. CASE wire # <<>>
      <3>1. 1 \in 1 .. Len(wire)
        BY <1>1, <2>2
      <3>2. wire'[1] = wire[1]
        BY <1>1, <3>1
      <3> QED
        BY <2>2, <3>2 DEF PairInv, Private
    <2> QED
      BY <2>1, <2>2
  <1> QED
    BY <1>2, <1>3 DEF PairInv

LEMMA PairKernel ==
    ASSUME ~Fault("push"), ~Fault("pull"), TypeInv, TypeOK', FlowInv, PairInv,
           KernelStep
    PROVE  PairInv'
  <1>1. /\ msg \in Seq(Frame) /\ wire \in Seq(Frame) /\ wire' \in Seq(Frame)
        /\ Len(wire) \in Nat /\ Len(wire') \in Nat
        /\ unreported \in Nat /\ TypeOK
        /\ \A i \in DOMAIN msg : ~Private(msg[i])
    BY OrderTypes DEF TypeInv, TypeOK, SocketTypeOK, FlowInv
  <1>2. CASE Upgrade
    <2>1. /\ wire' = Append(wire, Preface) /\ unreported' = 0
      BY <1>2 DEF Upgrade
    <2>2. /\ \A i \in Len(wire) + 1 .. Len(wire') : wire'[i] = Preface
          /\ wire' # <<>>
          /\ wire = <<>> => wire'[1] = Preface
      BY <1>1, <2>1
    <2>3. ~Private(Preface) /\ Preface.kind # "fc"
      BY DEF Preface, Private
    <2> QED
      BY <2>1, <2>2, <2>3, PairQuiet
  <1>3. CASE ParseFails \/ PassUnparsed
    <2>1. /\ wire' = wire \o msg
          /\ UNCHANGED <<unreported, dirty, h2_state>>
      BY <1>3 DEF ParseFails, PassUnparsed, fastVars
    <2>2. \A i \in Len(wire) + 1 .. Len(wire') : ~Private(wire'[i])
      BY <1>1, <2>1
    <2>3. \A i \in Len(wire) + 1 .. Len(wire') : wire'[i].kind # "fc"
      BY <2>2 DEF Private
    <2>4. wire = <<>> /\ wire' # <<>> => 1 \in Len(wire) + 1 .. Len(wire')
      BY <1>1
    <2>5. wire # <<>> => wire' # <<>>
      BY <1>1, <2>1
    <2> QED
      BY <2>1, <2>2, <2>3, <2>4, <2>5, PairQuiet DEF PairInv
  <1>4. ASSUME NEW f, f = Head(msg), msg # <<>>, Serve(f) \/ Drop(f)
        PROVE  PairInv'
    <2>1. /\ wire' = wire /\ h2_state # "none"
          /\ dirty' \/ UNCHANGED <<dirty, unreported>>
      BY <1>4 DEF Serve, Redirect, MarkDirty, Drop, Parsed
    <2>2. wire # <<>>
      BY <2>1 DEF PairInv
    <2> QED
      BY <1>1, <2>1, <2>2, PairQuiet DEF PairInv
  <1>5. ASSUME NEW f, f = Head(msg), msg # <<>>,
               Forward(f) \/ ServePartly(f) \/ Overwrite(f)
        PROVE  PairInv'
    <2>1. /\ f \in Frame /\ ~Private(f) /\ h2_state # "none"
          /\ Report(f) \/ NoReport(f)
      <3>1. PICK x : Passes(f, x)
        BY <1>1, <1>5, Passing
      <3>2. x = f /\ h2_state # "none"
        BY <3>1 DEF Passes, Parsed
      <3>3. Report(f) \/ NoReport(f)
        BY <3>1, <3>2 DEF Passes, Stray
      <3> QED
        BY <1>1, <1>5, <3>2, <3>3
    <2>2. /\ wire # <<>> /\ 1 \in 1 .. Len(wire)
          /\ f.kind # "fc" /\ DtSync(mirror).kind = "dt"
      BY <1>1, <2>1 DEF PairInv, Private, DtSync
    <2>3. /\ Len(wire) <= Len(wire')
          /\ \A i \in 1 .. Len(wire) : wire'[i] = wire[i]
      BY <1>1, WireGrows
    <2>4. wire' # <<>>
      BY <1>1, <2>2, <2>3
    <2>5. CASE NoReport(f)
      <3>1. unreported' = 0
        BY <1>1, <2>5 DEF NoReport
      <3>2. \A i \in Len(wire) + 1 .. Len(wire') : wire'[i].kind # "fc"
        <4>1. CASE dirty
          BY <1>1, <2>1, <2>2, <2>5, <4>1, NoReportWire
        <4>2. CASE ~dirty
          BY <1>1, <2>1, <2>2, <2>5, <4>2, NoReportWire
        <4> QED
          BY <4>1, <4>2
      <3> QED
        BY <2>2, <2>4, <3>1, <3>2, PairQuiet
    <2>6. CASE Report(f)
      <3>1. unreported' = 0 /\ dirty
        BY <2>6 DEF Report, PairInv
      <3>2. /\ Len(wire') = Len(wire) + 3
            /\ wire'[Len(wire) + 2].kind = "dt"
            /\ wire'[Len(wire) + 3].kind # "fc"
        BY <1>1, <2>1, <2>2, <2>6, <3>1, ReportWire
      <3>3. ASSUME NEW i \in DOMAIN wire', wire'[i].kind = "fc"
            PROVE  i + 1 \in DOMAIN wire' /\ wire'[i + 1].kind = "dt"
        <4>1. \/ i \in 1 .. Len(wire)
              \/ i = Len(wire) + 1
          BY <1>1, <3>2, <3>3
        <4>2. CASE i \in 1 .. Len(wire)
          <5>1. i \in DOMAIN wire /\ wire[i].kind = "fc"
            BY <1>1, <2>3, <3>3, <4>2
          <5>2. i + 1 \in DOMAIN wire /\ wire[i + 1].kind = "dt"
            BY <5>1 DEF PairInv
          <5>3. i + 1 \in 1 .. Len(wire)
            BY <1>1, <5>2
          <5> QED
            BY <1>1, <2>3, <5>2, <5>3
        <4>3. CASE i = Len(wire) + 1
          BY <1>1, <3>2, <4>3
        <4> QED
          BY <4>1, <4>2, <4>3
      <3>4. ~Private(wire'[1])
        BY <2>2, <2>3 DEF PairInv, Private
      <3> QED
        BY <2>4, <3>1, <3>3, <3>4 DEF PairInv
    <2> QED
      BY <2>1, <2>5, <2>6
  <1> QED
    BY <1>2, <1>3, <1>4, <1>5 DEF KernelStep, Verdict

LEMMA PairInit == Init => PairInv
  BY DEF Init, SocketInit, FastInit, PairInv

LEMMA PairInductive ==
    ASSUME ~Fault("push"), ~Fault("pull"), TypeInv, TypeOK', FlowInv, PairInv,
           [Next]_vars
    PROVE  PairInv'
  <1>1. CASE KernelStep
    BY <1>1, PairKernel
  <1>2. CASE ~KernelStep
    <2>1. UNCHANGED <<wire, h2_state, dirty, unreported>>
      BY <1>2, TaskLeaves, ClientLeaves
      DEF Next, vars, socketVars, fastVars
    <2> QED
      BY <2>1 DEF PairInv, Private
  <1> QED
    BY <1>1, <1>2

-----------------------------------------------------------------------------
(* What the scan has behind it was taken.                                  *)

LEMMA TakenScan ==
    ASSUME TypeInv, PairInv, TakenInv, Scan, wire' = wire
    PROVE  TakenInv'
  <1>1. /\ scanned + 1 \in 1 .. Len(wire) /\ scanned' = scanned + 1
        /\ pending' = (wire[scanned + 1].kind = "dt")
        /\ scanning' => wire[scanned + 1].kind # "dt"
        /\ scanning
        /\ UNCHANGED <<decoded, taken>>
        /\ scanned \in Nat /\ wire \in Seq(Frame) /\ Len(wire) \in Nat
    <2>1. /\ scanned < arrived /\ scanned' = scanned + 1
          /\ pending' = (wire[scanned + 1].kind = "dt")
          /\ scanning' => wire[scanned + 1].kind # "dt"
          /\ scanning
          /\ UNCHANGED <<decoded, taken>>
      BY DEF Scan, ScanFrame, serverVars
    <2>2. /\ scanned \in Nat /\ arrived \in Nat /\ arrived <= Len(wire)
          /\ wire \in Seq(Frame) /\ Len(wire) \in Nat
      BY OrderTypes DEF TypeInv, Cursors, TypeOK, ListenerTypeOK
    <2> QED
      BY <2>1, <2>2
  <1>2. ~pending
    BY <1>1 DEF TakenInv
  <1>3. ASSUME NEW i \in 1 .. scanned + 1, wire[i].kind = "fc"
        PROVE  \/ wire[i].upto <= taken
               \/ i = scanned + 1
               \/ i + 1 = scanned + 1 /\ wire[scanned + 1].kind = "dt"
    <2>1. CASE i = scanned + 1
      BY <2>1
    <2>2. CASE i = scanned
      <3>1. i \in DOMAIN wire
        BY <1>1, <1>3, <2>2
      <3>2. wire[i + 1].kind = "dt"
        BY <1>3, <3>1 DEF PairInv
      <3> QED
        BY <2>2, <3>2
    <2>3. CASE i \in 1 .. scanned /\ i # scanned
      BY <1>2, <1>3, <2>3 DEF TakenInv
    <2> QED
      BY <1>1, <1>3, <2>1, <2>2, <2>3
  <1> QED
    BY <1>1, <1>3 DEF TakenInv, Public, Private

(* A report without a table behind it that is not taken is the last.       *)
LEMMA LastReport ==
    ASSUME TypeInv, FlowInv, PairInv,
           NEW i \in 1 .. scanned, wire[i].kind = "fc",
           i = scanned \/ i + 1 = scanned
    PROVE  wire[i].upto = reported + taken
  <1>1. scanned \in Nat /\ wire \in Seq(Frame) /\ scanned <= Len(wire)
        /\ Len(wire) \in Nat
    BY OrderTypes
  <1>2. ReportedBy(wire, i, wire[i].upto)
    BY ReportedHere
  <1>3. \A k \in i + 1 .. scanned : wire[k].kind # "fc"
    <2>1. i \in DOMAIN wire
      BY <1>1
    <2>2. wire[i + 1].kind = "dt"
      BY <2>1 DEF PairInv
    <2> QED
      BY <1>1, <2>2
  <1>4. ReportedBy(wire, scanned, wire[i].upto)
    BY <1>1, <1>2, <1>3, UpToSkip DEF ReportedBy
  <1> QED
    BY <1>1, <1>4, UpToUnique DEF ReportedBy, FlowInv

LEMMA TakenDrain ==
    ASSUME TypeInv, FlowInv, PairInv, TakenInv, Drain \/ DrainFails,
           wire' = wire
    PROVE  TakenInv'
  <1>1. /\ UNCHANGED <<scanned, scanning, decoded>>
        /\ taken' = taken + reported
        /\ pending' = FALSE \/ pending' = pending
    BY DEF Drain, DrainFails, TakeFlow, FlowRefused, TableRefused
  <1>2. /\ wire \in Seq(Frame) /\ scanned \in Nat /\ scanned <= Len(wire)
        /\ Len(wire) \in Nat /\ taken \in Nat /\ reported \in Nat
    BY OrderTypes
  <1>3. ASSUME NEW i \in 1 .. scanned, wire[i].kind = "fc"
        PROVE  wire[i].upto <= taken'
    <2>1. wire[i] \in Frame
      BY <1>2
    <2>2. wire[i].upto \in Nat
      BY <1>3, <2>1, FrameFields
    <2>3. CASE wire[i].upto <= taken
      BY <1>1, <1>2, <2>2, <2>3
    <2>4. CASE i = scanned \/ i + 1 = scanned
      BY <1>1, <1>2, <1>3, <2>2, <2>4, LastReport
    <2> QED
      BY <1>3, <2>3, <2>4 DEF TakenInv
  <1> QED
    BY <1>1, <1>3 DEF TakenInv, Public, Private

LEMMA TakenTask ==
    ASSUME TypeInv, FlowInv, PairInv, TakenInv, TaskStep \/ RespondStep
    PROVE  TakenInv'
  <1>1. wire' = wire
    BY TaskLeaves
  <1>2. CASE Scan
    BY <1>1, <1>2, TakenScan
  <1>3. CASE Drain \/ DrainFails
    BY <1>1, <1>3, TakenDrain
  <1>4. CASE Handshake
    <2>1. /\ decoded' = 1 /\ scanned >= 1
          /\ UNCHANGED <<scanned, scanning, pending, taken>>
      BY <1>4 DEF Handshake
    <2>2. ~Private(wire[1])
      BY <2>1, OrderTypes DEF PairInv
    <2> QED
      BY <1>1, <2>1, <2>2 DEF TakenInv, Public, Private
  <1>5. CASE Decode
    <2>1. PICK i \in Undecoded : decoded' = i
      BY <1>5 DEF Decode
    <2>2. /\ Public(i)
          /\ UNCHANGED <<scanned, scanning, pending, taken>>
      BY <1>5, <2>1 DEF Decode, Undecoded, listenerVars
    <2> QED
      BY <1>1, <2>1, <2>2 DEF TakenInv, Public, Private
  <1>6. CASE AwaitProtocol \/ PollStream
    <2>1. /\ UNCHANGED <<scanned, pending, taken, decoded>>
          /\ scanning' => scanning \/ ~pending
      BY <1>6 DEF AwaitProtocol, PollStream, ReadSocket, ScanHeld, HandOut,
                  serverVars
    <2> QED
      BY <1>1, <2>1 DEF TakenInv, Public, Private
  <1>7. CASE Accept \/ Await \/ RespondStep
    <2>1. UNCHANGED <<scanned, scanning, pending, taken, decoded>>
      BY <1>7 DEF Accept, Await, RespondStep, Respond, Leave, listenerVars
    <2> QED
      BY <1>1, <2>1 DEF TakenInv, Public, Private
  <1> QED
    BY <1>2, <1>3, <1>4, <1>5, <1>6, <1>7 DEF TaskStep, ConnTask

LEMMA TakenInit == Init => TakenInv
  BY DEF Init, ListenerInit, ServerInit, TakenInv

LEMMA TakenInductive ==
    ASSUME TypeInv, TypeOK', FlowInv, PairInv, TakenInv, [Next]_vars
    PROVE  TakenInv'
  <1>1. CASE TaskStep \/ RespondStep
    BY <1>1, TakenTask
  <1>2. CASE KernelStep
    <2>1. /\ \A i \in 1 .. scanned : wire'[i] = wire[i]
          /\ decoded = 0 \/ decoded \in 1 .. scanned
      BY <1>2, OrderTypes, WireGrows DEF TypeInv
    <2>2. UNCHANGED <<scanned, scanning, pending, taken, decoded>>
      BY <1>2, KernelLeaves
    <2> QED
      BY <2>1, <2>2 DEF TakenInv, Public, Private
  <1>3. CASE ClientStep \/ UNCHANGED vars
    <2>1. UNCHANGED <<wire, scanned, scanning, pending, taken, decoded>>
      BY <1>3, ClientLeaves
      DEF vars, socketVars, userVars, listenerVars, serverVars
    <2> QED
      BY <2>1 DEF TakenInv, Public, Private
  <1> QED
    BY <1>1, <1>2, <1>3 DEF Next

(* Unless the program fails to push or to pull in bytes, user space has    *)
(* taken what a report says off its window before it decodes anything      *)
(* behind the report: whatever does not parse, whatever polls end early    *)
(* and whatever the codec refuses, the table next to the report holds the  *)
(* scan back until both are taken.                                         *)
THEOREM ReportsLead ==
    ASSUME ~Fault("push"), ~Fault("pull")
    PROVE  Spec => []ReportsComeFirst
  <1>1. TypeInv /\ TakenInv => ReportsComeFirst
    <2> SUFFICES ASSUME TypeInv, TakenInv, NEW i \in 1 .. decoded,
                        wire[i].kind = "fc"
                 PROVE  wire[i].upto <= taken
      BY DEF ReportsComeFirst
    <2>1. /\ decoded \in Nat /\ decoded <= scanned /\ scanned \in Nat
      BY OrderTypes
    <2>2. ~Private(wire[decoded])
      BY <2>1 DEF TakenInv, Public
    <2>3. i # decoded
      BY <2>2 DEF Private
    <2>4. i + 1 = scanned /\ pending => i + 1 # decoded
      BY <2>2 DEF TypeInv, Cursors, Private
    <2> QED
      BY <2>1, <2>3, <2>4 DEF TakenInv
  <1>2. Init => TypeInv /\ FlowInv /\ PairInv /\ TakenInv
    BY TypeInvInit, FlowInit, PairInit, TakenInit
  <1>3. TypeInv /\ FlowInv /\ PairInv /\ TakenInv /\ [Next]_vars
            => (TypeInv /\ FlowInv /\ PairInv /\ TakenInv)'
    <2> SUFFICES ASSUME TypeInv, FlowInv, PairInv, TakenInv, [Next]_vars
                 PROVE  (TypeInv /\ FlowInv /\ PairInv /\ TakenInv)'
      OBVIOUS
    <2>1. TypeInv' /\ TypeOK'
      BY TypeInductive DEF TypeInv
    <2> QED
      BY <2>1, FlowInductive, PairInductive, TakenInductive
  <1> QED
    BY <1>1, <1>2, <1>3, PTL DEF Spec
-----------------------------------------------------------------------------

LEMMA UpdateTypes ==
    ASSUME TypeInv
    PROVE  /\ msg \in Seq(Frame) /\ wire \in Seq(Frame)
           /\ Len(msg) \in Nat /\ Len(wire) \in Nat
           /\ granted \in Nat /\ sent \in Nat /\ cut \in BOOLEAN
           /\ decoded \in Nat /\ handed \in Nat /\ scanned \in Nat
           /\ decoded <= handed /\ handed <= scanned /\ scanned <= Len(wire)
           /\ sndWindow \in Int /\ taken \in Nat /\ reported \in Nat
           /\ srvSent \in Nat /\ queued \in Nat
           /\ servedBytes \in Nat /\ unreported \in Nat
           /\ InitWindow \in Nat
  <1>1. /\ msg \in Seq(Frame) /\ wire \in Seq(Frame)
        /\ granted \in Nat /\ sent \in Nat /\ cut \in BOOLEAN
        /\ decoded \in Nat /\ handed \in Nat /\ scanned \in Nat
        /\ arrived \in Nat
        /\ sndWindow \in Int /\ taken \in Nat /\ reported \in Nat
        /\ srvSent \in Nat /\ queued \in Nat
        /\ servedBytes \in Nat /\ unreported \in Nat
    BY DEF TypeInv, TypeOK, SocketTypeOK, ClientTypeOK, FastTypeOK,
           ListenerTypeOK, ServerTypeOK
  <1>2. /\ decoded <= handed /\ handed <= scanned
        /\ scanned <= arrived /\ arrived <= Len(wire)
    BY DEF TypeInv, Cursors
  <1>3. Len(msg) \in Nat /\ Len(wire) \in Nat
    BY <1>1
  <1>4. InitWindow \in Nat
    BY WindowAssumption
  <1> QED
    BY <1>1, <1>2, <1>3, <1>4

-----------------------------------------------------------------------------
(* Sums over the stream.                                                   *)

LEMMA AmountTypes ==
    ASSUME TypeInv
    PROVE  \A i \in 1 .. Len(wire) : Spent[i] \in Nat /\ Granting[i] \in Nat
  <1> SUFFICES ASSUME NEW i \in 1 .. Len(wire)
               PROVE  Spent[i] \in Nat /\ Granting[i] \in Nat
    OBVIOUS
  <1>1. wire \in Seq(Frame) /\ i \in DOMAIN wire /\ wire[i] \in Frame
    BY UpdateTypes, SMTT(30)
  <1>2. wire[i].kind = "fc" => wire[i].sent \in Nat
    BY <1>1, FrameFields
  <1>3. wire[i].kind = "window" => wire[i].inc \in Nat
    <2>1. wire[i].kind = "window" => wire[i].inc \in 1 .. MaxWindow
      BY <1>1, UpdateFields
    <2> QED
      BY <2>1, WindowAssumption
  <1> QED
    BY <1>1, <1>2, <1>3 DEF Spent, Granting

(* The frames of a kind form a chain of totals exactly if each adds what   *)
(* it carries to the sum of those before it.                               *)
LEMMA UpToSum ==
    ASSUME NEW kind, NEW base \in Int, NEW s, NEW n \in Nat, NEW g,
           \A i \in 1 .. n : g[i] \in Nat,
           \A i \in 1 .. n : s[i].kind # kind => g[i] = 0,
           \A i \in 1 .. n : s[i].kind = kind =>
               /\ s[i].upto \in Int
               /\ UpTo(kind, base, s, i - 1, s[i].upto - g[i])
    PROVE  \A i \in 0 .. n : UpTo(kind, base, s, i, base + SumTo(g, i))
  <1> DEFINE A == {i \in Nat : i <= n => UpTo(kind, base, s, i, base + SumTo(g, i))}
  <1>1. 0 \in A
    <2>1. base + SumTo(g, 0) = base
      BY SumNone
    <2> QED
      BY <2>1 DEF UpTo
  <1>2. ASSUME NEW i \in A PROVE i + 1 \in A
    <2> SUFFICES ASSUME i + 1 <= n
                 PROVE  UpTo(kind, base, s, i + 1, base + SumTo(g, i + 1))
      OBVIOUS
    <2>1. /\ i \in Nat /\ i + 1 \in 1 .. n /\ i + 1 \in Nat \ {0}
          /\ (i + 1) - 1 = i /\ i \in 0 .. n /\ i <= i + 1 /\ i <= n
      OBVIOUS
    <2>2. /\ SumTo(g, i) \in Nat /\ g[i + 1] \in Nat
          /\ SumTo(g, i + 1) = SumTo(g, i) + g[i + 1]
      BY <2>1, SumNat, SumNext
    <2>3. UpTo(kind, base, s, i, base + SumTo(g, i))
      BY <2>1
    <2>4. CASE s[i + 1].kind = kind
      <3>1. UpTo(kind, base, s, i, s[i + 1].upto - g[i + 1])
            /\ s[i + 1].upto \in Int
        BY <2>1, <2>4
      <3>2. base + SumTo(g, i) = s[i + 1].upto - g[i + 1]
        BY <2>1, <2>3, <3>1, UpToUnique
      <3>3. base + SumTo(g, i + 1) = s[i + 1].upto
        BY <2>2, <3>1, <3>2
      <3>4. UpTo(kind, base, s, i + 1, s[i + 1].upto)
        BY <2>1, <2>4, UpToHere, Zenon
      <3> QED
        BY <3>3, <3>4
    <2>5. CASE s[i + 1].kind # kind
      <3>1. base + SumTo(g, i + 1) = base + SumTo(g, i)
        BY <2>1, <2>2, <2>5
      <3>2. \A k \in i + 1 .. i + 1 : s[k].kind # kind
        BY <2>1, <2>5
      <3>3. UpTo(kind, base, s, i + 1, base + SumTo(g, i))
        BY <2>1, <2>3, <3>2, UpToSkip
      <3> QED
        BY <3>1, <3>3
    <2> QED
      BY <2>4, <2>5
  <1> HIDE DEF A
  <1>3. A = Nat
    <2>1. A \subseteq Nat
      BY DEF A
    <2> QED
      BY <1>1, <1>2, <2>1, InductiveSet
  <1> QED
    BY <1>3 DEF A

(* Every byte that the fast path answered with is in exactly one place,    *)
(* whatever fails: unreported, on its way, reported or taken.              *)
THEOREM EveryByteAccounted == Spec => []BytesAccounted
  <1>1. TypeInv /\ FlowInv => BytesAccounted
    <2> SUFFICES ASSUME TypeInv, FlowInv PROVE BytesAccounted
      OBVIOUS
    <2>1. /\ wire \in Seq(Frame) /\ Len(wire) \in Nat
          /\ scanned \in 0 .. Len(wire) /\ Len(wire) \in 0 .. Len(wire)
          /\ scanned \in Nat
          /\ servedBytes \in Nat /\ unreported \in Nat
          /\ reported \in Nat /\ taken \in Nat
      BY UpdateTypes
    <2>2. \A i \in 1 .. Len(wire) : Spent[i] \in Nat
      BY AmountTypes
    <2>3. \A i \in 1 .. Len(wire) : wire[i].kind # "fc" => Spent[i] = 0
      BY <2>1 DEF Spent
    <2>4. ASSUME NEW i \in 1 .. Len(wire), wire[i].kind = "fc"
          PROVE  /\ wire[i].upto \in Int
                 /\ UpTo("fc", 0, wire, i - 1, wire[i].upto - Spent[i])
      <3>1. i \in DOMAIN wire /\ wire[i] \in Frame
        BY <2>1
      <3>2. wire[i].upto \in Nat
        BY <2>4, <3>1, FrameFields
      <3> QED
        BY <2>4, <3>1, <3>2 DEF FlowInv, ReportedBy, Spent
    <2>5. \A i \in 0 .. Len(wire) : UpTo("fc", 0, wire, i, 0 + SumTo(Spent, i))
      <3>1. 0 \in Int
        OBVIOUS
      <3>2. \A i \in 1 .. Len(wire) : wire[i].kind = "fc" =>
               /\ wire[i].upto \in Int
               /\ UpTo("fc", 0, wire, i - 1, wire[i].upto - Spent[i])
        BY <2>4
      <3> QED
        BY <2>1, <2>2, <2>3, <3>1, <3>2, UpToSum, Zenon
    <2>6. SumTo(Spent, Len(wire)) \in Nat /\ SumTo(Spent, scanned) \in Nat
      BY <2>1, <2>2, SumNat
    <2>7. 0 + SumTo(Spent, Len(wire)) = servedBytes - unreported
      BY <2>1, <2>5, UpToUnique DEF FlowInv, ReportedBy
    <2>8. 0 + SumTo(Spent, scanned) = reported + taken
      BY <2>1, <2>5, UpToUnique DEF FlowInv, ReportedBy
    <2>9. ASSUME NEW a \in Nat, NEW b \in Nat,
                 0 + a = servedBytes - unreported, 0 + b = reported + taken
          PROVE  servedBytes = unreported + (a - b) + reported + taken
      BY <2>1, <2>9
    <2> QED
      BY <2>6, <2>7, <2>8, <2>9, Zenon DEF BytesAccounted, InFlight
  <1>2. Init => TypeInv /\ FlowInv
    BY TypeInvInit, FlowInit
  <1>3. TypeInv /\ FlowInv /\ [Next]_vars => (TypeInv /\ FlowInv)'
    BY TypeInductive, FlowInductive DEF TypeInv
  <1> QED
    BY <1>1, <1>2, <1>3, PTL DEF Spec

-----------------------------------------------------------------------------
(* The preface comes first.                                                *)

LEMMA FirstKernel ==
    ASSUME TypeInv, TypeOK', FirstInv, KernelStep
    PROVE  FirstInv'
  <1>1. /\ wire \in Seq(Frame) /\ wire' \in Seq(Frame) /\ Len(wire) \in Nat
        /\ msg \in Seq(Frame) /\ TypeOK /\ sent' = sent
    <2>1. wire' \in Seq(Frame) /\ TypeOK
      BY DEF TypeInv, TypeOK, SocketTypeOK
    <2> QED
      BY <2>1, UpdateTypes, KernelLeaves
  <1>2. msg # <<>> /\ sent # 0
    BY DEF KernelStep, Verdict, Upgrade, ParseFails, PassUnparsed, FirstInv
  <1>3. /\ Len(wire) <= Len(wire')
        /\ \A i \in 1 .. Len(wire) : wire'[i] = wire[i]
    BY <1>1, WireGrows
  <1>4. CASE wire # <<>>
    <2>1. 1 \in 1 .. Len(wire) /\ 1 \in 1 .. Len(wire')
      BY <1>1, <1>3, <1>4
    <2>2. wire' # <<>> /\ wire'[1] = Preface
      BY <1>1, <1>3, <1>4, <2>1 DEF FirstInv
    <2> QED
      BY <1>1, <1>2, <2>2 DEF FirstInv
  <1>5. CASE wire = <<>>
    <2>1. msg[1] = Preface /\ Head(msg) = Preface /\ h2_state = "none"
      BY <1>1, <1>2, <1>5 DEF FirstInv
    <2>2. CASE Upgrade
      <3>1. wire' = <<Preface>>
        BY <1>5, <2>1, <2>2 DEF Upgrade
      <3> QED
        BY <1>1, <1>2, <3>1 DEF FirstInv
    <2>3. CASE ParseFails \/ PassUnparsed
      <3>1. wire' = wire \o msg
        BY <2>3 DEF ParseFails, PassUnparsed
      <3>2. wire' # <<>> /\ wire'[1] = Preface
        BY <1>1, <1>2, <1>5, <2>1, <3>1
      <3> QED
        BY <1>1, <1>2, <3>2 DEF FirstInv
    <2>4. ASSUME NEW f, \/ Serve(f) \/ Forward(f) \/ ServePartly(f)
                       \/ Overwrite(f) \/ Drop(f)
          PROVE  FALSE
      BY <2>1, <2>4
      DEF Serve, Forward, ServePartly, Overwrite, Drop, Parsed
    <2> QED
      BY <2>2, <2>3, <2>4 DEF KernelStep, Verdict
  <1> QED
    BY <1>4, <1>5

LEMMA FirstClient ==
    ASSUME TypeInv, FirstInv, ClientStep
    PROVE  FirstInv'
  <1>1. /\ msg \in Seq(Frame) /\ Len(msg) \in Nat /\ sent \in Nat
        /\ UNCHANGED <<wire, h2_state>>
    BY UpdateTypes, ClientLeaves
  <1>2. ASSUME NEW f, Send(f), f = Preface \/ sent # 0
        PROVE  FirstInv'
    <2>1. msg' = Append(msg, f) /\ sent' = sent + 1
      BY <1>2 DEF Send
    <2>2. sent' # 0 /\ msg' # <<>>
      BY <1>1, <2>1
    <2>3. wire = <<>> => msg'[1] = Preface
      <3>1. CASE msg = <<>>
        BY <1>2, <2>1, <3>1 DEF FirstInv
      <3>2. CASE msg # <<>>
        <4>1. 1 \in 1 .. Len(msg)
          BY <1>1, <3>2
        <4>2. msg'[1] = msg[1]
          BY <1>1, <2>1, <4>1
        <4> QED
          BY <3>2, <4>2 DEF FirstInv
      <3> QED
        BY <3>1, <3>2
    <2> QED
      BY <1>1, <2>2, <2>3 DEF FirstInv
  <1>3. \E f : Send(f) /\ (f = Preface \/ sent # 0)
    BY <1>1 DEF ClientStep, ClientSends, SendPreface, SendSettings, SendAck,
                SendUpdate, SendRequest, SendOther
  <1> QED
    BY <1>2, <1>3

LEMMA FirstInit == Init => FirstInv
  BY DEF Init, SocketInit, ClientInit, FastInit, FirstInv

LEMMA FirstInductive ==
    ASSUME TypeInv, TypeOK', FirstInv, [Next]_vars
    PROVE  FirstInv'
  <1>1. CASE UNCHANGED vars
    BY <1>1 DEF vars, socketVars, clientVars, fastVars, FirstInv
  <1>2. CASE TaskStep \/ RespondStep
    BY <1>2, TaskLeaves DEF FirstInv
  <1> QED
    BY <1>1, <1>2, FirstKernel, FirstClient DEF Next

-----------------------------------------------------------------------------
(* What the codec has left and has spent.                                  *)

(* No frame to decode is left out: up to the one decoded next, no update   *)
(* grants anything.                                                        *)
LEMMA OpenedSkip ==
    ASSUME TypeInv, NEW i \in decoded .. Len(wire),
           \A j \in decoded + 1 .. i : wire[j].kind # "window"
    PROVE  Opened(i) = Opened(decoded)
  <1>1. /\ wire \in Seq(Frame) /\ Len(wire) \in Nat /\ decoded \in Nat
        /\ decoded \in 0 .. Len(wire) /\ i \in Nat /\ decoded <= i
    BY UpdateTypes, SMTT(30)
  <1>2. \A j \in decoded + 1 .. i : Granting[j] = 0
    BY <1>1 DEF Granting
  <1>3. SumTo(Granting, decoded) \in Int
    <2>1. \A j \in 1 .. decoded : Granting[j] \in Nat
      BY <1>1, AmountTypes
    <2>2. decoded \in 0 .. decoded
      BY <1>1
    <2>3. SumTo(Granting, decoded) \in Nat
      BY <1>1, <2>1, <2>2, SumNat, Zenon
    <2> QED
      BY <2>3
  <1>4. SumTo(Granting, i) = SumTo(Granting, decoded)
    BY <1>1, <1>2, <1>3, SumSkip
  <1> QED
    BY <1>4 DEF Opened

LEMMA SharesKernel ==
    ASSUME TypeInv, TypeOK', SharesInv, KernelStep
    PROVE  SharesInv'
  <1>1. /\ wire \in Seq(Frame) /\ wire' \in Seq(Frame) /\ TypeOK
        /\ decoded \in Nat /\ decoded <= Len(wire) /\ Len(wire) \in Nat
        /\ UNCHANGED <<pc, decoded, sndWindow, taken, srvSent>>
    <2>1. wire' \in Seq(Frame) /\ TypeOK
      BY DEF TypeInv, TypeOK, SocketTypeOK
    <2> QED
      BY <2>1, UpdateTypes, KernelLeaves, SMTT(30)
  <1>2. /\ Len(wire) <= Len(wire') /\ Len(wire') \in Nat
        /\ \A i \in 1 .. Len(wire) : wire'[i] = wire[i]
    BY <1>1, WireGrows
  <1>3. \A i \in 1 .. decoded : Granting'[i] = Granting[i]
    <2> SUFFICES ASSUME NEW i \in 1 .. decoded
                 PROVE  Granting'[i] = Granting[i]
      OBVIOUS
    <2>1. i \in DOMAIN wire /\ i \in DOMAIN wire' /\ wire'[i] = wire[i]
      BY <1>1, <1>2
    <2> QED
      BY <2>1 DEF Granting
  <1>4. SumTo(Granting', decoded) = SumTo(Granting, decoded)
    BY <1>1, <1>3, SumSame
  <1> QED
    BY <1>1, <1>4 DEF SharesInv, Opened, Account

LEMMA SharesDecode ==
    ASSUME TypeInv, SharesInv, UNCHANGED wire, Decode
    PROVE  SharesInv'
  <1>1. PICK i \in Undecoded :
            /\ NextUndecoded(i)
            /\ decoded' = i
            /\ \/ DecodeHeaders(wire[i]) \/ DecodeUpdate(wire[i])
               \/ DecodeOther(wire[i]) \/ DecodeJunk(wire[i])
    BY DEF Decode
  <1>2. /\ i \in decoded + 1 .. handed /\ i \in 1 .. Len(wire)
        /\ decoded \in Nat /\ handed \in Nat /\ Len(wire) \in Nat
        /\ wire \in Seq(Frame) /\ sndWindow \in Int /\ taken \in Nat
        /\ srvSent \in Nat /\ InitWindow \in Nat
        /\ UNCHANGED <<taken, srvSent>>
    <2>1. UNCHANGED <<taken, srvSent>>
      BY DEF Decode
    <2> QED
      BY <2>1, UndecodedBounds, UpdateTypes
  <1>3. \A j \in decoded + 1 .. i - 1 : wire[j].kind # "window"
    <2> SUFFICES ASSUME NEW j \in decoded + 1 .. i - 1
                 PROVE  wire[j].kind # "window"
      OBVIOUS
    <2>1. j \in decoded + 1 .. handed /\ ~(i <= j)
      BY <1>2
    <2>2. j \notin Undecoded
      BY <1>1, <2>1 DEF NextUndecoded
    <2> QED
      BY <2>1, <2>2 DEF Undecoded, Public, Private
  <1>4. i - 1 \in decoded .. Len(wire) /\ i - 1 \in Nat /\ (i - 1) + 1 = i
    BY <1>2
  <1>5. Opened(i - 1) = Account
    <2>1. Opened(i - 1) = Opened(decoded)
      BY <1>3, <1>4, OpenedSkip
    <2>2. pc = "poll"
      BY DEF Decode
    <2> QED
      BY <2>1, <2>2 DEF SharesInv
  <1>6. Opened(i) = Opened(i - 1) + Granting[i] /\ Granting[i] \in Nat
    <2>1. SumTo(Granting, i) = SumTo(Granting, i - 1) + Granting[i]
      BY <1>4, SumNext
    <2>2. SumTo(Granting, i - 1) \in Nat /\ Granting[i] \in Nat
      <3>1. /\ \A j \in 1 .. i : Granting[j] \in Nat
            /\ i \in Nat /\ i - 1 \in 0 .. i /\ i \in 1 .. i
        BY <1>2, <1>4, AmountTypes
      <3> QED
        BY <3>1, SumNat
    <2> QED
      BY <1>2, <2>1, <2>2 DEF Opened
  <1>7. Account' = Account + Granting[i]
    <2>1. CASE DecodeUpdate(wire[i])
      <3>1. Granting[i] = wire[i].inc /\ sndWindow' = sndWindow + wire[i].inc
        BY <1>2, <2>1 DEF DecodeUpdate, Granting
      <3> QED
        BY <1>2, <1>6, <3>1 DEF Account
    <2>2. CASE ~DecodeUpdate(wire[i])
      <3>1. Granting[i] = 0 /\ sndWindow' = sndWindow
        BY <1>1, <1>2, <2>2
        DEF DecodeHeaders, DecodeOther, DecodeJunk, Granting
      <3> QED
        BY <1>2, <3>1 DEF Account
    <2> QED
      BY <2>1, <2>2
  <1>8. Opened(i)' = Opened(i)
    BY DEF Opened, Granting
  <1> QED
    BY <1>1, <1>5, <1>6, <1>7, <1>8 DEF SharesInv, Opened, Granting

LEMMA SharesTask ==
    ASSUME TypeInv, FirstInv, SharesInv, TaskStep \/ RespondStep
    PROVE  SharesInv'
  <1>1. /\ UNCHANGED wire
        /\ sndWindow \in Int /\ taken \in Nat /\ reported \in Nat
        /\ srvSent \in Nat /\ queued \in Nat
    BY TaskLeaves, UpdateTypes
  <1>2. ASSUME Account' = Account, decoded' = decoded, pc # "closed"
        PROVE  SharesInv'
    <2>1. Opened(decoded)' = Opened(decoded)
      BY <1>1, <1>2 DEF Opened, Granting
    <2> QED
      BY <1>2, <2>1 DEF SharesInv
  <1>3. CASE Drain
    <2>1. /\ decoded' = decoded /\ srvSent' = srvSent /\ pc = "drain"
          /\ sndWindow' = sndWindow - reported /\ taken' = taken + reported
      BY <1>3 DEF Drain, TakeFlow
    <2>2. Account' = Account
      BY <1>1, <2>1 DEF Account
    <2> QED
      BY <1>2, <2>1, <2>2
  <1>8. CASE DrainFails
    BY <1>8 DEF DrainFails, SharesInv
  <1>4. CASE Accept \/ Await
    <2>1. /\ decoded' = decoded /\ taken' = taken /\ pc = "poll"
          /\ Flush \/ UNCHANGED <<sndWindow, srvSent>>
      BY <1>4 DEF Accept, Await, Yield
    <2>2. Account' = Account
      <3>1. CASE Flush
        <4> DEFINE n == IF sndWindow <= 0 THEN 0
                        ELSE IF queued <= sndWindow THEN queued ELSE sndWindow
        <4>1. n \in Int /\ sndWindow' = sndWindow - n /\ srvSent' = srvSent + n
          BY <1>1, <3>1 DEF Flush
        <4> HIDE DEF n
        <4> QED
          BY <1>1, <2>1, <4>1 DEF Account
      <3>2. CASE UNCHANGED <<sndWindow, srvSent>>
        BY <2>1, <3>2 DEF Account
      <3> QED
        BY <2>1, <3>1, <3>2
    <2> QED
      BY <1>2, <2>1, <2>2
  <1>5. CASE Handshake
    <2>1. /\ decoded = 0 /\ decoded' = 1 /\ 1 \in decoded .. Len(wire)
          /\ wire # <<>> /\ pc = "protocol"
          /\ UNCHANGED <<sndWindow, taken, srvSent>>
      BY <1>5, UpdateTypes, EmptySeq, SMTT(30) DEF Handshake, TypeInv, Cursors
    <2>2. \A j \in decoded + 1 .. 1 : wire[j].kind # "window"
      BY <2>1 DEF FirstInv, Preface
    <2>3. Opened(1) = Opened(decoded)
      BY <2>1, <2>2, OpenedSkip
    <2>4. Account' = Account /\ Opened(decoded)' = Opened(1)
      BY <1>1, <2>1 DEF Account, Opened, Granting
    <2> QED
      BY <2>1, <2>3, <2>4 DEF SharesInv
  <1>6. CASE Decode
    BY <1>1, <1>6, SharesDecode
  <1>7. CASE AwaitProtocol \/ Scan \/ PollStream \/ RespondStep
    <2>1. UNCHANGED <<pc, decoded, sndWindow, taken, srvSent>>
      BY <1>7 DEF AwaitProtocol, Scan, PollStream, serverVars, RespondStep,
                  Respond, Leave
    <2>2. Account' = Account
      BY <2>1 DEF Account
    <2>3. CASE pc = "closed"
      BY <2>1, <2>3 DEF SharesInv
    <2> QED
      BY <1>2, <2>1, <2>2, <2>3
  <1> QED
    BY <1>3, <1>4, <1>5, <1>6, <1>7, <1>8 DEF TaskStep, ConnTask

LEMMA SharesInit == Init => SharesInv
  <1> SUFFICES ASSUME Init PROVE SharesInv
    OBVIOUS
  <1>1. /\ decoded = 0 /\ sndWindow = InitWindow /\ taken = 0 /\ srvSent = 0
    BY DEF Init, ServerInit
  <1>2. InitWindow \in Nat
    BY WindowAssumption
  <1> QED
    BY <1>1, <1>2, SumNone DEF SharesInv, Account, Opened

LEMMA SharesInductive ==
    ASSUME TypeInv, TypeOK', FirstInv, SharesInv, [Next]_vars
    PROVE  SharesInv'
  <1>1. CASE UNCHANGED vars
    BY <1>1 DEF vars, socketVars, userVars, serverVars, SharesInv, Account,
                Opened, Granting
  <1>2. CASE ClientStep
    BY <1>2, ClientLeaves DEF SharesInv, Account, Opened, Granting
  <1> QED
    BY <1>1, <1>2, SharesKernel, SharesTask DEF Next

(* Whenever user space has caught up, it has decoded all that it is to.    *)
LEMMA NoUpdateLeft ==
    ASSUME TypeInv, CaughtUp
    PROVE  /\ Len(wire) \in decoded .. Len(wire)
           /\ \A j \in decoded + 1 .. Len(wire) : wire[j].kind # "window"
  <1>1. /\ Len(wire) \in Nat /\ decoded \in Nat /\ handed \in Nat
        /\ decoded <= handed /\ handed <= Len(wire) /\ scanned = Len(wire)
    BY UpdateTypes DEF CaughtUp
  <1>2. ASSUME NEW j \in decoded + 1 .. Len(wire)
        PROVE  wire[j].kind # "window"
    <2>1. CASE j <= handed
      <3>1. j \in decoded + 1 .. handed /\ j \notin Undecoded
        BY <1>1, <2>1 DEF CaughtUp, CodecEmpty
      <3> QED
        BY <3>1 DEF Undecoded, Public, Private
    <2>2. CASE ~(j <= handed)
      <3>1. j \in handed + 1 .. scanned
        BY <1>1, <2>2
      <3> QED
        BY <3>1 DEF CaughtUp, OutEmpty, Public, Private
    <2> QED
      BY <2>1, <2>2
  <1> QED
    BY <1>1, <1>2

(* Whatever fails and however many frames a message holds: once everything *)
(* is reported, taken and decoded, what the codec may still send is what   *)
(* the updates passed on have opened, less what both sides have sent.      *)
LEMMA SharesMeet ==
    ASSUME TypeInv, FlowInv, SharesInv, Settled
    PROVE  /\ sndWindow = Opened(Len(wire)) - servedBytes - srvSent
           /\ Account = Opened(Len(wire)) /\ taken = servedBytes
  <1>1. /\ CaughtUp /\ scanned = Len(wire) /\ reported = 0 /\ unreported = 0
        /\ pc # "closed"
    BY DEF Settled, CaughtUp
  <1>2. /\ Len(wire) \in Nat /\ sndWindow \in Int /\ taken \in Nat
        /\ srvSent \in Nat /\ servedBytes \in Nat
    BY UpdateTypes
  <1>3. Account = Opened(Len(wire))
    BY <1>1, NoUpdateLeft, OpenedSkip DEF SharesInv
  <1>4. taken = servedBytes
    <2>1. reported + taken = servedBytes - unreported
      BY <1>1, <1>2, UpToUnique DEF FlowInv, ReportedBy
    <2> QED
      BY <1>1, <1>2, <2>1
  <1> QED
    BY <1>2, <1>3, <1>4 DEF Account

(* Client, fast path and codec never drift apart over the window: the two  *)
(* sides' spending and every update passed on are counted once each,       *)
(* whatever failed on the way.                                             *)
THEOREM SharesBalance == Spec => []SharesAgree
  <1> DEFINE I == TypeInv /\ FlowInv /\ FirstInv /\ SharesInv
  <1>1. I => SharesAgree
    BY SharesMeet DEF SharesAgree
  <1>2. Init => I
    BY TypeInvInit, FlowInit, FirstInit, SharesInit
  <1>3. I /\ [Next]_vars => I'
    BY TypeInductive, FlowInductive, FirstInductive, SharesInductive
    DEF TypeInv
  <1> QED
    BY <1>1, <1>2, <1>3, PTL DEF Spec

-----------------------------------------------------------------------------
(* The program's verdicts.                                                 *)

(* The frame in front of the program reaches the stream, or if it is no    *)
(* update, bytes that are none take its place.                             *)
LEMMA UpdatePasses ==
    ASSUME TypeInv, TypeOK', UpdateInv, KernelStep,
           NEW f, msg # <<>>, f = msg[1], DOMAIN msg = {1}, f \in Frame,
           Len(wire') \in Nat, Len(wire) < Len(wire'),
           NEW x, wire'[Len(wire')] = x,
           x = f \/ (f.kind # "window" /\ x.kind # "window"),
           \A i \in Len(wire) + 1 .. Len(wire') - 1 :
               wire'[i].kind # "window",
           cut' = cut,
           msg' = <<>> \/ msg' = <<Junk>>
    PROVE  UpdateInv'
  <1> DEFINE n == Len(wire')
  <1>1. /\ wire \in Seq(Frame) /\ wire' \in Seq(Frame) /\ Len(wire) \in Nat
        /\ n \in Nat \ {0} /\ Len(wire) <= n - 1
        /\ \A i \in 1 .. Len(wire) : wire'[i] = wire[i]
        /\ UNCHANGED granted /\ granted \in Nat /\ ~cut
    <2>1. TypeOK /\ wire' \in Seq(Frame)
      BY DEF TypeInv, TypeOK, SocketTypeOK
    <2>2. wire \in Seq(Frame) /\ Len(wire) \in Nat /\ granted \in Nat
      BY UpdateTypes
    <2>3. n \in Nat \ {0} /\ Len(wire) <= n - 1
      BY <2>2
    <2>4. \A i \in 1 .. Len(wire) : wire'[i] = wire[i]
      BY <2>1, WireGrows
    <2>5. ~cut
      BY DEF UpdateInv
    <2> HIDE DEF n
    <2> QED
      BY <2>1, <2>2, <2>3, <2>4, <2>5, KernelLeaves
  <1>4. /\ \A i \in DOMAIN msg' : msg'[i].kind # "window"
        /\ msg' # <<>> => 1 \in DOMAIN msg'
        /\ Len(msg') <= 1
    <2>1. CASE msg' = <<>>
      BY <2>1
    <2>2. CASE msg' = <<Junk>>
      <3>1. Len(msg') = 1 /\ DOMAIN msg' = {1} /\ msg'[1] = Junk
        BY <2>2
      <3> QED
        BY <3>1 DEF Junk
    <2> QED
      BY <2>1, <2>2
  <1>2. Unseen = (IF f.kind = "window" THEN f.inc ELSE 0) /\ Unseen' = 0
    BY <1>4 DEF Unseen
  <1>3. f.kind = "window" => f.inc \in Nat /\ f.upto = granted
    <2> SUFFICES ASSUME f.kind = "window"
                 PROVE  f.inc \in Nat /\ f.upto = granted
      OBVIOUS
    <2>1. f.inc \in Nat
      <3>1. msg \in Seq(Frame) /\ 1 \in DOMAIN msg /\ msg[1].kind = "window"
        BY UpdateTypes
      <3>2. msg[1].inc \in 1 .. MaxWindow
        BY <3>1, UpdateFields
      <3> QED
        BY <3>2, WindowAssumption
    <2>2. f.upto = granted
      BY DEF UpdateInv
    <2> QED
      BY <2>1, <2>2
  <1>5. OpenedBy(wire', n - 1, granted - Unseen)
    <2>1. OpenedBy(wire', Len(wire), granted - Unseen)
      BY <1>1, UpToExtend DEF UpdateInv, OpenedBy
    <2>2. \A i \in Len(wire) + 1 .. n - 1 : wire'[i].kind # "window"
      OBVIOUS
    <2>3. n - 1 \in Nat
      BY <1>1
    <2> HIDE DEF n
    <2> QED
      BY <1>1, <2>1, <2>2, <2>3, UpToSkip DEF OpenedBy
  <1>6. OpenedBy(wire', n, granted)
    <2>1. CASE f.kind = "window"
      <3>1. x = f
        BY <2>1
      <3>2. UpTo("window", InitWindow, wire', n, wire'[n].upto)
        BY <1>1, <2>1, <3>1, UpToHere, Zenon
      <3> QED
        BY <1>3, <2>1, <3>1, <3>2 DEF OpenedBy
    <2>2. CASE f.kind # "window"
      <3>1. OpenedBy(wire', n - 1, granted)
        BY <1>1, <1>2, <1>5, <2>2
      <3>2. \A i \in (n - 1) + 1 .. n : wire'[i].kind # "window"
        BY <1>1, <2>2
      <3>3. n - 1 \in Nat /\ n \in Nat /\ n - 1 <= n
        BY <1>1
      <3> HIDE DEF n
      <3> QED
        BY <3>1, <3>2, <3>3, UpToSkip DEF OpenedBy
    <2> QED
      BY <2>1, <2>2
  <1>7. ASSUME NEW i \in DOMAIN wire', wire'[i].kind = "window"
        PROVE  OpenedBy(wire', i - 1, wire'[i].upto - wire'[i].inc)
    <2>1. CASE i \in 1 .. Len(wire)
      <3>1. wire'[i] = wire[i] /\ i \in DOMAIN wire
            /\ i - 1 \in Nat /\ i - 1 <= Len(wire)
        BY <1>1, <2>1
      <3>2. OpenedBy(wire, i - 1, wire'[i].upto - wire'[i].inc)
        BY <1>7, <3>1 DEF UpdateInv
      <3> QED
        BY <1>1, <3>1, <3>2, UpToExtend DEF OpenedBy
    <2>2. CASE i \notin 1 .. Len(wire)
      <3>1. i = n
        BY <1>1, <1>7, <2>2
      <3>2. x = f /\ f.kind = "window"
        BY <1>7, <3>1
      <3> QED
        BY <1>2, <1>3, <1>5, <3>1, <3>2
    <2> QED
      BY <2>1, <2>2
  <1>8. OpenedBy(wire', Len(wire'), granted' - Unseen')
    <2>1. granted' - Unseen' = granted
      BY <1>1, <1>2
    <2> QED
      BY <1>6, <2>1
  <1>9. \A i \in DOMAIN msg' : msg'[i].kind = "window" => msg'[i].upto = granted'
    BY <1>4
  <1>10. ~cut'
    BY <1>1
  <1> HIDE DEF n
  <1> QED
    BY <1>4, <1>7, <1>8, <1>9, <1>10 DEF UpdateInv

(* Nothing but what is no frame is left of a message of one frame.         *)
LEMMA NothingBehind ==
    ASSUME NEW f, Tail(msg) = <<>>,
           Forward(f) \/ ServePartly(f) \/ Overwrite(f)
    PROVE  msg' = <<>> \/ msg' = <<Junk>>
  <1>1. Append(<<>>, Junk) = <<Junk>>
    OBVIOUS
  <1>2. ASSUME Resize(<<>>)
        PROVE  msg' = <<>> \/ msg' = <<Junk>>
    <2>1. PICK n \in 0 .. Len(<<>>), t \in {<<>>, <<Junk>>} :
              msg' = SubSeq(<<>>, 1, n) \o t
      BY <1>2 DEF Resize
    <2>2. n = 0
      BY <2>1
    <2>3. SubSeq(<<>>, 1, 0) = <<>>
      OBVIOUS
    <2>4. <<>> \o <<>> = <<>> /\ <<>> \o <<Junk>> = <<Junk>>
      OBVIOUS
    <2>5. msg' = <<>> \o t
      BY <2>1, <2>2, <2>3, Zenon
    <2> QED
      BY <2>1, <2>4, <2>5, Zenon
  <1> QED
    BY <1>1, <1>2, Zenon DEF Forward, ServePartly, Overwrite

LEMMA UpdateKernel ==
    ASSUME TypeInv, TypeOK', UpdateInv, KernelStep
    PROVE  UpdateInv'
  <1> DEFINE f == msg[1]
  <1>1. /\ msg # <<>> /\ Len(msg) = 1 /\ Head(msg) = f /\ Tail(msg) = <<>>
        /\ f \in Frame /\ DOMAIN msg = {1}
    <2>1. msg # <<>>
      BY DEF KernelStep, Verdict, Upgrade, ParseFails, PassUnparsed
    <2>2. msg \in Seq(Frame) /\ Len(msg) <= 1
      BY UpdateTypes DEF UpdateInv
    <2> QED
      BY <2>1, <2>2, OneFrame
  <1> HIDE DEF f
  <1>2. /\ wire \in Seq(Frame) /\ wire' \in Seq(Frame) /\ Len(wire) \in Nat
        /\ Len(wire') \in Nat /\ msg \in Seq(Frame) /\ TypeOK
    <2>1. wire' \in Seq(Frame) /\ TypeOK
      BY DEF TypeInv, TypeOK, SocketTypeOK
    <2> QED
      BY <2>1, UpdateTypes
  <1>3. CASE Upgrade
    <2>1. /\ wire' = Append(wire, f) /\ msg' = <<>> /\ cut' = cut
      BY <1>1, <1>3 DEF Upgrade
    <2>2. /\ Len(wire) < Len(wire') /\ wire'[Len(wire')] = f
          /\ \A i \in Len(wire) + 1 .. Len(wire') - 1 :
                wire'[i].kind # "window"
      BY <1>1, <1>2, <2>1
    <2>3. DOMAIN msg' = {}
      BY <2>1
    <2> QED
      BY <1>1, <1>2, <2>1, <2>2, <2>3, UpdatePasses DEF f
  <1>4. CASE ParseFails \/ PassUnparsed
    <2>1. /\ wire' = wire \o msg /\ msg' = <<>> /\ cut' = cut
      BY <1>4 DEF ParseFails, PassUnparsed
    <2>2. /\ Len(wire') = Len(wire) + 1 /\ wire'[Len(wire) + 1] = f
      <3>1. msg \in Seq(Frame) /\ Len(msg) = 1 /\ f = msg[1]
        BY <1>1, <1>2 DEF f
      <3>2. Len(wire \o msg) = Len(wire) + Len(msg)
            /\ \A i \in 1 .. Len(wire) + Len(msg) :
                  (wire \o msg)[i] = IF i <= Len(wire) THEN wire[i]
                                     ELSE msg[i - Len(wire)]
        BY <1>2, <3>1, ConcatProperties
      <3>3. /\ Len(wire) + 1 \in 1 .. Len(wire) + Len(msg)
            /\ ~(Len(wire) + 1 <= Len(wire))
            /\ (Len(wire) + 1) - Len(wire) = 1
        BY <1>2, <3>1
      <3> QED
        BY <2>1, <3>1, <3>2, <3>3
    <2>3. /\ Len(wire) < Len(wire') /\ wire'[Len(wire')] = f
          /\ \A i \in Len(wire) + 1 .. Len(wire') - 1 :
                wire'[i].kind # "window"
      BY <1>2, <2>2
    <2>4. DOMAIN msg' = {}
      BY <2>1
    <2> QED
      BY <1>1, <1>2, <2>1, <2>3, <2>4, UpdatePasses DEF f
  <1>5. CASE Forward(f) \/ ServePartly(f) \/ Overwrite(f)
    <2>1. PICK x : Passes(f, x)
      BY <1>1, <1>2, <1>5, Passing
    <2>2. msg' = <<>> \/ msg' = <<Junk>>
      BY <1>1, <1>5, NothingBehind
    <2>3. /\ x = f \/ (f.kind # "window" /\ x.kind # "window")
          /\ cut' = cut
      <3>1. CASE x = f
        BY <2>1, <3>1 DEF Passes
      <3>2. CASE Servable(f) /\ x \in {Junk, Other}
        BY <2>1, <3>2 DEF Passes, Servable, Junk, Other
      <3> QED
        BY <2>1, <3>1, <3>2 DEF Passes
    <2>4. /\ Len(wire) < Len(wire') /\ wire'[Len(wire')] = x
          /\ \A i \in Len(wire) + 1 .. Len(wire') - 1 :
                Private(wire'[i]) \/ wire'[i] = Junk
      BY <1>1, <1>2, <2>1, PassOnWire
    <2>5. \A i \in Len(wire) + 1 .. Len(wire') - 1 :
              wire'[i].kind # "window"
      BY <2>4 DEF Private, Junk
    <2> QED
      BY <1>1, <1>2, <2>2, <2>3, <2>4, <2>5, UpdatePasses DEF f
  <1>6. CASE Serve(f) \/ Drop(f)
    <2>1. /\ wire' = wire /\ msg' = <<>>
          /\ cut' \/ (cut' = cut /\ f.kind # "window")
      BY <1>6 DEF Serve, Redirect, Servable, Drop
    <2>2. UNCHANGED granted
      BY KernelLeaves
    <2>3. DOMAIN msg' = {} /\ Unseen' = 0 /\ Len(msg') <= 1
      BY <2>1 DEF Unseen
    <2>4. cut' \/ OpenedBy(wire', Len(wire'), granted' - Unseen')
      <3>1. ~cut
        BY <1>1 DEF UpdateInv
      <3>2. f.kind # "window" => Unseen = 0
        BY DEF Unseen, f
      <3> QED
        BY <2>1, <2>2, <2>3, <3>1, <3>2 DEF UpdateInv
    <2> QED
      BY <2>1, <2>2, <2>3, <2>4 DEF UpdateInv
  <1> QED
    BY <1>1, <1>3, <1>4, <1>5, <1>6 DEF KernelStep, Verdict

-----------------------------------------------------------------------------
(* The client.                                                             *)

LEMMA UpdateClient ==
    ASSUME MaxBatch = 1, TypeInv, UpdateInv, ClientStep
    PROVE  UpdateInv'
  <1>1. /\ msg \in Seq(Frame) /\ Len(msg) \in Nat /\ granted \in Nat
        /\ UNCHANGED <<wire, cut>>
    BY UpdateTypes, ClientLeaves
  <1>2. ASSUME NEW f, Send(f)
        PROVE  /\ msg' # <<>> /\ msg'[1] = f /\ DOMAIN msg' = {1}
               /\ Len(msg') <= 1
               /\ ~cut /\ Unseen = 0
               /\ Unseen' = IF f.kind = "window" THEN f.inc ELSE 0
    <2>1. ~cut /\ Len(msg) < 1 /\ msg' = Append(msg, f)
      BY <1>2 DEF Send
    <2>2. msg = <<>>
      BY <1>1, <2>1, EmptySeq
    <2>3. msg' = <<f>>
      BY <2>1, <2>2
    <2>4. msg' # <<>> /\ msg'[1] = f /\ DOMAIN msg' = {1} /\ Len(msg') <= 1
      BY <2>3
    <2> QED
      BY <2>1, <2>2, <2>4 DEF Unseen
  <1>3. ASSUME NEW f, Send(f), f.kind # "window", granted' = granted
        PROVE  UpdateInv'
    <2>1. OpenedBy(wire', Len(wire'), granted' - Unseen')
      BY <1>1, <1>2, <1>3 DEF UpdateInv
    <2> QED
      BY <1>1, <1>2, <1>3, <2>1 DEF UpdateInv
  <1>4. ASSUME NEW n \in Incs, SendUpdate(OpenWindow, n)
        PROVE  UpdateInv'
    <2> DEFINE f == Update(n, granted + n)
    <2>1. /\ Send(f) /\ granted' = granted + n
          /\ f.kind = "window" /\ f.inc = n /\ f.upto = granted + n
      BY <1>4 DEF SendUpdate, Update
    <2> HIDE DEF f
    <2>2. n \in Nat
      BY WindowAssumption
    <2>3. OpenedBy(wire', Len(wire'), granted' - Unseen')
      <3>1. granted' - Unseen' = granted - Unseen
        BY <1>1, <1>2, <2>1, <2>2
      <3> QED
        BY <1>1, <1>2, <2>1, <3>1 DEF UpdateInv
    <2> QED
      BY <1>1, <1>2, <2>1, <2>3 DEF UpdateInv
  <1>5. CASE SendPreface
    BY <1>3, <1>5 DEF SendPreface, Preface
  <1>6. CASE \E w \in Windows : SendSettings(w)
    BY <1>3, <1>6 DEF SendSettings, Settings
  <1>7. CASE SendAck
    BY <1>3, <1>7 DEF SendAck, SettingsAck
  <1>8. CASE \E p \in Paths, e \in Entries \cup {NoEntry} : SendRequest(p, e)
    BY <1>3, <1>8 DEF SendRequest, Headers
  <1>9. CASE SendOther
    BY <1>3, <1>9 DEF SendOther, Other
  <1> QED
    BY <1>4, <1>5, <1>6, <1>7, <1>8, <1>9 DEF ClientStep, ClientSends

LEMMA UpdateInit == Init => UpdateInv
  <1> SUFFICES ASSUME Init PROVE UpdateInv
    OBVIOUS
  <1>1. msg = <<>> /\ wire = <<>> /\ ~cut /\ granted = InitWindow
    BY DEF Init, SocketInit, ClientInit
  <1>2. InitWindow \in Nat
    BY WindowAssumption
  <1>3. OpenedBy(wire, 0, InitWindow) /\ Len(wire) = 0 /\ Unseen = 0
    BY <1>1 DEF OpenedBy, UpTo, Unseen
  <1> QED
    BY <1>1, <1>2, <1>3 DEF UpdateInv

LEMMA UpdateInductive ==
    ASSUME MaxBatch = 1, TypeInv, TypeOK', UpdateInv, [Next]_vars
    PROVE  UpdateInv'
  <1>1. CASE UNCHANGED vars
    BY <1>1 DEF vars, socketVars, clientVars, UpdateInv, Unseen
  <1>2. CASE TaskStep \/ RespondStep
    BY <1>2, TaskLeaves DEF UpdateInv, Unseen
  <1> QED
    BY <1>1, <1>2, UpdateKernel, UpdateClient DEF Next

(* What the client granted is what its updates on the stream add up to.    *)
LEMMA OpenedIsGranted ==
    ASSUME TypeInv, UpdateInv, msg = <<>>, ~cut
    PROVE  Opened(Len(wire)) = granted
  <1>1. /\ wire \in Seq(Frame) /\ Len(wire) \in Nat /\ granted \in Nat
        /\ InitWindow \in Int /\ Len(wire) \in 0 .. Len(wire)
    BY UpdateTypes
  <1>2. \A i \in 1 .. Len(wire) : Granting[i] \in Nat
    BY AmountTypes
  <1>3. \A i \in 1 .. Len(wire) : wire[i].kind # "window" => Granting[i] = 0
    BY <1>1 DEF Granting
  <1>4. ASSUME NEW i \in 1 .. Len(wire), wire[i].kind = "window"
        PROVE  /\ wire[i].upto \in Int
               /\ UpTo("window", InitWindow, wire, i - 1,
                       wire[i].upto - Granting[i])
    <2>1. i \in DOMAIN wire /\ wire[i] \in Frame
      BY <1>1
    <2>2. wire[i].upto \in Int
      BY <1>1, <1>4, <2>1, UpdateFields
    <2> QED
      BY <1>4, <2>1, <2>2 DEF UpdateInv, OpenedBy, Granting
  <1>5. \A i \in 0 .. Len(wire) :
           UpTo("window", InitWindow, wire, i, InitWindow + SumTo(Granting, i))
    BY <1>1, <1>2, <1>3, <1>4, UpToSum
  <1>6. OpenedBy(wire, Len(wire), Opened(Len(wire)))
    BY <1>1, <1>5 DEF OpenedBy, Opened
  <1>7. OpenedBy(wire, Len(wire), granted)
    <2>1. granted - Unseen = granted
      BY <1>1 DEF Unseen
    <2> QED
      BY <2>1 DEF UpdateInv
  <1> QED
    BY <1>1, <1>6, <1>7, UpToUnique DEF OpenedBy

(* With one frame per message, and whatever fails short of cutting the     *)
(* connection: once everything is reported, taken and decoded, the window  *)
(* the codec may still send is the window the client has open.             *)
THEOREM SameWindow ==
    ASSUME MaxBatch = 1
    PROVE  Spec => []WindowsAgree
  <1> DEFINE I == /\ TypeInv /\ FlowInv /\ FirstInv /\ SharesInv
                  /\ UpdateInv
  <1>1. I => WindowsAgree
    <2> SUFFICES ASSUME I, Settled, ~cut
                 PROVE  sndWindow = OpenWindow
      BY DEF WindowsAgree
    <2>1. msg = <<>>
      BY DEF Settled, CaughtUp
    <2> QED
      BY <2>1, SharesMeet, OpenedIsGranted DEF OpenWindow
  <1>2. Init => I
    BY TypeInvInit, FlowInit, FirstInit, SharesInit, UpdateInit
  <1>3. I /\ [Next]_vars => I'
    <2> SUFFICES ASSUME I, [Next]_vars PROVE I'
      OBVIOUS
    <2>1. TypeInv' /\ TypeOK'
      BY TypeInductive DEF TypeInv
    <2>2. FlowInv' /\ FirstInv' /\ SharesInv'
      BY <2>1, FlowInductive, FirstInductive, SharesInductive
    <2>3. UpdateInv'
      BY <2>1, UpdateInductive
    <2> QED
      BY <2>1, <2>2, <2>3
  <1> QED
    BY <1>1, <1>2, <1>3, PTL DEF Spec
=============================================================================
