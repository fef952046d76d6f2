---------------------------- MODULE WindowProofs ----------------------------
(***************************************************************************)
(* Theorems about Beeper's flow control and handshake.  They hold whatever *)
(* fails and however many frames a sendmsg carries.                        *)
(***************************************************************************)
EXTENDS BeeperProofs

-----------------------------------------------------------------------------
(* Spending within the grant.                                              *)

LEMMA UpdateFields ==
    ASSUME NEW s \in Seq(Frame), NEW i \in DOMAIN s, s[i].kind = "window"
    PROVE  s[i].inc \in 1..MaxWindow /\ s[i].upto \in Nat
  <1>1. s[i] \in Frame
    OBVIOUS
  <1> QED
    BY <1>1, FrameFields, WindowAssumption

(* Nothing in front of the program is added to by what the program does.   *)
LEMMA GrantKernel ==
    ASSUME TypeInv, TypeOK', GrantInv, KernelStep
    PROVE  GrantInv'
  <1>1. /\ granted \in Nat /\ granted' = granted
        /\ msg \in Seq(Frame) /\ msg' \in Seq(Frame)
        /\ conn_window \in 0..MaxWindow /\ conn_window' \in 0..MaxWindow
        /\ servedBytes \in Nat /\ servedBytes' \in Nat
    BY KernelLeaves
    DEF TypeInv, TypeOK, SocketTypeOK, ClientTypeOK, FastTypeOK
  <1>2. \A i \in DOMAIN msg : msg[i].kind = "window" =>
            msg[i].inc \in 1..MaxWindow /\ msg[i].upto \in Nat
    BY <1>1, UpdateFields
  <1> USE DEF GrantInv
  <1>3. ASSUME msg' = <<>>,
               h2_state' # "none" => conn_window' + servedBytes' <= granted,
               h2_state' = "none" => servedBytes' = 0
        PROVE  GrantInv'
    <2>1. \A i \in DOMAIN msg' : FALSE
      BY <1>3
    <2>2. InitWindow <= granted'
      BY <1>1
    <2>3. /\ h2_state' # "none" => conn_window' + servedBytes' <= granted'
          /\ h2_state' = "none" => servedBytes' = 0
      BY <1>1, <1>3, Zenon
    <2> QED
      BY <2>1, <2>2, <2>3, Zenon
  <1>4. CASE ParseFails \/ PassUnparsed
    <2>1. msg' = <<>> /\ UNCHANGED <<h2_state, conn_window, servedBytes>>
      BY <1>4 DEF ParseFails, PassUnparsed, fastVars
    <2> QED
      BY <1>1, <1>3, <2>1
  <1>5. CASE Upgrade
    <2>1. /\ msg # <<>> /\ msg' = Tail(msg)
          /\ conn_window' = InitWindow /\ servedBytes' = 0
          /\ h2_state' = "upgraded"
      BY <1>5 DEF Upgrade
    <2>2. \A i \in DOMAIN msg' : i + 1 \in DOMAIN msg /\ msg'[i] = msg[i + 1]
      BY <1>1, <2>1
    <2> QED
      BY <1>1, <1>2, <2>1, <2>2, WindowAssumption
  <1>6. ASSUME NEW f, f = Head(msg), msg # <<>>, Serve(f)
        PROVE  GrantInv'
    <2>1. f.path \in Routes /\ DataLen[f.path] \in Nat
      BY <1>6, RouteAssumption DEF Serve, Servable
    <2>2. /\ msg' = <<>> /\ h2_state' = h2_state /\ h2_state # "none"
          /\ conn_window' = conn_window - DataLen[f.path]
          /\ servedBytes' = servedBytes + DataLen[f.path]
      BY <1>6 DEF Serve, Redirect, Charge, Servable
    <2>3. conn_window' + servedBytes' = conn_window + servedBytes
      BY <1>1, <2>1, <2>2, WindowAssumption, SMTT(30)
    <2> QED
      BY <1>1, <1>3, <2>2, <2>3
  <1>7. ASSUME NEW f, f = Head(msg), msg # <<>>, Follow(f), h2_state # "none"
        PROVE  /\ h2_state' # "none"
               /\ conn_window' <= IF f.kind = "window"
                                  THEN conn_window + f.inc ELSE conn_window
    BY <1>1, <1>2, <1>7, WindowAssumption, SMTT(30) DEF Follow
  <1>8. ASSUME NEW f, f = Head(msg), msg # <<>>, Follow(f), h2_state # "none",
               UNCHANGED servedBytes,
               \A i \in DOMAIN msg' : msg'[i].kind = "window" =>
                   i + 1 \in DOMAIN msg /\ msg'[i] = msg[i + 1]
        PROVE  GrantInv'
    <2>1. f = msg[1] /\ 1 \in DOMAIN msg
      BY <1>1, <1>8
    <2>2. ASSUME f.kind = "window"
          PROVE  conn_window' + servedBytes' <= f.upto /\ f.upto \in Nat
      <3>1. f.inc \in Nat /\ f.upto \in Nat
        BY <1>2, <2>1, <2>2, WindowAssumption
      <3>2. conn_window + servedBytes <= f.upto - f.inc
        BY <1>8, <2>1, <2>2
      <3>3. conn_window' <= conn_window + f.inc /\ servedBytes' = servedBytes
        BY <1>7, <1>8, <2>2
      <3>4. /\ conn_window \in Nat /\ conn_window' \in Nat
            /\ servedBytes \in Nat
        BY <1>1, WindowAssumption
      <3> QED
        BY <3>1, <3>2, <3>3, <3>4
    <2>3. \A i \in DOMAIN msg' : msg'[i].kind = "window" =>
            /\ msg'[i].upto <= granted
            /\ InitWindow <= msg'[i].upto - msg'[i].inc
      BY <1>8
    <2>4. \A i, j \in DOMAIN msg' :
            i < j /\ msg'[i].kind = "window" /\ msg'[j].kind = "window"
                => msg'[i].upto <= msg'[j].upto - msg'[j].inc
      <3> SUFFICES ASSUME NEW i \in DOMAIN msg', NEW j \in DOMAIN msg', i < j,
                          msg'[i].kind = "window", msg'[j].kind = "window"
                   PROVE  msg'[i].upto <= msg'[j].upto - msg'[j].inc
        OBVIOUS
      <3>1. /\ i + 1 \in DOMAIN msg /\ msg'[i] = msg[i + 1]
            /\ j + 1 \in DOMAIN msg /\ msg'[j] = msg[j + 1]
        BY <1>8
      <3>2. i + 1 < j + 1
        BY <1>1
      <3> QED
        BY <3>1, <3>2
    <2>5. \A i \in DOMAIN msg' : msg'[i].kind = "window" =>
            conn_window' + servedBytes' <= msg'[i].upto - msg'[i].inc
      <3> SUFFICES ASSUME NEW i \in DOMAIN msg', msg'[i].kind = "window"
                   PROVE  conn_window' + servedBytes'
                            <= msg'[i].upto - msg'[i].inc
        OBVIOUS
      <3>1. i + 1 \in DOMAIN msg /\ msg'[i] = msg[i + 1] /\ 1 < i + 1
        BY <1>1, <1>8
      <3>2. msg'[i].upto \in Nat /\ msg'[i].inc \in Nat
        BY <1>2, <3>1, WindowAssumption
      <3>3. conn_window + servedBytes <= msg'[i].upto - msg'[i].inc
        BY <1>8, <3>1
      <3>4. CASE f.kind = "window"
        <4>1. f.upto <= msg'[i].upto - msg'[i].inc
          BY <2>1, <3>1, <3>4
        <4>2. conn_window' + servedBytes' \in Int
          BY <1>1, WindowAssumption
        <4> QED
          BY <2>2, <3>2, <3>4, <4>1, <4>2
      <3>5. CASE f.kind # "window"
        BY <1>1, <1>7, <1>8, <3>2, <3>3, <3>5, WindowAssumption, SMTT(30)
      <3> QED
        BY <3>4, <3>5
    <2>6. conn_window' + servedBytes' <= granted
      <3>1. CASE f.kind = "window"
        <4>1. f.upto <= granted
          BY <2>1, <3>1
        <4>2. conn_window' + servedBytes' \in Int /\ granted \in Nat
          BY <1>1, WindowAssumption
        <4>3. conn_window' + servedBytes' <= f.upto /\ f.upto \in Nat
          BY <2>2, <3>1
        <4> QED
          BY <4>1, <4>2, <4>3
      <3>2. CASE f.kind # "window"
        BY <1>1, <1>7, <1>8, <3>2, WindowAssumption
      <3> QED
        BY <3>1, <3>2
    <2> QED
      BY <1>1, <1>7, <1>8, <2>3, <2>4, <2>5, <2>6
  <1>9. ASSUME NEW f, f = Head(msg), msg # <<>>, Drop(f)
        PROVE  GrantInv'
    <2>1. /\ Follow(f) /\ h2_state # "none" /\ UNCHANGED servedBytes
          /\ msg' = <<>>
      BY <1>9 DEF Drop, Parsed
    <2> QED
      BY <1>8, <1>9, <2>1
  <1>10. ASSUME NEW f, f = Head(msg), msg # <<>>,
                Forward(f) \/ ServePartly(f) \/ Overwrite(f)
         PROVE  GrantInv'
    <2>1. PICK x : Passes(f, x)
      BY <1>10, Passing DEF TypeInv
    <2>2. Follow(f) /\ h2_state # "none" /\ UNCHANGED servedBytes
      BY <2>1 DEF Passes, Parsed
    <2>3. \A i \in DOMAIN msg' : msg'[i].kind = "window" =>
              i + 1 \in DOMAIN msg /\ msg'[i] = msg[i + 1]
      BY <1>10, Passing DEF TypeInv, Behind, Junk
    <2> QED
      BY <1>8, <1>10, <2>2, <2>3
  <1> QED
    BY <1>4, <1>5, <1>6, <1>9, <1>10 DEF KernelStep, Verdict

LEMMA GrantClient ==
    ASSUME TypeInv, TypeOK', GrantInv, ClientStep
    PROVE  GrantInv'
  <1>1. /\ granted \in Nat /\ granted' \in Nat
        /\ msg \in Seq(Frame) /\ msg' \in Seq(Frame)
        /\ conn_window \in 0..MaxWindow /\ servedBytes \in Nat
        /\ UNCHANGED <<h2_state, conn_window, servedBytes>>
    BY ClientLeaves DEF TypeInv, TypeOK, SocketTypeOK, ClientTypeOK, FastTypeOK
  <1>2. \A i \in DOMAIN msg : msg[i].kind = "window" =>
            msg[i].inc \in Nat /\ msg[i].upto \in Nat
    BY <1>1, UpdateFields, WindowAssumption
  <1> USE DEF GrantInv
  <1>3. ASSUME NEW f, msg' = Append(msg, f), f.kind # "window",
               UNCHANGED granted
        PROVE  GrantInv'
    <2>1. \A i \in DOMAIN msg' : msg'[i].kind = "window" =>
              i \in DOMAIN msg /\ msg'[i] = msg[i]
      BY <1>1, <1>3
    <2> QED
      BY <1>1, <1>3, <2>1
  <1>4. ASSUME NEW n \in Incs, SendUpdate(OpenWindow, n)
        PROVE  GrantInv'
    <2>1. /\ msg' = Append(msg, Update(n, granted + n))
          /\ granted' = granted + n
          /\ n \in 1..MaxWindow
      BY <1>4, WindowAssumption DEF SendUpdate, Send
    <2>2. /\ DOMAIN msg' = 1 .. Len(msg) + 1
          /\ msg'[Len(msg) + 1] = Update(n, granted + n)
          /\ DOMAIN msg = 1 .. Len(msg) /\ Len(msg) \in Nat
          /\ \A i \in DOMAIN msg : msg'[i] = msg[i]
      BY <1>1, <2>1
    <2>3. /\ Update(n, granted + n).inc = n
          /\ Update(n, granted + n).upto = granted + n
      BY DEF Update
    <2>4. /\ \A i \in DOMAIN msg : msg[i].kind = "window" => msg[i].upto <= granted
          /\ InitWindow <= granted
          /\ h2_state # "none" => conn_window + servedBytes <= granted
      BY DEF GrantInv
    <2>5. \A i \in DOMAIN msg' : msg'[i].kind = "window" =>
            /\ msg'[i].upto <= granted'
            /\ InitWindow <= msg'[i].upto - msg'[i].inc
            /\ h2_state' # "none" =>
                  conn_window' + servedBytes' <= msg'[i].upto - msg'[i].inc
      <3> SUFFICES ASSUME NEW i \in DOMAIN msg', msg'[i].kind = "window"
                   PROVE  /\ msg'[i].upto <= granted'
                          /\ InitWindow <= msg'[i].upto - msg'[i].inc
                          /\ h2_state' # "none" => conn_window' + servedBytes'
                                <= msg'[i].upto - msg'[i].inc
        OBVIOUS
      <3>1. CASE i = Len(msg) + 1
        BY <1>1, <2>1, <2>2, <2>3, <2>4, <3>1, WindowAssumption
      <3>2. CASE i \in DOMAIN msg
        BY <1>1, <1>2, <2>1, <2>2, <3>2, WindowAssumption
      <3> QED
        BY <2>2, <3>1, <3>2
    <2>6. \A i, j \in DOMAIN msg' :
            i < j /\ msg'[i].kind = "window" /\ msg'[j].kind = "window"
                => msg'[i].upto <= msg'[j].upto - msg'[j].inc
      <3> SUFFICES ASSUME NEW i \in DOMAIN msg', NEW j \in DOMAIN msg', i < j,
                          msg'[i].kind = "window", msg'[j].kind = "window"
                   PROVE  msg'[i].upto <= msg'[j].upto - msg'[j].inc
        OBVIOUS
      <3>1. i \in DOMAIN msg
        BY <2>2
      <3>2. CASE j = Len(msg) + 1
        BY <1>1, <1>2, <2>1, <2>2, <2>3, <2>4, <3>1, <3>2
      <3>3. CASE j \in DOMAIN msg
        BY <2>2, <3>1, <3>3
      <3> QED
        BY <2>2, <3>2, <3>3
    <2> QED
      BY <1>1, <2>1, <2>4, <2>5, <2>6, WindowAssumption
  <1>5. CASE SendPreface
    BY <1>3, <1>5 DEF SendPreface, Send, Preface
  <1>6. CASE \E w \in Windows : SendSettings(w)
    BY <1>3, <1>6 DEF SendSettings, Send, Settings
  <1>7. CASE SendAck
    BY <1>3, <1>7 DEF SendAck, Send, SettingsAck
  <1>8. CASE \E p \in Paths, e \in Entries \cup {NoEntry} : SendRequest(p, e)
    BY <1>3, <1>8 DEF SendRequest, Send, Headers
  <1>9. CASE SendOther
    BY <1>3, <1>9 DEF SendOther, Send, Other
  <1> QED
    BY <1>4, <1>5, <1>6, <1>7, <1>8, <1>9 DEF ClientStep, ClientSends

(* The fast path never spends connection window the client has not opened, *)
(* whatever fails and however frames are batched.                          *)
THEOREM GrantRespected == Spec => []WithinGrant
  <1>1. Init => TypeInv /\ GrantInv
    <2>1. Init => TypeInv
      BY TypeInvInit
    <2>2. Init => GrantInv
      BY WindowAssumption
      DEF Init, SocketInit, ClientInit, FastInit, GrantInv
    <2> QED
      BY <2>1, <2>2
  <1>2. TypeInv /\ GrantInv /\ [Next]_vars => (TypeInv /\ GrantInv)'
    <2> SUFFICES ASSUME TypeInv, GrantInv, [Next]_vars
                 PROVE  TypeInv' /\ GrantInv'
      OBVIOUS
    <2>1. TypeInv' /\ TypeOK'
      BY TypeInductive DEF TypeInv
    <2>2. CASE ClientStep
      BY <2>1, <2>2, GrantClient
    <2>3. CASE KernelStep
      BY <2>1, <2>3, GrantKernel
    <2>4. CASE TaskStep \/ RespondStep
      BY <2>1, <2>4, TaskLeaves DEF GrantInv
    <2>5. CASE UNCHANGED vars
      BY <2>1, <2>5 DEF vars, socketVars, clientVars, fastVars, GrantInv
    <2> QED
      BY <2>2, <2>3, <2>4, <2>5 DEF Next
  <1>3. TypeInv /\ GrantInv => WithinGrant
    BY WindowAssumption DEF TypeInv, TypeOK, FastTypeOK, GrantInv, WithinGrant
  <1> QED
    BY <1>1, <1>2, <1>3, PTL DEF Spec

-----------------------------------------------------------------------------
(* No response before the server's SETTINGS.                               *)

LEMMA HandshakeKernel ==
    ASSUME TypeOK, HandshakeInv, KernelStep
    PROVE  HandshakeInv'
  <1>1. UNCHANGED <<greeted, pc>> /\ msg \in Seq(Frame)
    BY KernelLeaves DEF TypeOK, SocketTypeOK
  <1>2. CASE Upgrade
    <2>1. \A i \in DOMAIN msg' : i + 1 \in DOMAIN msg /\ msg'[i] = msg[i + 1]
      BY <1>1, <1>2 DEF Upgrade
    <2> QED
      BY <1>1, <1>2, <2>1 DEF Upgrade, HandshakeInv
  <1>3. CASE ParseFails \/ PassUnparsed
    BY <1>1, <1>3 DEF ParseFails, PassUnparsed, fastVars, HandshakeInv
  <1>4. ASSUME NEW f, f = Head(msg), msg # <<>>, Serve(f)
        PROVE  HandshakeInv'
    BY <1>1, <1>4 DEF Serve, Redirect, Servable, HandshakeInv
  <1>5. ASSUME NEW f, f = Head(msg), msg # <<>>,
               Forward(f) \/ ServePartly(f) \/ Overwrite(f) \/ Drop(f)
        PROVE  HandshakeInv'
    <2>1. /\ Follow(f) /\ UNCHANGED served
          /\ \A i \in DOMAIN msg' : msg'[i].kind = "ack" =>
                i + 1 \in DOMAIN msg /\ msg'[i] = msg[i + 1]
      <3>1. CASE Forward(f) \/ ServePartly(f) \/ Overwrite(f)
        <4>1. \E x : Passes(f, x)
          BY <1>5, <3>1, Passing
        <4>2. Behind(msg')
          BY <1>5, <3>1, Passing
        <4> QED
          BY <4>1, <4>2 DEF Passes, Behind, Junk
      <3>2. CASE Drop(f)
        BY <1>1, <1>5, <3>2 DEF Drop
      <3> QED
        BY <1>5, <3>1, <3>2
    <2>3. h2_state' = "handshaked" => greeted
      <3>1. f = msg[1] /\ 1 \in DOMAIN msg
        BY <1>1, <1>5
      <3> QED
        BY <2>1, <3>1 DEF Follow, HandshakeInv
    <2> QED
      BY <1>1, <2>1, <2>3 DEF HandshakeInv
  <1> QED
    BY <1>2, <1>3, <1>4, <1>5 DEF KernelStep, Verdict

LEMMA HandshakeClient ==
    ASSUME TypeOK, HandshakeInv, ClientStep
    PROVE  HandshakeInv'
  <1>1. PICK f : Send(f) /\ (f.kind = "ack" => greeted)
    <2>1. CASE greeted
      BY <2>1, ClientLeaves
    <2>2. CASE ~greeted
      <3>1. CASE SendPreface
        BY <3>1 DEF SendPreface, Preface
      <3>2. CASE \E w \in Windows : SendSettings(w)
        BY <3>2 DEF SendSettings, Settings
      <3>3. CASE \E n \in Incs : SendUpdate(OpenWindow, n)
        BY <3>3 DEF SendUpdate, Update
      <3>4. CASE \E p \in Paths, e \in Entries \cup {NoEntry} : SendRequest(p, e)
        BY <3>4 DEF SendRequest, Headers
      <3>5. CASE SendOther
        BY <3>5 DEF SendOther, Other
      <3> QED
        BY <2>2, <3>1, <3>2, <3>3, <3>4, <3>5 DEF ClientStep, ClientSends
    <2> QED
      BY <2>1, <2>2
  <1>2. msg' = Append(msg, f) /\ msg \in Seq(Frame)
    BY <1>1 DEF Send, TypeOK, SocketTypeOK
  <1>3. \A i \in DOMAIN msg' : \/ i \in DOMAIN msg /\ msg'[i] = msg[i]
                               \/ msg'[i] = f
    BY <1>2
  <1>4. UNCHANGED <<greeted, h2_state, served, pc>>
    BY ClientLeaves
  <1> QED
    BY <1>1, <1>3, <1>4 DEF HandshakeInv

LEMMA HandshakeTask ==
    ASSUME HandshakeInv, TaskStep \/ RespondStep
    PROVE  HandshakeInv'
  <1>1. UNCHANGED <<msg, h2_state, served>>
    BY TaskLeaves
  <1>2. CASE Handshake
    <2>1. greeted' /\ pc' = "drain"
      BY <1>2 DEF Handshake
    <2> QED
      BY <1>1, <2>1 DEF HandshakeInv
  <1>3. CASE ~Handshake
    <2>1. greeted' = greeted /\ (pc' = "protocol" => pc = "protocol")
      BY <1>3 DEF TaskStep, RespondStep, ConnTask, AwaitProtocol, Scan, Drain,
                  DrainFails, PollStream, Decode, DecodeHeaders, DecodeUpdate,
                  DecodeOther, DecodeJunk, Accept, Await, Respond, Leave, serverVars
    <2> QED
      BY <1>1, <2>1 DEF HandshakeInv
  <1> QED
    BY <1>2, <1>3

LEMMA HandshakeInit == Init => HandshakeInv
  BY DEF Init, SocketInit, FastInit, ServerInit, HandshakeInv

LEMMA HandshakeInductive ==
    TypeOK /\ HandshakeInv /\ [Next]_vars => HandshakeInv'
  <1> SUFFICES ASSUME TypeOK, HandshakeInv, [Next]_vars PROVE HandshakeInv'
    OBVIOUS
  <1>1. CASE UNCHANGED vars
    BY <1>1 DEF vars, socketVars, fastVars, userVars, serverVars, HandshakeInv
  <1> QED
    BY <1>1, HandshakeKernel, HandshakeClient, HandshakeTask DEF Next

(* The fast path answers nothing before the server's SETTINGS went out, so *)
(* a response never preempts the handshake.                                *)
THEOREM SettingsComeFirst == Spec => []SettingsFirst
  <1>1. HandshakeInv => SettingsFirst
    BY DEF HandshakeInv, SettingsFirst
  <1>2. TypeInv => TypeOK
    BY DEF TypeInv
  <1> QED
    BY <1>1, <1>2, TypeInvInit, TypeInductive, HandshakeInit,
       HandshakeInductive, PTL DEF Spec

-----------------------------------------------------------------------------
(* Every byte served is accounted for.                                     *)

(* Positions that a stream and a longer one agree on tell the same total.  *)
LEMMA UpToExtend ==
    ASSUME NEW kind, NEW base, NEW u,
           NEW s \in Seq(Frame), NEW t \in Seq(Frame),
           NEW i \in Nat, i <= Len(s), Len(s) <= Len(t),
           \A k \in 1 .. Len(s) : t[k] = s[k],
           UpTo(kind, base, s, i, u)
    PROVE  UpTo(kind, base, t, i, u)
  <1>1. \A k \in 1 .. i : t[k] = s[k]
    OBVIOUS
  <1>2. \A j \in 1 .. i : \A k \in j + 1 .. i : t[k] = s[k]
    BY <1>1
  <1> QED
    BY <1>1, <1>2 DEF UpTo

(* Frames of other kinds do not change the total.                          *)
LEMMA UpToSkip ==
    ASSUME NEW kind, NEW base, NEW s, NEW u,
           NEW i \in Nat, NEW j \in Nat, i <= j,
           \A k \in i + 1 .. j : s[k].kind # kind,
           UpTo(kind, base, s, i, u)
    PROVE  UpTo(kind, base, s, j, u)
  <1>1. CASE u = base /\ \A k \in 1 .. i : s[k].kind # kind
    BY <1>1 DEF UpTo
  <1>2. ASSUME NEW m \in 1 .. i, s[m].kind = kind, u = s[m].upto,
               \A k \in m + 1 .. i : s[k].kind # kind
        PROVE  UpTo(kind, base, s, j, u)
    <2>1. m \in 1 .. j /\ \A k \in m + 1 .. j : s[k].kind # kind
      BY <1>2
    <2> QED
      BY <1>2, <2>1 DEF UpTo
  <1> QED
    BY <1>1, <1>2 DEF UpTo

LEMMA UpToHere ==
    ASSUME NEW kind, NEW base, NEW s, NEW i \in Nat \ {0}, s[i].kind = kind
    PROVE  UpTo(kind, base, s, i, s[i].upto)
  <1>1. i \in 1 .. i /\ \A k \in i + 1 .. i : s[k].kind # kind
    OBVIOUS
  <1> QED
    BY <1>1 DEF UpTo

LEMMA UpToUnique ==
    ASSUME NEW kind, NEW base, NEW s, NEW u, NEW v, NEW i \in Nat,
           UpTo(kind, base, s, i, u), UpTo(kind, base, s, i, v)
    PROVE  u = v
  <1>1. CASE \A j \in 1 .. i : s[j].kind # kind
    BY <1>1 DEF UpTo
  <1>2. CASE ~ \A j \in 1 .. i : s[j].kind # kind
    <2>1. PICK a \in 1 .. i : /\ s[a].kind = kind /\ u = s[a].upto
                              /\ \A k \in a + 1 .. i : s[k].kind # kind
      BY <1>2 DEF UpTo
    <2>2. PICK b \in 1 .. i : /\ s[b].kind = kind /\ v = s[b].upto
                              /\ \A k \in b + 1 .. i : s[k].kind # kind
      BY <1>2 DEF UpTo
    <2>3. ~(a < b) /\ ~(b < a)
      BY <2>1, <2>2
    <2> QED
      BY <2>1, <2>2, <2>3
  <1> QED
    BY <1>1, <1>2

LEMMA ReportedHere ==
    ASSUME NEW s, NEW i \in Nat \ {0}, s[i].kind = "fc"
    PROVE  ReportedBy(s, i, s[i].upto)
  <1>1. UpTo("fc", 0, s, i, s[i].upto)
    BY UpToHere, Zenon
  <1> QED
    BY <1>1 DEF ReportedBy

(* What a verdict adds behind `wire` in which no report is.                *)
LEMMA FlowQuiet ==
    ASSUME TypeOK, TypeOK', FlowInv, KernelStep,
           \A i \in Len(wire) + 1 .. Len(wire') : wire'[i].kind # "fc",
           servedBytes' - unreported' = servedBytes - unreported,
           \A i \in DOMAIN msg' : ~Private(msg'[i]),
           h2_state' = "none" => unreported' = 0 /\ servedBytes' = 0,
           scanned <= Len(wire)
    PROVE  FlowInv'
  <1>1. /\ wire \in Seq(Frame) /\ wire' \in Seq(Frame)
        /\ Len(wire) <= Len(wire')
        /\ \A i \in 1 .. Len(wire) : wire'[i] = wire[i]
        /\ Len(wire) \in Nat /\ Len(wire') \in Nat /\ scanned \in Nat
        /\ scanned' = scanned /\ reported' = reported /\ taken' = taken
    BY WireGrows, KernelLeaves DEF TypeOK, SocketTypeOK, ListenerTypeOK
  <1>2. ReportedBy(wire', Len(wire'), servedBytes' - unreported')
    <2>1. ReportedBy(wire', Len(wire), servedBytes - unreported)
      BY <1>1, UpToExtend DEF ReportedBy, FlowInv
    <2> QED
      BY <1>1, <2>1, UpToSkip DEF ReportedBy
  <1>3. ReportedBy(wire', scanned', reported' + taken')
    BY <1>1, UpToExtend DEF ReportedBy, FlowInv
  <1>4. ASSUME NEW i \in DOMAIN wire', wire'[i].kind = "fc"
        PROVE  ReportedBy(wire', i - 1, wire'[i].upto - wire'[i].sent)
    <2>1. i \in 1 .. Len(wire) /\ wire'[i] = wire[i] /\ i \in DOMAIN wire
      BY <1>1, <1>4
    <2>2. ReportedBy(wire, i - 1, wire'[i].upto - wire'[i].sent)
      BY <1>4, <2>1 DEF FlowInv
    <2>3. i - 1 \in Nat /\ i - 1 <= Len(wire)
      BY <1>1, <2>1
    <2> QED
      BY <1>1, <2>2, <2>3, UpToExtend DEF ReportedBy
  <1> QED
    BY <1>2, <1>3, <1>4 DEF FlowInv

LEMMA FlowKernel ==
    ASSUME TypeInv, TypeOK', FlowInv, KernelStep
    PROVE  FlowInv'
  <1>1. /\ msg \in Seq(Frame) /\ wire \in Seq(Frame) /\ wire' \in Seq(Frame)
        /\ Len(wire) \in Nat /\ scanned \in Nat /\ scanned <= Len(wire)
        /\ unreported \in Nat /\ servedBytes \in Nat
        /\ \A i \in DOMAIN msg : ~Private(msg[i])
    <2>1. /\ msg \in Seq(Frame) /\ wire \in Seq(Frame) /\ wire' \in Seq(Frame)
          /\ unreported \in Nat /\ servedBytes \in Nat
      BY DEF TypeInv, TypeOK, SocketTypeOK, FastTypeOK
    <2>2. /\ scanned \in Nat /\ arrived \in Nat
          /\ scanned <= arrived /\ arrived <= Len(wire)
      BY DEF TypeInv, TypeOK, ListenerTypeOK, Cursors
    <2>3. Len(wire) \in Nat
      BY <2>1
    <2>4. scanned <= Len(wire)
      BY <2>2, <2>3
    <2>5. \A i \in DOMAIN msg : ~Private(msg[i])
      BY DEF FlowInv
    <2> QED
      BY <2>1, <2>2, <2>3, <2>4, <2>5
  <1>2. TypeOK
    BY DEF TypeInv
  <1>3. CASE Upgrade
    <2>1. /\ wire' = Append(wire, Preface) /\ unreported' = 0
          /\ servedBytes' = servedBytes /\ msg' = Tail(msg) /\ msg # <<>>
          /\ h2_state' = "upgraded" /\ h2_state = "none"
      BY <1>3 DEF Upgrade
    <2>2. \A i \in Len(wire) + 1 .. Len(wire') : wire'[i].kind # "fc"
      BY <1>1, <2>1 DEF Preface
    <2>3. \A i \in DOMAIN msg' : ~Private(msg'[i])
      BY <1>1, <2>1
    <2>4. unreported = 0
      BY <2>1 DEF FlowInv
    <2> QED
      BY <1>1, <1>2, <2>1, <2>2, <2>3, <2>4, FlowQuiet
  <1>4. CASE ParseFails \/ PassUnparsed
    <2>1. /\ wire' = wire \o msg /\ msg' = <<>>
          /\ UNCHANGED <<unreported, servedBytes, h2_state>>
      BY <1>4 DEF ParseFails, PassUnparsed, fastVars
    <2>2. \A i \in Len(wire) + 1 .. Len(wire') : wire'[i].kind # "fc"
      BY <1>1, <2>1 DEF Private
    <2>3. \A i \in DOMAIN msg' : ~Private(msg'[i])
      BY <2>1
    <2> QED
      BY <1>1, <1>2, <2>1, <2>2, <2>3, FlowQuiet DEF FlowInv
  <1>5. ASSUME NEW f, f = Head(msg), msg # <<>>, Serve(f)
        PROVE  FlowInv'
    <2>1. /\ wire' = wire /\ msg' = <<>> /\ h2_state' # "none"
          /\ f.kind = "headers" /\ f.path \in Routes
          /\ unreported' = unreported + DataLen[f.path]
          /\ servedBytes' = servedBytes + DataLen[f.path]
      BY <1>5 DEF Serve, Redirect, Charge, Servable
    <2>2. DataLen[f.path] \in Nat
      BY <2>1, RouteAssumption
    <2>3. servedBytes' - unreported' = servedBytes - unreported
      BY <1>1, <2>1, <2>2, SMTT(30)
    <2> QED
      BY <1>1, <1>2, <2>1, <2>3, FlowQuiet
  <1>6. ASSUME NEW f, f = Head(msg), msg # <<>>, Drop(f)
        PROVE  FlowInv'
    <2>1. /\ wire' = wire /\ msg' = <<>> /\ h2_state' # "none"
          /\ UNCHANGED <<unreported, servedBytes>>
      BY <1>6 DEF Drop, Follow, Parsed
    <2> QED
      BY <1>1, <1>2, <2>1, FlowQuiet
  <1>7. ASSUME NEW f, f = Head(msg), msg # <<>>,
               Forward(f) \/ ServePartly(f) \/ Overwrite(f)
        PROVE  FlowInv'
    <2>0. PICK x : Passes(f, x)
      BY <1>2, <1>7, Passing
    <2>1. x \in Frame /\ ~Private(x) /\ x.kind # "fc"
      <3>1. f \in Frame /\ ~Private(f)
        BY <1>1, <1>7
      <3>2. x \in Frame
        BY <2>0, <3>1, PassesFrame
      <3> QED
        BY <2>0, <3>1, <3>2 DEF Passes, Private, Junk, Other
    <2>2. /\ UNCHANGED servedBytes
          /\ h2_state' # "none"
          /\ Report(x) \/ NoReport(x) \/ Stray(x)
      BY <2>0 DEF Passes, Follow, Parsed
    <2>3. \A i \in DOMAIN msg' : ~Private(msg'[i])
      <3>1. Behind(msg')
        BY <1>2, <1>7, Passing
      <3> QED
        BY <1>1, <3>1 DEF Behind, Private, Junk
    <2>4. CASE NoReport(x) \/ Stray(x)
      <3>1. \A i \in Len(wire) + 1 .. Len(wire') : wire'[i].kind # "fc"
        <4>1. DtSync(mirror).kind # "fc" /\ Junk.kind # "fc"
          BY DEF DtSync, Junk
        <4> HIDE DEF Junk
        <4>2. CASE NoReport(x) /\ dirty
          BY <1>1, <1>2, <2>1, <4>1, <4>2, NoReportWire
        <4>3. CASE NoReport(x) /\ ~dirty
          BY <1>1, <1>2, <2>1, <4>3, NoReportWire
        <4>4. CASE Stray(x) /\ dirty
          BY <1>1, <1>2, <2>1, <4>1, <4>4, StrayWire, SMTT(30)
        <4>5. CASE Stray(x) /\ ~dirty
          BY <1>1, <1>2, <2>1, <4>1, <4>5, StrayWire
        <4> QED
          BY <2>4, <4>2, <4>3, <4>4, <4>5
      <3>2. UNCHANGED unreported
        BY <2>4 DEF NoReport, Stray
      <3> QED
        BY <1>1, <1>2, <2>2, <2>3, <3>1, <3>2, FlowQuiet
    <2>5. CASE Report(x)
      <3> DEFINE n == Len(wire)
      <3>1. /\ wire'[n + 1] = FcSync(unreported, servedBytes)
            /\ n + 1 <= Len(wire') /\ Len(wire') \in Nat
            /\ \A i \in n + 2 .. Len(wire') : wire'[i].kind # "fc"
        <4>1. DtSync(mirror).kind # "fc"
          BY DEF DtSync
        <4>2. CASE dirty
          BY <1>1, <1>2, <2>1, <2>5, <4>1, <4>2, ReportWire, SMTT(30)
        <4>3. CASE ~dirty
          BY <1>1, <1>2, <2>1, <2>5, <4>3, ReportWire
        <4> QED
          BY <4>2, <4>3
      <3>2. /\ wire'[n + 1].kind = "fc"
            /\ wire'[n + 1].upto = servedBytes
            /\ wire'[n + 1].sent = unreported
        BY <3>1 DEF FcSync
      <3>3. unreported' = 0
        BY <2>5 DEF Report
      <3>4. /\ Len(wire) <= Len(wire')
            /\ \A i \in 1 .. Len(wire) : wire'[i] = wire[i]
            /\ scanned' = scanned /\ reported' = reported /\ taken' = taken
        BY <1>2, WireGrows, KernelLeaves
      <3>5. ReportedBy(wire', Len(wire'), servedBytes' - unreported')
        <4>1. ReportedBy(wire', n + 1, servedBytes)
          BY <1>1, <3>2, ReportedHere
        <4>2. ReportedBy(wire', Len(wire'), servedBytes)
          BY <1>1, <3>1, <4>1, UpToSkip DEF ReportedBy
        <4> QED
          BY <1>1, <2>2, <3>3, <4>2
      <3>6. ReportedBy(wire', scanned', reported' + taken')
        BY <1>1, <3>4, UpToExtend DEF ReportedBy, FlowInv
      <3>7. ASSUME NEW i \in DOMAIN wire', wire'[i].kind = "fc"
            PROVE  ReportedBy(wire', i - 1, wire'[i].upto - wire'[i].sent)
        <4>1. i \in 1 .. n \/ i = n + 1
          BY <1>1, <3>1, <3>7
        <4>2. CASE i \in 1 .. n
          <5>1. wire'[i] = wire[i] /\ i \in DOMAIN wire
            BY <1>1, <3>4, <4>2
          <5>2. ReportedBy(wire, i - 1, wire'[i].upto - wire'[i].sent)
            BY <3>7, <5>1 DEF FlowInv
          <5>3. i - 1 \in Nat /\ i - 1 <= Len(wire)
            BY <1>1, <4>2
          <5> QED
            BY <1>1, <3>4, <5>2, <5>3, UpToExtend DEF ReportedBy
        <4>3. CASE i = n + 1
          <5>1. ReportedBy(wire', n, servedBytes - unreported)
            BY <1>1, <3>4, UpToExtend DEF ReportedBy, FlowInv
          <5> QED
            BY <1>1, <3>2, <4>3, <5>1
        <4> QED
          BY <4>1, <4>2, <4>3
      <3> QED
        BY <2>2, <2>3, <3>5, <3>6, <3>7 DEF FlowInv
    <2> QED
      BY <2>2, <2>4, <2>5
  <1> QED
    BY <1>3, <1>4, <1>5, <1>6, <1>7 DEF KernelStep, Verdict

LEMMA FlowTask ==
    ASSUME TypeInv, FlowInv, TaskStep \/ RespondStep
    PROVE  FlowInv'
  <1>1. /\ UNCHANGED <<msg, wire, h2_state, unreported, servedBytes>>
        /\ wire \in Seq(Frame) /\ scanned \in Nat
        /\ reported \in Nat /\ taken \in Nat
    BY TaskLeaves
    DEF TypeInv, TypeOK, SocketTypeOK, ListenerTypeOK, ServerTypeOK
  <1> SUFFICES ReportedBy(wire, scanned', reported' + taken')
    BY <1>1 DEF FlowInv
  <1>2. ReportedBy(wire, scanned, reported + taken)
    BY DEF FlowInv
  <1>3. CASE Scan
    <2> DEFINE f == wire[scanned + 1]
    <2>1. /\ scanned + 1 \in DOMAIN wire /\ scanned' = scanned + 1
          /\ reported' = IF f.kind = "fc" THEN reported + f.sent ELSE reported
          /\ taken' = taken
      BY <1>1, <1>3
      DEF Scan, ScanFrame, serverVars, TypeInv, Cursors, TypeOK, ListenerTypeOK
    <2>2. CASE f.kind = "fc"
      <3>1. f.upto \in Nat /\ f.sent \in Nat
        <4>1. f \in Frame
          BY <1>1, <2>1
        <4> QED
          BY <2>2, <4>1, FrameFields
      <3>2. ReportedBy(wire, scanned, f.upto - f.sent)
        <4>1. ASSUME NEW i \in DOMAIN wire, wire[i].kind = "fc",
                     i - 1 = scanned
              PROVE  ReportedBy(wire, scanned, wire[i].upto - wire[i].sent)
          <5>1. ReportedBy(wire, i - 1, wire[i].upto - wire[i].sent)
            BY <4>1 DEF FlowInv
          <5> QED
            BY <4>1, <5>1, Zenon
        <4>2. (scanned + 1) - 1 = scanned
          BY <1>1
        <4> QED
          BY <2>1, <2>2, <4>1, <4>2
      <3>3. reported + taken = f.upto - f.sent
        BY <1>1, <1>2, <3>2, UpToUnique DEF ReportedBy
      <3>4. reported' + taken' = f.upto
        <4>1. reported' = reported + f.sent /\ taken' = taken
          BY <2>1, <2>2
        <4> HIDE DEF f
        <4> QED
          BY <1>1, <3>1, <3>3, <4>1
      <3>5. ReportedBy(wire, scanned + 1, f.upto)
        BY <1>1, <2>2, ReportedHere
      <3> QED
        BY <2>1, <3>4, <3>5
    <2>3. CASE f.kind # "fc"
      <3>1. \A k \in scanned + 1 .. scanned + 1 : wire[k].kind # "fc"
        BY <1>1, <2>3
      <3>2. ReportedBy(wire, scanned + 1, reported + taken)
        BY <1>1, <1>2, <3>1, UpToSkip DEF ReportedBy
      <3> QED
        BY <2>1, <2>3, <3>2
    <2> QED
      BY <2>2, <2>3
  <1>4. CASE Drain \/ DrainFails
    <2>1. scanned' = scanned /\ reported' = 0 /\ taken' = taken + reported
      BY <1>4 DEF Drain, DrainFails, TakeFlow, FlowRefused, TableRefused
    <2>2. reported' + taken' = reported + taken
      BY <1>1, <2>1
    <2> QED
      BY <1>2, <2>1, <2>2
  <1>5. CASE ~Scan /\ ~Drain /\ ~DrainFails
    <2>1. UNCHANGED <<scanned, reported, taken>>
      <3>1. CASE AwaitProtocol \/ PollStream
        BY <3>1 DEF AwaitProtocol, PollStream, ReadSocket, ScanHeld, HandOut,
                    serverVars
      <3>2. CASE Handshake \/ Decode \/ Accept \/ Await
        BY <3>2 DEF Handshake, Decode, Accept, Await, listenerVars
      <3>3. CASE RespondStep
        BY <3>3 DEF RespondStep, Respond, Leave, listenerVars
      <3> QED
        BY <1>5, <3>1, <3>2, <3>3 DEF TaskStep, ConnTask
    <2> QED
      BY <1>2, <2>1
  <1> QED
    BY <1>3, <1>4, <1>5

LEMMA FlowClient ==
    ASSUME TypeInv, FlowInv, ClientStep
    PROVE  FlowInv'
  <1>1. PICK f : Send(f) /\ ~Private(f)
    BY ClientLeaves DEF Private
  <1>2. msg' = Append(msg, f) /\ msg \in Seq(Frame)
    BY <1>1 DEF Send, TypeInv, TypeOK, SocketTypeOK
  <1>3. \A i \in DOMAIN msg' : ~Private(msg'[i])
    BY <1>1, <1>2 DEF FlowInv
  <1>4. UNCHANGED <<wire, h2_state, unreported, servedBytes, scanned, reported,
                    taken>>
    BY ClientLeaves
  <1> QED
    BY <1>3, <1>4 DEF FlowInv

LEMMA FlowInit == Init => FlowInv
  <1> SUFFICES ASSUME Init PROVE FlowInv
    OBVIOUS
  <1>1. /\ msg = <<>> /\ wire = <<>> /\ scanned = 0 /\ reported = 0
        /\ taken = 0 /\ unreported = 0 /\ servedBytes = 0
    BY DEF Init, SocketInit, FastInit, ListenerInit, ServerInit
  <1> QED
    BY <1>1 DEF FlowInv, ReportedBy, UpTo

LEMMA FlowInductive ==
    TypeInv /\ FlowInv /\ [Next]_vars => FlowInv'
  <1> SUFFICES ASSUME TypeInv, FlowInv, [Next]_vars PROVE FlowInv'
    OBVIOUS
  <1>1. TypeOK'
    BY TypeInductive DEF TypeInv
  <1>2. CASE UNCHANGED vars
    BY <1>2 DEF vars, socketVars, fastVars, userVars, listenerVars, serverVars,
                FlowInv
  <1> QED
    BY <1>1, <1>2, FlowKernel, FlowTask, FlowClient DEF Next
=============================================================================
