-------------------------- MODULE BeeperInvariants --------------------------
(***************************************************************************)
(* The inductive invariants behind the theorems of BeeperProofs, kept      *)
(* apart so that TLC can check them as well.                               *)
(***************************************************************************)
EXTENDS Beeper

-----------------------------------------------------------------------------
(* The cursors of user space follow one another, and an update that is     *)
(* pending is the frame the scan stopped at.                               *)
Cursors ==
    /\ decoded <= handed
    /\ handed <= scanned
    /\ scanned <= arrived
    /\ arrived <= Len(wire)
    /\ pending => scanned >= 1 /\ wire[scanned].kind = "dt"
    /\ pc = "protocol" => handed = 0 /\ decoded = 0

TypeInv == TypeOK /\ Cursors

-----------------------------------------------------------------------------
(* Window updates in front of the program keep the order and the amounts   *)
(* they were granted in, and what the program has or had to spend stops    *)
(* short of every update it has not seen.                                  *)
GrantInv ==
    /\ InitWindow <= granted
    /\ \A i \in DOMAIN msg : msg[i].kind = "window" =>
          /\ msg[i].upto <= granted
          /\ InitWindow <= msg[i].upto - msg[i].inc
          /\ h2_state # "none" =>
                conn_window + servedBytes <= msg[i].upto - msg[i].inc
    /\ \A i, j \in DOMAIN msg :
          i < j /\ msg[i].kind = "window" /\ msg[j].kind = "window"
              => msg[i].upto <= msg[j].upto - msg[j].inc
    /\ h2_state # "none" => conn_window + servedBytes <= granted
    /\ h2_state = "none" => servedBytes = 0

(* An acknowledgement is proof that the server's SETTINGS went out.        *)
HandshakeInv ==
    /\ \A i \in DOMAIN msg : msg[i].kind = "ack" => greeted
    /\ h2_state = "handshaked" => greeted
    /\ served # {} => greeted
    /\ pc = "protocol" => ~greeted

-----------------------------------------------------------------------------
(* `u` is the total that the frames of kind `k` among the first `i` of `s` *)
(* come to: what the last of them says, or `base` if there is none.        *)
UpTo(k, base, s, i, u) ==
    \/ u = base /\ \A j \in 1 .. i : s[j].kind # k
    \/ \E j \in 1 .. i :
          /\ s[j].kind = k
          /\ u = s[j].upto
          /\ \A m \in j + 1 .. i : s[m].kind # k

ReportedBy(s, i, u) == UpTo("fc", 0, s, i, u)

FlowInv ==
    /\ \A i \in DOMAIN msg : ~Private(msg[i])
    /\ h2_state = "none" => unreported = 0 /\ servedBytes = 0
    /\ ReportedBy(wire, Len(wire), servedBytes - unreported)
    /\ ReportedBy(wire, scanned, reported + taken)
    /\ \A i \in DOMAIN wire : wire[i].kind = "fc" =>
          ReportedBy(wire, i - 1, wire[i].upto - wire[i].sent)

-----------------------------------------------------------------------------
(* The frames a decoder's table depends on, and the table after one.       *)
Changes(f) == f.kind \in {"headers", "dt"}

After(f) == IF f.kind = "dt" THEN f.table ELSE Learn(f.ctx, f.add)

(* `t` is the table after the first `i` frames of `s`.                     *)
TableAt(s, i, t) ==
    \/ t = <<>> /\ \A j \in 1 .. i : ~Changes(s[j])
    \/ \E j \in 1 .. i :
          /\ Changes(s[j])
          /\ t = After(s[j])
          /\ \A k \in j + 1 .. i : ~Changes(s[k])

(* The client's side: one frame at a time, the preface first.              *)
ClientInv ==
    /\ ~skip
    /\ Len(msg) <= 1
    /\ \A i \in DOMAIN msg : ~Private(msg[i]) /\ msg[i].kind # "junk"
    /\ h2_state = "none" =>
          /\ wire = <<>> /\ mirror = <<>> /\ ~dirty
          /\ cliTable = <<>> /\ sent = Len(msg)
          /\ \A i \in DOMAIN msg : msg[i] = Preface
    /\ h2_state # "none" =>
          /\ sent >= 1
          /\ \A i \in DOMAIN msg : msg[i].kind # "preface"
          /\ wire # <<>>
          /\ wire[1] = Preface

(* The fast path's side: what went out leads a decoder to the mirror, or   *)
(* the connection is marked.                                               *)
MirrorInv ==
    /\ msg = <<>> => cliTable = mirror
    /\ \A i \in DOMAIN msg : cliTable = LearnFrom(mirror, msg[i])
    /\ \A i \in DOMAIN msg : msg[i].kind = "headers" => msg[i].ctx = mirror
    /\ \A i \in DOMAIN wire : wire[i].kind = "headers" =>
          TableAt(wire, i - 1, wire[i].ctx)
    /\ ~dirty => TableAt(wire, Len(wire), mirror)
    /\ dirty => h2_state = "handshaked"
    /\ \A i \in DOMAIN wire : wire[i].kind = "dt" => h2_state = "handshaked"

(* The codec's table is the one after the first `d` frames: those of them  *)
(* that are the codec's to decode are decoded, and no update behind them   *)
(* has been taken.                                                         *)
AppliedTo(d) ==
    /\ decoded <= d
    /\ d <= scanned
    /\ TableAt(wire, d, decTable)
    /\ \A i \in decoded + 1 .. d : Private(wire[i])
    /\ \A i \in d + 1 .. scanned :
          wire[i].kind = "dt" => pending /\ i = scanned

(* The codec's side.  An update is taken only with nothing left undecoded  *)
(* in front of it.                                                         *)
DecoderInv ==
    /\ scanning => ~pending
    /\ \E d \in 0 .. scanned : AppliedTo(d)
    /\ pc = "drain" /\ pending =>
          \A i \in decoded + 1 .. scanned : Private(wire[i])
    /\ DecodesInStep

TablesInv == ClientInv /\ MirrorInv /\ DecoderInv

-----------------------------------------------------------------------------
(* As long as no report fails, one is only due with a table, and so has it *)
(* right behind it.                                                        *)
PairInv ==
    /\ unreported > 0 => dirty
    /\ h2_state # "none" => wire # <<>>
    /\ wire # <<>> => ~Private(wire[1])
    /\ \A i \in DOMAIN wire : wire[i].kind = "fc" =>
          i + 1 \in DOMAIN wire /\ wire[i + 1].kind = "dt"

(* The scan has at most one report behind it that is not taken: the one    *)
(* just scanned, or the one the pending table came with.                   *)
TakenInv ==
    /\ scanning => ~pending
    /\ decoded = 0 \/ Public(decoded)
    /\ \A i \in 1 .. scanned : wire[i].kind = "fc" =>
          \/ wire[i].upto <= taken
          \/ i = scanned
          \/ i + 1 = scanned /\ pending

-----------------------------------------------------------------------------
(* `f` is the request on stream `s`.                                       *)
Asks(f, s) == f.kind = "headers" /\ f.sid = s

Waiting(s) == \E i \in DOMAIN msg : Asks(msg[i], s)
Passed(s) == \E i \in DOMAIN wire : Asks(wire[i], s)
Served(s) == \E r \in served : r.sid = s

(* On the kernel's side a request is in one place, and there once.         *)
PlaceInv ==
    /\ \A s \in Nat : Waiting(s) \/ Passed(s) \/ Served(s) => s \in DOMAIN asked
    /\ \A s \in Nat :
          /\ Waiting(s) => ~Passed(s) /\ ~Served(s)
          /\ Passed(s) => ~Served(s)
          /\ \A i, j \in DOMAIN msg :
                Asks(msg[i], s) /\ Asks(msg[j], s) => i = j
          /\ \A i, j \in DOMAIN wire :
                Asks(wire[i], s) /\ Asks(wire[j], s) => i = j
    /\ \A r, q \in served : r.sid = q.sid => r = q

(* The same in user space, where each request has been decoded.            *)
Decoded(s) == \E i \in 1 .. decoded : Asks(wire[i], s)

(* Whatever has become of what the codec yielded.                          *)
Accepted == inService \cup responded \cup left

AnswerInv ==
    /\ \A i \in DOMAIN incoming : Decoded(incoming[i].sid)
    /\ \A r \in Accepted : Decoded(r.sid)
    /\ \A i, j \in DOMAIN incoming : incoming[i].sid = incoming[j].sid => i = j
    /\ \A i \in DOMAIN incoming, r \in Accepted : incoming[i].sid # r.sid
    /\ \A r, q \in Accepted : r.sid = q.sid => r = q
    /\ \A r \in inService : r \notin responded /\ r \notin left

(* A request goes by the path that the client asked for, wherever it is,   *)
(* as long as it is decoded against the right table.                       *)
AskedInv ==
    /\ \A i \in DOMAIN msg :
          msg[i].kind = "headers" => msg[i].path = asked[msg[i].sid]
    /\ \A i \in DOMAIN wire :
          wire[i].kind = "headers" => wire[i].path = asked[wire[i].sid]
    /\ \A i \in DOMAIN incoming :
          incoming[i].path \in {asked[incoming[i].sid], Garbled}
    /\ \A r \in inService \cup responded : r.path \in {asked[r.sid], Garbled}

(* With one frame per message none is lost either.                         *)
KeptInv ==
    /\ Len(msg) <= 1
    /\ cut \/ \A s \in DOMAIN asked : Waiting(s) \/ Passed(s) \/ Served(s)

-----------------------------------------------------------------------------
(* What the client has opened by an update still in front of the program.  *)
Unseen == IF msg # <<>> /\ msg[1].kind = "window" THEN msg[1].inc ELSE 0

(* What the codec has left and has spent.                                  *)
Account == sndWindow + taken + srvSent

OpenedBy(s, i, u) == UpTo("window", InitWindow, s, i, u)

(* The preface is ahead of everything else.                                *)
FirstInv ==
    /\ h2_state # "none" => wire # <<>>
    /\ sent = 0 <=> wire = <<>> /\ msg = <<>>
    /\ wire # <<>> => wire[1] = Preface
    /\ wire = <<>> /\ msg # <<>> => msg[1] = Preface

(* What the codec has left and has spent is what the updates it has        *)
(* decoded have opened, unless it ended on a report that it refused.       *)
SharesInv == pc # "closed" => Account = Opened(decoded)

(* With one frame per message every update reaches the stream, until a     *)
(* message is dropped.  The updates there form a chain.                    *)
UpdateInv ==
    /\ Len(msg) <= 1
    /\ \A i \in DOMAIN msg : msg[i].kind = "window" => msg[i].upto = granted
    /\ cut => msg = <<>>
    /\ cut \/ OpenedBy(wire, Len(wire), granted - Unseen)
    /\ \A i \in DOMAIN wire : wire[i].kind = "window" =>
          OpenedBy(wire, i - 1, wire[i].upto - wire[i].inc)
=============================================================================
