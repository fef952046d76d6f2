------------------------------- MODULE Scanner -------------------------------
(***************************************************************************)
(* Scanner and BeeperStream of listener.rs, a byte at a time: the socket   *)
(* hands the bytes over in chunks that respect no frame, the scanner finds *)
(* the frames in them and takes the private ones out.                      *)
(*                                                                         *)
(* A byte is its position in the stream, so that one that is lost, doubled *)
(* or moved shows.  Lengths are scaled down: what matters is that a header *)
(* or a payload can be split anywhere and that a payload can be empty, as  *)
(* the update for an empty table is.                                       *)
(***************************************************************************)
EXTENDS H2Frames, SequencesExt, Sums

CONSTANTS
    Streams,     \* what may come from the fast path
    PrefaceLen,  \* PREFACE.len(), 24
    HeaderLen,   \* FRAME_HEADER_LEN, 9
    FcLen,       \* FC_SYNC_BODY_LEN, 4
    PayloadLen,  \* the payload of the other kinds of frame
    Shared,      \* bytes something else than HTTP/2 has in common with PREFACE
    MaxSyncFrame,\* MAX_SYNC_FRAME
    ReadChunk    \* READ_CHUNK

VARIABLES
    state,     \* Preface, Header, Payload, Flow, Sync or Blind
    buf,       \* the header collected so far
    count,     \* bytes matched, got or remaining in that state
    block,     \* the update collected so far
    received,  \* bytes read from the socket
    rest,      \* what Scanner::scan has still to walk
    hold,
    out,
    read,      \* history: the bytes handed to the reader
    blocks,    \* SyncHandle
    sent       \* FlowHandle

scanVars == <<state, buf, count, block, rest>>
streamVars == <<scanVars, received, hold, out, read, blocks, sent>>
vars == <<socketVars, streamVars>>

-----------------------------------------------------------------------------
Payload(f) ==
    CASE f.kind = "dt" -> Len(f.table)
      [] f.kind = "fc" -> FcLen
      [] OTHER         -> PayloadLen[f.kind]

Size(f) == IF f = Preface THEN PrefaceLen ELSE HeaderLen + Payload(f)

(* The position of the last byte of frame `i`, and the frame a byte is of. *)
End(i) == SumTo([j \in DOMAIN wire |-> Size(wire[j])], i)

Within(p, i) == End(i - 1) < p /\ p <= End(i)

FrameAt(p) == CHOOSE i \in DOMAIN wire : Within(p, i)

Total == End(Len(wire))

ASSUME LengthAssumption ==
    /\ PrefaceLen \in Nat \ {0}
    /\ HeaderLen \in Nat \ {0}
    /\ FcLen \in Nat \ {0}
    /\ Shared \in 0 .. PrefaceLen - 1
    /\ MaxSyncFrame \in Nat

(* An HTTP/2 connection opens with the preface, and the fast path keeps    *)
(* its updates below what the scanner accepts.  What is not HTTP/2 it      *)
(* passes on untouched: to the scanner that is all of a piece.             *)
ASSUME StreamAssumption ==
    \A w \in Streams :
        /\ w \in Seq(Frame) /\ w # <<>>
        /\ \A i \in DOMAIN w : w[i] # Preface => Payload(w[i]) \in Nat
        /\ \/ /\ w[1] = Preface
              /\ \A i \in DOMAIN w :
                    /\ i # 1 => w[i] # Preface
                    /\ w[i].kind = "dt" => Payload(w[i]) <= MaxSyncFrame
           \/ Len(w) = 1 /\ w[1] # Preface /\ ~Private(w[1])

IsPreface(p, k) == p = k /\ (wire[1] = Preface \/ k <= Shared)

Take(s, n) == SubSeq(s, 1, n)
Skip(s, n) == SubSeq(s, n + 1, Len(s))
Least(m, n) == IF m < n THEN m ELSE n

-----------------------------------------------------------------------------
Init ==
    /\ wire \in Streams
    /\ msg = <<>> /\ cut = FALSE
    /\ state = "Preface" /\ buf = <<>> /\ count = 0 /\ block = <<>>
    /\ received = 0 /\ rest = <<>> /\ hold = <<>>
    /\ out = <<>> /\ read = <<>>
    /\ blocks = <<>> /\ sent = 0

IsPending == blocks # <<>>

Scanning == rest # <<>>

(* Scanner::scan walks its input in one go; each step below is one turn of *)
(* its loop.                                                               *)
Goto(s, n) == state' = s /\ count' = n /\ buf' = <<>> /\ block' = <<>>

ScanBlind ==
    /\ Scanning /\ state = "Blind"
    /\ out' = out \o rest
    /\ rest' = <<>>
    /\ UNCHANGED <<state, buf, count, block, hold, blocks, sent>>

ScanPreface ==
    /\ Scanning /\ state = "Preface"
    /\ LET n == Least(PrefaceLen - count, Len(rest)) IN
       IF \A j \in 1 .. n : IsPreface(rest[j], count + j)
       THEN /\ out' = out \o Take(rest, n)
            /\ rest' = Skip(rest, n)
            /\ IF count + n = PrefaceLen THEN Goto("Header", 0)
               ELSE Goto("Preface", count + n)
       ELSE /\ out' = out \o rest
            /\ rest' = <<>>
            /\ Goto("Blind", 0)
    /\ UNCHANGED <<hold, blocks, sent>>

(* Slip: only the payload of an update is dropped, its header stays.       *)
KeepHeader(h) ==
    LET f == wire[FrameAt(h[1])] IN
    CASE f.kind = "fc" ->
            out' = out /\ Goto("Flow", 0)
      [] f.kind = "dt" ->
            out' = out \o h /\ Goto("Sync", Payload(f))
      [] OTHER ->
            out' = out \o h /\ Goto("Payload", Payload(f))

(* What a complete header `h` says of its frame.                           *)
ReadHeader(h) ==
    LET f == wire[FrameAt(h[1])] IN
    CASE f.kind = "fc" ->
            out' = out /\ Goto("Flow", 0)
      [] f.kind = "dt" ->
            /\ out' = out
            /\ IF Payload(f) > MaxSyncFrame THEN Goto("Blind", 0)
               ELSE Goto("Sync", Payload(f))
      [] OTHER ->
            out' = out \o h /\ Goto("Payload", Payload(f))

ScanHeader ==
    /\ Scanning /\ state = "Header"
    /\ LET n == Least(HeaderLen - count, Len(rest)) IN
       /\ rest' = Skip(rest, n)
       /\ IF count + n < HeaderLen
          THEN /\ buf' = buf \o Take(rest, n)
               /\ count' = count + n
               /\ UNCHANGED <<state, block, out>>
          ELSE ReadHeader(buf \o Take(rest, n))
    /\ UNCHANGED <<hold, blocks, sent>>

ScanPayload ==
    /\ Scanning /\ state = "Payload"
    /\ LET n == Least(count, Len(rest)) IN
       /\ out' = out \o Take(rest, n)
       /\ rest' = Skip(rest, n)
       /\ IF count = n THEN Goto("Header", 0) ELSE Goto("Payload", count - n)
    /\ UNCHANGED <<hold, blocks, sent>>

(* Slip: a report takes the place of one that was not taken yet.           *)
StoreSent(n) == sent' = n

AddSent(n) == sent' = sent + n

(* The report is the one of the frame its last byte is of.                 *)
ScanFlow ==
    /\ Scanning /\ state = "Flow"
    /\ LET n == Least(FcLen - count, Len(rest)) IN
       /\ rest' = Skip(rest, n)
       /\ IF count + n < FcLen
          THEN Goto("Flow", count + n) /\ UNCHANGED sent
          ELSE /\ AddSent(wire[FrameAt(rest[n])].sent)
               /\ Goto("Header", 0)
    /\ UNCHANGED <<hold, out, blocks>>

(* Slip: what is behind an update is scanned on.                           *)
ScanOn(n) == rest' = Skip(rest, n) /\ UNCHANGED hold

(* What is behind an update is held back until it has been applied.        *)
HoldRest(n) ==
    /\ hold' = hold \o Skip(rest, n)
    /\ rest' = <<>>

ScanSync ==
    /\ Scanning /\ state = "Sync"
    /\ LET n == Least(count, Len(rest)) IN
       IF count = n
       THEN /\ blocks' = Append(blocks, block \o Take(rest, n))
            /\ Goto("Header", 0)
            /\ HoldRest(n)
       ELSE /\ block' = block \o Take(rest, n)
            /\ count' = count - n
            /\ rest' = Skip(rest, n)
            /\ UNCHANGED <<state, buf, hold, blocks>>
    /\ UNCHANGED <<out, sent>>

Scan ==
    /\ ScanBlind \/ ScanPreface \/ ScanHeader
          \/ ScanPayload \/ ScanFlow \/ ScanSync
    /\ UNCHANGED <<socketVars, received, read>>

-----------------------------------------------------------------------------
(* BeeperStream::protocol and poll_read: `n` bytes more from the socket.   *)
ReadSocket(n) ==
    /\ ~Scanning
    /\ out = <<>> \/ state = "Preface"
    /\ ~IsPending
    /\ hold = <<>>
    /\ n <= ReadChunk
    /\ received + n <= Total
    /\ received' = received + n
    /\ rest' = [j \in 1 .. n |-> received + j]
    /\ UNCHANGED <<socketVars, state, buf, count, block, hold, out, read,
                   blocks, sent>>

ScanHold ==
    /\ ~Scanning
    /\ out = <<>>
    /\ ~IsPending
    /\ hold # <<>>
    /\ rest' = hold
    /\ hold' = <<>>
    /\ UNCHANGED <<socketVars, state, buf, count, block, received, out, read,
                   blocks, sent>>

(* drain_into: the reader has room for `n` bytes.                          *)
DrainInto(n) ==
    /\ ~Scanning
    /\ n \in 1 .. Len(out)
    /\ state # "Preface"
    /\ read' = read \o Take(out, n)
    /\ out' = Skip(out, n)
    /\ UNCHANGED <<socketVars, scanVars, received, hold, blocks, sent>>

(* Slip: the reader takes the reports and leaves the update.               *)
TakeReports ==
    /\ ~Scanning
    /\ state # "Preface"
    /\ sent' = 0
    /\ UNCHANGED <<socketVars, scanVars, received, hold, out, read, blocks>>

(* serve_h2, between two polls: SyncHandle::take and FlowHandle::take.     *)
TakeHandles ==
    /\ ~Scanning
    /\ state # "Preface"
    /\ blocks' = <<>>
    /\ sent' = 0
    /\ UNCHANGED <<socketVars, scanVars, received, hold, out, read>>

Next ==
    \/ Scan
    \/ \E n \in 1 .. Total - received : ReadSocket(n)
    \/ ScanHold
    \/ \E n \in 1 .. Len(out) : DrainInto(n)
    \/ TakeHandles

Fairness ==
    /\ WF_vars(Scan)
    /\ WF_vars(\E n \in 1 .. Total - received : ReadSocket(n))
    /\ WF_vars(ScanHold)
    /\ WF_vars(\E n \in 1 .. Len(out) : DrainInto(n))
    /\ WF_vars(TakeHandles)

Spec == Init /\ [][Next]_vars

FairSpec == Spec /\ Fairness

-----------------------------------------------------------------------------
Public(f) == ~Private(f)

IsPublic(p) == Public(wire[FrameAt(p)])

PublicBytes == SelectSeq([p \in 1 .. Total |-> p], IsPublic)

(* What the reader has been handed and what is ready for it.               *)
Given == read \o out

(* However the stream is cut into chunks, the reader is handed bytes of    *)
(* public frames only, once each and in order, and none is left out.       *)
OnlyPublic ==
    /\ \A j, k \in DOMAIN Given : j < k => Given[j] < Given[k]
    /\ \A k \in DOMAIN Given :
          /\ Given[k] \in 1 .. received
          /\ IsPublic(Given[k])
          /\ \A p \in 1 .. Given[k] :
                IsPublic(p) => \E j \in DOMAIN Given : Given[j] = p

(* An update nobody has taken is the only one, it is whole, and nothing    *)
(* that came behind it has been let through.                               *)
UpdateIsBarrier ==
    IsPending =>
        /\ Len(blocks) = 1
        /\ \E i \in DOMAIN wire :
              /\ wire[i].kind = "dt"
              /\ blocks[1] = [j \in 1 .. Len(wire[i].table) |->
                                  End(i - 1) + HeaderLen + j]
              /\ \A k \in DOMAIN Given : Given[k] <= End(i - 1)

(* The reader gets everything in the end.                                  *)
AllIsRead == <>(read = PublicBytes)

-----------------------------------------------------------------------------
(* The cursors of Listener.  A frame is scanned with its last byte, except *)
(* for an empty update, which the scanner turns to with the next byte.     *)
Consumed == received - Len(rest) - Len(hold)

Reached(n) == Cardinality({i \in DOMAIN wire : End(i) <= n})

EmptyUpdateEnds(n) ==
    \E i \in DOMAIN wire :
        End(i) = n /\ wire[i].kind = "dt" /\ Payload(wire[i]) = 0

scanned == Reached(Consumed)
             - (IF state = "Sync" /\ count = 0 THEN 1 ELSE 0)

arrived == Reached(received) - (IF EmptyUpdateEnds(received) THEN 1 ELSE 0)

handed ==
    IF read = <<>> THEN 0
    ELSE Max({i \in 1 .. Reached(Last(read)) : Public(wire[i])} \cup {0})

Filter == INSTANCE Listener WITH
    scanning <- Scanning /\ scanned < arrived,
    pending  <- IsPending,
    reported <- sent

(* Byte by byte, the stream does what Listener says of it frame by frame.  *)
FiltersFrames == Filter!ListenerSpec
=============================================================================
