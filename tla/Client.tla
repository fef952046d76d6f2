------------------------------- MODULE Client -------------------------------
(***************************************************************************)
(* The HTTP/2 client, as far as the server's side depends on it.  It is    *)
(* not part of the repository: it is any client that follows RFC 7540, so  *)
(* it opens with the preface and a SETTINGS frame and then sends frames in *)
(* whatever order it likes.  One sendmsg may carry up to MaxBatch frames.  *)
(*                                                                         *)
(* One thing RFC 7540 leaves to clients is assumed away: a client sends no *)
(* extension frames of the types 0xFA and 0xFB, which the fast path keeps  *)
(* for itself and the listener takes out of the stream whoever sent them.  *)
(***************************************************************************)
EXTENDS H2Frames

CONSTANTS
    MaxFrames,  \* bound: frames a client sends, the preface included
    MaxBatch    \* bound: frames one sendmsg carries

ASSUME ClientAssumption == MaxFrames \in Nat /\ MaxBatch \in Nat \ {0}

VARIABLES
    cliTable,   \* the client's own dynamic table
    asked,      \* asked[sid] is the path requested on stream sid
    granted,    \* connection window opened so far, spent or not
    sent,       \* frames sent
    acked       \* the server's SETTINGS have been acknowledged

clientVars == <<cliTable, asked, granted, sent, acked>>

ClientInit ==
    /\ cliTable = <<>>
    /\ asked = <<>>
    /\ granted = InitWindow
    /\ sent = 0
    /\ acked = FALSE

Send(f) ==
    /\ ~cut
    /\ sent < MaxFrames
    /\ Len(msg) < MaxBatch
    /\ msg' = Append(msg, f)
    /\ sent' = sent + 1
    /\ UNCHANGED <<wire, cut>>

SendPreface ==
    /\ sent = 0
    /\ Send(Preface)
    /\ UNCHANGED <<cliTable, asked, granted, acked>>

SendSettings(w) ==
    /\ sent >= 1
    /\ Send(Settings(w))
    /\ UNCHANGED <<cliTable, asked, granted, acked>>

SendAck ==
    /\ sent >= 2
    /\ ~acked
    /\ Send(SettingsAck)
    /\ acked' = TRUE
    /\ UNCHANGED <<cliTable, asked, granted>>

(* `open` is the window the client has open: no window may exceed the      *)
(* maximum (RFC 7540, 6.9.1).                                              *)
SendUpdate(open, n) ==
    /\ sent >= 2
    /\ open + n <= MaxWindow
    /\ Send(Update(n, granted + n))
    /\ granted' = granted + n
    /\ UNCHANGED <<cliTable, asked, acked>>

SendRequest(p, e) ==
    /\ sent >= 2
    /\ Send(Headers(Len(asked) + 1, p, e, cliTable))
    /\ asked' = Append(asked, p)
    /\ cliTable' = Learn(cliTable, e)
    /\ UNCHANGED <<granted, acked>>

SendOther ==
    /\ sent >= 2
    /\ Send(Other)
    /\ UNCHANGED <<cliTable, asked, granted, acked>>

ClientTypeOK ==
    /\ cliTable \in Table
    /\ asked \in Seq(Paths)
    /\ granted \in Nat
    /\ sent \in Nat
    /\ acked \in BOOLEAN
=============================================================================
