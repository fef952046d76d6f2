------------------------------ MODULE Listener ------------------------------
(***************************************************************************)
(* BeeperStream of listener.rs, a frame at a time: the socket read with    *)
(* the fast path's private frames filtered out.                            *)
(*                                                                         *)
(* Its buffers are stretches of `wire`, kept as cursors into it:           *)
(*                                                                         *)
(*      handed    scanned    arrived    Len(wire)                          *)
(*   ... -----------|----------|-----------|                               *)
(*          out         rest     in the socket                             *)
(*                     or hold                                             *)
(*                                                                         *)
(* `out` is the public frames of its stretch.  While `scanning` the second *)
(* stretch is the `rest` of the input of Scanner::scan, else it is `hold`. *)
(* An update taken out of the stream is the frame at `scanned` itself.     *)
(***************************************************************************)
EXTENDS H2Frames

VARIABLES
    arrived,   \* frames read from the socket
    scanned,   \* frames Scanner::scan is through with
    handed,    \* frames handed to the codec
    scanning,  \* Scanner::scan is running
    pending,   \* SyncHandle holds the update at `scanned`
    reported   \* FlowHandle

listenerVars == <<arrived, scanned, handed, scanning, pending, reported>>

ListenerInit ==
    /\ arrived = 0
    /\ scanned = 0
    /\ handed = 0
    /\ scanning = FALSE
    /\ pending = FALSE
    /\ reported = 0

Public(i) == ~Private(wire[i])

OutEmpty == \A i \in handed + 1 .. scanned : ~Public(i)

(* One read of up to READ_CHUNK bytes: `n` frames more.                    *)
ReadSocket(n) ==
    /\ ~scanning
    /\ ~pending
    /\ scanned = arrived
    /\ arrived + n <= Len(wire)
    /\ arrived' = arrived + n
    /\ scanning' = TRUE
    /\ UNCHANGED <<scanned, handed, pending, reported>>

(* One frame of the input.  An update stops the scan: whatever is behind   *)
(* it is held back.                                                        *)
ScanFrame ==
    /\ scanning
    /\ scanned < arrived
    /\ LET f == wire[scanned + 1] IN
       /\ reported' = IF f.kind = "fc" THEN reported + f.sent ELSE reported
       /\ pending' = (f.kind = "dt")
       /\ scanning' = (f.kind # "dt" /\ scanned + 1 < arrived)
    /\ scanned' = scanned + 1
    /\ UNCHANGED <<arrived, handed>>

(* poll_read, once the update is taken: what was held is scanned again.    *)
ScanHeld ==
    /\ ~scanning
    /\ ~pending
    /\ scanned < arrived
    /\ scanning' = TRUE
    /\ UNCHANGED <<arrived, scanned, handed, pending, reported>>

(* drain_into: as much of `out` as the codec has room for.                 *)
HandOut(i) ==
    /\ ~scanning
    /\ i \in handed + 1 .. scanned
    /\ Public(i)
    /\ handed' = i
    /\ UNCHANGED <<arrived, scanned, scanning, pending, reported>>

(* The head of the poll_fn closure of serve_h2: SyncHandle::take and        *)
(* FlowHandle::take.                                                       *)
TakeHandles ==
    /\ ~scanning
    /\ pending' = FALSE
    /\ reported' = 0
    /\ UNCHANGED <<arrived, scanned, handed, scanning>>

(* The stream on its own, whoever reads it: what Scanner implements.       *)
ListenerNext ==
    \/ \E n \in 1 .. Len(wire) - arrived : ReadSocket(n)
    \/ ScanFrame
    \/ ScanHeld
    \/ \E i \in handed + 1 .. scanned : HandOut(i)
    \/ TakeHandles

ListenerSpec ==
    /\ ListenerInit
    /\ [][ListenerNext /\ UNCHANGED wire]_<<listenerVars, wire>>

ListenerTypeOK ==
    /\ arrived \in Nat /\ scanned \in Nat /\ handed \in Nat
    /\ scanning \in BOOLEAN
    /\ pending \in BOOLEAN
    /\ reported \in Nat
=============================================================================
