------------------------------ MODULE ServeH2 -------------------------------
(***************************************************************************)
(* The user space side of a connection: serve_connection and serve_h2 of   *)
(* server.rs, the tasks it spawns for requests, and the HTTP/2 codec (the  *)
(* h2 crate, outside the repository, modelled as serve_h2 drives it).      *)
(*                                                                         *)
(* One task owns the connection.  It goes round: drain the handles, then   *)
(* poll the codec until it wants to wait.  `awake` is whether something    *)
(* has woken it since.                                                     *)
(*                                                                         *)
(* Two failures of the codec are switched on by Faults: "yield", a poll    *)
(* that returns before everything handed to it is decoded, as it does when *)
(* an answer it has to write first does not fit the socket; "refuse", an   *)
(* update or a report that it does not take.                               *)
(***************************************************************************)
EXTENDS Listener

CONSTANTS
    RespLen,  \* DATA bytes of a response of user space
    Endless   \* paths asked for with a body that need not come to an end

ASSUME ServerAssumption == RespLen \in Nat /\ Endless \subseteq Paths

VARIABLES
    pc,         \* protocol, drain, poll or closed
    awake,      \* the connection's task has been woken
    decoded,    \* frames the codec has decoded
    decTable,   \* the dynamic table of the codec's decoder
    sndWindow,  \* the connection send window of the codec
    taken,      \* history: bytes taken off the FlowHandle
    greeted,    \* the server's SETTINGS are on their way to the client
    incoming,   \* requests decoded but not accepted yet, oldest first
    inService,  \* requests respond_to works on
    responded,  \* requests answered by user space
    left,       \* history: requests respond_to left without an answer
    queued,     \* response bytes waiting for send window
    srvSent     \* history: response bytes sent

serverVars == <<pc, decoded, decTable, sndWindow, taken, greeted, incoming,
                inService, responded, left, queued, srvSent>>

ServerInit ==
    /\ pc = "protocol"
    /\ awake = TRUE
    /\ decoded = 0
    /\ decTable = <<>>
    /\ sndWindow = InitWindow
    /\ taken = 0
    /\ greeted = FALSE
    /\ incoming = <<>>
    /\ inService = {}
    /\ responded = {}
    /\ left = {}
    /\ queued = 0
    /\ srvSent = 0

Undecoded == {i \in decoded + 1 .. handed : Public(i)}

(* The codec asks the stream for more only when it has nothing left.       *)
CodecEmpty == Undecoded = {}

-----------------------------------------------------------------------------
(* BeeperStream::protocol reads until the scanner is past the preface.     *)
AwaitProtocol ==
    /\ pc = "protocol"
    /\ scanned = 0
    /\ \E n \in 1 .. Len(wire) - arrived : ReadSocket(n)
    /\ UNCHANGED <<awake, serverVars>>

Scan ==
    /\ pc \in {"protocol", "poll"}
    /\ ScanFrame
    /\ UNCHANGED <<awake, serverVars>>

(* h2::server::handshake sends SETTINGS, then reads the preface.           *)
Handshake ==
    /\ pc = "protocol"
    /\ ~scanning
    /\ scanned >= 1
    /\ greeted' = TRUE
    /\ handed' = 1
    /\ decoded' = 1
    /\ pc' = "drain"
    /\ UNCHANGED <<arrived, scanned, scanning, pending, reported, awake,
                   decTable, sndWindow, taken, incoming, inService,
                   responded, left, queued, srvSent>>

(* Slip: consume_send_capacity is not called.                              *)
ForgetFlow ==
    /\ taken' = taken + reported
    /\ reported' = 0
    /\ UNCHANGED sndWindow

(* The head of the poll_fn closure: the spent window and the updates.      *)
TakeFlow ==
    /\ sndWindow' = sndWindow - reported
    /\ taken' = taken + reported
    /\ reported' = 0

Drain ==
    /\ pc = "drain"
    /\ awake
    /\ TakeFlow
    /\ decTable' = IF pending THEN wire[scanned].table ELSE decTable
    /\ pending' = FALSE
    /\ pc' = "poll"
    /\ UNCHANGED <<arrived, scanned, handed, scanning, awake, decoded, greeted,
                   incoming, inService, responded, left, queued, srvSent>>

(* consume_send_capacity fails: the report is off the handle, the window   *)
(* is as it was, and the connection ends before the updates are looked at. *)
FlowRefused ==
    /\ reported > 0
    /\ taken' = taken + reported
    /\ reported' = 0
    /\ UNCHANGED <<pending, sndWindow>>

(* prime_dynamic_table fails.                                              *)
TableRefused ==
    /\ pending
    /\ TakeFlow
    /\ pending' = FALSE

DrainFails ==
    /\ Fault("refuse")
    /\ pc = "drain"
    /\ awake
    /\ FlowRefused \/ TableRefused
    /\ pc' = "closed"
    /\ UNCHANGED <<arrived, scanned, handed, scanning, awake, decoded,
                   decTable, greeted, incoming, inService, responded, left,
                   queued, srvSent>>

-----------------------------------------------------------------------------
(* conn.poll_accept: the codec decodes what it was handed, and polls the   *)
(* stream when that runs out.                                              *)
PollStream ==
    /\ pc = "poll"
    /\ CodecEmpty
    /\ \/ \E i \in handed + 1 .. scanned : HandOut(i)
       \/ OutEmpty /\ ScanHeld
       \/ OutEmpty /\ \E n \in 1 .. Len(wire) - arrived : ReadSocket(n)
    /\ UNCHANGED <<awake, serverVars>>

(* A header block decoded against the table the client encoded it with is  *)
(* the request the client meant.                                           *)
RequestOf(f) ==
    [sid |-> f.sid, path |-> IF f.ctx = decTable THEN f.path ELSE Garbled]

DecodeHeaders(f) ==
    /\ f.kind = "headers"
    /\ decTable' = Learn(decTable, f.add)
    /\ incoming' = Append(incoming, RequestOf(f))
    /\ UNCHANGED <<pc, sndWindow>>

DecodeUpdate(f) ==
    /\ f.kind = "window"
    /\ sndWindow' = sndWindow + f.inc
    /\ UNCHANGED <<pc, decTable, incoming>>

DecodeOther(f) ==
    /\ f.kind \in {"settings", "ack", "other"}
    /\ UNCHANGED <<pc, decTable, sndWindow, incoming>>

(* Not a frame: a connection error.                                        *)
DecodeJunk(f) ==
    /\ f.kind = "junk"
    /\ pc' = "closed"
    /\ UNCHANGED <<decTable, sndWindow, incoming>>

NextUndecoded(i) == i \in Undecoded /\ \A j \in Undecoded : i <= j

Decode ==
    /\ pc = "poll"
    /\ ~scanning
    /\ \E i \in Undecoded :
         /\ NextUndecoded(i)
         /\ decoded' = i
         /\ LET f == wire[i] IN
              \/ DecodeHeaders(f)
              \/ DecodeUpdate(f)
              \/ DecodeOther(f)
              \/ DecodeJunk(f)
    /\ UNCHANGED <<listenerVars, awake, taken, greeted, inService, responded,
                   left, queued, srvSent>>

-----------------------------------------------------------------------------
(* The end of a poll: the codec sends what the window allows and the poll  *)
(* yields a request or waits.                                              *)
Flush ==
    LET n == IF sndWindow <= 0 THEN 0
             ELSE IF queued <= sndWindow THEN queued ELSE sndWindow
    IN  /\ queued' = queued - n
        /\ sndWindow' = sndWindow - n
        /\ srvSent' = srvSent + n

(* The codec has nothing left and the stream has nothing for it.           *)
StreamDry ==
    /\ CodecEmpty
    /\ OutEmpty
    /\ ~scanning
    /\ pending \/ scanned = Len(wire)

(* The codec has to write before it decodes on, and the socket is full.    *)
Yield ==
    /\ Fault("yield")
    /\ ~scanning
    /\ UNCHANGED <<queued, sndWindow, srvSent>>

Accept ==
    /\ pc = "poll"
    /\ (StreamDry /\ Flush) \/ Yield
    /\ incoming # <<>>
    /\ inService' = inService \cup {Head(incoming)}
    /\ incoming' = Tail(incoming)
    /\ pc' = "drain"
    /\ UNCHANGED <<listenerVars, awake, decoded, decTable, taken, greeted,
                   responded, left>>

(* Slip: poll_read returns Pending without waking the task.                *)
NoWake == awake' = FALSE

(* A stream that withholds what is behind an update has woken the task     *)
(* right back up; else it waits for the socket.                            *)
WakeIfPending == awake' = pending

Await ==
    /\ pc = "poll"
    /\ \/ StreamDry /\ Flush /\ WakeIfPending
       \/ Yield /\ awake' = TRUE
    /\ incoming = <<>>
    /\ pc' = "drain"
    /\ UNCHANGED <<listenerVars, decoded, decTable, taken, greeted, incoming,
                   inService, responded, left>>

(* respond_to, a task of its own: it collects the body of the request, has *)
(* the application answer and hands the answer to the codec, which wakes   *)
(* the connection's task to send it.  When it gets that far is up to the   *)
(* client, see Finishes.                                                   *)
Respond(r) ==
    /\ r \in inService
    /\ pc # "closed"
    /\ inService' = inService \ {r}
    /\ responded' = responded \cup {r}
    /\ queued' = queued + RespLen
    /\ awake' = TRUE
    /\ UNCHANGED <<listenerVars, pc, decoded, decTable, sndWindow, taken,
                   greeted, incoming, left, srvSent>>

(* Its early returns: the client resets the stream or the connection goes, *)
(* before the body is there or before the answer is taken, or the answer   *)
(* itself cannot be collected.  The codec resets what is dropped.          *)
Leave(r) ==
    /\ r \in inService
    /\ inService' = inService \ {r}
    /\ left' = left \cup {r}
    /\ awake' = TRUE
    /\ UNCHANGED <<listenerVars, pc, decoded, decTable, sndWindow, taken,
                   greeted, incoming, responded, queued, srvSent>>

(* A request whose body comes to an end.                                   *)
Finishes(r) == r.path \notin Endless

ConnTask ==
    \/ AwaitProtocol \/ Scan \/ Handshake
    \/ Drain \/ DrainFails
    \/ PollStream \/ Decode
    \/ Accept \/ Await

Request == [sid : Nat, path : Paths \cup {Garbled}]

ServerTypeOK ==
    /\ pc \in {"protocol", "drain", "poll", "closed"}
    /\ awake \in BOOLEAN
    /\ decoded \in Nat
    /\ decTable \in Table
    /\ sndWindow \in Int
    /\ taken \in Nat
    /\ greeted \in BOOLEAN
    /\ incoming \in Seq(Request)
    /\ inService \subseteq Request
    /\ responded \subseteq Request
    /\ left \subseteq Request
    /\ queued \in Nat
    /\ srvSent \in Nat
=============================================================================
