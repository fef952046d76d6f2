------------------------------ MODULE FastPath ------------------------------
(***************************************************************************)
(* msg_verdict of fast_path.bpf.c on one HTTP/2 connection: the program    *)
(* the kernel runs on every message a client hands to sendmsg.  A verdict  *)
(* covers the first frame of the message; bpf_msg_apply_bytes has the rest *)
(* brought back for a verdict of its own.                                  *)
(*                                                                         *)
(* The kernel's helpers and beeper's parser fail when they are short of    *)
(* memory or do not understand a message.  Those failures are switched on  *)
(* by Faults: "parse" for parse_h1/parse_h2; "push" for bpf_msg_push_data  *)
(* and bpf_msg_pop_data, which leave the message as it was; "pull" for     *)
(* what comes after them and finds it changed: bpf_msg_pull_data, the      *)
(* copy, write_sid, the redirect.                                          *)
(***************************************************************************)
EXTENDS H2Frames

CONSTANTS
    Routes,     \* paths in route_idx that have an HTTP/2 rendering
    BigRoutes,  \* those whose response is longer than a request plus CHUNK
    DataLen     \* h2_data_len of each route

ASSUME RouteAssumption ==
    /\ Routes \subseteq Paths
    /\ BigRoutes \subseteq Routes
    /\ DataLen \in [Routes -> Nat]

VARIABLES
    h2_state,      \* upgraded_conns: none, H2_UPGRADED or H2_HANDSHAKED
    mirror,        \* the dynamic table beeper's parser follows
    dirty,         \* dt_dirty
    conn_window,   \* flow_ctl
    stream_window,
    unreported,
    skip,          \* bpf_msg_apply_bytes(-1): no verdicts for the next 4 GiB
    served,        \* history: the requests answered here
    servedBytes    \* history: the DATA bytes they took

fastVars == <<h2_state, mirror, dirty, conn_window, stream_window,
              unreported, skip, served, servedBytes>>

FastInit ==
    /\ h2_state = "none"
    /\ mirror = <<>>
    /\ dirty = FALSE
    /\ conn_window = 0
    /\ stream_window = 0
    /\ unreported = 0
    /\ skip = FALSE
    /\ served = {}
    /\ servedBytes = 0

-----------------------------------------------------------------------------
(* render_dt_sync: an entry that is too long, or a body that is full, and  *)
(* the table cannot be handed over.  The number of entries is not looked   *)
(* at here.                                                                *)
Renderable(t) ==
    /\ \A i \in DOMAIN t : t[i] \notin Oversized
    /\ MapThenSumSet(LAMBDA i : EntryLen[t[i]], DOMAIN t) <= MaxSyncBody

(* Slips: a response the connection's window has no room for, or that of   *)
(* the stream, or one before the handshake.                                *)
ServableAnyway(f) ==
    /\ f.kind = "headers"
    /\ h2_state = "handshaked"
    /\ Len(mirror) <= MaxSyncEntries
    /\ f.path \in Routes
    /\ stream_window >= DataLen[f.path]

ServableOnAny(f) ==
    /\ f.kind = "headers"
    /\ h2_state = "handshaked"
    /\ Len(mirror) <= MaxSyncEntries
    /\ f.path \in Routes
    /\ conn_window >= DataLen[f.path]

ServableEarly(f) ==
    /\ f.kind = "headers"
    /\ Len(mirror) <= MaxSyncEntries
    /\ f.path \in Routes
    /\ conn_window >= DataLen[f.path]
    /\ stream_window >= DataLen[f.path]

(* What msg_verdict asks before it calls try_serve_route, and what         *)
(* try_serve_route and serve_route ask of the route and the windows.       *)
Servable(f) ==
    /\ f.kind = "headers"
    /\ h2_state = "handshaked"
    /\ Len(mirror) <= MaxSyncEntries
    /\ f.path \in Routes
    /\ conn_window >= DataLen[f.path]
    /\ stream_window >= DataLen[f.path]

(* The handshake and flow control a forwarded frame carries.  track_flow   *)
(* gives up quietly when it cannot pull the payload in.                    *)
Follow(f) ==
    /\ h2_state' = IF f.kind = "ack" THEN "handshaked" ELSE h2_state
    /\ \/ /\ conn_window' =
               IF f.kind # "window" THEN conn_window
               ELSE IF conn_window + f.inc > MaxWindow THEN MaxWindow
               ELSE conn_window + f.inc
          /\ stream_window' = IF f.kind = "settings" THEN f.win
                              ELSE stream_window
       \/ /\ Fault("pull")
          /\ f.kind \in {"settings", "window"}
          /\ UNCHANGED <<conn_window, stream_window>>

(* `f`, the head of the message, belongs to an upgraded connection and     *)
(* parses.                                                                 *)
Parsed(f) ==
    /\ msg # <<>>
    /\ ~skip
    /\ f.kind \notin {"preface", "junk"}
    /\ h2_state # "none"

-----------------------------------------------------------------------------
(* The connection preface, which parse_h1 recognises as a request.         *)
Upgrade ==
    /\ msg # <<>>
    /\ ~skip
    /\ Head(msg) = Preface
    /\ h2_state = "none"
    /\ h2_state' = "upgraded"
    /\ conn_window' = InitWindow
    /\ stream_window' = InitWindow
    /\ unreported' = 0
    /\ wire' = Append(wire, Head(msg))
    /\ msg' = Tail(msg)
    /\ UNCHANGED <<cut, mirror, dirty, skip, served, servedBytes>>

(* msg_len stays negative: the message passes as it is, and so does all    *)
(* that follows, as apply_bytes takes the -1 for 4294967295.               *)
ParseFails ==
    /\ msg # <<>>
    /\ ~skip
    /\ Fault("parse") \/ Head(msg).kind = "junk"
    /\ wire' = wire \o msg
    /\ msg' = <<>>
    /\ skip' = TRUE
    /\ UNCHANGED <<cut, h2_state, mirror, dirty, conn_window, stream_window,
                   unreported, served, servedBytes>>

PassUnparsed ==
    /\ msg # <<>>
    /\ skip
    /\ wire' = wire \o msg
    /\ msg' = <<>>
    /\ UNCHANGED <<cut, fastVars>>

(* Slip: the verdict goes on to forward what was served.                   *)
ServeAndForward(f) ==
    /\ msg' = Tail(msg)
    /\ wire' = Append(wire, f)

(* serve_route makes the whole message over into the response and          *)
(* redirects it, whatever else the message held.                           *)
Redirect(f) ==
    /\ msg' = <<>>
    /\ UNCHANGED wire

(* Slip: the bytes of an earlier response are forgotten.                   *)
ChargeOnly(n) ==
    /\ conn_window' = conn_window - n
    /\ unreported' = n
    /\ servedBytes' = servedBytes + n

Charge(n) ==
    /\ conn_window' = conn_window - n
    /\ unreported' = unreported + n
    /\ servedBytes' = servedBytes + n

(* Slip: a request that adds no entry clears the mark of one that did.     *)
MarkIfAdds(f) == dirty' = (f.add # NoEntry)

MarkDirty(f) == dirty' = TRUE

Serve(f) ==
    /\ Parsed(f)
    /\ Servable(f)
    /\ Redirect(f)
    /\ Charge(DataLen[f.path])
    /\ MarkDirty(f)
    /\ mirror' = LearnFrom(mirror, f)
    /\ served' = served \cup {[sid |-> f.sid, path |-> f.path]}
    /\ UNCHANGED <<cut, h2_state, stream_window, skip>>

(* Slip: the table is taken after the message instead of before it.        *)
SyncAfter(f) == IF dirty THEN <<DtSync(LearnFrom(mirror, f))>> ELSE <<>>

(* The table handed over is the one that stood before this message.        *)
Sync(f) == IF dirty THEN <<DtSync(mirror)>> ELSE <<>>

(* What is passed on for the frame at hand is `x`.  Slip: the report goes  *)
(* behind the table.                                                       *)
ReportBehind(x) ==
    /\ unreported > 0
    /\ wire' = wire \o Sync(x) \o <<FcSync(unreported, servedBytes), x>>
    /\ unreported' = 0

(* What was spent is reported in front of the table.                       *)
Report(x) ==
    /\ unreported > 0
    /\ wire' = wire \o <<FcSync(unreported, servedBytes)>> \o Sync(x) \o <<x>>
    /\ unreported' = 0

(* Slip: a report that failed is not made again.                           *)
ForgetReport(x) ==
    /\ unreported = 0 \/ Fault("push")
    /\ wire' = wire \o Sync(x) \o <<x>>
    /\ unreported' = 0

(* A report that cannot be prepended stays for the next message.           *)
NoReport(x) ==
    /\ unreported = 0 \/ Fault("push")
    /\ wire' = wire \o Sync(x) \o <<x>>
    /\ UNCHANGED unreported

(* So does one that room was made for but that could not be written: the   *)
(* room is passed on with what happens to be in it.                        *)
Stray(x) ==
    /\ unreported > 0
    /\ Fault("pull")
    /\ wire' = wire \o <<Junk>> \o Sync(x) \o <<x>>
    /\ UNCHANGED unreported

(* `x` is passed on for `f`.  The next verdict begins at a frame, unless   *)
(* `lost`; stray bytes in front leave it as much behind the end of `x` as  *)
(* they take up, and what is no frame is not parsed, see ParseFails.       *)
PassOn(f, x, lost) ==
    /\ dirty => Renderable(mirror)
    /\ Follow(f)
    /\ \/ (Report(x) \/ NoReport(x)) /\ skip' = lost
       \/ Stray(x) /\ skip' = TRUE
    /\ mirror' = LearnFrom(mirror, f)
    /\ dirty' = FALSE
    /\ UNCHANGED <<cut, served, servedBytes>>

Forward(f) ==
    /\ Parsed(f)
    /\ ~Servable(f) \/ Fault("push")
    /\ PassOn(f, f, FALSE)
    /\ msg' = Tail(msg)

(* What serve_route leaves of the frames `rest` behind the first one: what *)
(* popping spared, and bytes that were pushed for a response.              *)
Resize(rest) ==
    \E n \in 0 .. Len(rest), t \in {<<>>, <<Junk>>} :
        msg' = SubSeq(rest, 1, n) \o t

(* serve_route gave up after it had resized the message, behind the        *)
(* request: pushes that succeeded before one that failed have added to the *)
(* end, and before the first window was pulled nothing was copied.         *)
ServePartly(f) ==
    /\ Parsed(f)
    /\ Servable(f)
    /\ PassOn(f, f, FALSE)
    /\ \/ /\ Fault("push")
          /\ f.path \in BigRoutes
          /\ msg' = Append(Tail(msg), Junk)
       \/ /\ Fault("pull")
          /\ Resize(Tail(msg))

(* serve_route gave up after it had cut the request or written over it.    *)
(* What is passed on is no frame, or the whole response if the redirect    *)
(* failed, and it is as long as the request, or longer, or shorter: then   *)
(* bpf_msg_apply_bytes covers the head of what the client sends next.      *)
Overwrite(f) ==
    /\ Parsed(f)
    /\ Servable(f)
    /\ Fault("pull")
    /\ \E x \in {Junk, Other}, lost \in BOOLEAN :
          /\ PassOn(f, x, lost)
          /\ msg' = <<>> \/ (~lost /\ msg' = <<Junk>>)

(* prepend_dt_sync failed: SK_DROP.                                        *)
Drop(f) ==
    /\ Parsed(f)
    /\ ~Servable(f) \/ Fault("push") \/ Fault("pull")
    /\ dirty
    /\ ~Renderable(mirror) \/ Fault("push") \/ Fault("pull")
    /\ Follow(f)
    /\ cut' = TRUE
    /\ msg' = <<>>
    /\ mirror' = LearnFrom(mirror, f)
    /\ UNCHANGED <<wire, dirty, unreported, skip, served, servedBytes>>

Verdict ==
    \/ Upgrade
    \/ ParseFails
    \/ PassUnparsed
    \/ msg # <<>> /\ LET f == Head(msg) IN
          \/ Serve(f) \/ Forward(f) \/ ServePartly(f) \/ Overwrite(f)
          \/ Drop(f)

FastTypeOK ==
    /\ h2_state \in {"none", "upgraded", "handshaked"}
    /\ mirror \in Table
    /\ dirty \in BOOLEAN
    /\ conn_window \in 0..MaxWindow
    /\ stream_window \in 0..MaxWindow
    /\ unreported \in Nat
    /\ skip \in BOOLEAN
    /\ served \subseteq [sid : Nat, path : Paths]
    /\ servedBytes \in Nat
=============================================================================
