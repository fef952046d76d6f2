------------------------------ MODULE ApplyBytes ------------------------------
(***************************************************************************)
(* Where the verdicts of fast_path.bpf.c are taken: a verdict speaks for   *)
(* as many bytes as it passes to bpf_msg_apply_bytes, and the next one     *)
(* begins behind them, whatever frame that is in.  One HTTP/2 connection   *)
(* behind its handshake, on paths that are left to user space.             *)
(***************************************************************************)
EXTENDS Naturals, Sequences

CONSTANTS
    FrameHeader,  \* the nine bytes in front of each frame's payload
    BlockLen,     \* the payload of a HEADERS frame
    MaxFrame,     \* the client's choice for the largest DATA frame
    Bodies,       \* lengths of request bodies
    MaxFrames     \* bound on the frames of the connection

VARIABLES
    frames,  \* what the client has sent: where each frame is, and how long
    body,    \* what it still has to send of the request's body
    covered  \* how many bytes verdicts have spoken for

vars == <<frames, body, covered>>

Init == frames = <<>> /\ body = 0 /\ covered = 0

Last == frames[Len(frames)]

Total == IF frames = <<>> THEN 0 ELSE Last.at + Last.len

(* A frame of the client.  `declared` is what extract_h2_match and         *)
(* parse_content_length make of a Content-Length header in it, zero if     *)
(* there is none or its value is Huffman coded.                            *)
Send(payload, declared) ==
    /\ Len(frames) < MaxFrames
    /\ frames' = Append(frames, [at       |-> Total,
                                 len      |-> FrameHeader + payload,
                                 declared |-> declared])
    /\ UNCHANGED covered

SendHeaders(n, declared) ==
    /\ body = 0
    /\ body' = n
    /\ Send(BlockLen, declared)

SendData(n) ==
    /\ body' = body - n
    /\ Send(n, 0)

(* msg_verdict: the frame it finds, and the body the frame declares.       *)
MsgLen(f) == f.len + f.declared

Verdict ==
    /\ \E i \in DOMAIN frames :
          /\ frames[i].at = covered
          /\ covered' = covered + MsgLen(frames[i])
    /\ UNCHANGED <<frames, body>>

Next ==
    \/ \E n \in Bodies : \E declared \in {0, n} : SendHeaders(n, declared)
    \/ \E n \in 1 .. body : n <= MaxFrame /\ SendData(n)
    \/ Verdict

Spec == Init /\ [][Next]_vars

(* fast_path.bpf.c:758: Content-Length "is what tells the fast path how    *)
(* far the body of a request reaches", so the verdict behind a request     *)
(* begins where a frame does.                                              *)
VerdictsAtFrames ==
    covered < Total => \E i \in DOMAIN frames : frames[i].at = covered
=============================================================================
