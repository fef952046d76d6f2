------------------------------ MODULE Exchange ------------------------------
(***************************************************************************)
(* What the server promises a client, whoever answers: every request is    *)
(* answered at most once and as it was asked, and unless the connection is *)
(* given up it is answered or refused eventually, if it ends: a request    *)
(* whose body the client never finishes may be kept for good, and keeps no *)
(* other waiting.                                                          *)
(***************************************************************************)
EXTENDS Naturals, Sequences

CONSTANTS
    Paths,
    Endless  \* paths asked for with a body that need not come to an end

VARIABLES
    requests,  \* requests[sid] is the path asked for on stream sid
    answers,   \* the requests answered
    refused,   \* the streams that were reset without an answer
    up         \* the connection has not been given up

vars == <<requests, answers, refused, up>>

Init ==
    /\ requests = <<>>
    /\ answers = {}
    /\ refused = {}
    /\ up = TRUE

(* A client may go on asking until it learns that nobody answers.          *)
Ask(p) ==
    /\ requests' = Append(requests, p)
    /\ UNCHANGED <<answers, refused, up>>

Open(sid) ==
    /\ sid \in DOMAIN requests
    /\ sid \notin refused
    /\ \A a \in answers : a.sid # sid

Answer(sid) ==
    /\ Open(sid)
    /\ answers' = answers \cup {[sid |-> sid, path |-> requests[sid]]}
    /\ UNCHANGED <<requests, refused, up>>

Refuse(sid) ==
    /\ Open(sid)
    /\ refused' = refused \cup {sid}
    /\ UNCHANGED <<requests, answers, up>>

GiveUp ==
    /\ up' = FALSE
    /\ UNCHANGED <<requests, answers, refused>>

Next ==
    \/ \E p \in Paths : Ask(p)
    \/ \E sid \in DOMAIN requests : Answer(sid) \/ Refuse(sid)
    \/ GiveUp

Safe == Init /\ [][Next]_vars

(* Something is due for a request that has ended.                          *)
SettleOne ==
    \E sid \in DOMAIN requests :
        requests[sid] \notin Endless /\ (Answer(sid) \/ Refuse(sid))

Spec == Safe /\ WF_vars(up /\ SettleOne)
=============================================================================
