------------------------------- MODULE Beeper -------------------------------
(***************************************************************************)
(* One HTTP/2 connection of beeper-axum: a client, the verdict program on  *)
(* the client's socket, and the task in user space that serves what the    *)
(* program passes on.  The three share nothing but the socket: the message *)
(* in front of the program and the stream behind it.                       *)
(***************************************************************************)
EXTENDS Client, FastPath, ServeH2, Sums

userVars == <<listenerVars, serverVars>>

vars == <<socketVars, clientVars, fastVars, userVars, awake>>

Init ==
    /\ SocketInit
    /\ ClientInit
    /\ FastInit
    /\ ListenerInit
    /\ ServerInit

(* The window the client has open: what it granted less what it was sent.  *)
OpenWindow == granted - servedBytes - srvSent

(* A client acknowledges SETTINGS once it has received them.               *)
ClientSends ==
    \/ SendPreface
    \/ \E w \in Windows : SendSettings(w)
    \/ greeted /\ SendAck
    \/ \E n \in Incs : SendUpdate(OpenWindow, n)
    \/ \E p \in Paths, e \in Entries \cup {NoEntry} : SendRequest(p, e)
    \/ SendOther

ClientStep == ClientSends /\ UNCHANGED <<fastVars, userVars, awake>>

(* Bytes that reach the server's socket wake the task that reads it.       *)
KernelStep ==
    /\ Verdict
    /\ awake' = (awake \/ wire' # wire)
    /\ UNCHANGED <<clientVars, userVars>>

TaskStep == ConnTask /\ UNCHANGED <<socketVars, clientVars, fastVars>>

RespondStep ==
    /\ \E r \in inService : Respond(r) \/ Leave(r)
    /\ UNCHANGED <<socketVars, clientVars, fastVars>>

Next == ClientStep \/ KernelStep \/ TaskStep \/ RespondStep

Spec == Init /\ [][Next]_vars

(* A responder that waits for nothing the client still owes.               *)
FinishStep ==
    /\ \E r \in inService : Finishes(r) /\ (Respond(r) \/ Leave(r))
    /\ UNCHANGED <<socketVars, clientVars, fastVars>>

(* The kernel runs every message through the program, and the runtime runs *)
(* every task that has been woken.  A client owes nobody anything, not     *)
(* even the end of a body it has begun.                                    *)
Fairness ==
    /\ WF_vars(KernelStep)
    /\ WF_vars(TaskStep)
    /\ WF_vars(FinishStep)

FairSpec == Spec /\ Fairness

-----------------------------------------------------------------------------
(* Type correctness of every component's state.                            *)
TypeOK ==
    /\ SocketTypeOK
    /\ ClientTypeOK
    /\ FastTypeOK
    /\ ListenerTypeOK
    /\ ServerTypeOK

(* Every request the codec decodes is the one the client encoded, although *)
(* the codec never sees the header blocks the fast path answered: the      *)
(* updates carry their effect, and each reaches the decoder before the     *)
(* first block behind it (Scanner::scan's barrier, serve_h2's draining).   *)
DecodesInStep ==
    /\ \A i \in DOMAIN incoming : incoming[i].path # Garbled
    /\ \A r \in inService \cup responded : r.path # Garbled

(* Nothing in flight between the program and the codec.                    *)
CaughtUp ==
    /\ msg = <<>>
    /\ scanned = Len(wire)
    /\ ~pending
    /\ OutEmpty
    /\ CodecEmpty

(* Whenever user space has caught up and the fast path owes it no update,  *)
(* the client, the fast path and the codec hold the same dynamic table.    *)
EndsInStep ==
    CaughtUp /\ ~dirty => decTable = mirror /\ mirror = cliTable

(* The fast path never spends window the client has not opened: what is    *)
(* left of its share and what it spent stay within what was granted, even  *)
(* when tracking stops or saturates at H2_MAX_WINDOW.                      *)
WithinGrant ==
    /\ conn_window >= 0
    /\ h2_state # "none" => conn_window + servedBytes <= granted

(* What each frame passed on reports, and what the scan has yet to find.   *)
Spent == [i \in DOMAIN wire |-> IF wire[i].kind = "fc" THEN wire[i].sent ELSE 0]

InFlight == SumTo(Spent, Len(wire)) - SumTo(Spent, scanned)

(* Every byte the fast path answered with is in exactly one place: still   *)
(* unreported, reported and on its way, on the FlowHandle, or taken out of *)
(* the codec's window.  A report that fails or is delayed loses nothing.   *)
BytesAccounted == servedBytes = unreported + InFlight + reported + taken

(* Everything is reported, taken and decoded, on a connection that lives.  *)
Settled ==
    /\ CaughtUp
    /\ reported = 0 /\ unreported = 0
    /\ pc \notin {"protocol", "closed"}

(* The window that the updates among the first `n` frames have opened.     *)
Granting ==
    [i \in DOMAIN wire |-> IF wire[i].kind = "window" THEN wire[i].inc ELSE 0]

Opened(n) == InitWindow + SumTo(Granting, n)

(* Whenever everything is settled, the codec's send window is what was     *)
(* opened less what both sides have sent, each byte and each update        *)
(* counted once although either may have been held up or have failed.      *)
SharesAgree ==
    Settled => sndWindow = Opened(Len(wire)) - servedBytes - srvSent

(* With one frame per message no update is lost on the way either, unless  *)
(* the connection is cut, and that is the window the client has open.      *)
WindowsAgree == Settled /\ ~cut => sndWindow = OpenWindow

(* A request is answered by the fast path only once the server's SETTINGS  *)
(* are on their way: a response never preempts the handshake.              *)
SettingsFirst == served # {} => greeted

(* The stream window a client announced last, among what was passed on.    *)
Announced ==
    LET S == {i \in DOMAIN wire : wire[i].kind = "settings"}
    IN  IF S = {} THEN InitWindow ELSE wire[Max(S)].win

(* An answer of the fast path fits the window its stream has, however      *)
(* often the client changes what it gives new streams: what is true of the *)
(* connection by WithinGrant is true of each stream as well, as long as    *)
(* every SETTINGS can be read.                                             *)
StreamsFit ==
    [][\A r \in served' \ served : DataLen[r.path] <= Announced]_vars

Carrying(q, s) == Cardinality({i \in DOMAIN q :
                      q[i].kind = "headers" /\ q[i].sid = s})
Answering(R, s) == Cardinality({r \in R : r.sid = s})
Places(s) == Carrying(msg, s) + Carrying(wire, s) + Answering(served, s)

(* Each request the client sent is in exactly one place: in front of the   *)
(* program, answered by it, or passed on to user space.                    *)
RequestsKept == cut \/ \A s \in DOMAIN asked : Places(s) = 1

(* However verdicts fail, no request is both answered by the fast path and *)
(* passed on, and none is passed on or answered twice.                     *)
NeverTwice ==
    \A s \in DOMAIN asked :
        Places(s) <= 1 /\ Answering(served \cup responded, s) <= 1

(* User space has taken what a report says out of its own accounting       *)
(* before it looks at anything behind the report.                          *)
ReportsComeFirst ==
    \A i \in 1 .. decoded : wire[i].kind = "fc" => wire[i].upto <= taken

(* User space always comes to decode everything that was passed on: an     *)
(* update that is held back never leaves the task asleep.                  *)
CatchesUp == []<>CaughtUp

(* The promise of Exchange, kept by the fast path and user space together. *)
Promise == INSTANCE Exchange WITH
    requests <- asked,
    answers  <- served \cup responded,
    refused  <- {r.sid : r \in left},
    up       <- ~cut /\ pc # "closed"

KeepsPromise == Promise!Spec

(* What is promised at every step: each answer, whoever gives it, is the   *)
(* first on its stream and is to what the client asked for there.          *)
AnswersAsAsked == Promise!Safe

-----------------------------------------------------------------------------
(* What a comment of the program says and an execution of it contradicts.  *)

(* fast_path.bpf.c:895: a request behind a table too large to replay goes  *)
(* to user space, "which is always safe": nothing strands user space.      *)
NeverStranded == ~cut
=============================================================================
