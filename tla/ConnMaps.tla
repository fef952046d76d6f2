------------------------------- MODULE ConnMaps -------------------------------
(***************************************************************************)
(* Many connections: the maps of fast_path.bpf.c that keep the verdict     *)
(* program's state by address and port, and the loop of server.rs that     *)
(* accepts connections and finds out what each of them speaks.             *)
(*                                                                         *)
(* Entries are never deleted, except that the kernel takes a socket that   *)
(* is closed out of sock_map; a map that is full refuses new keys, and the *)
(* program does not look whether it did.  A port is free again once its    *)
(* connection is closed.  Verdicts on different connections run at the     *)
(* same time, on different CPUs: a step is what a verdict does to the maps *)
(* up to a point where it matters what the others have taken meanwhile.    *)
(*                                                                         *)
(* Windows, tables and streams are those of module Beeper; here a message  *)
(* is only what it means to the maps.                                      *)
(***************************************************************************)
EXTENDS Naturals, FiniteSets, Sequences

CONSTANTS
    Conns,
    Tuples,    \* struct ip4_conn: the client's address and port
    Cap,       \* max_entries of each map, 16384
    MaxSent    \* bound on the messages of a connection

ASSUME ConnAssumption == Cap \in Nat /\ MaxSent \in Nat /\ Tuples # {}

VARIABLES
    life,      \* of each connection: new, open or closed
    tuple,
    speaks,    \* the protocol its client speaks
    said,      \* how many messages the client has sent
    upgraded,  \* upgraded_conns
    flow,      \* flow_ctl: whether bytes are unreported
    marked,    \* dt_dirty
    sock_map,
    blind,     \* connections whose messages get no verdict any more
    midway,    \* connections in upgraded_conns that are yet to go to flow_ctl
    owed,      \* history: answered by HTTP/2 in the kernel, table not handed over
    first,     \* what user space gets to read first
    backlog,   \* established and not accepted yet
    serving    \* of each connection: the task that serves it

clientVars == <<tuple, speaks>>
mapVars == <<upgraded, flow, marked>>
kernelVars == <<mapVars, blind, owed, first>>
serverVars == <<backlog, serving>>
vars == <<life, clientVars, said, kernelVars, midway, sock_map, serverVars>>

-----------------------------------------------------------------------------
(* Slip: a map takes one entry more than it has room for.                  *)
PutOneMore(map, t, v) ==
    IF t \in DOMAIN map \/ Cardinality(DOMAIN map) <= Cap
    THEN [x \in DOMAIN map \cup {t} |-> IF x = t THEN v ELSE map[x]]
    ELSE map

(* bpf_map_update_elem.                                                    *)
Put(map, t, v) ==
    IF t \in DOMAIN map \/ Cardinality(DOMAIN map) < Cap
    THEN [x \in DOMAIN map \cup {t} |-> IF x = t THEN v ELSE map[x]]
    ELSE map

(* Slip: an entry that is there is left as it is (BPF_NOEXIST).            *)
PutNew(map, t, v) == IF t \in DOMAIN map THEN map ELSE Put(map, t, v)

Nothing == [t \in {} |-> FALSE]

Init ==
    /\ life = [c \in Conns |-> "new"]
    /\ tuple = [c \in Conns |-> CHOOSE t \in Tuples : TRUE]
    /\ speaks \in [Conns -> {"h1", "h2"}]
    /\ said = [c \in Conns |-> 0]
    /\ upgraded = Nothing /\ flow = Nothing /\ marked = Nothing
    /\ sock_map = Nothing
    /\ blind = {} /\ midway = {} /\ owed = {}
    /\ first = [c \in Conns |-> "none"]
    /\ backlog = <<>>
    /\ serving = [c \in Conns |-> "none"]

Open(c) == life[c] = "open"

-----------------------------------------------------------------------------
(* monitor_sockets, as a client connects: a port no connection uses.       *)
Connect(c, t) ==
    /\ life[c] = "new"
    /\ \A d \in Conns : Open(d) => tuple[d] # t
    /\ life' = [life EXCEPT ![c] = "open"]
    /\ tuple' = [tuple EXCEPT ![c] = t]
    /\ sock_map' = Put(sock_map, t, c)
    /\ backlog' = Append(backlog, c)
    /\ UNCHANGED <<speaks, said, kernelVars, midway, serving>>

(* The kernel takes a socket that is closed out of sock_map.               *)
Forget(c) ==
    sock_map' = [t \in {u \in DOMAIN sock_map : sock_map[u] # c}
                  |-> sock_map[t]]

Close(c) ==
    /\ Open(c)
    /\ c \notin midway
    /\ life' = [life EXCEPT ![c] = "closed"]
    /\ Forget(c)
    /\ UNCHANGED <<clientVars, said, kernelVars, midway, serverVars>>

-----------------------------------------------------------------------------
(* What the client of `c` may send: HTTP/1.1 requests, or the preface and  *)
(* then frames, the acknowledgement once it has the server's SETTINGS.     *)
Messages(c) ==
    IF speaks[c] = "h1" THEN {"get"}
    ELSE IF said[c] = 0 THEN {"preface"}
    ELSE {"request"} \cup (IF serving[c] = "h2" THEN {"ack"} ELSE {})

(* The program runs on a socket that is in sock_map, unless apply_bytes    *)
(* gave it leave for the next 4 GiB, or a header that is none for 4 MiB.   *)
Sees(c) ==
    /\ tuple[c] \in DOMAIN sock_map
    /\ sock_map[tuple[c]] = c
    /\ c \notin blind

IsH2(c) == tuple[c] \in DOMAIN upgraded

(* User space is passed `m`.                                               *)
Deliver(c, m) ==
    first' = IF first[c] = "none" THEN [first EXCEPT ![c] = m] ELSE first

Unseen(c, m) ==
    /\ ~Sees(c)
    /\ Deliver(c, m)
    /\ UNCHANGED <<mapVars, blind, owed>>

(* The preface: the connection is put into upgraded_conns ...              *)
Upgrade(c, m) ==
    /\ Sees(c) /\ ~IsH2(c)
    /\ m = "preface"
    /\ upgraded' = Put(upgraded, tuple[c], "upgraded")
    /\ midway' = midway \cup {c}
    /\ UNCHANGED <<flow, marked, blind, owed, first>>

(* ... and its windows into flow_ctl.                                      *)
StartWindows(c) ==
    /\ c \in midway
    /\ flow' = Put(flow, tuple[c], FALSE)
    /\ midway' = midway \ {c}
    /\ Deliver(c, "preface")
    /\ UNCHANGED <<life, clientVars, said, upgraded, marked, blind, owed,
                   sock_map, serverVars>>

AnswerH1(c, m) ==
    /\ Sees(c) /\ ~IsH2(c)
    /\ m = "get"
    /\ UNCHANGED kernelVars

PassH1(c, m) ==
    /\ Sees(c) /\ ~IsH2(c)
    /\ m = "get"
    /\ Deliver(c, m)
    /\ UNCHANGED <<mapVars, blind, owed>>

(* A frame on a connection there was no room to remember: parse_h1 fails.  *)
Unparsed(c, m) ==
    /\ Sees(c) /\ ~IsH2(c)
    /\ m \notin {"preface", "get"}
    /\ Deliver(c, m)
    /\ blind' = blind \cup {c}
    /\ UNCHANGED <<mapVars, owed>>

Set(map, t) == t \in DOMAIN map /\ map[t]

(* The way to user space: the table and the report go in front if they are *)
(* due.                                                                    *)
HandOver(c, m) ==
    LET t == tuple[c] IN
    /\ marked' = IF Set(marked, t) THEN Put(marked, t, FALSE) ELSE marked
    /\ flow' = IF Set(flow, t) THEN [flow EXCEPT ![t] = FALSE] ELSE flow
    /\ owed' = owed \ {c}
    /\ Deliver(c, IF Set(marked, t) \/ Set(flow, t) THEN "private" ELSE m)

(* A connection that starts on a port an HTTP/2 connection has had: its    *)
(* first bytes are no frame.  parse_h2 fails, or takes them for the header *)
(* of one that is megabytes long.                                          *)
Misread(c, m) ==
    /\ Sees(c) /\ IsH2(c)
    /\ m \in {"preface", "get"}
    /\ blind' = blind \cup {c}
    /\ \/ Deliver(c, m) /\ UNCHANGED <<flow, marked, owed>>
       \/ HandOver(c, m)
    /\ UNCHANGED upgraded

Frames == {"ack", "request"}

PassOn(c, m) ==
    /\ Sees(c) /\ IsH2(c)
    /\ m \in Frames
    /\ HandOver(c, m)
    /\ upgraded' = IF m = "ack" THEN Put(upgraded, tuple[c], "handshaked")
                   ELSE upgraded
    /\ UNCHANGED blind

(* Slip: the mark is only written if there is none yet.                    *)
MarkNew(t) == marked' = PutNew(marked, t, TRUE)

Mark(t) == marked' = Put(marked, t, TRUE)

(* A response with or without a body.                                      *)
AnswerH2(c, m) ==
    /\ Sees(c) /\ IsH2(c)
    /\ m = "request"
    /\ upgraded[tuple[c]] = "handshaked"
    /\ tuple[c] \in DOMAIN flow
    /\ Mark(tuple[c])
    /\ \E spent \in BOOLEAN :
          flow' = IF spent THEN [flow EXCEPT ![tuple[c]] = TRUE] ELSE flow
    /\ owed' = owed \cup {c}
    /\ UNCHANGED <<upgraded, blind, first>>

Verdict(c, m) ==
    \/ Upgrade(c, m)
    \/ /\ \/ Unseen(c, m) \/ AnswerH1(c, m) \/ PassH1(c, m) \/ Unparsed(c, m)
          \/ Misread(c, m) \/ PassOn(c, m) \/ AnswerH2(c, m)
       /\ UNCHANGED midway

(* sendmsg returns with the verdict: one message at a time.                *)
Send(c) ==
    /\ Open(c)
    /\ c \notin midway
    /\ said[c] < MaxSent
    /\ said' = [said EXCEPT ![c] = @ + 1]
    /\ \E m \in Messages(c) : Verdict(c, m)
    /\ UNCHANGED <<life, clientVars, sock_map, serverVars>>

-----------------------------------------------------------------------------
Become(c, s) ==
    /\ serving' = [serving EXCEPT ![c] = s]
    /\ UNCHANGED <<life, clientVars, said, kernelVars, midway, sock_map>>

(* Slip: a connection is served before the next is accepted.               *)
AcceptInTurn ==
    /\ backlog # <<>>
    /\ \A c \in Conns : serving[c] # "protocol"
    /\ backlog' = Tail(backlog)
    /\ Become(Head(backlog), "protocol")

(* serve: each connection gets a task of its own.                          *)
Accept ==
    /\ backlog # <<>>
    /\ backlog' = Tail(backlog)
    /\ Become(Head(backlog), "protocol")

(* set_nodelay fails: the connection is given up, the loop goes on.        *)
AcceptFails ==
    /\ backlog # <<>>
    /\ backlog' = Tail(backlog)
    /\ Become(Head(backlog), "done")

(* BeeperStream::protocol: what comes first decides, and the end of the    *)
(* stream if nothing comes.                                                *)
Protocol(c) ==
    /\ serving[c] = "protocol"
    /\ \/ first[c] = "preface" /\ Become(c, "h2")
       \/ first[c] \notin {"none", "preface"} /\ Become(c, "h1")
       \/ first[c] = "none" /\ life[c] = "closed" /\ Become(c, "h1")
    /\ UNCHANGED backlog

(* serve_h1 and serve_h2 return with the stream, or with what they cannot  *)
(* read.                                                                   *)
Return(c) ==
    /\ serving[c] \in {"h1", "h2"}
    /\ life[c] = "closed" \/ (serving[c] = "h1" /\ first[c] # "get")
    /\ Become(c, "done")
    /\ UNCHANGED backlog

Server == Accept \/ AcceptFails \/ (\E c \in Conns : Protocol(c) \/ Return(c))

Next ==
    \/ \E c \in Conns :
          \/ \E t \in Tuples : Connect(c, t)
          \/ Close(c) \/ Send(c) \/ StartWindows(c)
    \/ Server

(* The loop that accepts, and the task of each connection.                 *)
Fairness == WF_vars(Accept) /\ \A c \in Conns : WF_vars(Protocol(c))

Spec == Init /\ [][Next]_vars

FairSpec == Spec /\ Fairness

-----------------------------------------------------------------------------
Map(S) ==
    UNION {[T -> S] : T \in {U \in SUBSET Tuples : Cardinality(U) <= Cap}}

(* Every variable keeps its type, and no map outgrows its capacity.        *)
TypeOK ==
    /\ life \in [Conns -> {"new", "open", "closed"}]
    /\ tuple \in [Conns -> Tuples]
    /\ speaks \in [Conns -> {"h1", "h2"}]
    /\ said \in [Conns -> Nat]
    /\ upgraded \in Map({"upgraded", "handshaked"})
    /\ flow \in Map(BOOLEAN)
    /\ marked \in Map(BOOLEAN)
    /\ sock_map \in Map(Conns)
    /\ blind \subseteq Conns /\ midway \subseteq Conns /\ owed \subseteq Conns
    /\ first \in [Conns -> {"none", "preface", "get", "private"} \cup Frames]
    /\ backlog \in Seq(Conns)
    /\ serving \in [Conns -> {"none", "protocol", "h1", "h2", "done"}]

(* However full the maps are and whatever earlier connections left in      *)
(* them, a connection that was answered in the kernel by HTTP/2 is marked  *)
(* until its table was handed over: the mark the program does not check it *)
(* could write is never lost.                                              *)
MarksKept == \A c \in owed : Open(c) => Set(marked, tuple[c])

(* A connection that said something, or ended, is accepted and served or   *)
(* given up, though others stay silent for good.                           *)
EveryoneHeard ==
    \A c \in Conns :
        (first[c] # "none" \/ life[c] = "closed")
            ~> serving[c] \in {"h1", "h2", "done"}

(* fast_path.bpf.c:12: "a connection present in the map is known to speak  *)
(* HTTP/2".                                                                *)
KnownH2 == \A c \in Conns : Open(c) /\ IsH2(c) => speaks[c] = "h2"
=============================================================================
