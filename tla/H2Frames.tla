------------------------------ MODULE H2Frames ------------------------------
(***************************************************************************)
(* One HTTP/2 connection as the fast path and user space both see it: the  *)
(* frames that cross it, the HPACK dynamic table those frames build up,    *)
(* and the two places a frame can be while nobody is working on it.        *)
(*                                                                         *)
(* A frame is a record named by its kind.  The two private kinds are the   *)
(* fast path's own: DT_SYNC_FRAME_TYPE (0xFB) hands a dynamic table over,  *)
(* FC_SYNC_FRAME_TYPE (0xFA) reports bytes of the window that were spent.  *)
(*                                                                         *)
(* Some fields are history: `ctx` is the client's table when it encoded a  *)
(* request, and `upto` is the total granted or reported so far.  No action *)
(* of the program reads `upto`; `ctx` is read only to tell whether a       *)
(* decoder got the meaning the client intended.                            *)
(***************************************************************************)
EXTENDS Integers, Sequences, FiniteSetsExt

CONSTANTS
    Entries,         \* header fields a request may add to the dynamic table
    NoEntry,         \* a request that adds none
    EntryLen,        \* bytes each entry takes up in a sync frame
    Oversized,       \* entries with a name or value longer than MAX_SYNC_FIELD
    TableCap,        \* entries the dynamic table holds before it evicts
    MaxSyncEntries,  \* MAX_SYNC_ENTRIES
    MaxSyncBody,     \* MAX_SYNC_BODY
    Paths,           \* request paths
    Garbled,         \* what a request decoded against a wrong table asks for
    InitWindow,      \* H2_INITIAL_WINDOW
    MaxWindow,       \* H2_MAX_WINDOW
    Windows,         \* SETTINGS_INITIAL_WINDOW_SIZE values a client announces
    Incs,            \* WINDOW_UPDATE increments a client sends
    Faults           \* failures that may happen, see FastPath and ServeH2

ASSUME TableAssumption ==
    /\ NoEntry \notin Entries
    /\ Oversized \subseteq Entries
    /\ EntryLen \in [Entries -> Nat]
    /\ TableCap \in Nat /\ MaxSyncEntries \in Nat /\ MaxSyncBody \in Nat

ASSUME PathAssumption == Garbled \notin Paths

ASSUME WindowAssumption ==
    /\ MaxWindow \in Nat
    /\ InitWindow \in 0..MaxWindow
    /\ Windows \subseteq 0..MaxWindow
    /\ Incs \subseteq 1..MaxWindow

ASSUME FaultAssumption ==
    Faults \subseteq {"parse", "push", "pull", "yield", "refuse"}

Fault(x) == x \in Faults

VARIABLES
    msg,   \* frames the client's sendmsg still has in front of msg_verdict
    wire,  \* every frame passed on towards the server, oldest first
    cut    \* sendmsg failed with SK_DROP: the client gives the connection up

socketVars == <<msg, wire, cut>>

-----------------------------------------------------------------------------
Preface        == [kind |-> "preface"]
Settings(w)    == [kind |-> "settings", win |-> w]
SettingsAck    == [kind |-> "ack"]
Update(n, u)   == [kind |-> "window", inc |-> n, upto |-> u]
Other          == [kind |-> "other"]     \* PING, PRIORITY, DATA, ...
Junk           == [kind |-> "junk"]      \* bytes that are not a frame
Headers(s, p, e, t) ==
    [kind |-> "headers", sid |-> s, path |-> p, add |-> e, ctx |-> t]
DtSync(t)      == [kind |-> "dt", table |-> t]
FcSync(n, u)   == [kind |-> "fc", sent |-> n, upto |-> u]

Table == Seq(Entries)

Frame ==
    {Preface, SettingsAck, Other, Junk}
    \cup [kind : {"settings"}, win : Windows]
    \cup [kind : {"window"}, inc : Incs, upto : Nat]
    \cup [kind : {"headers"}, sid : Nat, path : Paths,
          add : Entries \cup {NoEntry}, ctx : Table]
    \cup [kind : {"dt"}, table : Table]
    \cup [kind : {"fc"}, sent : Nat, upto : Nat]

Private(f) == f.kind \in {"dt", "fc"}

-----------------------------------------------------------------------------
(* HPACK.  A table lists its entries newest first, i.e. by HPACK index.    *)

Evict(t) == SubSeq(t, 1, IF Len(t) <= TableCap THEN Len(t) ELSE TableCap)

Learn(t, e) == IF e = NoEntry THEN t ELSE Evict(<<e>> \o t)

(* The table `t` after the header block of `f`, if it has one.             *)
LearnFrom(t, f) == IF f.kind = "headers" THEN Learn(t, f.add) ELSE t

SocketInit == msg = <<>> /\ wire = <<>> /\ cut = FALSE

SocketTypeOK ==
    /\ msg \in Seq(Frame)
    /\ wire \in Seq(Frame)
    /\ cut \in BOOLEAN
=============================================================================
