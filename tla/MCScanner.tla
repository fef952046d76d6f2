------------------------------ MODULE MCScanner ------------------------------
(***************************************************************************)
(* Instances of Scanner for TLC.                                           *)
(***************************************************************************)
EXTENDS ScannerInvariants

UnitEntries == [e \in Entries |-> 1]

(* Payloads: an acknowledgement is empty, as it is on the wire.            *)
Lengths == [k \in {"ack", "other", "junk"} |-> IF k = "ack" THEN 0 ELSE 2]

(* What the fast path passes on at a time: a frame of the client, perhaps  *)
(* with the dynamic table in front, perhaps with a report in front of it.  *)
Passed ==
    LET entry == CHOOSE e \in Entries : TRUE
        Rep == {<<>>, <<FcSync(1, 1)>>}
        Upd == {<<>>, <<DtSync(<<>>)>>, <<DtSync(<<entry, entry>>)>>}
    IN  {r \o u \o <<f>> : r \in Rep, u \in Upd, f \in {SettingsAck, Other}}

(* A connection with two such messages behind the preface, and one that is *)
(* not HTTP/2.                                                             *)
TwoPassed ==
    {<<Preface>> \o p \o q : p \in Passed, q \in Passed} \cup {<<Junk>>}

OnePassed == {<<Preface>> \o p : p \in Passed} \cup {<<Junk>>}
=============================================================================
