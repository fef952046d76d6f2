------------------------------ MODULE MCBeeper ------------------------------
(***************************************************************************)
(* Instances of Beeper for TLC: the functions a .cfg cannot write down.    *)
(***************************************************************************)
EXTENDS BeeperInvariants, TLC

(* Every entry takes up one unit of a sync frame's body.                   *)
UnitEntries == [e \in Entries |-> 1]

(* Responses without a body, so that the windows play no part ...          *)
NoData == [p \in Routes |-> 0]

(* ... and responses that spend one unit of window.                        *)
UnitData == [p \in Routes |-> 1]

(* Entries differ in nothing but their name.                               *)
EntrySymmetry == Permutations(Entries)
=============================================================================
