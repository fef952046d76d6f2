-------------------------- MODULE ScannerInvariants --------------------------
(***************************************************************************)
(* The inductive invariant behind the theorems of ScannerProofs, kept      *)
(* apart so that TLC can check it as well.                                 *)
(***************************************************************************)
EXTENDS Scanner

(* `n` bytes of the stream, the ones behind the first `a`.                 *)
Span(a, n) == [j \in 1 .. n |-> a + j]

(* The scanner's input and what it holds back are the bytes between the    *)
(* ones it is through with and the ones it has not read yet.               *)
InputInv ==
    /\ wire \in Streams
    /\ received \in 0 .. Total
    /\ rest \in Seq(Nat) /\ hold \in Seq(Nat)
    /\ rest = <<>> \/ hold = <<>>
    /\ Consumed \in Nat
    /\ rest # <<>> => rest = Span(Consumed, received - Consumed)
    /\ hold # <<>> => hold = Span(Consumed, received - Consumed)

-----------------------------------------------------------------------------
Http2 == wire[1] = Preface

(* Where in the stream each state of the scanner is.                       *)
InPreface ==
    /\ state = "Preface"
    /\ count = Consumed
    /\ count < PrefaceLen
    /\ Http2 \/ count <= Shared

InBlind == state = "Blind" /\ ~Http2

InHeader(i) ==
    /\ state = "Header"
    /\ count \in 0 .. HeaderLen - 1
    /\ Consumed = End(i) + count
    /\ buf = Span(End(i), count)

InPayload(i) ==
    /\ state = "Payload"
    /\ i # 1
    /\ Public(wire[i])
    /\ count \in 0 .. Payload(wire[i])
    /\ Consumed + count = End(i)

InFlow(i) ==
    /\ state = "Flow"
    /\ wire[i].kind = "fc"
    /\ count \in 0 .. FcLen - 1
    /\ Consumed = End(i - 1) + HeaderLen + count

(* The first byte of the payload of frame `i` is the one behind this one.  *)
Body(i) == End(i - 1) + HeaderLen

InSync(i) ==
    /\ state = "Sync"
    /\ wire[i].kind = "dt"
    /\ count \in 0 .. Payload(wire[i])
    /\ count = 0 => Payload(wire[i]) = 0
    /\ Consumed + count = End(i)
    /\ block = Span(Body(i), Consumed - Body(i))

StateInv ==
    \/ InPreface
    \/ InBlind
    \/ /\ Http2
       /\ \E i \in DOMAIN wire :
             InHeader(i) \/ InPayload(i) \/ InFlow(i) \/ InSync(i)

(* Between frames nothing is collected.                                    *)
CleanInv ==
    /\ state # "Header" => buf = <<>>
    /\ state # "Sync" => block = <<>>

-----------------------------------------------------------------------------
(* `s` lists the public bytes among the first `n`.                         *)
Lists(s, n) ==
    /\ s \in Seq(Nat)
    /\ \A j, k \in DOMAIN s : j < k => s[j] < s[k]
    /\ \A k \in DOMAIN s : s[k] \in 1 .. n /\ IsPublic(s[k])
    /\ \A p \in 1 .. n : IsPublic(p) => \E k \in DOMAIN s : s[k] = p

(* A header is let through when it is complete, all else as it comes.      *)
LetThrough == IF state = "Header" THEN Consumed - count ELSE Consumed

GivenInv ==
    /\ read \in Seq(Nat) /\ out \in Seq(Nat)
    /\ Lists(Given, LetThrough)

(* An update that is pending is the frame the scanner has just got past.   *)
PendingInv ==
    IsPending =>
        /\ state = "Header" /\ count = 0 /\ rest = <<>>
        /\ \E i \in DOMAIN wire :
              /\ wire[i].kind = "dt"
              /\ Consumed = End(i)
              /\ blocks = <<Span(Body(i), Payload(wire[i]))>>

(* The scanner does not turn to an empty update before the byte behind it. *)
EmptyInv ==
    state = "Header" /\ count = 0 /\ EmptyUpdateEnds(Consumed)
        => Consumed < received

ScanInv ==
    InputInv /\ StateInv /\ CleanInv /\ GivenInv /\ PendingInv /\ EmptyInv
=============================================================================
