----------------------------- MODULE MCResponses -----------------------------
(***************************************************************************)
(* Answers for TLC, with files of the lengths that matter.                 *)
(***************************************************************************)
EXTENDS Answers

CONSTANTS Empty, Short, Full, Wide, Huge, Long

(* With frames of 4 bytes and messages of 48: an empty file; one with a    *)
(* last frame that is not full; one that fills a message over HTTP/2 to    *)
(* the last byte; one that only fits over HTTP/1.1; one that fits neither  *)
(* way.                                                                    *)
Length(p) ==
    CASE p = Empty -> 0
      [] p = Short -> 5
      [] p = Full  -> 10
      [] p = Wide  -> 11
      [] p = Huge  -> 46
      [] p = Long  -> 1

Files == [p \in Paths |-> [i \in 1 .. Length(p) |-> <<p, i>>]]

AllHttp1 == [p \in Paths |-> RenderResponse(Files[p])]
AllHttp2 == [p \in Paths |-> RenderH2Response(Files[p])]

AllBytes ==
    UNION {Range(RenderResponse(Files[p]))
             \cup Range(RenderH2Response(Files[p]).body) : p \in Paths}
=============================================================================
