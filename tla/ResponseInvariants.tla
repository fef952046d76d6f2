-------------------------- MODULE ResponseInvariants --------------------------
(***************************************************************************)
(* The inductive invariant behind the theorems about Responses.            *)
(***************************************************************************)
EXTENDS Responses

Byte ==
    Bytes \cup {<<"zero", 0>>, <<"raw", 0>>}
          \cup ({"request"} \X Nat) \cup ({"sid"} \X Nat)

Prepared ==
    [path : Paths, body : Seq(Bytes), body_off : Nat,
     h2 : [body : Seq(Bytes), off : Nat, sid_offs : Seq(Nat), data_len : Nat]]

Asking ==
    [key : {"plain", "huffman"} \X Paths, sid : Nat, size : Nat, room : Nat]

Handling == {"check", "grow", "pop", "window", "sids", "redirect", "served",
             "refused"}
Attaching == {"attach", "prepare", "copy", "index", "bailed"}

LayoutTypes ==
    /\ pc \in Attaching \cup {"idle"} \cup Handling
    /\ turn \in Nat
    /\ todo \in SUBSET Paths
    /\ prepared \in Seq(Prepared)
    /\ arena_len \in Nat
    /\ arena \in Seq(Byte)
    /\ DOMAIN route_idx \subseteq {"plain", "huffman"} \X Paths
    /\ \A k \in DOMAIN route_idx : route_idx[k] \in Nat

RequestTypes ==
    /\ req \in Asking \cup {NoRequest}
    /\ pc \in Handling => req \in Asking
    /\ msg \in Seq(Byte)
    /\ charged \in Nat
    /\ failed \in BOOLEAN

(* Every variable keeps its type.                                          *)
TypeOK == LayoutTypes /\ RequestTypes

-----------------------------------------------------------------------------
(* A prepared route holds the renderings of its path, those that fit.      *)
Renders(r) ==
    /\ r.body = Http1[r.path]
    /\ Len(r.body) <= MaxRouteBody
    /\ \/ /\ Fits(Http2[r.path])
          /\ r.h2.body = Http2[r.path].body
          /\ r.h2.sid_offs = Http2[r.path].sid_offs
          /\ r.h2.data_len = Http2[r.path].data_len
       \/ ~Fits(Http2[r.path]) /\ r.h2 = None

(* Its renderings are placed one behind the other, between `low` and       *)
(* `high`.                                                                 *)
Within(r, low, high) ==
    /\ low <= r.body_off
    /\ r.body_off + Len(r.body) <= high
    /\ r.h2.body # <<>> =>
          /\ r.body_off + Len(r.body) <= r.h2.off
          /\ r.h2.off + Len(r.h2.body) <= high

PlacesInv ==
    /\ \A i \in DOMAIN prepared :
          /\ Renders(prepared[i])
          /\ Within(prepared[i], 0, arena_len)
    /\ \A i, j \in DOMAIN prepared :
          i < j => Within(prepared[i], 0, prepared[j].body_off)
    /\ pc = "prepare" => Cardinality(todo) + Len(prepared) <= MaxRoutes
    /\ pc \notin {"attach", "bailed"} => Len(prepared) <= MaxRoutes
    /\ pc = "attach" => prepared = <<>>

(* The arena holds what a prepared route holds, where it says.             *)
Holds(r) ==
    /\ \A b \in 1 .. Len(r.body) : arena[r.body_off + b] = r.body[b]
    /\ \A b \in 1 .. Len(r.h2.body) : arena[r.h2.off + b] = r.h2.body[b]

ArenaInv ==
    pc \notin {"attach", "prepare", "bailed"} =>
        /\ routes = [i \in DOMAIN prepared |-> Route(prepared[i])]
        /\ arena_len <= Len(arena)
        /\ pc \in {"copy", "index"} => turn <= Len(prepared)
        /\ \A i \in DOMAIN prepared :
              (pc = "copy" => i <= turn) => Holds(prepared[i])

IndexInv ==
    \A k \in DOMAIN route_idx :
        /\ pc \notin {"attach", "prepare", "bailed", "copy"}
        /\ route_idx[k] + 1 \in DOMAIN prepared
        /\ prepared[route_idx[k] + 1].path = k[2]

AttachInv == PlacesInv /\ ArenaInv /\ IndexInv

-----------------------------------------------------------------------------
Whole == IF IsH2 THEN Http2[Path].body ELSE Http1[Path]

(* Byte `i` of the response, with the first `n` stream ids written.        *)
WithIds(i, n) ==
    IF IsH2 /\ \E j \in 1 .. n : i - Http2[Path].sid_offs[j] \in 1 .. 4
    THEN <<"sid", req.sid>> ELSE Whole[i]

IsResponse(n) ==
    /\ Len(msg) = Len(Whole)
    /\ \A i \in 1 .. Len(Whole) : msg[i] = WithIds(i, n)

AllIds == Len(Http2[Path].sid_offs)

ServeInv ==
    /\ pc \in {"grow", "pop", "window", "sids", "redirect", "served"} =>
          Servable
    /\ pc = "grow" =>
          /\ turn <= MaxChunks
          /\ Len(msg) <= BodyLen
          /\ Len(msg) = BodyLen \/ turn * Chunk <= Len(msg)
    /\ pc = "pop" => BodyLen < Len(msg)
    /\ pc = "window" =>
          /\ turn <= MaxChunks
          /\ Len(msg) = BodyLen
          /\ \A i \in 1 .. Len(Whole) : i <= turn * Chunk => msg[i] = Whole[i]
    /\ pc = "sids" => IsH2 /\ turn <= AllIds /\ IsResponse(turn)
    /\ pc \in {"redirect", "served"} => IsResponse(AllIds)
    /\ pc = "served" => charged = IF IsH2 THEN Http2[Path].data_len ELSE 0
    /\ NeverRefused

IInv == TypeOK /\ AttachInv /\ ServeInv
=============================================================================
