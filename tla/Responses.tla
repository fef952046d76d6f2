------------------------------ MODULE Responses ------------------------------
(***************************************************************************)
(* The responses of the fast path: how FastPath::attach lays the           *)
(* renderings of fast_path.rs out in the arena and indexes them, and how   *)
(* serve_route of fast_path.bpf.c makes a request's message over into one  *)
(* of them, a chunk at a time.                                             *)
(*                                                                         *)
(* What the renderings are is left to the constants; module Rendering says *)
(* what the code renders.  The kernel's helpers fail if Faults says so.    *)
(***************************************************************************)
EXTENDS Naturals, FiniteSets, Sequences

CONSTANTS
    Paths,
    LongPaths,    \* paths with a key longer than MAX_ROUTE_PATH
    Bytes,        \* what renderings are made of
    Http1,        \* render_response of each path's file
    Http2,        \* render_h2_response of each path's file
    MaxRoutes, Chunk, MaxChunks, MaxSidOffs, CopyBlock, PageSize,
    Streams,      \* ids a client may ask on
    Sizes,        \* lengths of request messages
    Rooms,        \* what may be left of the client's window
    Faults

Rendered == [body : Seq(Bytes), sid_offs : Seq(Nat), data_len : Nat]

ASSUME ResponseAssumption ==
    /\ IsFiniteSet(Paths)
    /\ LongPaths \subseteq Paths
    /\ Http1 \in [Paths -> Seq(Bytes)]
    /\ Http2 \in [Paths -> Rendered]
    /\ \A p \in Paths :
          /\ Http1[p] # <<>>
          /\ Http2[p].body # <<>>
          /\ \A i \in DOMAIN Http2[p].sid_offs :
                Http2[p].sid_offs[i] + 4 <= Len(Http2[p].body)
    /\ MaxRoutes \in Nat /\ MaxChunks \in Nat /\ MaxSidOffs \in Nat
    /\ Chunk \in Nat \ {0} /\ CopyBlock \in Nat \ {0} /\ PageSize \in Nat \ {0}
    /\ Streams \subseteq Nat \ {0} /\ Sizes \subseteq Nat \ {0}
    /\ Rooms \subseteq Nat

VARIABLES
    pc,         \* the step attach or serve_route is at
    turn,       \* the turns the loop there has made
    todo,       \* attach: the routes it has not come to
    prepared,
    arena_len,
    arena,
    routes,     \* the table in .bss
    route_idx,
    req,        \* the request at hand
    msg,        \* the message it came in
    charged,    \* what was taken off the windows for it
    failed      \* history: a helper failed on it

attachVars == <<todo, prepared, arena_len, arena, routes, route_idx>>
vars == <<pc, turn, attachVars, req, msg, charged, failed>>

-----------------------------------------------------------------------------
MaxRouteBody == MaxChunks * Chunk

Lesser(m, n) == IF m < n THEN m ELSE n

(* A response without an HTTP/2 rendering, as .bss has it.                 *)
None == [body |-> <<>>, off |-> 0, sid_offs |-> <<>>, data_len |-> 0]

Fits(r) == Len(r.body) <= MaxRouteBody /\ Len(r.sid_offs) <= MaxSidOffs

Keys(p) == {<<"plain", p>>, <<"huffman", p>>}

NoRequest == [key |-> <<>>, sid |-> 0, size |-> 0, room |-> 0]

Init ==
    /\ pc = "attach" /\ turn = 0
    /\ todo \in SUBSET Paths
    /\ prepared = <<>> /\ arena_len = 0
    /\ arena = <<>> /\ routes = <<>> /\ route_idx = [k \in {} |-> 0]
    /\ req = NoRequest
    /\ msg = <<>> /\ charged = 0 /\ failed = FALSE

-----------------------------------------------------------------------------
(* FastPath::attach.                                                       *)
servingVars == <<req, msg, charged, failed>>

CountRoutes ==
    /\ pc = "attach"
    /\ pc' = IF Cardinality(todo) > MaxRoutes THEN "bailed" ELSE "prepare"
    /\ UNCHANGED <<turn, attachVars, servingVars>>

(* Slip: the HTTP/2 rendering is placed where the HTTP/1.1 one is.         *)
PlaceOver(p) ==
    LET h2 == IF Fits(Http2[p])
              THEN [body |-> Http2[p].body, off |-> arena_len,
                    sid_offs |-> Http2[p].sid_offs,
                    data_len |-> Http2[p].data_len]
              ELSE None
    IN  /\ prepared' = Append(prepared,
                [path |-> p, body |-> Http1[p], body_off |-> arena_len,
                 h2 |-> h2])
        /\ arena_len' = arena_len + Len(Http1[p]) + Len(h2.body)

(* Where a route's renderings go: behind all that was placed before.       *)
Place(p) ==
    LET behind == arena_len + Len(Http1[p])
        h2 == IF Fits(Http2[p])
              THEN [body |-> Http2[p].body, off |-> behind,
                    sid_offs |-> Http2[p].sid_offs,
                    data_len |-> Http2[p].data_len]
              ELSE None
    IN  /\ prepared' = Append(prepared,
                [path |-> p, body |-> Http1[p], body_off |-> arena_len,
                 h2 |-> h2])
        /\ arena_len' = behind + Len(h2.body)

(* A turn of the loop over the routes, which come in any order.            *)
Prepare(p) ==
    /\ pc = "prepare"
    /\ todo' = todo \ {p}
    /\ \/ /\ p \in LongPaths
          /\ pc' = "bailed"
          /\ UNCHANGED <<prepared, arena_len>>
       \/ /\ p \notin LongPaths
          /\ Len(Http1[p]) > MaxRouteBody
          /\ UNCHANGED <<pc, prepared, arena_len>>
       \/ /\ p \notin LongPaths
          /\ Len(Http1[p]) <= MaxRouteBody
          /\ Place(p)
          /\ UNCHANGED pc
    /\ UNCHANGED <<turn, arena, routes, route_idx, servingVars>>

(* A route as the table in .bss has it.                                    *)
Route(r) ==
    [body_off |-> r.body_off, body_len |-> Len(r.body),
     h2_body_off |-> r.h2.off, h2_body_len |-> Len(r.h2.body),
     h2_sid_offs |-> r.h2.sid_offs, h2_data_len |-> r.h2.data_len]

Pages == IF arena_len = 0 THEN 1 ELSE (arena_len + PageSize - 1) \div PageSize

Load ==
    /\ pc = "prepare" /\ todo = {}
    /\ routes' = [i \in DOMAIN prepared |-> Route(prepared[i])]
    /\ arena' = [b \in 1 .. Pages * PageSize |-> <<"zero", 0>>]
    /\ pc' = "copy" /\ turn' = 0
    /\ UNCHANGED <<todo, prepared, arena_len, route_idx, servingVars>>

(* `a` with `s` written over it from offset `off` on.                      *)
Overlay(a, off, s) ==
    [b \in DOMAIN a |->
        IF b \in off + 1 .. off + Len(s) THEN s[b - off] ELSE a[b]]

CopyIn ==
    /\ pc = "copy"
    /\ IF turn < Len(prepared)
       THEN LET r == prepared[turn + 1] IN
            /\ arena' = Overlay(Overlay(arena, r.body_off, r.body),
                                r.h2.off, r.h2.body)
            /\ turn' = turn + 1
            /\ UNCHANGED pc
       ELSE /\ pc' = "index" /\ turn' = 0
            /\ UNCHANGED arena
    /\ UNCHANGED <<todo, prepared, arena_len, routes, route_idx, servingVars>>

Index ==
    /\ pc = "index"
    /\ IF turn < Len(prepared)
       THEN /\ route_idx' =
                 [k \in DOMAIN route_idx \cup Keys(prepared[turn + 1].path) |->
                    IF k \in Keys(prepared[turn + 1].path) THEN turn
                    ELSE route_idx[k]]
            /\ turn' = turn + 1
            /\ UNCHANGED pc
       ELSE /\ pc' = "idle" /\ turn' = 0
            /\ UNCHANGED route_idx
    /\ UNCHANGED <<todo, prepared, arena_len, arena, routes, servingVars>>

Attach == CountRoutes \/ (\E p \in todo : Prepare(p)) \/ Load \/ CopyIn \/ Index

-----------------------------------------------------------------------------
(* try_serve_route and serve_route, on a request of `n` bytes for `p`, by  *)
(* HTTP/2 unless `sid` is zero, with the client's window open by `room`.   *)
Request(n) == [i \in 1 .. n |-> <<"request", i>>]

Receive(p, form, sid, n, room) ==
    /\ pc = "idle"
    /\ form = "huffman" => sid # 0
    /\ req' = [key |-> <<form, p>>, sid |-> sid, size |-> n, room |-> room]
    /\ msg' = Request(n)
    /\ pc' = "check"
    /\ UNCHANGED <<turn, attachVars, charged, failed>>

Known == req.key \in DOMAIN route_idx

Asked == routes[Lesser(route_idx[req.key], MaxRoutes - 1) + 1]

IsH2 == req.sid # 0

BodyLen == IF IsH2 THEN Asked.h2_body_len ELSE Asked.body_len

BodyOff == IF IsH2 THEN Asked.h2_body_off ELSE Asked.body_off

(* Slip: the limit itself is refused.                                      *)
BelowLimit ==
    /\ Known
    /\ BodyLen # 0 /\ BodyLen < MaxRouteBody
    /\ IsH2 => Asked.h2_data_len <= req.room

(* A route without the rendering asked for has one of length zero.         *)
Servable ==
    /\ Known
    /\ BodyLen # 0 /\ BodyLen <= MaxRouteBody
    /\ IsH2 => Asked.h2_data_len <= req.room

Goto(step) == pc' = step /\ turn' = 0

Check ==
    /\ pc = "check"
    /\ Goto(IF ~Servable THEN "refused"
            ELSE IF BodyLen > Len(msg) THEN "grow"
            ELSE IF BodyLen < Len(msg) THEN "pop" ELSE "window")
    /\ UNCHANGED <<attachVars, servingVars>>

(* A helper of the kernel fails: serve_route returns at once.              *)
Fails(helper) ==
    /\ helper \in Faults
    /\ failed' = TRUE
    /\ Goto("refused")
    /\ UNCHANGED <<attachVars, req, msg, charged>>

(* A turn that succeeds and changes nothing but the message.               *)
Turn ==
    /\ turn' = turn + 1
    /\ UNCHANGED <<pc, attachVars, req, charged, failed>>

Growing == turn < MaxChunks /\ Len(msg) < BodyLen

Grow ==
    /\ pc = "grow" /\ Growing
    /\ \/ LET n == Lesser(BodyLen - Len(msg), Chunk) IN
          msg' = msg \o [i \in 1 .. n |-> <<"raw", 0>>] /\ Turn
       \/ Fails("push")

Grown ==
    /\ pc = "grow" /\ ~Growing
    /\ Goto(IF Len(msg) = BodyLen THEN "window" ELSE "refused")
    /\ UNCHANGED <<attachVars, servingVars>>

Pop ==
    /\ pc = "pop"
    /\ \/ /\ msg' = SubSeq(msg, 1, BodyLen)
          /\ Goto("window")
          /\ UNCHANGED <<attachVars, req, charged, failed>>
       \/ Fails("pop")

(* Slip: copy_chunk leaves the end of a window that is no whole block.     *)
WholeBlocks(n) == Lesser(n \div CopyBlock, Chunk \div CopyBlock) * CopyBlock

(* copy_chunk: as many whole blocks as fit in a window of `n` bytes, and   *)
(* then the bytes left, less than a block of them.                         *)
Moved(n) ==
    LET done == Lesser(n \div CopyBlock, Chunk \div CopyBlock) * CopyBlock
    IN  Lesser(n, done + CopyBlock)

Copying == turn < MaxChunks /\ turn * Chunk < BodyLen

CopyWindow ==
    /\ pc = "window" /\ Copying
    /\ \/ LET off == turn * Chunk
              n   == Moved(Lesser(BodyLen - off, Chunk))
          IN  /\ msg' = Overlay(msg, off, SubSeq(arena, BodyOff + off + 1,
                                                       BodyOff + off + n))
              /\ Turn
       \/ Fails("pull")

Copied ==
    /\ pc = "window" /\ ~Copying
    /\ Goto(IF IsH2 THEN "sids" ELSE "redirect")
    /\ UNCHANGED <<attachVars, servingVars>>

Stamping == turn < Lesser(Len(Asked.h2_sid_offs), MaxSidOffs)

WriteSid ==
    /\ pc = "sids" /\ Stamping
    /\ LET off == Asked.h2_sid_offs[turn + 1] IN
       IF off + 4 > MaxRouteBody
       THEN Goto("refused") /\ UNCHANGED <<attachVars, servingVars>>
       ELSE \/ /\ msg' = Overlay(msg, off, [i \in 1 .. 4 |-> <<"sid", req.sid>>])
               /\ Turn
            \/ Fails("pull")

Stamped ==
    /\ pc = "sids" /\ ~Stamping
    /\ Goto("redirect")
    /\ UNCHANGED <<attachVars, servingVars>>

Redirect ==
    /\ pc = "redirect"
    /\ \/ /\ charged' = IF IsH2 THEN Asked.h2_data_len ELSE 0
          /\ Goto("served")
          /\ UNCHANGED <<attachVars, req, msg, failed>>
       \/ Fails("redirect")

(* The message is on its way, to the client or to user space.              *)
Leave ==
    /\ pc \in {"served", "refused"}
    /\ req' = NoRequest
    /\ msg' = <<>> /\ charged' = 0 /\ failed' = FALSE
    /\ Goto("idle")
    /\ UNCHANGED attachVars

Serve ==
    \/ \E p \in Paths, form \in {"plain", "huffman"}, sid \in Streams \cup {0},
          n \in Sizes, room \in Rooms : Receive(p, form, sid, n, room)
    \/ Check \/ Grow \/ Grown \/ Pop \/ CopyWindow \/ Copied
    \/ WriteSid \/ Stamped \/ Redirect \/ Leave

Next == Attach \/ Serve

Spec == Init /\ [][Next]_vars

-----------------------------------------------------------------------------
Attached == pc \notin {"attach", "prepare", "copy", "index", "bailed"}

Path == req.key[2]

(* Whatever order the routes come in and whichever of their renderings     *)
(* were left out, a key leads to the renderings of its own path, in one    *)
(* piece: the copy into the arena put none over another's end.             *)
LoadedWhole ==
    Attached =>
        \A k \in DOMAIN route_idx :
            LET r == routes[route_idx[k] + 1]
                at(off, len) == SubSeq(arena, off + 1, off + len)
            IN  /\ at(r.body_off, r.body_len) = Http1[k[2]]
                /\ IF Fits(Http2[k[2]])
                   THEN at(r.h2_body_off, r.h2_body_len) = Http2[k[2]].body
                   ELSE r.h2_body_len = 0

(* What is redirected is the rendering itself, with the stream id written  *)
(* into every place that waits for one and nowhere else, whatever the      *)
(* length of the request it was written over.                              *)
InSid(i) ==
    \E j \in DOMAIN Http2[Path].sid_offs :
        i - Http2[Path].sid_offs[j] \in 1 .. 4

ServedAsRendered ==
    pc = "served" =>
        LET whole == IF IsH2 THEN Http2[Path].body ELSE Http1[Path]
        IN  /\ Len(msg) = Len(whole)
            /\ \A i \in DOMAIN whole :
                  msg[i] = IF IsH2 /\ InSid(i) THEN <<"sid", req.sid>>
                           ELSE whole[i]

(* The limits of attach are those of serve_route: as long as no helper     *)
(* fails, a request for a route that was loaded, by a protocol it has a    *)
(* rendering for and with room in the windows, is not refused half way.    *)
NeverRefused ==
    pc = "refused" =>
        \/ failed
        \/ ~Known
        \/ IsH2 /\ ~Fits(Http2[Path])
        \/ IsH2 /\ Http2[Path].data_len > req.room

(* fast_path.bpf.c:778: what is not served "is passed on to the user space *)
(* server": the request that came, not what became of it meanwhile.        *)
PassedOnWhole == pc = "refused" => msg = Request(req.size)
=============================================================================
