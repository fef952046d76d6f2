------------------------------ MODULE Rendering ------------------------------
(***************************************************************************)
(* The renderings fast_path.rs prepares of a file: the response in         *)
(* HTTP/1.1, and the one in HTTP/2 with the places that wait for a stream  *)
(* id.  And, to judge them by, what a client reads out of a response.      *)
(*                                                                         *)
(* A byte is a pair: what it is part of, and the number it stands for      *)
(* there.  A frame header has all its nine bytes; a header field, whose    *)
(* spelling nothing depends on, is one.                                    *)
(***************************************************************************)
EXTENDS Naturals, SequencesExt, Sums

CONSTANT MaxFrameSize  \* MAX_FRAME_SIZE

Ceil(n, d) == (n + d - 1) \div d

-----------------------------------------------------------------------------
RenderResponse(file) ==
    <<<<"status", 200>>, <<"content-length", Len(file)>>, <<"blank", 0>>>>
        \o file

DATA == 0
HEADERS == 1
EndStream == 1
EndHeaders == 4

H2Frame(kind, flags, payload) ==
    [i \in 1 .. 3 |-> <<"length", Len(payload)>>]
        \o <<<<"kind", kind>>, <<"flags", flags>>>>
        \o [i \in 1 .. 4 |-> <<"sid", 0>>]
        \o payload

Fields(file) == <<<<"status", 200>>, <<"content-length", Len(file)>>>>

(* Slip: an empty body is left without a frame.                            *)
NoEmptyChunk(s) ==
    [i \in 1 .. Ceil(Len(s), MaxFrameSize) |->
        SubSeq(s, (i - 1) * MaxFrameSize + 1, Min({i * MaxFrameSize, Len(s)}))]

(* The pieces of a body, an empty one included.                            *)
Chunks(s) ==
    IF s = <<>> THEN <<s>>
    ELSE [i \in 1 .. Ceil(Len(s), MaxFrameSize) |->
            SubSeq(s, (i - 1) * MaxFrameSize + 1,
                      Min({i * MaxFrameSize, Len(s)}))]

ResponseFrames(file) ==
    LET chunks == Chunks(file)
        last   == Len(chunks)
    IN  <<H2Frame(HEADERS, EndHeaders, Fields(file))>>
          \o [i \in 1 .. last |->
                H2Frame(DATA, IF i = last THEN EndStream ELSE 0, chunks[i])]

(* The stream id is at offset 5 of each frame's header.                    *)
RenderH2Response(file) ==
    LET frames == ResponseFrames(file)
    IN  [body     |-> FlattenSeq(frames),
         sid_offs |-> [i \in DOMAIN frames |->
                         Len(FlattenSeq(SubSeq(frames, 1, i - 1))) + 5],
         data_len |-> Len(file)]

-----------------------------------------------------------------------------
(* A frame lies at position `k` of `s`, and what a client reads there.     *)
IsFrame(s, k) ==
    /\ k + 8 <= Len(s)
    /\ s[k][1] = "length"
    /\ k + 8 + s[k][2] <= Len(s)

FrameAt(s, k) ==
    [kind    |-> s[k + 3][2],
     flags   |-> s[k + 4][2],
     sid     |-> {s[j] : j \in k + 5 .. k + 8},
     payload |-> SubSeq(s, k + 9, k + 8 + s[k][2])]

Unread == [kind |-> 0, flags |-> 0, sid |-> {}, payload |-> <<>>]

(* The frames a client reads in `s`, up to the first it cannot read.       *)
ReadFrames(s) ==
    LET from[k \in 1 .. Len(s) + 1] ==
          IF k > Len(s) THEN <<>>
          ELSE IF ~IsFrame(s, k) THEN <<Unread>>
          ELSE <<FrameAt(s, k)>> \o from[k + 9 + s[k][2]]
    IN  from[1]

(* `s` answers a request for `file` on stream `sid`: one HEADERS frame, the   *)
(* file in DATA frames any peer takes, the stream ended by the last one    *)
(* and every frame on that stream.                                         *)
AnswersH2(s, file, sid) ==
    LET frames == ReadFrames(s)
        data   == Tail(frames)
    IN  /\ Len(frames) >= 2
        /\ frames[1].kind = HEADERS
        /\ frames[1].flags = EndHeaders
        /\ frames[1].payload = Fields(file)
        /\ \A i \in DOMAIN frames : frames[i].sid = {<<"sid", sid>>}
        /\ \A i \in DOMAIN data :
              /\ data[i].kind = DATA
              /\ data[i].flags = IF i = Len(data) THEN EndStream ELSE 0
              /\ Len(data[i].payload) <= MaxFrameSize
        /\ FlattenSeq([i \in DOMAIN data |-> data[i].payload]) = file

(* The payload a client counts against its windows.                        *)
DataBytes(s) ==
    LET frames == ReadFrames(s)
    IN  SumTo([i \in DOMAIN frames |->
                 IF frames[i].kind = DATA THEN Len(frames[i].payload) ELSE 0],
              Len(frames))
=============================================================================
