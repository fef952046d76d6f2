------------------------------- MODULE Answers -------------------------------
(***************************************************************************)
(* Responses over the renderings that fast_path.rs makes of files, and     *)
(* what a client makes of a response.                                      *)
(***************************************************************************)
EXTENDS ResponseInvariants, Rendering

CONSTANT File  \* the file of each path

ASSUME AnswerAssumption ==
    /\ MaxFrameSize \in Nat \ {0}
    /\ \A p \in Paths :
          /\ File[p] \in Seq(Bytes)
          /\ Http1[p] = RenderResponse(File[p])
          /\ Http2[p] = RenderH2Response(File[p])
    /\ \A b \in Bytes : b[1] = "length" => b[2] \in Nat

(* A client that is answered by the fast path reads the file it asked for, *)
(* in frames it may refuse none of, on the stream it asked on and ended    *)
(* once; and what the program takes off the windows is what the client     *)
(* counts.                                                                 *)
AnsweredWhole ==
    pc = "served" =>
        IF IsH2 THEN /\ AnswersH2(msg, File[Path], req.sid)
                     /\ charged = DataBytes(msg)
        ELSE msg = RenderResponse(File[Path]) /\ charged = 0
=============================================================================
