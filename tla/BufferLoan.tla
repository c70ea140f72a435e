----------------------------- MODULE BufferLoan -----------------------------
(***************************************************************************)
(* What a program and a decoder owe each other about output buffers,       *)
(* without calls, messages and arguments (ividdec3.h, outputID, freeBufID  *)
(* and outBufsInUseFlag of IVIDDEC3_OutArgs; the list of free buffers of   *)
(* src/test.c).  A buffer that the decoder has comes back into use only    *)
(* by way of its report that it needs the buffer no longer.                *)
(***************************************************************************)
CONSTANT Buffers

VARIABLE place    \* where each buffer is:
                  \*   "gone"   not allocated, or out of everybody's sight
                  \*   "free"   on the list of the program
                  \*   "lent"   given to the decoder with the current frame
                  \*   "codec"  kept by the decoder
                  \*   "back"   reported as free

In(l) == {b \in Buffers : place[b] = l}
Move(S, l) == [b \in Buffers |-> IF b \in S THEN l ELSE place[b]]

Init == place = [b \in Buffers |-> "gone"]

Allocate == /\ In("gone") = Buffers
            /\ place' = Move(Buffers, "free")

\* One buffer goes with each frame.
Lend == /\ In("lent") = {}
        /\ \E b \in In("free") : place' = Move({b}, "lent")

\* The decoder keeps the buffer lent or not, and reports some of those it has.
Decode == /\ In("back") = {}
          /\ \E have \in {In("codec"), In("lent") \cup In("codec")} :
             \E rel \in SUBSET have :
                place' = [b \in Buffers |-> IF b \in rel THEN "back"
                                           ELSE IF b \in have THEN "codec"
                                           ELSE place[b]]

\* All that was reported is free again; a buffer lent that the decoder has
\* ignored is lost.
Collect == place' = [b \in Buffers |-> IF place[b] = "back" THEN "free"
                                       ELSE IF place[b] = "lent" THEN "gone"
                                       ELSE place[b]]

\* A decoder that fails or is deleted does not report.
Forget == \E l \in {"lent", "codec"} : place' = Move(In(l), "gone")

Free == /\ In("lent") = {} /\ In("codec") = {} /\ In("back") = {}
        /\ place' = [b \in Buffers |-> "gone"]

Next == Allocate \/ Lend \/ Decode \/ Collect \/ Forget \/ Free

Spec == Init /\ [][Next]_place
=============================================================================
