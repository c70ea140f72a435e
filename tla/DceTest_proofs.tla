--------------------------- MODULE DceTest_proofs ---------------------------
(***************************************************************************)
(* Proofs about one decoding session (DceTest), for any number of buffers, *)
(* of files and of frames in two calls, and whatever the decoder keeps.    *)
(***************************************************************************)
EXTENDS DceTest, FiniteSetTheorems, TLAPS

Before == {"start", "opened", "created", "setparams", "getbufinfo"}

\* Where main is tells which call it is in or has just made.
Shape ==
    /\ pc \in {"start", "loop", "shutdown", "out", "done"} => call.stage = "returned"
    /\ pc = "opened" => call.fn = "Engine_open"
    /\ pc = "created" => call.fn = "VIDDEC3_create"
    /\ pc \in {"setparams", "getbufinfo"} => call.fn = "VIDDEC3_control"
    /\ pc = "processed" <=> call.fn = "VIDDEC3_process" /\ pc \notin {"loop", "shutdown"}
    /\ pc = "deleted" => call.fn = "VIDDEC3_delete"
    /\ pc = "closed" => call.fn = "Engine_close"

\* A buffer is in at most one place, and the ways between the places.
Places ==
    /\ FreeListSound
    /\ locked \cap outArgs.freeBufID = {}
    /\ outArgs.freeBufID # {} => pc = "processed" /\ ~err /\ call.stage # "codec"
    /\ pc = "processed" => buf \in Buffers
    /\ pc = "processed" /\ call.stage = "codec" => buf \notin locked
    /\ pc \in Before \cup {"out"} => head = {} /\ buf = NoBuffer /\ locked = {}
    /\ pc = "loop" => buf = NoBuffer
    /\ pc = "deleted" /\ call.stage # "codec" => locked = {}
    /\ pc \in {"closed", "done"} => locked = {}

Inv == TypeOK /\ Shape /\ Places

LEMMA InitInv == Init => Inv
  <1> SUFFICES ASSUME Init PROVE Inv
    OBVIOUS
  <1> USE DEF Init
  <1>1. MemTypeOK
    BY MemAssumption DEF MemInit, MemTypeOK
  <1>2. FlagsTypeOK
    BY DEF FlagsTypeOK
  <1>3. CallTypeOK
    BY DEF CallTypeOK, Functions
  <1>4. CountsTypeOK
    BY TestAssumption DEF CountsTypeOK
  <1>5. BuffersTypeOK
    BY DEF BuffersTypeOK, NoIDs
  <1>6. Shape
    BY DEF Shape
  <1>7. Places
    BY TestAssumption DEF Places, FreeListSound, NoIDs, Before
  <1> QED BY <1>1, <1>2, <1>3, <1>4, <1>5, <1>6, <1>7 DEF Inv, TypeOK

\* Each handler by its name.
LEMMA Handed ==
  /\ Reads("VIDDEC3_create") = {"params"}
  /\ Reads("VIDDEC3_control") = {"dynParams", "status"}
  /\ Reads("VIDDEC3_process") = {"inBufs", "outBufs", "inArgs", "outArgs"}
  /\ \A fn : fn \notin {"VIDDEC3_create", "VIDDEC3_control", "VIDDEC3_process"} =>
                Reads(fn) = {} /\ Cleaned(fn) = <<>>
  /\ Cleaned("VIDDEC3_create") = <<"params">>
  /\ Cleaned("VIDDEC3_control") = <<"dynParams", "status">>
  /\ Cleaned("VIDDEC3_process") = <<"inBufs", "outBufs", "inArgs", "outArgs">>
  BY DEF Reads, Cleaned, create_hands, control_hands, process_hands, create_cleans,
     control_cleans, process_cleans

\* The blocks of a call are blocks.
LEMMA CleanedType ==
  ASSUME NEW fn
  PROVE  Cleaned(fn) \in Seq(Blocks) /\ Reads(fn) \subseteq Blocks /\ Writes(fn) \subseteq Blocks
  <1>1. <<"params">> \in Seq(Blocks) /\ <<"dynParams", "status">> \in Seq(Blocks)
        /\ <<"inBufs", "outBufs", "inArgs", "outArgs">> \in Seq(Blocks) /\ <<>> \in Seq(Blocks)
    BY TestAssumption
  <1>2. Writes(fn) \subseteq Blocks
    BY TestAssumption DEF Writes
  <1>3. CASE fn \in {"VIDDEC3_create", "VIDDEC3_control", "VIDDEC3_process"}
    BY <1>1, <1>2, <1>3, Handed, TestAssumption
  <1>4. CASE fn \notin {"VIDDEC3_create", "VIDDEC3_control", "VIDDEC3_process"}
    BY <1>1, <1>2, <1>4, Handed
  <1> QED BY <1>3, <1>4

\* What an action of main does to the call.
LEMMA CallStep ==
  ASSUME Inv, NEW fn \in Functions, NEW l, Call(fn, l)
  PROVE  /\ call' \in [fn : Functions, stage : {"codec", "clean", "returned"}, clean : Seq(Blocks)]
         /\ call'.fn = fn /\ call'.stage = "codec" /\ call'.clean = Cleaned(fn)
         /\ pc' = l
  BY CleanedType DEF Call

\* What a process call does to the buffers: the decoder has those it kept
\* and perhaps the one lent, keeps some and reports the others.
Reported(have) ==
    /\ have \in {locked, locked \cup {buf}}
    /\ outArgs'.freeBufID \subseteq have
    /\ locked' = have \ outArgs'.freeBufID

LEMMA ProcessStep ==
  ASSUME Inv, serve_process
  PROVE  /\ call.fn = "VIDDEC3_process" /\ call.stage = "codec" /\ call'.fn = call.fn
         /\ call'.stage = "clean" /\ UNCHANGED <<pc, numBufs, in_cnt, head, buf>>
         /\ pc = "processed" /\ buf \in Buffers \ locked /\ outArgs.freeBufID = {}
         /\ outArgs' \in [outputID : SUBSET Buffers, freeBufID : SUBSET Buffers]
         /\ outArgs'.freeBufID # {} => ~err'
         /\ shown' \subseteq locked' /\ locked' \subseteq Buffers
         /\ Reported(locked) \/ Reported(locked \cup {buf})
  <1> USE DEF Inv, TypeOK, CallTypeOK, BuffersTypeOK
  <1>1. /\ call.fn = "VIDDEC3_process" /\ call.stage = "codec" /\ call'.fn = call.fn
        /\ call'.stage = "clean" /\ UNCHANGED <<pc, numBufs, in_cnt, head, buf>>
    BY DEF serve_process, Serving, Served, app_vars
  <1>2. pc = "processed"
    BY <1>1 DEF Shape
  <1>3. buf \in Buffers \ locked /\ outArgs.freeBufID = {}
    BY <1>1, <1>2 DEF Places
  <1>4. PICK have \in {locked \cup {buf}} \cup (IF MayIgnore THEN {locked} ELSE {}) :
            \/ decode(have)
            \/ /\ err' = TRUE
               /\ locked' = have
               /\ outArgs' = NoIDs
               /\ UNCHANGED <<shown, inUse, fields>>
    BY DEF serve_process
  <1>5. have \in {locked, locked \cup {buf}}
    BY <1>4
  <1>6. CASE decode(have)
    <2>1. PICK rel \in SUBSET have, out \in SUBSET (have \ shown) :
              /\ locked' = have \ rel
              /\ shown' = (shown \cup out) \ rel
              /\ outArgs' = [outputID |-> out, freeBufID |-> rel]
      BY <1>6 DEF decode
    <2>2. ~err'
      BY <1>6 DEF decode
    <2> QED BY <1>1, <1>2, <1>3, <1>5, <2>1, <2>2 DEF Reported
  <1>7. CASE /\ err' = TRUE
             /\ locked' = have
             /\ outArgs' = NoIDs
             /\ UNCHANGED <<shown, inUse, fields>>
    BY <1>1, <1>2, <1>3, <1>5, <1>7 DEF Reported, NoIDs
  <1> QED BY <1>4, <1>6, <1>7

\* Every part of the type invariant that is not about where main is.
LEMMA FlagsStep == Inv /\ [Next]_vars => FlagsTypeOK'
  <1> SUFFICES ASSUME Inv, [Next]_vars PROVE FlagsTypeOK'
    OBVIOUS
  <1> USE DEF Inv, TypeOK, FlagsTypeOK
  <1>1. CASE main
    BY <1>1 DEF main, main_open, main_create, main_setparams, main_getbufinfo,
       main_allocate, main_fail, loop_process, loop_output, loop_leave, main_delete,
       main_close, main_free, dec_vars
  <1>2. CASE Serve
    BY <1>2 DEF Serve, serve_open, serve_create, serve_control, serve_process, decode,
       serve_delete, serve_close, clean, reply, dec_vars
  <1>3. CASE Evict \/ UNCHANGED vars
    BY <1>3 DEF Evict, vars, dec_vars
  <1> QED BY <1>1, <1>2, <1>3 DEF Next

LEMMA CountsStep == Inv /\ [Next]_vars => CountsTypeOK'
  <1> SUFFICES ASSUME Inv, [Next]_vars PROVE CountsTypeOK'
    OBVIOUS
  <1> USE TestAssumption DEF Inv, TypeOK, CountsTypeOK
  <1>1. CASE main
    BY <1>1 DEF main, main_open, main_create, main_setparams, main_getbufinfo,
       main_allocate, main_fail, loop_process, loop_output, loop_leave, main_delete,
       main_close, main_free, At, Goto, dec_vars
  <1>2. CASE Serve
    BY <1>2 DEF Serve, serve_open, serve_create, serve_control, serve_process, decode,
       serve_delete, serve_close, clean, reply, Served, Serving, app_vars, dec_vars
  <1>3. CASE Evict \/ UNCHANGED vars
    BY <1>3 DEF Evict, vars, app_vars, dec_vars
  <1> QED BY <1>1, <1>2, <1>3 DEF Next

LEMMA BuffersStep == Inv /\ [Next]_vars => BuffersTypeOK'
  <1> SUFFICES ASSUME Inv, [Next]_vars PROVE BuffersTypeOK'
    OBVIOUS
  <1> USE DEF Inv, TypeOK, BuffersTypeOK
  <1>1. CASE main
    BY <1>1 DEF main, main_open, main_create, main_setparams, main_getbufinfo,
       main_allocate, main_fail, loop_process, loop_output, loop_leave, main_delete,
       main_close, main_free, At, Goto, dec_vars, NoIDs
  <1>2. CASE Serve /\ ~serve_process
    BY <1>2 DEF Serve, serve_open, serve_create, serve_control, serve_process, decode,
       serve_delete, serve_close, clean, reply, Served, Serving, app_vars, dec_vars
  <1>3. CASE serve_process
    BY <1>3, ProcessStep
  <1>4. CASE Evict \/ UNCHANGED vars
    BY <1>4 DEF Evict, vars, app_vars, dec_vars
  <1> QED BY <1>1, <1>2, <1>3, <1>4 DEF Next

LEMMA CallTypeStep == Inv /\ [Next]_vars => CallTypeOK'
  <1> SUFFICES ASSUME Inv, [Next]_vars PROVE CallTypeOK'
    OBVIOUS
  <1> USE DEF Inv, TypeOK, CallTypeOK
  <1>1. CASE main
    BY <1>1, CallStep DEF main, main_open, main_create, main_setparams, main_getbufinfo,
       main_allocate, main_fail, loop_process, loop_output, loop_leave, main_delete,
       main_close, main_free, At, Goto, Functions
  <1>2. CASE Serve
    BY <1>2 DEF Serve, serve_open, serve_create, serve_control, serve_process, decode,
       serve_delete, serve_close, clean, reply, Served, Serving, app_vars
  <1>3. CASE Evict \/ UNCHANGED vars
    BY <1>3 DEF Evict, vars, app_vars
  <1> QED BY <1>1, <1>2, <1>3 DEF Next

LEMMA MemStep == Inv /\ [Next]_vars => MemTypeOK'
  <1> SUFFICES ASSUME Inv, [Next]_vars PROVE MemTypeOK'
    OBVIOUS
  <1> USE TestAssumption DEF Inv, TypeOK, MemTypeOK
  <1>1. CASE main
    BY <1>1 DEF main, main_open, main_create, main_setparams, main_getbufinfo,
       main_allocate, main_fail, loop_process, loop_output, loop_leave, main_delete,
       main_close, main_free, At, Goto, mem_vars, dce_alloc, dce_free, write, missed
  <1>2. CASE Serve /\ ~clean
    BY <1>2, CleanedType DEF Serve, serve_open, serve_create, serve_control, serve_process, decode,
       serve_delete, serve_close, clean, reply, Served, Serving, mem_vars, touch
  <1>3. CASE clean
    BY <1>3 DEF clean, dce_clean, write_back
  <1>4. CASE Evict \/ UNCHANGED vars
    BY <1>4 DEF Evict, evict, write_back, vars, mem_vars
  <1> QED BY <1>1, <1>2, <1>3, <1>4 DEF Next

LEMMA ShapeStep == Inv /\ [Next]_vars => Shape'
  <1> SUFFICES ASSUME Inv, [Next]_vars PROVE Shape'
    OBVIOUS
  <1> USE DEF Inv, TypeOK, CallTypeOK, Shape
  <1>1. CASE main
    BY <1>1, CallStep DEF main, main_open, main_create, main_setparams, main_getbufinfo,
       main_allocate, main_fail, loop_process, loop_output, loop_leave, main_delete,
       main_close, main_free, At, Goto, Functions
  <1>2. CASE Serve
    BY <1>2 DEF Serve, serve_open, serve_create, serve_control, serve_process, decode,
       serve_delete, serve_close, clean, reply, Served, Serving, app_vars
  <1>3. CASE Evict \/ UNCHANGED vars
    BY <1>3 DEF Evict, vars, app_vars
  <1> QED BY <1>1, <1>2, <1>3 DEF Next

LEMMA PlacesStep == Inv /\ [Next]_vars => Places'
  <1> SUFFICES ASSUME Inv, [Next]_vars PROVE Places'
    OBVIOUS
  <1> USE DEF Inv, TypeOK, CallTypeOK, BuffersTypeOK, Shape, Places, FreeListSound, Before
  <1>1. CASE main
    BY <1>1, CallStep, TestAssumption DEF main, main_open, main_create, main_setparams,
       main_getbufinfo, main_allocate, main_fail, loop_process, loop_output, loop_leave,
       main_delete, main_close, main_free, At, Goto, Functions, dec_vars, NoIDs
  <1>2. CASE serve_open \/ serve_create \/ serve_control \/ serve_close
    BY <1>2 DEF serve_open, serve_create, serve_control, serve_close, Served, Serving, app_vars
  <1>3. CASE serve_delete
    BY <1>3 DEF serve_delete, Served, Serving, app_vars
  <1>4. CASE clean \/ reply
    BY <1>4 DEF clean, reply, app_vars, dec_vars
  <1>5. CASE serve_process
    <2>1. /\ pc = "processed" /\ pc' = pc /\ call'.stage = "clean"
          /\ head' = head /\ buf' = buf /\ buf \in Buffers \ locked
          /\ outArgs'.freeBufID # {} => ~err'
      BY <1>5, ProcessStep
    <2>2. \E have \in {locked, locked \cup {buf}} : Reported(have)
      BY <1>5, ProcessStep
    <2>3. locked' \cup outArgs'.freeBufID \subseteq locked \cup {buf}
          /\ locked' \cap outArgs'.freeBufID = {}
      BY <2>2 DEF Reported
    <2>4. FreeListSound'
      BY <2>1, <2>3
    <2> QED BY <2>1, <2>3, <2>4
  <1>6. CASE Evict \/ UNCHANGED vars
    BY <1>6 DEF Evict, vars, app_vars, dec_vars
  <1> QED BY <1>1, <1>2, <1>3, <1>4, <1>5, <1>6 DEF Next, Serve

LEMMA InvStep == Inv /\ [Next]_vars => Inv'
  BY FlagsStep, CountsStep, BuffersStep, CallTypeStep, MemStep, ShapeStep, PlacesStep
     DEF Inv, TypeOK

THEOREM TypeCorrect == Spec => []TypeOK
  <1>1. Inv => TypeOK
    BY DEF Inv
  <1> QED BY <1>1, InitInv, InvStep, PTL DEF Spec

(***************************************************************************)
(* A buffer the decoder keeps is never on the list from which the program  *)
(* takes the next one, nor handed out twice (output_get, output_release).  *)
(***************************************************************************)
THEOREM BuffersNotReused == Spec => []FreeListSound
  <1>1. Inv => FreeListSound
    BY DEF Inv, Places
  <1> QED BY <1>1, InitInv, InvStep, PTL DEF Spec

-----------------------------------------------------------------------------
\* The refinement: each step moves buffers as a step of BufferLoan does.

place == [b \in Buffers |-> Place(b)]

LEMMA LoanInit == Init => Loan!Init
  BY DEF Init, NoIDs, Place, Loan!Init

\* No buffer moves unless the buffers or the kind of call change.
LEMMA NothingMoves ==
  ASSUME UNCHANGED <<head, buf, locked, outArgs>>,
         buf \in Buffers => (call'.fn = "VIDDEC3_process" <=> call.fn = "VIDDEC3_process")
  PROVE  place' = place
  BY DEF place, Place

LEMMA LoanMain == Inv /\ main => [Loan!Next]_place
  <1> SUFFICES ASSUME Inv, main PROVE [Loan!Next]_place
    OBVIOUS
  <1> USE DEF Inv, TypeOK, CallTypeOK, BuffersTypeOK, Shape, Places, FreeListSound, Before
  <1>1. CASE main_open \/ main_create \/ main_setparams \/ main_getbufinfo \/ main_fail
    <2>1. UNCHANGED <<head, buf, locked, outArgs>> /\ buf = NoBuffer
      BY <1>1 DEF main_open, main_create, main_setparams, main_getbufinfo, main_fail,
         At, dec_vars
    <2> QED BY <2>1, NothingMoves, TestAssumption
  <1>2. CASE main_allocate
    <2>1. place = [b \in Buffers |-> "gone"] /\ place' = [b \in Buffers |-> "free"]
      BY <1>2, TestAssumption DEF main_allocate, At, dec_vars, place, Place
    <2>2. Loan!Allocate
      BY <2>1 DEF Loan!Allocate, Loan!In, Loan!Move, place
    <2> QED BY <2>2 DEF Loan!Next
  <1>3. CASE loop_process
    <2>1. PICK b \in head : buf' = b /\ head' = head \ {b}
      BY <1>3 DEF loop_process
    <2>2. buf = NoBuffer /\ call'.fn = "VIDDEC3_process" /\ UNCHANGED <<locked, outArgs>>
      BY <1>3, CallStep DEF loop_process, At, dec_vars, Functions
    <2>3. \A c \in Buffers : Place(c) # "lent"
      BY <2>2, TestAssumption DEF Place
    <2>4. Place(b) = "free" /\ b \in Buffers
      BY <2>1 DEF Place
    <2>5. \A c \in Buffers : Place(c)' = IF c = b THEN "lent" ELSE Place(c)
      BY <2>1, <2>2, TestAssumption DEF Place
    <2>6. Loan!Lend
      BY <2>3, <2>4, <2>5 DEF Loan!Lend, Loan!In, Loan!Move
    <2> QED BY <2>6 DEF Loan!Next
  <1>4. CASE loop_output
    <2>1. /\ head' = head \cup outArgs.freeBufID /\ locked' = locked
          /\ outArgs' = NoIDs /\ buf' = NoBuffer
      BY <1>4 DEF loop_output
    <2>2. \A c \in Buffers : Place(c)' = IF Place(c) = "back" THEN "free"
                                       ELSE IF Place(c) = "lent" THEN "gone"
                                       ELSE Place(c)
      BY <2>1, TestAssumption DEF Place, NoIDs
    <2>3. Loan!Collect
      BY <2>2 DEF Loan!Collect
    <2> QED BY <2>3 DEF Loan!Next
  <1>5. CASE loop_leave
    <2>1. UNCHANGED <<head, buf, locked, outArgs, call>>
      BY <1>5 DEF loop_leave, dec_vars, Goto
    <2> QED BY <2>1, NothingMoves
  <1>6. CASE main_delete
    <2>1. UNCHANGED <<head, buf, locked, outArgs>> /\ call'.fn = "VIDDEC3_delete"
      BY <1>6, CallStep DEF main_delete, dec_vars, Functions
    <2>2. \A c \in Buffers : Place(c)' = IF Place(c) = "lent" THEN "gone" ELSE Place(c)
      BY <2>1 DEF Place
    <2>3. Loan!Forget
      BY <2>2 DEF Loan!Forget, Loan!In, Loan!Move
    <2> QED BY <2>3 DEF Loan!Next
  <1>7. CASE main_close
    <2>1. /\ UNCHANGED <<head, buf, locked, outArgs>> /\ call'.fn = "Engine_close"
          /\ buf = NoBuffer \/ call.fn = "VIDDEC3_delete"
      BY <1>7, CallStep DEF main_close, At, dec_vars, Functions
    <2> QED BY <2>1, NothingMoves, TestAssumption
  <1>8. CASE main_free
    <2>1. /\ head' = {} /\ locked = {} /\ outArgs.freeBufID = {}
          /\ UNCHANGED <<buf, locked, outArgs, call>>
          /\ buf = NoBuffer \/ call.fn = "Engine_close"
      BY <1>8 DEF main_free, At, Goto, dec_vars
    <2>2. \A c \in Buffers : Place(c) \in {"free", "gone"} /\ Place(c)' = "gone"
      BY <2>1, TestAssumption DEF Place
    <2>3. Loan!Free
      BY <2>2 DEF Loan!Free, Loan!In
    <2> QED BY <2>3 DEF Loan!Next
  <1> QED BY <1>1, <1>2, <1>3, <1>4, <1>5, <1>6, <1>7, <1>8 DEF main

LEMMA LoanServe == Inv /\ Serve => [Loan!Next]_place
  <1> SUFFICES ASSUME Inv, Serve PROVE [Loan!Next]_place
    OBVIOUS
  <1> USE DEF Inv, TypeOK, CallTypeOK, BuffersTypeOK, Shape, Places, FreeListSound
  <1>1. CASE serve_process
    <2>1. /\ head' = head /\ buf' = buf /\ buf \in Buffers \ locked
          /\ outArgs.freeBufID = {} /\ call.fn = "VIDDEC3_process" /\ call'.fn = call.fn
      BY <1>1, ProcessStep
    <2>2. PICK have \in {locked, locked \cup {buf}} : Reported(have)
      BY <1>1, ProcessStep
    <2>3. Loan!In("lent") = {buf} /\ Loan!In("codec") = locked /\ Loan!In("back") = {}
      BY <2>1 DEF Loan!In, Place
    <2>4. \A c \in Buffers : Place(c)' = IF c \in outArgs'.freeBufID THEN "back"
                                       ELSE IF c \in have THEN "codec" ELSE Place(c)
      BY <2>1, <2>2 DEF Reported, Place
    <2>5. have \in {Loan!In("codec"), Loan!In("lent") \cup Loan!In("codec")}
          /\ outArgs'.freeBufID \in SUBSET have
      BY <2>2, <2>3 DEF Reported
    <2>6. \E rel \in SUBSET have :
              [c \in Buffers |-> Place(c)]'
                = [c \in Buffers |-> IF c \in rel THEN "back"
                                   ELSE IF c \in have THEN "codec"
                                   ELSE [d \in Buffers |-> Place(d)][c]]
      <3> DEFINE rel == outArgs'.freeBufID
      <3>1. rel \in SUBSET have
        BY <2>5
      <3>2. \A c \in Buffers : Place(c)' = IF c \in rel THEN "back"
                                         ELSE IF c \in have THEN "codec"
                                         ELSE [d \in Buffers |-> Place(d)][c]
        BY <2>4 DEF Place
      <3> HIDE DEF rel
      <3>3. [c \in Buffers |-> Place(c)]'
              = [c \in Buffers |-> IF c \in rel THEN "back"
                                 ELSE IF c \in have THEN "codec"
                                 ELSE [d \in Buffers |-> Place(d)][c]]
        BY <3>2
      <3> QED BY <3>1, <3>3
    <2>7. Loan!Decode
      BY <2>3, <2>5, <2>6 DEF Loan!Decode
    <2> QED BY <2>7 DEF Loan!Next
  <1>2. CASE serve_delete
    <2>1. /\ UNCHANGED <<head, buf, outArgs>> /\ locked' = {}
          /\ call.fn = "VIDDEC3_delete" /\ call'.fn = call.fn /\ outArgs.freeBufID = {}
      BY <1>2 DEF serve_delete, Served, Serving, app_vars
    <2>2. \A c \in Buffers : Place(c)' = IF Place(c) = "codec" THEN "gone" ELSE Place(c)
      BY <2>1 DEF Place
    <2>3. Loan!Forget
      BY <2>2 DEF Loan!Forget, Loan!In, Loan!Move
    <2> QED BY <2>3 DEF Loan!Next
  <1>3. CASE serve_open \/ serve_create \/ serve_control \/ serve_close \/ clean \/ reply
    <2>1. UNCHANGED <<head, buf, locked, outArgs>> /\ call'.fn = call.fn
      BY <1>3 DEF serve_open, serve_create, serve_control, serve_close, clean, reply,
         Served, app_vars, dec_vars
    <2> QED BY <2>1, NothingMoves
  <1> QED BY <1>1, <1>2, <1>3 DEF Serve

(***************************************************************************)
(* Program and decoder implement BufferLoan (src/test.c:416-473 and the    *)
(* handler): no buffer gets from the decoder to the free list but by way   *)
(* of freeBufID, and the list is freed when the decoder has none.          *)
(***************************************************************************)
THEOREM LoansKept == Spec => LoanKept
  <1>1. Inv /\ [Next]_vars => [Loan!Next]_place
    <2> SUFFICES ASSUME Inv, [Next]_vars PROVE [Loan!Next]_place
      OBVIOUS
    <2>1. CASE Evict \/ UNCHANGED vars
      BY <2>1, NothingMoves DEF Evict, vars, app_vars, dec_vars
    <2> QED BY <2>1, LoanMain, LoanServe DEF Next
  <1>2. Spec => []Inv
    BY InitInv, InvStep, PTL DEF Spec
  <1> QED BY <1>1, <1>2, LoanInit, PTL DEF Spec, LoanKept, Loan!Spec, place

-----------------------------------------------------------------------------
(***************************************************************************)
(* The caches.  Of a block without leftovers nothing is cached between two *)
(* calls, so a codec fetches what main has written.  While the handler     *)
(* cleans, such blocks with lines are among those it has yet to clean,     *)
(* their lines are current, and only memory below a dirty line lacks a     *)
(* write.  Of the call's own blocks, even leftovers go with its cleaning.  *)
(***************************************************************************)
ToClean == {call.clean[i] : i \in DOMAIN call.clean}

Fresh == Blocks \ Leftover

BlocksAllocated ==
    /\ call.stage = "codec" => Reads(call.fn) \subseteq allocated
    /\ pc \in {"setparams", "getbufinfo", "loop", "processed"} =>
            {"dynParams", "status"} \subseteq allocated
    /\ pc \in {"loop", "processed"} =>
            {"inBufs", "outBufs", "inArgs", "outArgs"} \subseteq allocated

\* Between two calls, and while a codec has not yet run.
Quiet == /\ cached \cap Fresh = {}
         /\ oldMemory \cap allocated \cap Fresh = {}

\* From the time the codec returns.
Cleaning == /\ cached \cap Fresh \subseteq ToClean
            /\ oldLine \cap Fresh = {}
            /\ oldMemory \cap allocated \cap Fresh \subseteq dirty
            /\ cached \cap Reads(call.fn) \subseteq ToClean

CacheInv ==
    /\ BlocksAllocated
    /\ call.stage = "codec" => call.clean = Cleaned(call.fn)
    /\ call.stage # "clean" => Quiet
    /\ call.stage = "clean" => Cleaning
    /\ call.stage = "returned" => cached \cap Reads(call.fn) = {}

\* A handler cleans what it hands to the Codec Engine, which writes to nothing
\* else.
LEMMA ReadsWrites ==
  ASSUME NEW fn
  PROVE  /\ Reads(fn) = {Cleaned(fn)[i] : i \in DOMAIN Cleaned(fn)}
         /\ Writes(fn) \subseteq Reads(fn)
  <1>1. CASE fn = "VIDDEC3_create"
    BY <1>1, Handed DEF Writes
  <1>2. CASE fn = "VIDDEC3_control"
    BY <1>2, Handed DEF Writes
  <1>3. CASE fn = "VIDDEC3_process"
    BY <1>3, Handed DEF Writes
  <1>4. CASE fn \notin {"VIDDEC3_create", "VIDDEC3_control", "VIDDEC3_process"}
    BY <1>4, Handed DEF Writes
  <1> QED BY <1>1, <1>2, <1>3, <1>4

LEMMA CacheInit == Init => CacheInv
  <1> SUFFICES ASSUME Init PROVE CacheInv
    OBVIOUS
  <1>1. Reads("Engine_close") = {}
    BY Handed
  <1> QED BY <1>1, MemAssumption DEF Init, MemInit, CacheInv, BlocksAllocated, Quiet, Fresh

\* main touches blocks only between calls; what it does to them leaves a quiet
\* cache quiet.
LEMMA MainQuiet ==
  ASSUME Inv, Quiet,
         \/ UNCHANGED mem_vars
         \/ \E S \in SUBSET Blocks : write(S) \/ dce_alloc(S) \/ dce_free(S)
  PROVE  Quiet' /\ cached' = cached
  BY DEF Quiet, mem_vars, write, dce_alloc, dce_free, missed

LEMMA CacheMain == Inv /\ CacheInv /\ main => CacheInv'
  <1> SUFFICES ASSUME Inv, CacheInv, main PROVE CacheInv'
    OBVIOUS
  <1> USE DEF Inv, TypeOK, CallTypeOK
  <1>1. call.stage = "returned"
    BY DEF main, main_open, main_create, main_setparams, main_getbufinfo,
       main_allocate, main_fail, loop_process, loop_output, loop_leave, main_delete,
       main_close, main_free, At
  <1>2. \/ UNCHANGED mem_vars
        \/ \E S \in SUBSET Blocks : write(S) \/ dce_alloc(S) \/ dce_free(S)
    BY TestAssumption DEF MemTypeOK, main, main_open, main_create, main_setparams,
       main_getbufinfo, main_allocate, main_fail, loop_process, loop_output, loop_leave,
       main_delete, main_close, main_free
  <1>3. Quiet' /\ cached' = cached
    BY <1>1, <1>2, MainQuiet DEF CacheInv
  <1>4. \/ call' = call
        \/ call'.stage = "codec" /\ call'.clean = Cleaned(call'.fn)
    BY CallStep DEF main, main_open, main_create, main_setparams, main_getbufinfo,
       main_allocate, main_fail, loop_process, loop_output, loop_leave, main_delete,
       main_close, main_free, Goto, Functions
  <1>5. BlocksAllocated'
    <2> USE DEF CacheInv, BlocksAllocated, At
    <2>1. CASE main_open \/ main_delete \/ main_close
      BY <2>1, CallStep, Handed DEF main_open, main_delete, main_close, Functions, mem_vars
    <2>2. CASE main_create
      BY <2>2, CallStep, Handed DEF main_create, Functions, dce_alloc
    <2>3. CASE main_setparams
      BY <2>3, CallStep, Handed DEF main_setparams, Functions, dce_alloc
    <2>4. CASE main_getbufinfo
      BY <2>4, CallStep, Handed DEF main_getbufinfo, Functions, mem_vars
    <2>5. CASE main_allocate
      BY <2>5 DEF main_allocate, Goto, dce_alloc
    <2>6. CASE main_fail \/ loop_leave \/ loop_output
      BY <2>6 DEF main_fail, loop_leave, loop_output, Goto, mem_vars
    <2>7. CASE loop_process
      BY <2>7, CallStep, Handed DEF loop_process, Functions, write
    <2>8. CASE main_free
      BY <2>8 DEF main_free, Goto, dce_free
    <2> QED BY <2>1, <2>2, <2>3, <2>4, <2>5, <2>6, <2>7, <2>8 DEF main
  <1> QED BY <1>1, <1>3, <1>4, <1>5 DEF CacheInv

\* The codec finds none of the fresh blocks in the cache and touches only what
\* will be cleaned.
LEMMA CacheServed == Inv /\ CacheInv /\ call.stage = "codec" /\ Served => CacheInv'
  <1> SUFFICES ASSUME Inv, CacheInv, call.stage = "codec", Served PROVE CacheInv'
    OBVIOUS
  <1> DEFINE R == Reads(call.fn)  W == Writes(call.fn)
  <1>1. W \subseteq R /\ R \subseteq allocated /\ Quiet
    BY ReadsWrites DEF CacheInv, BlocksAllocated
  <1>2. /\ call'.stage = "clean" /\ call'.clean = Cleaned(call.fn) /\ touch(R, W) /\ pc' = pc
        /\ call'.fn = call.fn
    BY DEF Served, CacheInv, Inv, TypeOK, CallTypeOK, app_vars
  <1>3. ToClean' = R
    BY <1>2, ReadsWrites DEF ToClean
  <1>4. oldLine \cap Fresh = {}
    BY <1>1 DEF Quiet, Inv, TypeOK, MemTypeOK
  <1> HIDE DEF R, W
  <1>5. /\ cached' = cached \cup R /\ dirty' = dirty \cup W /\ oldMemory' = oldMemory \cup W
        /\ oldLine' \subseteq oldLine \cup (oldMemory \cap R) /\ allocated' = allocated
    BY <1>1, <1>2 DEF touch
  <1>6. /\ cached' \cap Fresh \subseteq R /\ oldLine' \cap Fresh = {}
        /\ oldMemory' \cap allocated' \cap Fresh \subseteq dirty'
    BY <1>1, <1>4, <1>5 DEF Quiet
  <1>7. Reads(call'.fn) = R
    BY <1>2 DEF R
  <1>8. Cleaning'
    BY <1>3, <1>6, <1>7 DEF Cleaning
  <1>9. BlocksAllocated'
    BY <1>2, <1>5 DEF CacheInv, BlocksAllocated
  <1> QED BY <1>2, <1>8, <1>9 DEF CacheInv

\* A line of a fresh block that leaves the cache is current, and its memory is
\* then.
LEMMA WriteBack ==
  ASSUME Cleaning, NEW b, write_back(b)
  PROVE  /\ cached' = cached \ {b} /\ allocated' = allocated /\ oldLine' \cap Fresh = {}
         /\ oldMemory' \cap allocated' \cap Fresh \subseteq dirty'
  BY DEF Cleaning, write_back

LEMMA CacheServe == Inv /\ CacheInv /\ Serve => CacheInv'
  <1> SUFFICES ASSUME Inv, CacheInv, Serve PROVE CacheInv'
    OBVIOUS
  <1>1. CASE /\ ~clean /\ ~reply
    BY <1>1, CacheServed DEF Serve, serve_open, serve_create, serve_control, serve_process,
       serve_delete, serve_close, Serving
  <1>2. CASE clean
    <2> DEFINE s == call.clean
    <2>1. s \in Seq(Blocks) /\ s # <<>> /\ call.stage = "clean"
      BY <1>2 DEF clean, Inv, TypeOK, CallTypeOK
    <2>2. call'.clean = Tail(s) /\ call'.stage = "clean" /\ pc' = pc /\ call'.fn = call.fn
      BY <1>2 DEF clean, Inv, TypeOK, CallTypeOK, app_vars
    <2>3. write_back(Head(s)) /\ Cleaning
      BY <1>2, <2>1 DEF clean, dce_clean, CacheInv
    <2>4. ToClean \subseteq ToClean' \cup {Head(s)}
      <3> SUFFICES ASSUME NEW i \in DOMAIN s, s[i] # Head(s) PROVE s[i] \in ToClean'
        BY DEF ToClean
      <3>1. i \in 2 .. Len(s) /\ i - 1 \in 1 .. Len(Tail(s)) /\ Tail(s)[i - 1] = s[i]
        BY <2>1
      <3> QED BY <3>1, <2>1, <2>2 DEF ToClean
    <2>5. cached' \cap Fresh \subseteq ToClean' /\ cached' \cap Reads(call'.fn) \subseteq ToClean'
      BY <2>2, <2>3, <2>4, WriteBack DEF Cleaning
    <2>6. Cleaning'
      BY <2>3, <2>5, WriteBack DEF Cleaning
    <2> QED BY <2>2, <2>3, <2>6, WriteBack DEF CacheInv, BlocksAllocated
  <1>3. CASE reply
    <2>1. /\ call.stage = "clean" /\ call.clean = <<>> /\ call'.stage = "returned"
          /\ call'.fn = call.fn /\ UNCHANGED <<mem_vars, pc>>
      BY <1>3 DEF reply, Inv, TypeOK, CallTypeOK, app_vars
    <2>2. Cleaning /\ ToClean = {}
      BY <2>1 DEF CacheInv, ToClean
    <2>3. Quiet /\ cached \cap Reads(call.fn) = {}
      BY <2>2 DEF Cleaning, Quiet, Inv, TypeOK, MemTypeOK
    <2> QED BY <2>1, <2>3 DEF CacheInv, BlocksAllocated, Quiet, mem_vars
  <1> QED BY <1>1, <1>2, <1>3

LEMMA CacheStep == Inv /\ CacheInv /\ [Next]_vars => CacheInv'
  <1> SUFFICES ASSUME Inv, CacheInv, [Next]_vars PROVE CacheInv'
    OBVIOUS
  <1>1. CASE Evict
    <2>1. PICK b \in cached : write_back(b)
      BY <1>1 DEF Evict, evict
    <2>2. call' = call /\ pc' = pc /\ allocated' = allocated /\ cached' = cached \ {b}
      BY <1>1, <2>1 DEF Evict, app_vars, write_back
    <2>3. BlocksAllocated'
      BY <2>2 DEF CacheInv, BlocksAllocated
    <2>4. Quiet => Quiet'
      BY <2>1 DEF Quiet, write_back
    <2>5. Cleaning => Cleaning'
      BY <2>1, <2>2, WriteBack DEF Cleaning, ToClean
    <2> QED BY <2>2, <2>3, <2>4, <2>5 DEF CacheInv
  <1>2. CASE UNCHANGED vars
    BY <1>2 DEF vars, mem_vars, app_vars, CacheInv, BlocksAllocated, Quiet, Cleaning, ToClean
  <1> QED BY <1>1, <1>2, CacheMain, CacheServe DEF Next

LEMMA CacheAlways == Spec => [](Inv /\ CacheInv)
  BY InitInv, InvStep, CacheInit, CacheStep, PTL DEF Spec

(***************************************************************************)
(* Whatever is evicted and whenever, a codec reads what main wrote to any  *)
(* block that had nothing in the cache before it was allocated: the        *)
(* dce_clean of each argument after a call (src/dce.c:171-181) leaves no   *)
(* line that main's next writes make stale.  Which blocks had something is *)
(* arbitrary (Leftover), and does not matter to the others.                *)
(***************************************************************************)
THEOREM CachesCoherent == Spec => []ArgumentsCurrent
  <1>1. Inv /\ CacheInv => ArgumentsCurrent
    BY CleanedType DEF CacheInv, BlocksAllocated, Quiet, Fresh, ArgumentsCurrent, Outdated,
       virt2ducati
  <1> QED BY <1>1, CacheAlways, PTL

(***************************************************************************)
(* When a call returns, memory holds what the codec wrote to each of those *)
(* blocks that main has: each handler cleans every argument its codec      *)
(* writes to (src/dce.c:502, 586-587, 673-676).                            *)
(***************************************************************************)
THEOREM ResultsReachMain == Spec => []ResultsCurrent
  <1>1. Inv /\ CacheInv => ResultsCurrent
    BY DEF Inv, TypeOK, MemTypeOK, CacheInv, Quiet, Fresh, ResultsCurrent
  <1> QED BY <1>1, CacheAlways, PTL

(***************************************************************************)
(* No line of a call's own block outlives the call, not even one that was  *)
(* there before dce_alloc, so none is written back over a block that main  *)
(* writes or has given back with dce_free.                                 *)
(***************************************************************************)
THEOREM NoLineStays == Spec => []NothingCachedOutside
  <1>1. Inv /\ CacheInv => NothingCachedOutside
    BY DEF Inv, TypeOK, MemTypeOK, CacheInv, Quiet, Fresh, NothingCachedOutside
  <1> QED BY <1>1, CacheAlways, PTL

-----------------------------------------------------------------------------
\* The codec when the engine is closed: main comes there by VIDDEC3_delete,
\* or from an error before the blocks for decoding were allocated.
CodecInv ==
    /\ pc \in {"start", "opened"} => ~codec
    /\ pc \in Before \cup {"out"} => "inBufs" \notin allocated
    /\ pc = "out" /\ codec => err
    /\ pc = "deleted" /\ call.stage # "codec" => ~codec
    /\ pc = "closed" /\ codec => err /\ "inBufs" \notin allocated

LEMMA CodecInit == Init => CodecInv
  BY DEF Init, MemInit, CodecInv

LEMMA CodecStep == Inv /\ CodecInv /\ [Next]_vars => CodecInv'
  <1> SUFFICES ASSUME Inv, CodecInv, [Next]_vars PROVE CodecInv'
    OBVIOUS
  <1> USE DEF Inv, TypeOK, CallTypeOK, FlagsTypeOK, CodecInv, Before, Shape
  <1>1. CASE main_open \/ main_getbufinfo \/ main_delete \/ main_close
    BY <1>1, CallStep DEF main_open, main_getbufinfo, main_delete, main_close, At, Functions,
       mem_vars, dec_vars
  <1>2. CASE main_create \/ main_setparams \/ main_allocate
    BY <1>2, CallStep, TestAssumption DEF main_create, main_setparams, main_allocate, At, Goto,
       Functions, dce_alloc, dec_vars
  <1>3. CASE main_fail \/ loop_leave \/ loop_output
    BY <1>3 DEF main_fail, loop_leave, loop_output, At, Goto, mem_vars, dec_vars
  <1>4. CASE loop_process \/ main_free
    BY <1>4, CallStep DEF loop_process, main_free, At, Goto, Functions, dec_vars
  <1>5. CASE Serve
    BY <1>5 DEF Serve, serve_open, serve_create, serve_control, serve_process, serve_delete,
       serve_close, clean, reply, dce_clean, write_back, Served, Serving, touch, mem_vars,
       app_vars, dec_vars
  <1>6. CASE Evict \/ UNCHANGED vars
    BY <1>6 DEF Evict, evict, write_back, vars, mem_vars, app_vars, dec_vars
  <1> QED BY <1>1, <1>2, <1>3, <1>4, <1>5, <1>6 DEF Next, main

(***************************************************************************)
(* Once decoding has begun, the engine is not closed with a live codec; it *)
(* is only when a control call fails before that (test.c:383-392).         *)
(***************************************************************************)
THEOREM CodecDeletedFirst == Spec => []CodecGoneAtClose
  <1>1. Inv /\ CodecInv => CodecGoneAtClose
    BY DEF Inv, TypeOK, CallTypeOK, Shape, CodecInv, CodecGoneAtClose
  <1> QED BY <1>1, InitInv, InvStep, CodecInit, CodecStep, PTL DEF Spec

-----------------------------------------------------------------------------
(***************************************************************************)
(* Counting buffers.  Lost are those that nobody knows of: the decoder     *)
(* ignored them.  While there is input it ignores one only if it was still *)
(* filling another, so there are at most as many as frames in two calls.   *)
(***************************************************************************)
Lost == Buffers \ (head \cup locked \cup outArgs.freeBufID
                        \cup IF call.stage = "codec" THEN {buf} ELSE {})

Waiting == IF inUse THEN 1 ELSE 0
FewLost == Cardinality(Lost) + Waiting <= fields

CountInv ==
    /\ pc \in Before => ~inUse
    /\ pc = "loop" \/ (pc = "processed" /\ call.stage = "codec") => ~err
    /\ pc \in {"loop", "processed"} /\ ~err =>
        /\ Cardinality(locked) <= MaxHeld
        /\ numBufs # 0 => FewLost

LEMMA CountInit == Init => CountInv
  BY DEF Init, CountInv, Before

LEMMA CountMain == Inv /\ CountInv /\ main => CountInv'
  <1> SUFFICES ASSUME Inv, CountInv, main PROVE CountInv'
    OBVIOUS
  <1> USE DEF Inv, TypeOK, CallTypeOK, BuffersTypeOK, Shape, CountInv, Before
  <1>1. CASE \/ main_open \/ main_create \/ main_setparams \/ main_getbufinfo
             \/ main_delete \/ main_close
    BY <1>1, CallStep DEF main_open, main_create, main_setparams, main_getbufinfo,
       main_delete, main_close, Functions, dec_vars, At
  <1>2. CASE main_fail \/ loop_leave \/ main_free
    BY <1>2 DEF main_fail, loop_leave, main_free, Goto, dec_vars
  <1>3. CASE main_allocate
    <2>1. Lost' = {} /\ locked' = {}
      BY <1>3 DEF main_allocate, At, Goto, dec_vars, Lost, Places, Before
    <2>2. Cardinality(Lost') = 0 /\ Cardinality(locked') = 0
      BY <2>1, FS_EmptySet
    <2>3. ~inUse' /\ ~err' /\ pc' = "loop" /\ fields' \in Nat
      BY <1>3 DEF main_allocate, At, Goto, dec_vars, CountsTypeOK
    <2>4. FewLost'
      BY <2>2, <2>3 DEF FewLost, Waiting
    <2> QED BY <2>2, <2>3, <2>4, TestAssumption
  <1>4. CASE loop_process
    <2>1. PICK b \in head : buf' = b /\ head' = head \ {b}
      BY <1>4 DEF loop_process
    <2>2. /\ pc = "loop" /\ pc' = "processed" /\ call.stage = "returned"
          /\ call'.stage = "codec" /\ numBufs # 0
          /\ UNCHANGED <<err, locked, outArgs, inUse, fields>>
      BY <1>4, CallStep DEF loop_process, At, Functions, dec_vars
    <2>3. Lost' = Lost
      BY <2>1, <2>2 DEF Lost
    <2>4. FewLost' <=> FewLost
      BY <2>2, <2>3 DEF FewLost, Waiting
    <2>5. ~err /\ Cardinality(locked') <= MaxHeld /\ FewLost'
      BY <2>2, <2>4
    <2> QED BY <2>2, <2>5
  <1>5. CASE loop_output
    <2>1. /\ pc = "processed" /\ pc' = "loop" /\ call.stage = "returned" /\ call' = call /\ ~err
          /\ head' = head \cup outArgs.freeBufID /\ outArgs'.freeBufID = {}
          /\ UNCHANGED <<err, locked, inUse, fields, numBufs>>
      BY <1>5 DEF loop_output, At, Goto, NoIDs
    <2>2. Lost' = Lost
      BY <2>1 DEF Lost
    <2>3. FewLost' <=> FewLost
      BY <2>1, <2>2 DEF FewLost, Waiting
    <2> QED BY <2>1, <2>3
  <1> QED BY <1>1, <1>2, <1>3, <1>4, <1>5 DEF main

LEMMA BuffersFinite ==
  ASSUME Inv
  PROVE  /\ IsFiniteSet(Lost) /\ Cardinality(Lost) \in Nat
         /\ IsFiniteSet(locked) /\ Cardinality(locked) \in Nat
  <1>1. Lost \subseteq Buffers /\ locked \subseteq Buffers
    BY DEF Lost, Inv, TypeOK, BuffersTypeOK
  <1> QED BY <1>1, TestAssumption, FS_Subset, FS_CardinalityType

\* What the decoder's contract says about one process call.
LEMMA ProcessCount ==
  ASSUME Inv, CountInv, serve_process, ~err'
  PROVE  /\ Cardinality(locked') <= MaxHeld
         /\ numBufs # 0 => FewLost'
  <1>1. PICK have \in {locked \cup {buf}} \cup (IF MayIgnore THEN {locked} ELSE {}) : decode(have)
    BY DEF serve_process
  <1>2. /\ call.stage = "codec" /\ call'.stage = "clean" /\ UNCHANGED <<numBufs, head, buf>>
        /\ outArgs.freeBufID = {} /\ buf \in Buffers \ locked /\ pc = "processed" /\ ~err
    BY ProcessStep DEF CountInv
  <1>3. PICK rel \in SUBSET have, out \in SUBSET (have \ shown) :
            /\ Cardinality(have \ rel) <= MaxHeld
            /\ locked' = have \ rel
            /\ outArgs' = [outputID |-> out, freeBufID |-> rel]
    BY <1>1 DEF decode
  <1>4. Cardinality(locked') <= MaxHeld
    BY <1>3
  <1>5. ASSUME numBufs # 0 PROVE FewLost'
    <2>1. Cardinality(Lost) + Waiting <= fields /\ fields \in Nat /\ Cardinality(Lost) \in Nat
      BY <1>2, <1>5, BuffersFinite DEF CountInv, FewLost, Inv, TypeOK, CountsTypeOK
    <2>2. \/ inUse' = FALSE /\ fields' = fields
          \/ ~inUse /\ inUse' = TRUE /\ fields' = fields + 1
      BY <1>1, <1>5 DEF decode, MayIgnore
    <2>3. CASE have = locked \cup {buf}
      <3>1. Lost' = Lost
        BY <1>2, <1>3, <2>3 DEF Lost
      <3> QED BY <2>1, <2>2, <3>1 DEF FewLost, Waiting
    <2>4. CASE have # locked \cup {buf}
      <3>1. have = locked /\ inUse
        BY <1>1, <1>5, <2>4 DEF MayIgnore
      <3>2. Lost' = Lost \cup {buf}
        BY <1>2, <1>3, <3>1 DEF Lost, Inv, Places, FreeListSound
      <3>3. Cardinality(Lost') = IF buf \in Lost THEN Cardinality(Lost) ELSE Cardinality(Lost) + 1
        <4>1. IsFiniteSet(Lost)
          BY BuffersFinite
        <4>2. Cardinality(Lost \cup {buf}) = IF buf \in Lost THEN Cardinality(Lost)
                                                        ELSE Cardinality(Lost) + 1
          BY <4>1, FS_AddElement
        <4> QED BY <3>2, <4>2
      <3>4. Cardinality(Lost') \in Nat /\ Cardinality(Lost') <= Cardinality(Lost) + 1
        BY <2>1, <3>3
      <3>5. Waiting = 1 /\ Waiting' = 0 /\ fields' = fields
        BY <2>2, <3>1 DEF Waiting
      <3> QED BY <2>1, <3>4, <3>5 DEF FewLost
    <2> QED BY <2>3, <2>4
  <1> QED BY <1>4, <1>5

LEMMA CountServe == Inv /\ CountInv /\ Serve => CountInv'
  <1> SUFFICES ASSUME Inv, CountInv, Serve PROVE CountInv'
    OBVIOUS
  <1> USE DEF Inv, TypeOK, CallTypeOK, BuffersTypeOK, Shape, Before
  <1>1. CASE serve_process
    <2>1. /\ call'.stage = "clean" /\ numBufs' = numBufs /\ pc' = "processed"
      BY <1>1, ProcessStep
    <2> QED BY <1>1, <2>1, ProcessCount DEF CountInv
  <1>2. CASE serve_open \/ serve_create \/ serve_control \/ serve_delete \/ serve_close
    <2>1. /\ pc' = pc /\ pc \notin {"loop", "processed"} /\ call'.stage = "clean"
          /\ inUse' = inUse
      BY <1>2 DEF serve_open, serve_create, serve_control, serve_delete, serve_close,
         Served, Serving, app_vars
    <2> QED BY <2>1 DEF CountInv
  <1>3. CASE clean \/ reply
    <2>1. /\ UNCHANGED <<pc, err, inUse, fields, numBufs, locked, head, outArgs>>
          /\ call.stage # "codec" /\ call'.stage # "codec"
      BY <1>3 DEF clean, reply, app_vars, dec_vars
    <2>2. Lost' = Lost
      BY <2>1 DEF Lost
    <2>3. FewLost' <=> FewLost
      BY <2>1, <2>2 DEF FewLost, Waiting
    <2> QED BY <2>1, <2>3 DEF CountInv
  <1> QED BY <1>1, <1>2, <1>3 DEF Serve

LEMMA CountStep == Inv /\ CountInv /\ [Next]_vars => CountInv'
  <1> SUFFICES ASSUME Inv, CountInv, [Next]_vars PROVE CountInv'
    OBVIOUS
  <1>1. CASE Evict \/ UNCHANGED vars
    BY <1>1 DEF Evict, vars, app_vars, dec_vars, CountInv, FewLost, Waiting, Lost
  <1> QED BY <1>1, CountMain, CountServe DEF Next

LEMMA Empty == Inv /\ CountInv => EnoughBuffers
  <1> SUFFICES ASSUME Inv, CountInv, At("loop"), numBufs # 0, head = {}
               PROVE  MaxHeld + fields >= Cardinality(Buffers)
    BY DEF EnoughBuffers
  <1>1. pc = "loop" /\ call.stage = "returned"
    BY DEF At
  <1>a. outArgs.freeBufID = {}
    BY <1>1 DEF Inv, Places
  <1>b. ~err
    BY <1>1 DEF CountInv
  <1>2. Buffers = locked \cup Lost /\ locked \cap Lost = {}
    BY <1>1, <1>a DEF Lost, Inv, TypeOK, BuffersTypeOK
  <1>3. Cardinality(Buffers) = Cardinality(locked) + Cardinality(Lost)
    <2>1. Cardinality(locked \cup Lost)
            = Cardinality(locked) + Cardinality(Lost) - Cardinality(locked \cap Lost)
      BY BuffersFinite, FS_Union
    <2>2. Cardinality(locked \cap Lost) = 0
      BY <1>2, FS_EmptySet
    <2> QED BY <1>2, <2>1, <2>2, BuffersFinite
  <1>4. Cardinality(locked) <= MaxHeld /\ Cardinality(Lost) + Waiting <= fields
    BY <1>1, <1>b DEF CountInv, FewLost
  <1>5. Waiting \in Nat
    BY DEF Waiting
  <1> QED BY <1>3, <1>4, <1>5, BuffersFinite, TestAssumption DEF Inv, TypeOK, CountsTypeOK

(***************************************************************************)
(* "Out of buffers" (test.c:421-425) comes only if the decoder keeps so    *)
(* many, or has ignored so many while it filled others, that none is left: *)
(* a decoder that keeps fewer than num_buffers and never takes two calls   *)
(* for a frame is never without one.                                       *)
(***************************************************************************)
THEOREM OutOfBuffersOnlyWhen == Spec => []EnoughBuffers
  BY InitInv, InvStep, CountInit, CountStep, Empty, PTL DEF Spec
=============================================================================
