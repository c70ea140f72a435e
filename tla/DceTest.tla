------------------------------- MODULE DceTest -------------------------------
(***************************************************************************)
(* One decoding session from end to end: the program dcetest (src/test.c), *)
(* the argument blocks it shares with the co-processor, the handler that   *)
(* serves each of its calls, and a decoder that keeps output buffers for   *)
(* as long as it needs them.  RCM delivers every message here; what        *)
(* happens when it does not is in DceClient, what other clients do to the  *)
(* server in DceServer.                                                    *)
(***************************************************************************)
EXTENDS DceMem, Naturals, Sequences, FiniteSets

CONSTANTS
    Buffers,     \* output buffers (num_buffers of them)
    NoBuffer,
    MaxHeld,     \* how many of them the decoder keeps between two calls
    Frames,      \* input files that exist
    MaxFields    \* bound: frames the decoder completes in two calls

ASSUME TestAssumption ==
    /\ IsFiniteSet(Buffers) /\ NoBuffer \notin Buffers
    /\ MaxHeld \in Nat \ {0} /\ Frames \in Nat /\ MaxFields \in Nat
    /\ Blocks = {"params", "dynParams", "status",
                 "inBufs", "outBufs", "inArgs", "outArgs"}

VARIABLES
    pc,          \* where main is
    call,        \* the call it is in: [fn, stage, clean]
    err,         \* result of the last control or process
    engine,      \* the engine is open
    codec,       \* the codec exists
    numBufs,     \* inBufs->numBufs
    in_cnt,      \* input files read
    head,        \* the list of free output buffers, as a set
    buf,         \* the buffer that goes with the current process call
    outArgs,     \* outputID and freeBufID of the last process, as sets
    locked,      \* buffers the decoder keeps
    shown,       \* those of them it has returned for display
    inUse,       \* outBufsInUseFlag of the last process
    fields       \* frames so far that took two calls

app_vars == <<pc, numBufs, in_cnt, head, buf>>
dec_vars == <<err, engine, codec, outArgs, locked, shown, inUse, fields>>
vars == <<mem_vars, app_vars, dec_vars, call>>

Functions == {"Engine_open", "VIDDEC3_create", "VIDDEC3_control",
              "VIDDEC3_process", "VIDDEC3_delete", "Engine_close"}
NoIDs == [outputID |-> {}, freeBufID |-> {}]

FlagsTypeOK == /\ err \in BOOLEAN /\ engine \in BOOLEAN
               /\ codec \in BOOLEAN /\ inUse \in BOOLEAN
CallTypeOK ==
    /\ pc \in {"start", "opened", "created", "setparams", "getbufinfo", "loop",
               "processed", "shutdown", "deleted", "out", "closed", "done"}
    /\ call \in [fn : Functions, stage : {"codec", "clean", "returned"},
                 clean : Seq(Blocks)]
CountsTypeOK == /\ numBufs \in {0, 1}
                /\ in_cnt \in 0 .. Frames
                /\ fields \in 0 .. MaxFields
BuffersTypeOK ==
    /\ head \subseteq Buffers /\ buf \in Buffers \cup {NoBuffer}
    /\ outArgs \in [outputID : SUBSET Buffers, freeBufID : SUBSET Buffers]
    /\ shown \subseteq locked /\ locked \subseteq Buffers

\* Only buffers the decoder keeps count as shown, and no file that is not
\* there is counted (test.c:427-437).
TypeOK == MemTypeOK /\ FlagsTypeOK /\ CallTypeOK /\ CountsTypeOK /\ BuffersTypeOK

Init ==
    /\ MemInit
    /\ pc = "start"
    /\ call = [fn |-> "Engine_close", stage |-> "returned", clean |-> <<>>]
    /\ err = FALSE /\ engine = FALSE /\ codec = FALSE
    /\ numBufs = 0 /\ in_cnt = 0
    /\ head = {} /\ buf = NoBuffer
    /\ outArgs = NoIDs /\ locked = {} /\ shown = {} /\ inUse = FALSE
    /\ fields = 0

-----------------------------------------------------------------------------
\* The server's half of a call, one handler at a time.

\* The blocks each handler hands to the Codec Engine, and those it cleans when
\* the Codec Engine has returned, in this order.
create_hands == {"params"}
control_hands == {"dynParams", "status"}
process_hands == {"inBufs", "outBufs", "inArgs", "outArgs"}

create_cleans == <<"params">>

slip_control_cleans_status == <<"status">>      \* dynParams is only read
control_cleans == <<"dynParams", "status">>

process_cleans == <<"inBufs", "outBufs", "inArgs", "outArgs">>

\* The handlers by the name of their function.
Reads(fn) == CASE fn = "VIDDEC3_create"  -> create_hands
               [] fn = "VIDDEC3_control" -> control_hands
               [] fn = "VIDDEC3_process" -> process_hands
               [] OTHER -> {}

Cleaned(fn) == CASE fn = "VIDDEC3_create"  -> create_cleans
                 [] fn = "VIDDEC3_control" -> control_cleans
                 [] fn = "VIDDEC3_process" -> process_cleans
                 [] OTHER -> <<>>

\* The blocks a codec writes to (the access masks of the buffers count as
\* written); it may read all it is handed.
Writes(fn) ==
    IF fn = "VIDDEC3_control" THEN {"status"}
    ELSE IF fn = "VIDDEC3_process" THEN {"inBufs", "outBufs", "outArgs"}
    ELSE {}

Serving(fn) == call.fn = fn /\ call.stage = "codec"
Served == /\ call' = [call EXCEPT !.stage = "clean"]
          /\ touch(Reads(call.fn), Writes(call.fn))
          /\ UNCHANGED app_vars

serve_open == /\ Serving("Engine_open")
              /\ engine' \in BOOLEAN
              /\ Served
              /\ UNCHANGED <<err, codec, outArgs, locked, shown, inUse, fields>>

serve_create == /\ Serving("VIDDEC3_create")
                /\ codec' \in BOOLEAN
                /\ Served
                /\ UNCHANGED <<err, engine, outArgs, locked, shown, inUse, fields>>

serve_control == /\ Serving("VIDDEC3_control")
                 /\ err' \in BOOLEAN
                 /\ Served
                 /\ UNCHANGED <<engine, codec, outArgs, locked, shown, inUse, fields>>

serve_delete == /\ Serving("VIDDEC3_delete")
                /\ codec' = FALSE
                /\ locked' = {} /\ shown' = {}
                /\ Served
                /\ UNCHANGED <<err, engine, outArgs, inUse, fields>>

serve_close == /\ Serving("Engine_close")
               /\ engine' = FALSE
               /\ Served
               /\ UNCHANGED <<err, codec, outArgs, locked, shown, inUse, fields>>

(***************************************************************************)
(* A decoder locks the buffer that comes with a frame.  At the end of the  *)
(* input, and when it is still filling the last one (outBufsInUseFlag), it *)
(* needs none and may ignore it.                                           *)
(***************************************************************************)
MayIgnore == numBufs = 0 \/ inUse

\* It returns frames for display, each once, keeps the buffers all the same,
\* and reports those it does not need any longer.
decode(have) ==
    /\ \E rel \in SUBSET have, out \in SUBSET (have \ shown) :
          /\ Cardinality(have \ rel) <= MaxHeld
          /\ locked' = have \ rel
          /\ shown' = (shown \cup out) \ rel
          /\ outArgs' = [outputID |-> out, freeBufID |-> rel]
    /\ \/ /\ inUse' = FALSE /\ fields' = fields
       \/ /\ ~MayIgnore /\ fields < MaxFields
          /\ buf \in locked'
          /\ inUse' = TRUE /\ fields' = fields + 1
    /\ err' = FALSE

serve_process ==
    /\ Serving("VIDDEC3_process")
    /\ \E have \in {locked \cup {buf}} \cup (IF MayIgnore THEN {locked} ELSE {}) :
          \/ decode(have)
          \/ /\ err' = TRUE
             /\ locked' = have
             /\ outArgs' = NoIDs
             /\ UNCHANGED <<shown, inUse, fields>>
    /\ Served
    /\ UNCHANGED <<engine, codec>>

\* One dce_clean of the handler; the answer goes out after the last.
clean == /\ call.stage = "clean" /\ call.clean # <<>>
         /\ dce_clean(Head(call.clean))
         /\ call' = [call EXCEPT !.clean = Tail(call.clean)]
         /\ UNCHANGED <<app_vars, dec_vars>>

reply == /\ call.stage = "clean" /\ call.clean = <<>>
         /\ call' = [call EXCEPT !.stage = "returned"]
         /\ UNCHANGED <<mem_vars, app_vars, dec_vars>>

Serve == \/ serve_open \/ serve_create \/ serve_control \/ serve_process
         \/ serve_delete \/ serve_close \/ clean \/ reply

-----------------------------------------------------------------------------
\* The program.

\* The library puts the addresses of fn's blocks into a message.
Call(fn, next) ==
    /\ call' = [fn |-> fn, stage |-> "codec", clean |-> Cleaned(fn)]
    /\ pc' = next

At(l) == pc = l /\ call.stage = "returned"
Goto(l) == pc' = l /\ UNCHANGED call

main_open == /\ At("start")
             /\ Call("Engine_open", "opened")
             /\ UNCHANGED <<mem_vars, dec_vars, numBufs, in_cnt, head, buf>>

main_create == /\ At("opened") /\ engine
               /\ dce_alloc({"params"})
               /\ Call("VIDDEC3_create", "created")
               /\ UNCHANGED <<dec_vars, numBufs, in_cnt, head, buf>>

main_setparams == /\ At("created") /\ codec
                  /\ dce_alloc({"dynParams", "status"})
                  /\ Call("VIDDEC3_control", "setparams")
                  /\ UNCHANGED <<dec_vars, numBufs, in_cnt, head, buf>>

main_getbufinfo == /\ At("setparams") /\ ~err
                   /\ Call("VIDDEC3_control", "getbufinfo")
                   /\ UNCHANGED <<mem_vars, dec_vars, numBufs, in_cnt, head, buf>>

\* The other blocks, the input buffer and output_allocate.
main_allocate == /\ At("getbufinfo") /\ ~err
                 /\ dce_alloc({"inBufs", "outBufs", "inArgs", "outArgs"})
                 /\ numBufs' = 1
                 /\ head' = Buffers
                 /\ Goto("loop")
                 /\ UNCHANGED <<dec_vars, in_cnt, buf>>

\* goto out: without an engine, without a codec, or after a failed control,
\* which leaves the codec alone.
main_fail == /\ \/ At("opened") /\ ~engine
                \/ At("created") /\ ~codec
                \/ At("setparams") /\ err
                \/ At("getbufinfo") /\ err
             /\ Goto("out")
             /\ UNCHANGED <<mem_vars, dec_vars, numBufs, in_cnt, head, buf>>

\* The file that is not there is counted.
slip_loop_process_counts_end ==
    /\ At("loop") /\ numBufs # 0
    /\ \E b \in head : buf' = b /\ head' = head \ {b}
    /\ in_cnt' = in_cnt + 1
    /\ numBufs' = IF in_cnt < Frames THEN numBufs ELSE 0
    /\ write({"inBufs", "inArgs", "outBufs"})
    /\ Call("VIDDEC3_process", "processed")
    /\ UNCHANGED dec_vars

\* The end of the input is never passed on.
slip_loop_process_no_end ==
    /\ At("loop") /\ numBufs # 0
    /\ \E b \in head : buf' = b /\ head' = head \ {b}
    /\ numBufs' = numBufs
    /\ in_cnt' = IF in_cnt < Frames THEN in_cnt + 1 ELSE in_cnt
    /\ write({"inBufs", "inArgs", "outBufs"})
    /\ Call("VIDDEC3_process", "processed")
    /\ UNCHANGED dec_vars

\* output_get, read_input (nothing to read ends the input) and the process
\* call, with the buffer's address as inputID.
loop_process ==
    /\ At("loop") /\ numBufs # 0
    /\ \E b \in head : buf' = b /\ head' = head \ {b}
    /\ IF in_cnt < Frames THEN in_cnt' = in_cnt + 1 /\ numBufs' = numBufs
                          ELSE in_cnt' = in_cnt /\ numBufs' = 0
    /\ write({"inBufs", "inArgs", "outBufs"})
    /\ Call("VIDDEC3_process", "processed")
    /\ UNCHANGED dec_vars

\* Every frame written to its file gives its buffer back.
slip_loop_output_releases_shown ==
    /\ At("processed") /\ ~err
    /\ head' = head \cup outArgs.outputID \cup outArgs.freeBufID
    /\ outArgs' = NoIDs /\ buf' = NoBuffer
    /\ Goto("loop")
    /\ UNCHANGED <<mem_vars, numBufs, in_cnt,
                   err, engine, codec, locked, shown, inUse, fields>>

\* Only one of the buffers reported is released.
slip_loop_output_releases_one ==
    /\ At("processed") /\ ~err
    /\ head' = head \cup {b \in outArgs.freeBufID :
                              b = CHOOSE c \in outArgs.freeBufID : TRUE}
    /\ outArgs' = NoIDs /\ buf' = NoBuffer
    /\ Goto("loop")
    /\ UNCHANGED <<mem_vars, numBufs, in_cnt,
                   err, engine, codec, locked, shown, inUse, fields>>

\* write_output of the frames returned, output_release of the buffers
\* reported free.  outBufsInUseFlag is not acted upon.
loop_output ==
    /\ At("processed") /\ ~err
    /\ head' = head \cup outArgs.freeBufID
    /\ outArgs' = NoIDs /\ buf' = NoBuffer
    /\ Goto("loop")
    /\ UNCHANGED <<mem_vars, numBufs, in_cnt,
                   err, engine, codec, locked, shown, inUse, fields>>

\* An error of process jumps past the deletion too.
slip_loop_fail_out ==
    /\ \/ At("loop") /\ numBufs = 0
       \/ At("loop") /\ head = {}
       \/ At("processed") /\ err
    /\ Goto(IF err THEN "out" ELSE "shutdown")
    /\ UNCHANGED <<mem_vars, dec_vars, numBufs, in_cnt, head, buf>>

\* shutdown: at the end, out of buffers, or after an error of process.
loop_leave ==
    /\ \/ At("loop") /\ numBufs = 0
       \/ At("loop") /\ head = {}
       \/ At("processed") /\ err
    /\ Goto("shutdown")
    /\ UNCHANGED <<mem_vars, dec_vars, numBufs, in_cnt, head, buf>>

main_delete == /\ At("shutdown")
               /\ Call("VIDDEC3_delete", "deleted")
               /\ UNCHANGED <<mem_vars, dec_vars, numBufs, in_cnt, head, buf>>

main_close == /\ \/ At("deleted")
                 \/ At("out") /\ engine
              /\ Call("Engine_close", "closed")
              /\ UNCHANGED <<mem_vars, dec_vars, numBufs, in_cnt, head, buf>>

\* The blocks there are, and output_free.
main_free == /\ \/ At("closed")
                \/ At("out") /\ ~engine
             /\ dce_free(allocated)
             /\ head' = {}
             /\ Goto("done")
             /\ UNCHANGED <<dec_vars, numBufs, in_cnt, buf>>

main == \/ main_open \/ main_create \/ main_setparams \/ main_getbufinfo
        \/ main_allocate \/ main_fail \/ loop_process \/ loop_output
        \/ loop_leave \/ main_delete \/ main_close \/ main_free

Evict == evict /\ UNCHANGED <<app_vars, dec_vars, call>>

Next == main \/ Serve \/ Evict

Spec == Init /\ [][Next]_vars
\* The program runs on, and the decoder returns from each call.
FairSpec == Spec /\ WF_vars(main \/ Serve)

-----------------------------------------------------------------------------
(***************************************************************************)
(* Whenever a codec runs on the M3, the blocks it was handed are allocated *)
(* and what it sees of them lacks no write of either side: no dce_clean    *)
(* (dce.c:178) of an earlier call left a line behind that a write of the   *)
(* A9 made stale.  Excepted are blocks whose memory had lines in the cache *)
(* before they were allocated: "when block is allocated, we need to        *)
(* somehow invalidate it" (dce.c:174), which nobody does.                  *)
(***************************************************************************)
ArgumentsCurrent ==
    call.stage = "codec" => \A b \in Reads(call.fn) :
        b \in virt2ducati(Blocks) /\ (b \in Leftover \/ ~Outdated(b))

(***************************************************************************)
(* When a call has returned, the memory has what the codec wrote: main     *)
(* reads numBufs of inBufs and outBufs, outArgs and status uncached.       *)
(***************************************************************************)
ResultsCurrent == call.stage = "returned" => oldMemory \cap allocated \subseteq Leftover

(***************************************************************************)
(* Outside a call there are no lines but of former users, and none at all  *)
(* of the blocks of the call that was last: a late eviction could          *)
(* overwrite what main has written since, or the memory's next user when   *)
(* dce_free has given the block back.                                      *)
(***************************************************************************)
NothingCachedOutside ==
    call.stage = "returned" => cached \subseteq Leftover \ Reads(call.fn)

(***************************************************************************)
(* A buffer the decoder keeps, even one already shown, is not on the list  *)
(* of free buffers (it would be decoded into again, or unmapped by         *)
(* output_free), nor is one released twice, nor the one in use.            *)
(***************************************************************************)
FreeListSound ==
    /\ head \cap locked = {}
    /\ head \cap outArgs.freeBufID = {}
    /\ buf \notin head

(***************************************************************************)
(* The list runs empty ("out of buffers") only when the decoder keeps too  *)
(* many, or has ignored as many buffers as there were frames in two calls: *)
(* each frame of the others brings back what it does not keep.             *)
(***************************************************************************)
EnoughBuffers ==
    At("loop") /\ numBufs # 0 /\ head = {} => MaxHeld + fields >= Cardinality(Buffers)

(***************************************************************************)
(* Engine_close meets a live codec only on the path of a failed control,   *)
(* which jumps past VIDDEC3_delete (test.c:377-387); never once decoding   *)
(* has begun.                                                              *)
(***************************************************************************)
CodecGoneAtClose ==
    call.fn = "Engine_close" /\ call.stage = "codec" /\ codec =>
        err /\ "inBufs" \notin allocated

\* Where a buffer is.
Place(b) ==
    IF b \in head THEN "free"
    ELSE IF b \in locked THEN "codec"
    ELSE IF b \in outArgs.freeBufID THEN "back"
    ELSE IF b = buf /\ call.fn = "VIDDEC3_process" THEN "lent"
    ELSE "gone"

(***************************************************************************)
(* The program and the decoder keep to BufferLoan: in no step does a       *)
(* buffer get from the decoder back to the list, or to the frame in hand,  *)
(* without its report, and output_free leaves nothing with a live decoder. *)
(***************************************************************************)
Loan == INSTANCE BufferLoan WITH place <- [b \in Buffers |-> Place(b)]
LoanKept == Loan!Spec

\* The program ends, whatever the decoder returns.
Terminates == <>(pc = "done")
=============================================================================
