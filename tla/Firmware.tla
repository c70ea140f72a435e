------------------------------ MODULE Firmware ------------------------------
(***************************************************************************)
(* The firmware from reset to the first codecs: Ducati_AppTask with the    *)
(* codec framework, the reset of the accelerator and the bring-up of IPC   *)
(* and of the RCM server (baseimage_ivahd_frwkconfig.c, main.c, dce_init   *)
(* of src/dce.c), and then the workers that create and delete codecs with  *)
(* memory from the managers registered at the start (IresMem).             *)
(***************************************************************************)
EXTENDS IresMem

CONSTANTS Peers,     \* the processors to attach to, in order: MPU, SysM3
          Symbols    \* the functions dce_init registers, in order

ASSUME FirmwareAssumption ==
    Peers \in Seq(STRING) /\ Len(Peers) > 0 /\ Symbols \in Seq(STRING)

VARIABLES
    pc,            \* where the boot task is
    registered,    \* managers RMAN knows
    stands_by,     \* the accelerator reports standby
    modules,       \* state of the modules IVAHD and SL2, as read in CLKCTRL
    enabled,       \* what was last written there: they are asked to run
    auto,          \* CLKSTCTRL lets the hardware stop the clock
    in_reset,      \* what RSTCTRL holds in reset
    boot_code,     \* the ITCM of both ICONTs has icont_boot
    ready,         \* peers that answer Ipc_attach
    attached,      \* how many of Peers are attached
    functions,     \* functions the RCM server knows
    serving,       \* RcmServer_start has been called
    obituaries     \* dce_cleanup_cb is registered with SLPM

hw_vars == <<stands_by, modules, enabled, auto, in_reset, boot_code>>
ipc_vars == <<ready, attached>>
rcm_vars == <<functions, serving, obituaries>>
vars == <<ires_vars, pc, registered, hw_vars, ipc_vars, rcm_vars>>

Parts == {"IVAHD", "SL2"}
Members(s) == {s[i] : i \in DOMAIN s}
ResetSteps == {"reset", "wait_standby", "disable_IVAHD", "disable_SL2",
    "wait_IVAHD_off", "wait_SL2_off", "assert", "copy", "wake_up",
    "enable_IVAHD", "enable_SL2", "release_SL2", "wait_IVAHD_on", "wait_SL2_on"}

\* Counts and positions stay in their ranges: dce_init registers each function
\* once, platform_init attaches to each peer once (main.c:239-255).
TypeOK ==
    /\ IresTypeOK
    /\ pc \in ResetSteps \cup {"rman_init", "hdvicp", "tiledmemory", "ipc",
           "attach", "rcm_create", "setup", "slpm", "asleep"}
    /\ registered \subseteq {"HDVICP", "TILEDMEMORY"}
    /\ modules \in [Parts -> {"on", "moving", "off"}]
    /\ in_reset \subseteq {"ICONT1", "ICONT2", "SL2"}
    /\ enabled \in [Parts -> BOOLEAN]
    /\ {stands_by, auto, boot_code, serving, obituaries} \subseteq BOOLEAN
    /\ ready \subseteq Members(Peers) /\ attached \in 0 .. Len(Peers)
    /\ functions \in 0 .. Len(Symbols)

Init ==
    /\ IresInit
    /\ pc = "rman_init" /\ registered = {}
    /\ stands_by \in BOOLEAN /\ auto \in BOOLEAN
    /\ modules = [p \in Parts |-> "on"] /\ enabled = [p \in Parts |-> TRUE]
    /\ in_reset \in SUBSET {"ICONT1", "ICONT2", "SL2"} /\ boot_code = FALSE
    /\ ready = {} /\ attached = 0
    /\ functions = 0 /\ serving = FALSE /\ obituaries = FALSE

-----------------------------------------------------------------------------
\* The boot task.

Step(from, to) == pc = from /\ pc' = to

\* RMAN_init; an error leaves init_IVAHDFrwk, the boot goes on.
rman_init == /\ pc = "rman_init" /\ pc' \in {"hdvicp", "reset"}
             /\ UNCHANGED <<ires_vars, registered, hw_vars, ipc_vars, rcm_vars>>

\* RMAN_register of HDVICP, whose manager allocates its memory with allocFxn.
register_hdvicp ==
    /\ pc = "hdvicp" /\ thread[Boot].pc = "idle"
    /\ \/ /\ pc' = "reset"    \* refused
          /\ UNCHANGED thread
       \/ /\ UNCHANGED pc
          /\ thread' = [thread EXCEPT ![Boot] =
                [Enter(Boot, "alloc", [r \in DOMAIN ManagerTab |->
                    [size |-> ManagerTab[r].size,
                     alignment |-> ManagerTab[r].alignment,
                     base |-> Garbage]], Len(ManagerTab))
                 EXCEPT !.pc = "registering"]]
    /\ UNCHANGED <<heap, header, fxnsSet, undefined, registered,
                   hw_vars, ipc_vars, rcm_vars>>

hdvicp_registered ==
    /\ pc = "hdvicp" /\ thread[Boot].pc = "registering"
    /\ \/ /\ thread[Boot].op = "true"
          /\ registered' = registered \cup {"HDVICP"}
          /\ pc' = "tiledmemory" /\ UNCHANGED thread
       \/ /\ thread[Boot].op = "false"
          /\ thread' = [thread EXCEPT ![Boot] = IdleThread]
          /\ pc' = "reset" /\ UNCHANGED registered
    /\ UNCHANGED <<heap, header, fxnsSet, undefined, hw_vars, ipc_vars, rcm_vars>>

\* RMAN_register of TILEDMEMORY runs its init, or fails before.
register_tiledmemory ==
    /\ Step("tiledmemory", "reset")
    /\ \/ /\ init
          /\ registered' = registered \cup {"TILEDMEMORY"}
       \/ UNCHANGED <<fxnsSet, registered>>
    /\ UNCHANGED <<heap, header, thread, undefined, hw_vars, ipc_vars, rcm_vars>>

\* HDVICP_Reset: each write of a register and each wait is a step; the loop
\* that writes the boot code is one.
ResetStep(from, to) == /\ Step(from, to)
                       /\ UNCHANGED <<ires_vars, registered, ipc_vars, rcm_vars>>

reset_auto == /\ ResetStep("reset", "wait_standby")
              /\ auto' = TRUE
              /\ UNCHANGED <<stands_by, modules, enabled, in_reset, boot_code>>
reset_standby == /\ ResetStep("wait_standby", "disable_IVAHD") /\ stands_by
                 /\ UNCHANGED hw_vars

\* A write to the CLKCTRL of one module.
Clkctrl(p, on) == /\ enabled' = [enabled EXCEPT ![p] = on]
                  /\ UNCHANGED <<stands_by, modules, auto, in_reset, boot_code>>

reset_disable ==
    \/ ResetStep("disable_IVAHD", "disable_SL2") /\ Clkctrl("IVAHD", FALSE)
    \/ ResetStep("disable_SL2", "wait_IVAHD_off") /\ Clkctrl("SL2", FALSE)
\* The wait ends as soon as the state is any but functional.
slip_reset_disabled == \/ ResetStep("wait_IVAHD_off", "assert") /\ modules["IVAHD"] # "on"
                          /\ UNCHANGED hw_vars
reset_disabled == \/ ResetStep("wait_IVAHD_off", "wait_SL2_off") /\ modules["IVAHD"] # "on"
                     /\ UNCHANGED hw_vars
                  \/ ResetStep("wait_SL2_off", "assert") /\ modules["SL2"] # "on"
                     /\ UNCHANGED hw_vars
reset_assert == /\ ResetStep("assert", "copy")
                /\ in_reset' = {"ICONT1", "ICONT2", "SL2"}
                /\ UNCHANGED <<stands_by, modules, enabled, auto, boot_code>>
reset_copy == /\ ResetStep("copy", "wake_up")
              /\ boot_code' = TRUE
              /\ UNCHANGED <<stands_by, modules, enabled, auto, in_reset>>

\* Wake-up by software.
reset_wake_up == /\ ResetStep("wake_up", "enable_IVAHD")
                 /\ auto' = FALSE
                 /\ UNCHANGED <<stands_by, modules, enabled, in_reset, boot_code>>
\* SL2 is left as it is.
slip_reset_enable ==
    \/ ResetStep("enable_IVAHD", "enable_SL2") /\ Clkctrl("IVAHD", TRUE)
    \/ ResetStep("enable_SL2", "release_SL2") /\ UNCHANGED hw_vars
reset_enable ==
    \/ ResetStep("enable_IVAHD", "enable_SL2") /\ Clkctrl("IVAHD", TRUE)
    \/ ResetStep("enable_SL2", "release_SL2") /\ Clkctrl("SL2", TRUE)
\* Of what was reset, SL2 alone is released.
reset_release == /\ ResetStep("release_SL2", "wait_IVAHD_on")
                 /\ in_reset' = in_reset \ {"SL2"}
                 /\ UNCHANGED <<stands_by, modules, enabled, auto, boot_code>>
reset_enabled == \/ ResetStep("wait_IVAHD_on", "wait_SL2_on") /\ modules["IVAHD"] = "on"
                    /\ UNCHANGED hw_vars
                 \/ ResetStep("wait_SL2_on", "ipc") /\ modules["SL2"] = "on"
                    /\ UNCHANGED hw_vars

HDVICP_Reset == \/ reset_auto \/ reset_standby \/ reset_disable \/ reset_disabled
                \/ reset_assert \/ reset_copy \/ reset_wake_up \/ reset_enable
                \/ reset_release \/ reset_enabled

\* platform_init: without IPC there will be no server.
ipc_start == /\ pc = "ipc" /\ pc' \in {"attach", "asleep"}
             /\ UNCHANGED <<ires_vars, registered, hw_vars, ipc_vars, rcm_vars>>

\* Attached to the first peer only.
slip_ipc_attach == /\ pc = "attach"
                   /\ attached' = attached + 1 /\ Peers[attached'] \in ready
                   /\ pc' = "rcm_create"
                   /\ UNCHANGED <<ires_vars, registered, hw_vars, ready, rcm_vars>>

\* Ipc_attach is repeated until the peer answers, one peer after the other.
ipc_attach == /\ pc = "attach"
              /\ attached' = attached + 1 /\ Peers[attached'] \in ready
              /\ pc' = IF attached' = Len(Peers) THEN "rcm_create" ELSE "attach"
              /\ UNCHANGED <<ires_vars, registered, hw_vars, ready, rcm_vars>>

\* dce_init: the server is created or not.
rcm_create == /\ pc = "rcm_create" /\ pc' \in {"setup", "asleep"}
              /\ UNCHANGED <<ires_vars, registered, hw_vars, ipc_vars, rcm_vars>>

\* One function too many.
slip_setup_fxn == /\ pc = "setup" /\ functions <= Len(Symbols)
                  /\ functions' = functions + 1 /\ UNCHANGED pc
                  /\ UNCHANGED <<ires_vars, registered, hw_vars, ipc_vars,
                                 serving, obituaries>>

\* SETUP_FXN of the next function; a failure ends dce_init.
setup_fxn == /\ pc = "setup" /\ functions < Len(Symbols)
             /\ \/ functions' = functions + 1 /\ UNCHANGED pc
                \/ pc' = "asleep" /\ UNCHANGED functions
             /\ UNCHANGED <<ires_vars, registered, hw_vars, ipc_vars,
                            serving, obituaries>>

rcm_start == /\ pc = "setup" /\ functions = Len(Symbols) /\ pc' = "slpm"
             /\ serving' = TRUE
             /\ UNCHANGED <<ires_vars, registered, hw_vars, ipc_vars,
                            functions, obituaries>>

\* Both SLPM calls: their errors are only logged.
register_callback == /\ Step("slpm", "asleep")
                     /\ obituaries' \in BOOLEAN
                     /\ UNCHANGED <<ires_vars, registered, hw_vars, ipc_vars,
                                    functions, serving>>

Ducati_AppTask ==
    \/ rman_init \/ register_hdvicp \/ hdvicp_registered \/ register_tiledmemory
    \/ HDVICP_Reset \/ ipc_start \/ ipc_attach
    \/ rcm_create \/ setup_fxn \/ rcm_start \/ register_callback

-----------------------------------------------------------------------------
\* What the boot task waits for.

standby == /\ auto /\ ~stands_by /\ stands_by' = TRUE
           /\ UNCHANGED <<ires_vars, pc, registered, modules, enabled, auto,
                          in_reset, boot_code, ipc_vars, rcm_vars>>

\* A module follows CLKCTRL, through a transition.
settle(p) ==
    /\ LET target == IF enabled[p] THEN "on" ELSE "off" IN
       /\ modules[p] # target
       /\ modules' = [modules EXCEPT ![p] = IF @ = "moving" THEN target ELSE "moving"]
    /\ UNCHANGED <<ires_vars, pc, registered, stands_by, enabled, auto,
                   in_reset, boot_code, ipc_vars, rcm_vars>>

peer_ready == /\ \E p \in Members(Peers) \ ready : ready' = ready \cup {p}
              /\ UNCHANGED <<ires_vars, pc, registered, hw_vars, attached, rcm_vars>>

Hardware == standby \/ peer_ready \/ \E p \in Parts : settle(p)

-----------------------------------------------------------------------------
\* The workers: RMAN asks the managers it knows, once there is a server.
create_codec(w) == /\ serving /\ "TILEDMEMORY" \in registered
                   /\ getHandles(w)

Rest == UNCHANGED <<pc, registered, hw_vars, ipc_vars, rcm_vars>>
Worker(w) == (create_codec(w) \/ Resource(w)) /\ Rest
Memory == (\E t \in Threads : Loop(t)) /\ Rest

Next == Ducati_AppTask \/ Hardware \/ Memory \/ \E w \in Workers : Worker(w)

Spec == Init /\ [][Next]_vars

\* The boot task runs on, and accelerator and peers come up in the end.
FairSpec == Spec /\ WF_vars(Ducati_AppTask \/ Hardware) /\ WF_vars(Loop(Boot) /\ Rest)

-----------------------------------------------------------------------------
(***************************************************************************)
(* No base is followed that was not set, nothing is freed that is not in   *)
(* use: after an allocation that failed half-way freeFxn reads only the    *)
(* bases that allocFxn has set, and freeHandles reads the handle before it *)
(* goes.                                                                   *)
(***************************************************************************)
NothingUndefined == ~undefined

(***************************************************************************)
(* Every block in use is one that somebody still has to give back, and the *)
(* other way round: an allocation or a getHandles that fails half-way      *)
(* leaves nothing behind.                                                  *)
(***************************************************************************)
Owned == UNION {Listed(thread[t]) \cup Kept(thread[t]) : t \in Threads}
BlocksOwned ==
    /\ {h.base : h \in header} = Owned
    /\ heap = {[ptr |-> h.ptr, size |-> h.size] : h \in header}
    /\ Cardinality(heap) = Cardinality(header)

(***************************************************************************)
(* A block has its base aligned as asked for, its header before the base   *)
(* and its bytes behind it, all inside what heap1 gave (allocFxn's pad),   *)
(* from its allocation until it is given back: a codec's buffer and handle *)
(* are never over blocks that were made for something smaller.             *)
(***************************************************************************)
HeaderFits ==
    \A t \in Threads, h \in header :
        LET th == thread[t] IN
        /\ \A j \in Allocated(th) :
               h.base = th.tab[j].base => Fits(h, th.tab[j].size, th.tab[j].alignment)
        /\ HasBuffer(th) /\ h.base = th.ptr => Fits(h, BufferSize, 4)
        /\ HasHandle(th) /\ h.base = th.handle => Fits(h, HandleSize, 4)

(***************************************************************************)
(* The sequencers are reset only when the accelerator had been in standby  *)
(* and both modules had left the functional state, and their memory is     *)
(* written while they are in reset (the order of HDVICP_Reset's waits).    *)
(* The modules need not be off yet, as main.c:127 has it: the waits end in *)
(* the transition.                                                         *)
(***************************************************************************)
ResetOrdered ==
    /\ pc = "copy" => stands_by /\ \A p \in Parts : modules[p] # "on"
    /\ boot_code => {"ICONT1", "ICONT2"} \subseteq in_reset

(***************************************************************************)
(* Whoever sends a request finds all functions, both peers attached, both  *)
(* modules of the accelerator clocked, SL2 out of reset and the sequencers *)
(* in reset over their boot code, whatever failed on the way.              *)
(***************************************************************************)
ServesWhenReady ==
    serving => /\ functions = Len(Symbols) /\ attached = Len(Peers)
               /\ ready = Members(Peers)
               /\ \A p \in Parts : modules[p] = "on"
               /\ in_reset = {"ICONT1", "ICONT2"} /\ boot_code

(***************************************************************************)
(* The boot task reaches its sleep, with a server or without: each busy    *)
(* wait and each attach loop ends if the other side does its part.         *)
(***************************************************************************)
BootEnds == <>(pc = "asleep")
=============================================================================
