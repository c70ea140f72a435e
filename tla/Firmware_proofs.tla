-------------------------- MODULE Firmware_proofs --------------------------
(***************************************************************************)
(* Proofs about the boot of the firmware (Firmware), for any peers and any *)
(* functions, whatever hardware and peers do and however they are timed.   *)
(***************************************************************************)
EXTENDS Firmware, TLAPS

Frwk == {"rman_init", "hdvicp", "tiledmemory"}
Dce == {"setup", "slpm"}
Icont == {"ICONT1", "ICONT2"}
\* From one position of the boot task to the end.
FromIpc == {"ipc", "attach", "rcm_create", "asleep"} \cup Dce
FromRelease == {"release_SL2", "wait_IVAHD_on", "wait_SL2_on"} \cup FromIpc
FromWakeUp == {"wake_up", "enable_IVAHD", "enable_SL2"} \cup FromRelease
Resetting == {"assert", "copy", "wake_up", "enable_IVAHD"}
Disabled == {"wait_IVAHD_off", "wait_SL2_off"} \cup Resetting

BootTypeOK ==
    /\ pc \in ResetSteps \cup Frwk \cup FromIpc
    /\ modules \in [Parts -> {"on", "moving", "off"}]
    /\ enabled \in [Parts -> BOOLEAN]
    /\ in_reset \subseteq Icont \cup {"SL2"}
    /\ ready \subseteq Members(Peers) /\ attached \in 0 .. Len(Peers)
    /\ functions \in 0 .. Len(Symbols)

\* What the reset has achieved, position by position: CLKCTRL is what the last
\* write says, and a module that was seen to leave a state does not return to
\* it while CLKCTRL stays.
ResetInv ==
    /\ pc \in {"disable_IVAHD", "disable_SL2"} \cup Disabled => stands_by
    /\ pc \in {"disable_SL2"} \cup Disabled => ~enabled["IVAHD"]
    /\ pc \in Disabled \cup {"enable_SL2"} => ~enabled["SL2"]
    /\ pc \in {"wait_SL2_off"} \cup Resetting => modules["IVAHD"] # "on"
    /\ pc \in Resetting => modules["SL2"] # "on"
    /\ pc \in {"copy"} \cup FromWakeUp => Icont \subseteq in_reset
    /\ boot_code <=> pc \in FromWakeUp
    /\ pc \in {"enable_SL2"} \cup FromRelease => enabled["IVAHD"]
    /\ pc \in FromRelease => enabled["SL2"]
    /\ pc \in FromRelease \ {"release_SL2"} => "SL2" \notin in_reset
    /\ pc \in {"wait_SL2_on"} \cup FromIpc => modules["IVAHD"] = "on"
    /\ pc \in FromIpc => modules["SL2"] = "on"

\* Who is attached to has answered, and the server starts when all have been
\* and when every function is registered.
ServerInv ==
    /\ \A i \in 1 .. attached : Peers[i] \in ready
    /\ pc = "attach" => attached < Len(Peers)
    /\ pc \in {"rcm_create"} \cup Dce => attached = Len(Peers)
    /\ pc = "slpm" => functions = Len(Symbols)
    /\ serving => /\ pc \in {"slpm", "asleep"} /\ attached = Len(Peers)
                  /\ functions = Len(Symbols)
    /\ pc \notin {"attach", "rcm_create", "asleep"} \cup Dce => attached = 0

BootInv == BootTypeOK /\ ResetInv /\ ServerInv

LEMMA BootInit == Init => BootInv
  <1> SUFFICES ASSUME Init PROVE BootInv
    OBVIOUS
  <1> USE DEF Init
  <1>1. BootTypeOK
    BY FirmwareAssumption DEF BootTypeOK, ResetSteps, Frwk, FromIpc, Dce, Parts, Icont
  <1>2. ResetInv
    BY DEF ResetInv, Disabled, FromIpc, FromRelease, FromWakeUp, Resetting, Dce
  <1>3. ServerInv
    BY DEF ServerInv, Dce
  <1> QED BY <1>1, <1>2, <1>3 DEF BootInv

LEMMA BootTypeStep == BootInv /\ [Next]_vars => BootTypeOK'
  <1> SUFFICES ASSUME BootInv, [Next]_vars PROVE BootTypeOK'
    OBVIOUS
  <1> USE FirmwareAssumption DEF BootInv, BootTypeOK, ServerInv, Step, ResetStep, hw_vars,
      ipc_vars, rcm_vars, ResetSteps, Frwk, FromIpc, Dce, Icont
  <1>1. CASE rman_init \/ register_hdvicp \/ hdvicp_registered \/ register_tiledmemory
    BY <1>1 DEF rman_init, register_hdvicp, hdvicp_registered, register_tiledmemory
  <1>2. CASE HDVICP_Reset
    BY <1>2 DEF HDVICP_Reset, reset_auto, reset_standby, reset_disable, reset_disabled,
       reset_assert, reset_copy, reset_wake_up, reset_enable, reset_release,
       reset_enabled, Clkctrl
  <1>3. CASE ipc_start
    BY <1>3 DEF ipc_start
  <1>4. CASE ipc_attach
    BY <1>4 DEF ipc_attach
  <1>5. CASE rcm_create
    BY <1>5 DEF rcm_create
  <1>6. CASE setup_fxn
    BY <1>6 DEF setup_fxn
  <1>7. CASE rcm_start \/ register_callback
    BY <1>7 DEF rcm_start, register_callback
  <1>8. CASE Hardware
    BY <1>8 DEF Hardware, standby, settle, peer_ready
  <1>9. CASE Memory \/ (\E w \in Workers : Worker(w)) \/ UNCHANGED vars
    BY <1>9 DEF Memory, Worker, Rest, vars
  <1> QED BY <1>1, <1>2, <1>3, <1>4, <1>5, <1>6, <1>7, <1>8, <1>9 DEF Next, Ducati_AppTask

LEMMA ResetInvStep == BootInv /\ [Next]_vars => ResetInv'
  <1> SUFFICES ASSUME BootInv, [Next]_vars PROVE ResetInv'
    OBVIOUS
  <1> USE DEF BootInv, BootTypeOK, ResetInv, Step, ResetStep, hw_vars, ResetSteps, Frwk,
      FromIpc, FromRelease, FromWakeUp, Resetting, Disabled, Dce, Icont, Parts
  <1>1. CASE rman_init \/ register_hdvicp \/ hdvicp_registered \/ register_tiledmemory
    BY <1>1 DEF rman_init, register_hdvicp, hdvicp_registered, register_tiledmemory
  <1>2. CASE HDVICP_Reset
    <2>1. CASE reset_auto
      BY <2>1 DEF reset_auto
    <2>2. CASE reset_standby
      BY <2>2 DEF reset_standby
    <2>3. CASE reset_disable
      <3>1. enabled' \in [Parts -> BOOLEAN] /\ UNCHANGED <<stands_by, modules, in_reset, boot_code>>
        BY <2>3 DEF reset_disable, Clkctrl
      <3>2. CASE pc = "disable_IVAHD"
        <4>1. pc' = "disable_SL2" /\ ~enabled'["IVAHD"]
          BY <2>3, <3>2 DEF reset_disable, Clkctrl
        <4> QED BY <3>1, <3>2, <4>1
      <3>3. CASE pc = "disable_SL2"
        <4>1. pc' = "wait_IVAHD_off" /\ ~enabled'["IVAHD"] /\ ~enabled'["SL2"]
          BY <2>3, <3>3 DEF reset_disable, Clkctrl
        <4> QED BY <3>1, <3>3, <4>1
      <3> QED BY <2>3, <3>2, <3>3 DEF reset_disable
    <2>4. CASE reset_disabled
      BY <2>4 DEF reset_disabled
    <2>5. CASE reset_assert
      BY <2>5 DEF reset_assert
    <2>6. CASE reset_copy \/ reset_wake_up
      BY <2>6 DEF reset_copy, reset_wake_up
    <2>7. CASE reset_enable
      BY <2>7 DEF reset_enable, Clkctrl
    <2>8. CASE reset_release
      BY <2>8 DEF reset_release
    <2>9. CASE reset_enabled
      BY <2>9 DEF reset_enabled
    <2> QED BY <1>2, <2>1, <2>2, <2>3, <2>4, <2>5, <2>6, <2>7, <2>8, <2>9 DEF HDVICP_Reset
  <1>3. CASE ipc_start \/ ipc_attach
    BY <1>3 DEF ipc_start, ipc_attach
  <1>4. CASE rcm_create \/ setup_fxn \/ rcm_start \/ register_callback
    BY <1>4 DEF rcm_create, setup_fxn, rcm_start, register_callback
  <1>5. CASE Hardware
    BY <1>5 DEF Hardware, standby, settle, peer_ready
  <1>6. CASE Memory \/ (\E w \in Workers : Worker(w)) \/ UNCHANGED vars
    BY <1>6 DEF Memory, Worker, Rest, vars
  <1> QED BY <1>1, <1>2, <1>3, <1>4, <1>5, <1>6 DEF Next, Ducati_AppTask

LEMMA ServerInvStep == BootInv /\ [Next]_vars => ServerInv'
  <1> SUFFICES ASSUME BootInv, [Next]_vars PROVE ServerInv'
    OBVIOUS
  <1> USE FirmwareAssumption DEF BootInv, BootTypeOK, ServerInv, Step, ResetStep, ipc_vars,
      rcm_vars, ResetSteps, Frwk, FromIpc, Dce
  <1>1. CASE rman_init \/ register_hdvicp \/ hdvicp_registered \/ register_tiledmemory
    BY <1>1 DEF rman_init, register_hdvicp, hdvicp_registered, register_tiledmemory
  <1>2. CASE HDVICP_Reset
    BY <1>2 DEF HDVICP_Reset, reset_auto, reset_standby, reset_disable, reset_disabled,
       reset_assert, reset_copy, reset_wake_up, reset_enable, reset_release,
       reset_enabled, Clkctrl
  <1>3. CASE ipc_start
    BY <1>3 DEF ipc_start
  <1>4. CASE ipc_attach
    BY <1>4 DEF ipc_attach
  <1>5. CASE rcm_create \/ setup_fxn \/ rcm_start \/ register_callback
    BY <1>5 DEF rcm_create, setup_fxn, rcm_start, register_callback
  <1>6. CASE Hardware
    BY <1>6 DEF Hardware, standby, settle, peer_ready
  <1>7. CASE Memory \/ (\E w \in Workers : Worker(w)) \/ UNCHANGED vars
    BY <1>7 DEF Memory, Worker, Rest, vars
  <1> QED BY <1>1, <1>2, <1>3, <1>4, <1>5, <1>6, <1>7 DEF Next, Ducati_AppTask

LEMMA BootAlways == Spec => []BootInv
  <1>1. BootInv /\ [Next]_vars => BootInv'
    BY BootTypeStep, ResetInvStep, ServerInvStep DEF BootInv
  <1> QED BY <1>1, BootInit, PTL DEF Spec

(***************************************************************************)
(* The waits of HDVICP_Reset (main.c:121-164) are enough: the sequencers   *)
(* are reset when the accelerator is in standby and its modules have left  *)
(* the functional state, and written to while they are in reset.           *)
(***************************************************************************)
THEOREM ResetInOrder == Spec => []ResetOrdered
  <1>1. BootInv => ResetOrdered
    <2> SUFFICES ASSUME BootInv PROVE ResetOrdered
      OBVIOUS
    <2>1. pc = "copy" => stands_by /\ \A p \in Parts : modules[p] # "on"
      BY DEF BootInv, ResetInv, Disabled, Resetting, Parts
    <2>2. boot_code => {"ICONT1", "ICONT2"} \subseteq in_reset
      BY DEF BootInv, ResetInv, Icont
    <2> QED BY <2>1, <2>2 DEF ResetOrdered
  <1> QED BY <1>1, BootAlways, PTL

(***************************************************************************)
(* Whatever goes wrong in the boot, a request finds either no server or    *)
(* one that has all its functions, its peers and a running accelerator     *)
(* (main.c:287-289, dce.c:861-876).                                        *)
(***************************************************************************)
THEOREM ServerIsReady == Spec => []ServesWhenReady
  <1>1. BootInv => ServesWhenReady
    <2> SUFFICES ASSUME BootInv, serving PROVE ServesWhenReady
      BY DEF ServesWhenReady
    <2>1. ready = Members(Peers)
      BY DEF BootInv, BootTypeOK, ServerInv, Members
    <2> QED BY <2>1 DEF BootInv, BootTypeOK, ServerInv, ResetInv, ServesWhenReady, Parts,
           FromIpc, FromRelease, FromWakeUp, Dce, Icont
  <1> QED BY <1>1, BootAlways, PTL
=============================================================================
