------------------------------- MODULE Ivahd -------------------------------
(***************************************************************************)
(* The use count of the IVA-HD video accelerator, which raises its clock   *)
(* for the first user and drops it after the last one                      *)
(* (src/ducati/platform/base_image/src/main.c).  Acquire and release run   *)
(* with interrupts disabled, so each is one step.                          *)
(***************************************************************************)
EXTENDS Integers

VARIABLES
    ivahd_use_cnt,
    opp            \* the operating point last programmed by set_ivahd_opp

ivahd_vars == <<ivahd_use_cnt, opp>>

Opps == {0, 50, 100}

IvahdTypeOK == /\ ivahd_use_cnt \in Int
               /\ opp \in Opps

\* platform_init programs operating point 0; the counter is static.
IvahdInit == /\ ivahd_use_cnt = 0
             /\ opp = 0

\* A release that drops the clock at each call, whoever else is decoding.
slip_release_always == /\ ivahd_use_cnt' = ivahd_use_cnt - 1
                       /\ opp' = 0

ivahd_acquire ==
    /\ ivahd_use_cnt' = ivahd_use_cnt + 1
    /\ opp' = IF ivahd_use_cnt' = 1 THEN 100 ELSE opp

ivahd_release ==
    /\ ivahd_use_cnt' = ivahd_use_cnt - 1
    /\ opp' = IF ivahd_use_cnt = 1 THEN 0 ELSE opp
=============================================================================
