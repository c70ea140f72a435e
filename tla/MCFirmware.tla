----------------------------- MODULE MCFirmware -----------------------------
\* The firmware with a heap of a few blocks and two workers.
EXTENDS Firmware

MCPeers == <<"MPU", "SysM3">>
MCSymbols == <<"Engine_open", "Engine_close", "VIDDEC3_create",
               "VIDDEC3_control", "VIDDEC3_process", "VIDDEC3_delete">>
MCManagerTab == <<[size |-> 8, alignment |-> 16], [size |-> 4, alignment |-> 0],
                  [size |-> 24, alignment |-> 4]>>
=============================================================================
