------------------------- MODULE DceClient_proofs -------------------------
(***************************************************************************)
(* Proofs about the client library, for any number of threads, engines and *)
(* connections and whatever RCM does.                                      *)
(***************************************************************************)
EXTENDS DceClient, TLAPS

\* The part of the type invariant init and deinit rest on.
LockTypes ==
    /\ mutex \in Threads \cup {Null}
    /\ handle \in Conns \cup {Null}
    /\ call \in [Threads -> CallRecord]
    /\ held \subseteq Handles \cup {Garbage}

\* What a thread between the two halves of init or deinit may rely on: it has
\* the mutex; before it takes IPC down, the handle is cleared.
LockRules ==
    \A t \in Threads :
        /\ call[t].pc \in {"setup", "destroy"} => mutex = t
        /\ call[t].pc = "destroy" => handle = Null

\* The inductive invariant behind IpcUnderConnection.
LockInv == LockTypes /\ LockRules /\ IpcUnderConnection

-----------------------------------------------------------------------------
\* The initial state satisfies it: nothing is set up and nobody is in a call.
LEMMA LockInit == Init => LockInv
  BY ClientAssumption DEF Init, LockInv, LockTypes, LockRules, IpcUnderConnection,
     NoCall, CallRecord

\* A call that returns leaves the other calls alone and is idle afterwards.
LEMMA ReturnStep ==
    ASSUME LockTypes, NEW t \in Threads, NEW ret \in Handles \cup {Null, Garbage},
           Return(t, ret)
    PROVE  /\ call' \in [Threads -> CallRecord]
           /\ held' \subseteq Handles \cup {Garbage}
           /\ call'[t].pc = "idle"
           /\ \A u \in Threads \ {t} : call'[u] = call[u]
  BY DEF LockTypes, Return, NoCall, CallRecord

\* So does a call that goes on to another point of the library.
LEMMA GotoStep ==
    ASSUME LockTypes, NEW t \in Threads,
           NEW pc \in {"setup", "alloc", "exec", "free", "deinit", "destroy"},
           Goto(t, pc)
    PROVE  /\ call' \in [Threads -> CallRecord]
           /\ call'[t].pc = pc
           /\ \A u \in Threads \ {t} : call'[u] = call[u]
  <1>1. [call[t] EXCEPT !.pc = pc] \in CallRecord
    BY DEF LockTypes, CallRecord
  <1>2. [call[t] EXCEPT !.pc = pc].pc = pc
    BY DEF LockTypes, CallRecord
  <1>3. call' = [call EXCEPT ![t] = [call[t] EXCEPT !.pc = pc]]
    BY DEF Goto
  <1> QED  BY <1>1, <1>2, <1>3 DEF LockTypes

\* What a call looks like after it has begun.
LEMMA CallEntered ==
    ASSUME LockTypes, NEW t \in Threads, NEW pc \in {"init", "alloc"},
           NEW fn \in {"Engine_open", "Engine_close", "VIDDEC3_create",
                       "VIDDEC3_process", "VIDDEC3_delete"},
           NEW arg \in Handles \cup {Null, Garbage}, Enter(t, fn, arg, pc)
    PROVE  /\ call' \in [Threads -> CallRecord]
           /\ call'[t].pc = pc /\ call'[t].fn = fn /\ call'[t].arg = arg
           /\ call'[t].msg = Null
           /\ \A u \in Threads \ {t} : call'[u] = call[u]
  <1> DEFINE new == [NoCall EXCEPT !.pc = pc, !.fn = fn, !.arg = arg]
  <1>1. /\ new \in CallRecord
        /\ new.pc = pc /\ new.fn = fn /\ new.arg = arg /\ new.msg = Null
    BY DEF NoCall, CallRecord
  <1>2. call' = [call EXCEPT ![t] = new]
    BY DEF Enter
  <1> HIDE DEF new
  <1> QED  BY <1>1, <1>2 DEF LockTypes

\* The same after a step that sets its place only.
LEMMA CallGoesTo ==
    ASSUME LockTypes, NEW t \in Threads,
           NEW pc \in {"setup", "alloc", "exec", "free", "deinit", "destroy"}, Goto(t, pc)
    PROVE  /\ call' \in [Threads -> CallRecord]
           /\ call'[t].pc = pc /\ call'[t].msg = call[t].msg /\ call'[t].ret = call[t].ret
           /\ call'[t].fn = call[t].fn /\ call'[t].arg = call[t].arg
           /\ \A u \in Threads \ {t} : call'[u] = call[u]
  <1> DEFINE new == [call[t] EXCEPT !.pc = pc]
  <1>1. /\ new \in CallRecord /\ new.pc = pc /\ new.msg = call[t].msg /\ new.ret = call[t].ret
        /\ new.fn = call[t].fn /\ new.arg = call[t].arg
    BY DEF LockTypes, CallRecord
  <1>2. call' = [call EXCEPT ![t] = new]
    BY DEF Goto
  <1> HIDE DEF new
  <1> QED  BY <1>1, <1>2 DEF LockTypes

\* Steps outside init and deinit: no global of the library changes, and the
\* thread that moves is not between the halves of init or deinit afterwards.
LEMMA OutsideStep ==
    ASSUME LockInv, NEW t \in Threads, UNCHANGED libVars,
           call' \in [Threads -> CallRecord], held' \subseteq Handles \cup {Garbage},
           call'[t].pc \notin {"setup", "destroy"},
           \A u \in Threads \ {t} : call'[u] = call[u]
    PROVE  LockInv'
  BY DEF LockInv, LockTypes, LockRules, IpcUnderConnection, libVars

\* The application's calls begin outside (src/dce.c:366-788).
LEMMA EnterStep ==
    ASSUME LockInv, NEW t \in Threads,
           NEW fn \in {"Engine_open", "Engine_close", "VIDDEC3_create",
                       "VIDDEC3_process", "VIDDEC3_delete"},
           NEW arg \in Handles \cup {Null, Garbage}, NEW pc \in {"init", "alloc"},
           Enter(t, fn, arg, pc), held' \subseteq held
    PROVE  LockInv'
  <1> DEFINE new == [NoCall EXCEPT !.pc = pc, !.fn = fn, !.arg = arg]
  <1>1. new \in CallRecord /\ new.pc = pc
    BY DEF NoCall, CallRecord
  <1>2. call' = [call EXCEPT ![t] = new] /\ UNCHANGED libVars
    BY DEF Enter
  <1>3. /\ call' \in [Threads -> CallRecord]
        /\ call'[t].pc = pc
        /\ \A u \in Threads \ {t} : call'[u] = call[u]
    BY <1>1, <1>2 DEF LockInv, LockTypes
  <1>4. held' \subseteq Handles \cup {Garbage}
    BY DEF LockInv, LockTypes
  <1> QED  BY <1>2, <1>3, <1>4, OutsideStep

LEMMA AppStep ==
    ASSUME LockInv, NEW t \in Threads, App(t)
    PROVE  LockInv'
  <1>1. CASE CallOpen(t)
    BY <1>1, EnterStep DEF CallOpen
  <1>2. CASE CallClose(t)
    BY <1>2, EnterStep DEF CallClose, Handles
  <1>3. CASE CallCreate(t)
    BY <1>3, EnterStep DEF CallCreate, Handles
  <1>4. CASE CallCodec(t)
    BY <1>4, EnterStep DEF CallCodec, LockInv, LockTypes
  <1>5. CASE CallDelete(t)
    BY <1>5, EnterStep DEF CallDelete, LockInv, LockTypes
  <1> QED  BY <1>1, <1>2, <1>3, <1>4, <1>5 DEF App

\* The end of a function (src/dce.c:403-409, 464-472).
LEMMA LeaveStep ==
    ASSUME LockInv, NEW t \in Threads, NEW ret \in Handles \cup {Null, Garbage},
           Leave(t, ret), UNCHANGED libVars
    PROVE  LockInv'
  <1>1. CASE Return(t, ret)
    BY <1>1, ReturnStep, OutsideStep DEF LockInv
  <1>2. CASE /\ call' = [call EXCEPT ![t].pc = "deinit", ![t].msg = Null]
             /\ UNCHANGED appVars
    <2> DEFINE new == [call[t] EXCEPT !.pc = "deinit", !.msg = Null]
    <2>1. new \in CallRecord /\ new.pc = "deinit"
      BY DEF LockInv, LockTypes, CallRecord
    <2>2. call' = [call EXCEPT ![t] = new]
      BY <1>2
    <2> QED  BY <1>2, <2>1, <2>2, OutsideStep DEF LockInv, LockTypes, appVars
  <1> QED  BY <1>1, <1>2 DEF Leave

\* The body of the functions: messages (src/dce.c:376-409 and its likes).
LEMMA MessageStep ==
    ASSUME LockInv, NEW t \in Threads,
           alloc_message(t) \/ exec_message(t) \/ free_message(t)
    PROVE  LockInv'
  <1>1. CASE alloc_message(t)
    <2>1. CASE \E ret \in Unset(t) : Leave(t, ret)
      BY <1>1, <2>1, LeaveStep DEF alloc_message, Unset, libVars
    <2>2. CASE /\ call' = [call EXCEPT ![t].pc = "exec", ![t].msg = handle]
               /\ UNCHANGED appVars
      <3> DEFINE new == [call[t] EXCEPT !.pc = "exec", !.msg = handle]
      <3>1. new \in CallRecord /\ new.pc = "exec"
        BY DEF LockInv, LockTypes, CallRecord
      <3>2. call' = [call EXCEPT ![t] = new]
        BY <2>2
      <3> QED  BY <1>1, <2>2, <3>1, <3>2, OutsideStep
               DEF LockInv, LockTypes, alloc_message, appVars
    <2> QED  BY <1>1, <2>1, <2>2 DEF alloc_message
  <1>2. CASE exec_message(t)
    <2>1. PICK ret \in Handles \cup {Null, Garbage} :
            call' = [call EXCEPT ![t].pc = "free", ![t].ret = ret]
      BY <1>2 DEF exec_message, Unset
    <2> DEFINE new == [call[t] EXCEPT !.pc = "free", !.ret = ret]
    <2>2. new \in CallRecord /\ new.pc = "free"
      BY DEF LockInv, LockTypes, CallRecord
    <2>3. call' = [call EXCEPT ![t] = new]
      BY <2>1
    <2> QED  BY <1>2, <2>2, <2>3, OutsideStep
             DEF LockInv, LockTypes, exec_message, appVars
  <1>3. CASE free_message(t)
    <2>1. call[t].ret \in Handles \cup {Null, Garbage}
      BY DEF LockInv, LockTypes, CallRecord
    <2> QED  BY <1>3, <2>1, LeaveStep DEF free_message, libVars
  <1> QED  BY <1>1, <1>2, <1>3

\* init, from the lock to Ipc_setup (src/dce.c:919-936).
LEMMA InitBeginStep ==
    ASSUME LockInv, NEW t \in Threads, init_begin(t)
    PROVE  LockInv'
  <1>1. CASE Goto(t, "alloc") /\ UNCHANGED libVars
    BY <1>1, GotoStep, OutsideStep DEF LockInv, LockTypes, init_begin, appVars
  <1>2. CASE /\ mutex' = t /\ Ipc_setup
             /\ Goto(t, "setup") /\ UNCHANGED <<handle, conns, undeleted>>
    <2>1. /\ call' \in [Threads -> CallRecord]
          /\ call'[t].pc = "setup"
          /\ \A u \in Threads \ {t} : call'[u] = call[u]
      BY <1>2, GotoStep DEF LockInv
    <2>2. \A u \in Threads : call[u].pc \notin {"setup", "destroy"}
      BY ClientAssumption DEF init_begin, LockInv, LockRules
    <2> QED  BY <1>2, <2>1, <2>2 DEF LockInv, LockTypes, LockRules,
                IpcUnderConnection, init_begin, Ipc_setup, appVars
  <1> QED  BY <1>1, <1>2 DEF init_begin

\* dce_init and the unlock (src/dce.c:937-944).
LEMMA InitEndStep ==
    ASSUME LockInv, NEW t \in Threads, init_end(t)
    PROVE  LockInv'
  <1>1. /\ call' \in [Threads -> CallRecord]
        /\ call'[t].pc = "alloc"
        /\ \A u \in Threads \ {t} : call'[u] = call[u]
    BY GotoStep DEF LockInv, init_end
  <1>2. \A u \in Threads \ {t} : call[u].pc \notin {"setup", "destroy"}
    BY DEF init_end, LockInv, LockRules
  <1>3. /\ handle' \in Conns \cup {Null} /\ mutex' = Null
        /\ handle' # Null => ipc
    BY DEF init_end, connect
  <1> QED  BY <1>1, <1>2, <1>3 DEF LockInv, LockTypes, LockRules,
              IpcUnderConnection, init_end, appVars

\* deinit, from the lock to dce_deinit (src/dce.c:946-959).
LEMMA DeinitBeginStep ==
    ASSUME LockInv, NEW t \in Threads, deinit_begin(t)
    PROVE  LockInv'
  <1>1. CASE Return(t, Null) /\ UNCHANGED <<mutex, handle, conns, undeleted>>
    <2>1. UNCHANGED ipc
      BY DEF deinit_begin
    <2> QED  BY <1>1, <2>1, ReturnStep DEF LockInv, LockTypes, LockRules, IpcUnderConnection
  <1>2. CASE mutex' = t /\ handle' = Null /\ Goto(t, "destroy") /\ UNCHANGED appVars
    <2>1. /\ call' \in [Threads -> CallRecord]
          /\ call'[t].pc = "destroy"
          /\ \A u \in Threads \ {t} : call'[u] = call[u]
      BY <1>2, GotoStep DEF LockInv
    <2>2. \A u \in Threads : call[u].pc \notin {"setup", "destroy"}
      BY ClientAssumption DEF deinit_begin, LockInv, LockRules
    <2> QED  BY <1>2, <2>1, <2>2 DEF LockInv, LockTypes, LockRules,
                IpcUnderConnection, appVars
  <1> QED  BY <1>1, <1>2 DEF deinit_begin, dce_deinit

\* Ipc_destroy and the unlock (src/dce.c:960-966).
LEMMA DeinitEndStep ==
    ASSUME LockInv, NEW t \in Threads, deinit_end(t)
    PROVE  LockInv'
  <1>1. handle = Null /\ UNCHANGED handle /\ mutex' = Null /\ Return(t, Null)
    BY DEF deinit_end, LockInv, LockRules
  <1>2. \A u \in Threads \ {t} : call[u].pc \notin {"setup", "destroy"}
    BY DEF deinit_end, LockInv, LockRules
  <1> QED  BY <1>1, <1>2, ReturnStep DEF LockInv, LockTypes, LockRules, IpcUnderConnection

-----------------------------------------------------------------------------
\* Every step keeps the inductive invariant.
LEMMA LockStep == LockInv /\ [Next]_vars => LockInv'
  <1> SUFFICES ASSUME LockInv, [Next]_vars PROVE LockInv'
    OBVIOUS
  <1>1. CASE UNCHANGED vars
    BY <1>1 DEF vars, libVars, appVars, LockInv, LockTypes, LockRules, IpcUnderConnection
  <1>2. CASE \E t \in Threads : App(t)
    BY <1>2, AppStep
  <1>3. CASE \E t \in Threads : Lock(t)
    BY <1>3, InitBeginStep, DeinitBeginStep DEF Lock
  <1>4. CASE \E t \in Threads : Run(t)
    BY <1>4, InitEndStep, DeinitEndStep, MessageStep DEF Run
  <1> QED  BY <1>1, <1>2, <1>3, <1>4 DEF Next

\* When no thread is inside init or deinit, a connection has IPC below it
\* (src/dce.c:919-966): for all interleavings of any number of threads.
THEOREM IpcStaysUnderConnection == Spec => []IpcUnderConnection
  <1>1. LockInv => IpcUnderConnection
    BY DEF LockInv
  <1> QED  BY LockInit, LockStep, <1>1, PTL DEF Spec
=============================================================================
