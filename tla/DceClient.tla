----------------------------- MODULE DceClient -----------------------------
(***************************************************************************)
(* The client library in one process (the half of src/dce.c compiled       *)
(* without SERVER): its threads call Engine_open, Engine_close and the     *)
(* VIDDEC3 functions; the first open sets up IPC and connects to the       *)
(* server, a close disconnects again.  init and deinit run under a mutex,  *)
(* the calls in between use the global handle without it.                  *)
(*                                                                         *)
(* The server, IPC and RCM are external: a request takes effect in one     *)
(* step (DceServer has the detail), and any operation of IPC or RCM may    *)
(* fail, those that undo others included.                                  *)
(***************************************************************************)
EXTENDS Integers, FiniteSets

CONSTANTS
    Threads, Engines, Codecs,
    Conns,         \* RcmClient_Handle values
    Null,
    Garbage,       \* a value left on the stack that is no handle
    MaxSessions,   \* engines the application opens, has or closes at a time
    RcmMayFail     \* TRUE: IPC and RCM may fail, whatever is set up

ASSUME ClientAssumption ==
    /\ MaxSessions \in Nat
    /\ RcmMayFail \in BOOLEAN
    /\ Null \notin Engines \cup Codecs \cup Conns \cup Threads
    /\ Garbage \notin Engines \cup Codecs \cup {Null}
    /\ IsFiniteSet(Threads)
    /\ Engines \cap Codecs = {}

VARIABLES
    mutex,   \* the thread that holds it, or Null
    count,   \* static int count
    ipc,     \* Ipc_setup done and not destroyed
    handle,  \* static Rcm_Handle handle
    conns,   \* RCM: connections created and not deleted
    undeleted,  \* those of them that Rcm_delete was asked to delete
    call,    \* the call each thread is in
    held,    \* the handles the application has and has not given back
    madeBy,  \* the application's knowledge of which engine a codec is on
    live     \* server: the engines and codecs that exist

libVars == <<mutex, count, ipc, handle, conns, undeleted>>
appVars == <<held, madeBy>>
vars == <<libVars, call, appVars, live>>

Handles == Engines \cup Codecs

NoCall == [pc |-> "idle", fn |-> "none", arg |-> Null, msg |-> Null, ret |-> Null]

Init == /\ mutex = Null
        /\ count = 0
        /\ ipc = FALSE
        /\ handle = Null
        /\ conns = {}
        /\ undeleted = {}
        /\ call = [t \in Threads |-> NoCall]
        /\ held = {}
        /\ madeBy = [c \in Codecs \cup {Garbage} |-> Null]
        /\ live = {}

-----------------------------------------------------------------------------
\* The application: one thread per handle, and an engine is closed when all
\* its codecs are deleted.  A function of the library begins with Enter and
\* goes on with the body the six have in common, below; Engine_open has init
\* before it, Engine_close deinit after it.

InUse(h) == \E t \in Threads : call[t].arg = h

HasCodec(e) == \E c \in DOMAIN madeBy : madeBy[c] = e /\ (c \in held \/ InUse(c))

Sessions == Cardinality(held \cap Engines)
    + Cardinality({t \in Threads : call[t].fn \in {"Engine_open", "Engine_close"}})

Enter(t, fn, arg, pc) ==
    /\ call[t] = NoCall
    /\ arg # Null => arg \in held /\ ~InUse(arg)
    /\ call' = [call EXCEPT ![t] = [NoCall EXCEPT !.pc = pc, !.fn = fn, !.arg = arg]]
    /\ UNCHANGED <<libVars, madeBy, live>>

CallOpen(t) ==
    /\ Sessions < MaxSessions
    /\ Enter(t, "Engine_open", Null, "init")
    /\ UNCHANGED held

CallClose(t) == \E e \in Engines :
    /\ ~HasCodec(e)
    /\ Enter(t, "Engine_close", e, "alloc")
    /\ held' = held \ {e}

CallCreate(t) == \E e \in Engines :
    Enter(t, "VIDDEC3_create", e, "alloc") /\ UNCHANGED held

\* VIDDEC3_control or VIDDEC3_process: the client does the same for both.
CallCodec(t) == \E c \in held \ Engines :
    Enter(t, "VIDDEC3_process", c, "alloc") /\ UNCHANGED held

CallDelete(t) == \E c \in held \ Engines :
    /\ Enter(t, "VIDDEC3_delete", c, "alloc")
    /\ held' = held \ {c}

-----------------------------------------------------------------------------
\* init and deinit

Goto(t, pc) == call' = [call EXCEPT ![t].pc = pc]

\* Return from a call with ret, a handle or Null; the status of control and
\* process does not matter here.
Return(t, ret) ==
    /\ call' = [call EXCEPT ![t] = NoCall]
    /\ held' = held \cup ({ret} \ {Null})
    /\ madeBy' = [c \in DOMAIN madeBy |->
                    IF c = ret THEN call[t].arg ELSE madeBy[c]]

\* Ipc_setup and Ipc_destroy, whose result nobody looks at, and RcmClient_create,
\* which cannot connect without IPC.
Ipc_setup == ipc' = TRUE \/ (RcmMayFail /\ UNCHANGED ipc)

Ipc_destroy == ipc' = FALSE \/ (RcmMayFail /\ UNCHANGED ipc)

connect ==
    \/ /\ ipc
       /\ \E c \in Conns \ conns : handle' = c /\ conns' = conns \cup {c}
    \/ /\ RcmMayFail \/ ~ipc
       /\ handle' = Null
       /\ UNCHANGED conns

slip_init_begin_no_lock(t) ==           \* does not wait for the mutex
    /\ call[t].pc = "init"
    /\ \/ /\ count > 0
          /\ Goto(t, "alloc")
          /\ UNCHANGED libVars
       \/ /\ count <= 0
          /\ count' = count + 1
          /\ Ipc_setup
          /\ Goto(t, "setup")
          /\ UNCHANGED <<mutex, handle, conns, undeleted>>
    /\ UNCHANGED <<appVars, live>>

slip_init_begin_no_count(t) ==          \* forgets count++
    /\ call[t].pc = "init"
    /\ mutex = Null
    /\ \/ /\ count > 0
          /\ Goto(t, "alloc")
          /\ UNCHANGED libVars
       \/ /\ count <= 0
          /\ mutex' = t
          /\ Ipc_setup
          /\ Goto(t, "setup")
          /\ UNCHANGED <<count, handle, conns, undeleted>>
    /\ UNCHANGED <<appVars, live>>

\* init() up to Ipc_setup: nothing to do when count > 0.
init_begin(t) ==
    /\ call[t].pc = "init"
    /\ mutex = Null
    /\ \/ /\ count > 0
          /\ Goto(t, "alloc")
          /\ UNCHANGED libVars
       \/ /\ count <= 0
          /\ mutex' = t
          /\ count' = count + 1
          /\ Ipc_setup
          /\ Goto(t, "setup")
          /\ UNCHANGED <<handle, conns, undeleted>>
    /\ UNCHANGED <<appVars, live>>

slip_init_end_keeps_mutex(t) ==         \* returns without unlocking on an error
    /\ call[t].pc = "setup"
    /\ connect
    /\ mutex' = IF handle' = Null THEN mutex ELSE Null
    /\ Goto(t, "alloc")
    /\ UNCHANGED <<count, ipc, undeleted, appVars, live>>

\* dce_init() and the rest of init(), which takes no notice of its result.  A
\* function RcmClient_getSymbolIndex did not find shows in exec, which fails.
init_end(t) ==
    /\ call[t].pc = "setup"
    /\ connect
    /\ mutex' = Null
    /\ Goto(t, "alloc")
    /\ UNCHANGED <<count, ipc, undeleted, appVars, live>>

slip_dce_deinit_forgets ==              \* handle = NULL without Rcm_delete
    /\ handle' = Null
    /\ UNCHANGED <<conns, undeleted>>

\* dce_deinit() deletes the connection if there is one, and forgets it in any
\* case: what Rcm_delete refused to delete stays where it is.
dce_deinit ==
    /\ handle' = Null
    /\ \/ /\ conns' = conns \ {handle}
          /\ UNCHANGED undeleted
       \/ /\ RcmMayFail /\ handle # Null
          /\ undeleted' = undeleted \cup {handle}
          /\ UNCHANGED conns

\* deinit() up to dce_deinit().
deinit_begin(t) ==
    /\ call[t].pc = "deinit"
    /\ mutex = Null
    /\ count' = count - 1
    /\ \/ /\ count' > 0
          /\ Return(t, Null)
          /\ UNCHANGED <<mutex, handle, conns, undeleted>>
       \/ /\ count' <= 0
          /\ mutex' = t
          /\ dce_deinit
          /\ Goto(t, "destroy")
          /\ UNCHANGED appVars
    /\ UNCHANGED <<ipc, live>>

\* Ipc_destroy() and the unlock.
deinit_end(t) ==
    /\ call[t].pc = "destroy"
    /\ Ipc_destroy
    /\ mutex' = Null
    /\ Return(t, Null)
    /\ UNCHANGED <<count, handle, conns, undeleted, live>>

-----------------------------------------------------------------------------
\* The body the six functions share.

\* What ret may be before the reply sets it: Engine_open initialises it, the
\* result variable of VIDDEC3_create is left to chance.
Unset(t) == IF call[t].fn = "VIDDEC3_create" THEN {Null, Garbage} ELSE {Null}

slip_Leave_before_free(t, ret) ==       \* deinit, and then RcmClient_free
    IF call[t].fn = "Engine_close"
      THEN Goto(t, "deinit") /\ UNCHANGED appVars
      ELSE Return(t, ret)

slip_Leave_delete_too(t, ret) ==        \* VIDDEC3_delete disconnects as well
    IF call[t].fn \in {"Engine_close", "VIDDEC3_delete"}
      THEN /\ call' = [call EXCEPT ![t].pc = "deinit", ![t].msg = Null]
           /\ UNCHANGED appVars
      ELSE Return(t, ret)

\* The end of the function; Engine_close disconnects even if it failed.
Leave(t, ret) ==
    IF call[t].fn = "Engine_close"
      THEN /\ call' = [call EXCEPT ![t].pc = "deinit", ![t].msg = Null]
           /\ UNCHANGED appVars
      ELSE Return(t, ret)

\* RcmClient_alloc
alloc_message(t) ==
    /\ call[t].pc = "alloc"
    /\ \/ /\ handle # Null
          /\ call' = [call EXCEPT ![t].pc = "exec", ![t].msg = handle]
          /\ UNCHANGED appVars
       \/ /\ handle = Null \/ RcmMayFail
          /\ \E ret \in Unset(t) : Leave(t, ret)
    /\ UNCHANGED <<libVars, live>>

Connected(t) == call[t].msg = handle /\ handle \in conns

\* What the server does: make or destroy an engine or codec, or refuse.
Serve(fn, arg, ret) ==
    CASE fn \in {"Engine_open", "VIDDEC3_create"} ->
            \/ ret = Null /\ live' = live
            \/ /\ ret \in (IF fn = "Engine_open" THEN Engines ELSE Codecs) \ live
               /\ live' = live \cup {ret}
      [] fn \in {"Engine_close", "VIDDEC3_delete"} ->
            ret = Null /\ live' = live \ {arg}
      [] OTHER -> ret = Null /\ live' = live

\* RcmClient_exec: the reply arrives, or the call fails before or after the
\* server has served it.
exec_message(t) ==
    /\ call[t].pc = "exec"
    /\ \/ \E ret \in Handles \cup {Null} :
            /\ Connected(t)
            /\ Serve(call[t].fn, call[t].arg, ret)
            /\ call' = [call EXCEPT ![t].pc = "free", ![t].ret = ret]
       \/ \E ret \in Unset(t), lost \in Handles \cup {Null} :
            /\ RcmMayFail \/ ~Connected(t)
            /\ \/ live' = live
               \/ Connected(t) /\ Serve(call[t].fn, call[t].arg, lost)
            /\ call' = [call EXCEPT ![t].pc = "free", ![t].ret = ret]
    /\ UNCHANGED <<libVars, appVars>>

\* RcmClient_free and the return.
free_message(t) ==
    /\ call[t].pc = "free"
    /\ Leave(t, call[t].ret)
    /\ UNCHANGED <<libVars, live>>

-----------------------------------------------------------------------------
App(t) == CallOpen(t) \/ CallClose(t) \/ CallCreate(t) \/ CallCodec(t) \/ CallDelete(t)

Lock(t) == init_begin(t) \/ deinit_begin(t)

Run(t) == init_end(t) \/ deinit_end(t)
    \/ alloc_message(t) \/ exec_message(t) \/ free_message(t)

Next == \E t \in Threads : App(t) \/ Lock(t) \/ Run(t)

Spec == Init /\ [][Next]_vars

\* A thread in the library runs on.  One that waits for the mutex gets it if it
\* is free time and again: pthread_mutex_unlock wakes a waiter, which may lose
\* the race to a newcomer, but does not lose it for ever.
FairSpec == Spec /\ \A t \in Threads : WF_vars(Run(t)) /\ SF_vars(Lock(t))

-----------------------------------------------------------------------------
\* Correctness.

CallRecord ==
    [pc : {"idle", "init", "setup", "alloc", "exec", "free", "deinit", "destroy"},
     fn : {"none", "Engine_open", "Engine_close", "VIDDEC3_create",
           "VIDDEC3_process", "VIDDEC3_delete"},
     arg : Handles \cup {Null, Garbage},
     msg : Conns \cup {Null},
     ret : Handles \cup {Null, Garbage}]

\* Every variable has its type.  count (dce.c:917) stays between 1 - MaxSessions
\* and 1: only the open that finds it at zero or below counts, every close does.
TypeOK ==
    /\ mutex \in Threads \cup {Null}
    /\ count \in (IF MaxSessions = 0 THEN 0 ELSE 1 - MaxSessions) .. 1
    /\ ipc \in BOOLEAN
    /\ handle \in Conns \cup {Null}
    /\ conns \subseteq Conns
    /\ undeleted \subseteq conns
    /\ call \in [Threads -> CallRecord]
    /\ held \subseteq Handles \cup {Garbage}
    /\ madeBy \in [Codecs \cup {Garbage} -> Engines \cup {Null}]
    /\ live \subseteq Handles

\* A message goes back to the connection it was allocated from, and that
\* connection exists: no deinit (dce.c:946) of one thread comes between
\* RcmClient_alloc and RcmClient_free of another.
InFlightConnected ==
    \A t \in Threads : call[t].msg # Null => Connected(t)

\* While the application has an engine the process is connected, so that every
\* function can be called (Engine_open gave it out under init, dce.c:372).
ConnectedWhileOpen ==
    held \cap Engines # {} => handle \in conns /\ ipc

\* No connection is lost but by Rcm_delete itself: those that RcmClient_create
\* made and that still exist (dce.c:860, 900) are the one in the global handle
\* and those Rcm_delete was asked to delete and refused (dce.c:902, which logs
\* it and clears the handle).  In particular init never overwrites a handle.
NoLeakedConnection == conns \subseteq {handle} \cup undeleted

\* When no thread is inside init or deinit, a connection has IPC below it: the
\* Ipc_destroy of one (dce.c:961) does not undo the Ipc_setup of another.
IpcUnderConnection == mutex = Null /\ handle # Null => ipc

\* Every call returns, whatever fails and whoever else is in the library.
AllCallsReturn == \A t \in Threads : call[t] # NoCall ~> call[t] = NoCall
=============================================================================
