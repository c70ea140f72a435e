----------------------------- MODULE DceServer -----------------------------
(***************************************************************************)
(* The server of distributed codec engine (the SERVER half of src/dce.c):  *)
(* client threads send calls; a pool of workers runs the handlers, which   *)
(* call the Codec Engine and keep the registry of DceRegistry and the use  *)
(* count of Ivahd; when a client process dies, its obituary runs           *)
(* dce_cleanup_cb, which deletes and closes what the process left behind.  *)
(*                                                                         *)
(* A handler is two steps, the one before and the one after the Codec      *)
(* Engine call in which it may block.  The Codec Engine is external: it    *)
(* hands out handles that are not in use, and it may refuse to.            *)
(***************************************************************************)
EXTENDS DceRegistry, Ivahd

CONSTANTS
    ThreadsPerClient,  \* threads of a client process that make calls
    NumWorkers,        \* pool.count in dce_init, 3 in the code
    EnginesPerClient,  \* engines an application uses at a time
    CodecsFirst,       \* TRUE: an application deletes an engine's codecs before
                       \* it closes the engine
    IdleCrashOnly,     \* TRUE: a process dies only between its calls
    PidReuse           \* TRUE: the pid of a dead process comes back

ASSUME ServerAssumption ==
    /\ ThreadsPerClient \in Nat \ {0}
    /\ NumWorkers \in Nat \ {0}
    /\ EnginesPerClient \in Nat
    /\ CodecsFirst \in BOOLEAN
    /\ IdleCrashOnly \in BOOLEAN
    /\ PidReuse \in BOOLEAN
    /\ IsFiniteSet(Pids)

VARIABLES
    proc,      \* "alive"; "obit": died, obituary due; "dead": cleaned up
    held,      \* the handles an application has and has not given back
    rpc,       \* the call each client thread is in
    owner,     \* Codec Engine: the pid (Task_setEnv) a live handle belongs to
    engineOf,  \* Codec Engine: the engine a live codec instance refers to
    cb         \* where dce_cleanup_cb is

callVars == <<held, rpc>>
ceVars == <<owner, engineOf>>
serverVars == <<clients, ivahd_vars, proc, callVars, ceVars, cb>>

Handles == Engines \cup Codecs
Threads == Pids \X (1..ThreadsPerClient)
PidOf(t) == t[1]

Functions == {"Engine_open", "Engine_close", "VIDDEC3_create",
              "VIDDEC3_control", "VIDDEC3_process", "VIDDEC3_delete"}

\* The handles a function takes and returns.
ArgsOf(fn) == IF fn = "Engine_open" THEN {Null}
              ELSE IF fn \in {"Engine_close", "VIDDEC3_create"} THEN Engines ELSE Codecs
RetsOf(fn) == IF fn = "Engine_open" THEN Engines \cup {Null}
              ELSE IF fn = "VIDDEC3_create" THEN Codecs \cup {Null} ELSE {Null}

\* No call, a message in the queue of the pool, a handler being run.
NoCall == [at |-> "idle", fn |-> "none", arg |-> Null, ret |-> Null]
Calls == {NoCall} \cup
    {r \in [at  : {"queued", "running"},
            fn  : Functions,
            arg : Handles \cup {Null},
            ret : Handles \cup {Null}] : r.arg \in ArgsOf(r.fn) /\ r.ret \in RetsOf(r.fn)}

\* The callback: its argument pid, its slot c, its loop and index i, which is
\* one past the end of the table when the loop is over, and the handle the
\* Codec Engine is destroying for it.
NoCleanup == [in |-> "none", pid |-> Null, c |-> 1, i |-> 1, busy |-> Null]
Indexes(in) == 1..(IF in = "none" THEN 1
                   ELSE IF in = "codecs" THEN NumCodecs + 1 ELSE NumEngines + 1)
Cleanups == {r \in [in   : {"none", "codecs", "engines"},
                    pid  : Pids \cup {Null},
                    c    : Slots,
                    i    : 1..(NumCodecs + NumEngines + 1),
                    busy : Handles \cup {Null}] : r.i \in Indexes(r.in)}

Running(t, fn) == rpc[t].at = "running" /\ rpc[t].fn = fn
Decoding == {t \in Threads : Running(t, "VIDDEC3_process")}
BoundTo(e) == {c \in Codecs : owner[c] # Null /\ engineOf[c] = e}

Init ==
    /\ RegistryInit
    /\ IvahdInit
    /\ proc = [p \in Pids |-> "alive"]
    /\ held = [p \in Pids |-> {}]
    /\ rpc = [t \in Threads |-> NoCall]
    /\ owner = [h \in Handles |-> Null]
    /\ engineOf = [c \in Codecs |-> Null]
    /\ cb = NoCleanup

-----------------------------------------------------------------------------
\* The application, which keeps to the contract of the Codec Engine: it uses
\* only the handles it has, never one handle in two threads, and, if
\* CodecsFirst, closes an engine only when it has no codec on it.

InUse(h) == \E t \in Threads : rpc[t].arg = h

Sessions(p) ==
    Cardinality(held[p] \cap Engines)
        + Cardinality({t \in Threads : PidOf(t) = p
                            /\ rpc[t].fn \in {"Engine_open", "Engine_close"}})

Send(t, fn, arg) ==
    /\ proc[PidOf(t)] = "alive"
    /\ rpc[t] = NoCall
    /\ arg # Null => arg \in held[PidOf(t)] /\ ~InUse(arg)
    /\ rpc' = [rpc EXCEPT ![t] = [at |-> "queued", fn |-> fn, arg |-> arg, ret |-> Null]]
    /\ UNCHANGED <<clients, ivahd_vars, proc, ceVars, cb>>

CallOpen(t) ==
    /\ Sessions(PidOf(t)) < EnginesPerClient
    /\ Send(t, "Engine_open", Null)
    /\ UNCHANGED held

CallClose(t) == \E e \in Engines :
    /\ CodecsFirst =>
        /\ \A c \in held[PidOf(t)] \cap Codecs : engineOf[c] # e
        /\ \A u \in Threads : PidOf(u) = PidOf(t) /\ rpc[u].arg \in Codecs
                                => engineOf[rpc[u].arg] # e
    /\ Send(t, "Engine_close", e)
    /\ held' = [held EXCEPT ![PidOf(t)] = @ \ {e}]

CallCreate(t) == \E e \in Engines :
    Send(t, "VIDDEC3_create", e) /\ UNCHANGED held

CallCodec(t) == \E c \in Codecs, fn \in {"VIDDEC3_control", "VIDDEC3_process"} :
    Send(t, fn, c) /\ UNCHANGED held

CallDelete(t) == \E c \in Codecs :
    /\ Send(t, "VIDDEC3_delete", c)
    /\ held' = [held EXCEPT ![PidOf(t)] = @ \ {c}]

\* The process dies.  What it has sent is still in the queue or being run.
Crash(p) ==
    /\ proc[p] = "alive"
    /\ IdleCrashOnly => \A t \in Threads : PidOf(t) = p => rpc[t] = NoCall
    /\ proc' = [proc EXCEPT ![p] = "obit"]
    /\ held' = [held EXCEPT ![p] = {}]
    /\ UNCHANGED <<clients, ivahd_vars, rpc, ceVars, cb>>

\* The system gives the pid of a process long gone to a new one.
Respawn(p) ==
    /\ PidReuse
    /\ proc[p] = "dead"
    /\ \A t \in Threads : PidOf(t) = p => rpc[t] = NoCall
    /\ proc' = [proc EXCEPT ![p] = "alive"]
    /\ UNCHANGED <<clients, ivahd_vars, callVars, ceVars, cb>>

-----------------------------------------------------------------------------
\* The handlers.  Dispatch(t) gives the message to a free worker; Reply(t)
\* sends the message back, and a dead process takes no notice of it.

Dispatch(t, fn, ret) ==
    /\ rpc[t].at = "queued"
    /\ rpc[t].fn = fn
    /\ Cardinality({u \in Threads : rpc[u].at = "running"}) < NumWorkers
    /\ rpc' = [rpc EXCEPT ![t].at = "running", ![t].ret = ret]
    /\ UNCHANGED <<proc, held, cb>>

Reply(t, fn) ==
    /\ Running(t, fn)
    /\ rpc' = [rpc EXCEPT ![t] = NoCall]
    /\ held' = IF proc[PidOf(t)] = "alive" /\ rpc[t].ret # Null
               THEN [held EXCEPT ![PidOf(t)] = @ \cup {rpc[t].ret}] ELSE held
    /\ UNCHANGED <<proc, cb>>

Destroyed(h) ==
    /\ owner' = [owner EXCEPT ![h] = Null]
    /\ engineOf' = [c \in Codecs |-> IF c = h THEN Null ELSE engineOf[c]]

\* rpc_Engine_open: the engine exists before it is registered.
rpc_Engine_open_begin(t) ==
    \/ /\ Dispatch(t, "Engine_open", Null)
       /\ UNCHANGED <<clients, ivahd_vars, ceVars>>
    \/ \E e \in Engines :
        /\ owner[e] = Null
        /\ Dispatch(t, "Engine_open", e)
        /\ owner' = [owner EXCEPT ![e] = PidOf(t)]
        /\ UNCHANGED <<clients, ivahd_vars, engineOf>>

rpc_Engine_open_end(t) ==
    /\ Reply(t, "Engine_open")
    /\ \/ rpc[t].ret = Null /\ UNCHANGED clients
       \/ rpc[t].ret # Null /\ dce_register_engine(PidOf(t), rpc[t].ret)
    /\ UNCHANGED <<ivahd_vars, ceVars>>

\* rpc_Engine_close: unregistered while it still exists.
rpc_Engine_close_begin(t) ==
    /\ Dispatch(t, "Engine_close", Null)
    /\ dce_unregister_engine(PidOf(t), rpc[t].arg)
    /\ UNCHANGED <<ivahd_vars, ceVars>>

rpc_Engine_close_end(t) ==
    /\ Reply(t, "Engine_close")
    /\ Destroyed(rpc[t].arg)
    /\ UNCHANGED <<clients, ivahd_vars>>

rpc_VIDDEC3_create_begin(t) ==
    \/ /\ Dispatch(t, "VIDDEC3_create", Null)
       /\ UNCHANGED <<clients, ivahd_vars, ceVars>>
    \/ \E c \in Codecs :
        /\ owner[c] = Null
        /\ Dispatch(t, "VIDDEC3_create", c)
        /\ owner' = [owner EXCEPT ![c] = PidOf(t)]
        /\ engineOf' = [engineOf EXCEPT ![c] = rpc[t].arg]
        /\ UNCHANGED <<clients, ivahd_vars>>

rpc_VIDDEC3_create_end(t) ==
    /\ Reply(t, "VIDDEC3_create")
    /\ \/ rpc[t].ret = Null /\ UNCHANGED clients
       \/ rpc[t].ret # Null /\ dce_register_codec(PidOf(t), rpc[t].ret)
    /\ UNCHANGED <<ivahd_vars, ceVars>>

rpc_VIDDEC3_control_begin(t) ==
    /\ Dispatch(t, "VIDDEC3_control", Null)
    /\ UNCHANGED <<clients, ivahd_vars, ceVars>>

rpc_VIDDEC3_control_end(t) ==
    /\ Reply(t, "VIDDEC3_control")
    /\ UNCHANGED <<clients, ivahd_vars, ceVars>>

\* The accelerator is held while the codec decodes.
rpc_VIDDEC3_process_begin(t) ==
    /\ Dispatch(t, "VIDDEC3_process", Null)
    /\ ivahd_acquire
    /\ UNCHANGED <<clients, ceVars>>

slip_process_end_alive_only(t) ==   \* no reply, no release for a dead client
    /\ proc[PidOf(t)] = "alive"
    /\ Reply(t, "VIDDEC3_process")
    /\ ivahd_release
    /\ UNCHANGED <<clients, ceVars>>

slip_process_end_keeps_use(t) ==    \* replies to a dead client, no release
    /\ Reply(t, "VIDDEC3_process")
    /\ IF proc[PidOf(t)] = "alive" THEN ivahd_release ELSE UNCHANGED ivahd_vars
    /\ UNCHANGED <<clients, ceVars>>

rpc_VIDDEC3_process_end(t) ==
    /\ Reply(t, "VIDDEC3_process")
    /\ ivahd_release
    /\ UNCHANGED <<clients, ceVars>>

rpc_VIDDEC3_delete_begin(t) ==
    /\ Dispatch(t, "VIDDEC3_delete", Null)
    /\ dce_unregister_codec(PidOf(t), rpc[t].arg)
    /\ UNCHANGED <<ivahd_vars, ceVars>>

rpc_VIDDEC3_delete_end(t) ==
    /\ Reply(t, "VIDDEC3_delete")
    /\ Destroyed(rpc[t].arg)
    /\ UNCHANGED <<clients, ivahd_vars>>

-----------------------------------------------------------------------------
\* dce_cleanup_cb.  The loops read the slot c through the pointer found at
\* the start; rpc_VIDDEC3_delete and rpc_Engine_close, called from the loops,
\* look the pid up again.

cleanupUnchanged == UNCHANGED <<ivahd_vars, held, rpc>>

\* The first entry at or after index i that is not null.
NextEntry(table, j) ==
    /\ j >= cb.i
    /\ table[j] # Null
    /\ \A k \in DOMAIN table : cb.i <= k /\ k < j => table[k] = Null

NoEntry(table) ==
    \A k \in DOMAIN table : k >= cb.i => table[k] = Null

slip_cleanup_start_skips_codecs(p) ==
    /\ cb = NoCleanup
    /\ proc[p] = "obit"
    /\ \/ \E c \in Slots :
            /\ get_client(p, c)
            /\ cb' = [NoCleanup EXCEPT !.in = "engines", !.pid = p, !.c = c]
            /\ UNCHANGED proc
       \/ /\ no_client(p)
          /\ proc' = [proc EXCEPT ![p] = "dead"]
          /\ UNCHANGED cb
    /\ UNCHANGED <<clients, ceVars>> /\ cleanupUnchanged

cleanup_start(p) ==
    /\ cb = NoCleanup
    /\ proc[p] = "obit"
    /\ \/ \E c \in Slots :
            /\ get_client(p, c)
            /\ cb' = [NoCleanup EXCEPT !.in = "codecs", !.pid = p, !.c = c]
            /\ UNCHANGED proc
       \/ /\ no_client(p)
          /\ proc' = [proc EXCEPT ![p] = "dead"]
          /\ UNCHANGED cb
    /\ UNCHANGED <<clients, ceVars>> /\ cleanupUnchanged

cleanup_delete_codec ==
    /\ cb.in = "codecs" /\ cb.busy = Null
    /\ \E j \in 1..NumCodecs :
        LET codecs == clients[cb.c].codecs IN
        /\ NextEntry(codecs, j)
        /\ dce_unregister_codec(cb.pid, codecs[j])
        /\ cb' = [cb EXCEPT !.busy = codecs[j], !.i = j + 1]
    /\ UNCHANGED <<proc, ceVars>> /\ cleanupUnchanged

cleanup_codecs_done ==
    /\ cb.in = "codecs" /\ cb.busy = Null
    /\ NoEntry(clients[cb.c].codecs)
    /\ cb' = [cb EXCEPT !.in = "engines", !.i = 1]
    /\ UNCHANGED <<clients, proc, ceVars>> /\ cleanupUnchanged

cleanup_close_engine ==
    /\ cb.in = "engines" /\ cb.busy = Null
    /\ \E j \in 1..NumEngines :
        LET engines == clients[cb.c].engines IN
        /\ NextEntry(engines, j)
        /\ dce_unregister_engine(cb.pid, engines[j])
        /\ cb' = [cb EXCEPT !.busy = engines[j], !.i = j + 1]
    /\ UNCHANGED <<proc, ceVars>> /\ cleanupUnchanged

\* VIDDEC3_delete or Engine_close returns to the loop.
cleanup_ce_returns ==
    /\ cb.busy # Null
    /\ Destroyed(cb.busy)
    /\ cb' = [cb EXCEPT !.busy = Null]
    /\ UNCHANGED <<clients, proc>> /\ cleanupUnchanged

slip_cleanup_end_at_zero_refs ==    \* loops until c->refs is zero
    /\ cb.in = "engines" /\ cb.busy = Null
    /\ clients[cb.c].refs = 0
    /\ cb' = NoCleanup
    /\ proc' = [proc EXCEPT ![cb.pid] = "dead"]
    /\ UNCHANGED <<clients, ceVars>> /\ cleanupUnchanged

cleanup_end ==
    /\ cb.in = "engines" /\ cb.busy = Null
    /\ NoEntry(clients[cb.c].engines)
    /\ cb' = NoCleanup
    /\ proc' = [proc EXCEPT ![cb.pid] = "dead"]
    /\ UNCHANGED <<clients, ceVars>> /\ cleanupUnchanged

-----------------------------------------------------------------------------
Application(t) == \/ CallOpen(t) \/ CallClose(t) \/ CallCreate(t)
                  \/ CallCodec(t) \/ CallDelete(t)

Begin(t) ==
    \/ rpc_Engine_open_begin(t) \/ rpc_Engine_close_begin(t)
    \/ rpc_VIDDEC3_create_begin(t) \/ rpc_VIDDEC3_control_begin(t)
    \/ rpc_VIDDEC3_process_begin(t) \/ rpc_VIDDEC3_delete_begin(t)

End(t) ==
    \/ rpc_Engine_open_end(t) \/ rpc_Engine_close_end(t)
    \/ rpc_VIDDEC3_create_end(t) \/ rpc_VIDDEC3_control_end(t)
    \/ rpc_VIDDEC3_process_end(t) \/ rpc_VIDDEC3_delete_end(t)

CleanupLoops == \/ cleanup_delete_codec \/ cleanup_codecs_done
                \/ cleanup_close_engine \/ cleanup_ce_returns \/ cleanup_end

dce_cleanup_cb == (\E p \in Pids : cleanup_start(p)) \/ CleanupLoops

Next == \/ \E t \in Threads : Application(t) \/ Begin(t) \/ End(t)
        \/ \E p \in Pids : Crash(p) \/ Respawn(p)
        \/ dce_cleanup_cb

Spec == Init /\ [][Next]_serverVars

\* A handler whose Codec Engine call returns runs on; the pool takes messages
\* in the order they came, and obituaries are delivered in turn.  Nothing
\* obliges an application to call, to die or to start.
Fairness ==
    /\ \A t \in Threads : SF_serverVars(Begin(t)) /\ WF_serverVars(End(t))
    /\ \A p \in Pids : SF_serverVars(cleanup_start(p))
    /\ WF_serverVars(CleanupLoops)

FairSpec == Spec /\ Fairness
-----------------------------------------------------------------------------
\* Properties

\* Every variable keeps its type, the tables of a slot their length and the
\* index of each cleanup loop the range of its table (src/dce.c:195-201, 811
\* and 823).
TypeOK ==
    /\ RegistryTypeOK
    /\ IvahdTypeOK
    /\ proc \in [Pids -> {"alive", "obit", "dead"}]
    /\ held \in [Pids -> SUBSET Handles]
    /\ rpc \in [Threads -> Calls]
    /\ owner \in [Handles -> Pids \cup {Null}]
    /\ engineOf \in [Codecs -> Engines \cup {Null}]
    /\ cb \in Cleanups

\* The use count is the number of workers inside VIDDEC3_process, and the
\* accelerator runs at full clock exactly while there is one, however the
\* workers overlap and whichever clients die (main.c:188-210, dce.c:669-672).
OppMatchesUse ==
    /\ ivahd_use_cnt = Cardinality(Decoding)
    /\ opp = IF Decoding = {} THEN 0 ELSE 100

\* A client process never has two slots: get_client would see only the first,
\* and the cleanup would leave the second behind (src/dce.c:203-246).
OneSlotPerPid ==
    \A s, u \in Slots :
        clients[s].pid = clients[u].pid /\ clients[s].pid # Null => s = u

\* What a living application has not given back is live and its own: no call
\* or cleanup of anybody else closes it (src/dce.c:796-834).
HeldAreLive == \A p \in Pids : \A h \in held[p] : owner[h] = p

\* A handle the Codec Engine is working on is live all along, and nobody else
\* is destroying it: neither a call nor the cleanup is ever late
\* (the preconditions of viddec3.h and Engine.h:456-457).
CallsOnLiveHandles ==
    /\ \A t \in Threads : rpc[t].at = "running" /\ rpc[t].arg # Null
            => owner[rpc[t].arg] = PidOf(t) /\ rpc[t].arg # cb.busy
    /\ cb.busy # Null => owner[cb.busy] = cb.pid

\* A codec that decodes is in the created state from the first to the last
\* moment of VIDDEC3_process, whoever else may want to delete it
\* (viddec3.h:234-235, src/dce.c:670 and 819).
DecodesLiveCodec ==
    \A t \in Decoding :
        owner[rpc[t].arg] = PidOf(t) /\ cb.busy # rpc[t].arg

\* An engine being closed is not referenced by any codec instance
\* (Engine.h:452-454): the cleanup deletes the codecs first.
CloseFindsNoCodec ==
    /\ \A t \in Threads : Running(t, "Engine_close") => BoundTo(rpc[t].arg) = {}
    /\ cb.busy \in Engines => BoundTo(cb.busy) = {}

\* The handles of a client that the registry should know: all that it owns but
\* those a handler has made and not registered, or unregistered and not
\* destroyed.
Registered(p) ==
    {h \in Handles :
        /\ owner[h] = p
        /\ h # cb.busy
        /\ \A t \in Threads : rpc[t].at = "running" =>
            /\ rpc[t].ret # h
            /\ rpc[t].fn \in {"Engine_close", "VIDDEC3_delete"} => rpc[t].arg # h}

RoomForAll == NumEngines >= EnginesPerClient /\ NumCodecs >= Cardinality(Codecs)

\* The registry agrees with the Codec Engine (src/dce.c:214-323): a slot lists
\* only what its client owns, all of it if the tables have room, and counts one
\* reference for each handle, listed or not; an unused slot is empty; a client
\* that owns something has a slot.
RegistryExact ==
    /\ \A s \in Slots :
        IF clients[s].pid = Null THEN Tracked(s) = {}
        ELSE LET mine == Registered(clients[s].pid) IN
             /\ Tracked(s) \subseteq mine
             /\ RoomForAll => Tracked(s) = mine
             /\ clients[s].refs = Cardinality(mine)
    /\ \A p \in Pids : Registered(p) # {} => ~no_client(p)

\* When the cleanup of a dead process is over, nothing it had is left
\* (src/dce.c:184-188, "memory is freed if client crashes or exits badly").
DeadOwnNothing ==
    \A p \in Pids : proc[p] = "dead" => \A h \in Handles : owner[h] # p

\* When the cleanup of a dead process is over, its slot is unused again, or
\* another client's (src/dce.c:269-271): only the end of the last reference
\* in dce_unregister_engine frees it, and dce_unregister_codec never does.
DeadHaveNoSlot == \A p \in Pids : proc[p] = "dead" => no_client(p)

\* The server keeps the promise of module Ownership.
Promise == INSTANCE Ownership WITH proc <- proc, owner <- owner, held <- held
OwnershipKept == Promise!Spec

\* Every call that is sent is answered, also when the pool is full or the
\* process dies meanwhile (src/dce.c:844-848).
CallReturns ==
    \A t \in Threads : rpc[t].at = "queued" ~> rpc[t] = NoCall

\* The obituary of every process is followed by its cleanup to the end.
Reclaimed == \A p \in Pids : proc[p] = "obit" ~> proc[p] = "dead"
=============================================================================
