-------------------------- MODULE DceServer_proofs --------------------------
(***************************************************************************)
(* Theorems about the server that hold for every number of clients,        *)
(* threads, workers, handles and table entries, whether or not processes   *)
(* die in the middle of their calls.                                       *)
(***************************************************************************)
EXTENDS DceServer, FiniteSetTheorems, TLAPS

-----------------------------------------------------------------------------
\* Type correctness

\* A table keeps its length and the type of its entries when an entry is
\* replaced, found or not (the loops of src/dce.c:223-229 and 261-267).
LEMMA ReplaceFirstType ==
    ASSUME NEW D, NEW T, NEW table \in [D -> T], NEW old, NEW new \in T
    PROVE  ReplaceFirst(table, old, new) \in [D -> T]
  BY DEF ReplaceFirst

EngineTable == [1..NumEngines -> Engines \cup {Null}]
CodecTable == [1..NumCodecs -> Codecs \cup {Null}]

\* A slot made of well-typed fields is well-typed.
LEMMA SlotType ==
    ASSUME NEW pid \in Pids \cup {Null}, NEW refs \in Int,
           NEW engines \in EngineTable, NEW codecs \in CodecTable
    PROVE  Slot(pid, refs, engines, codecs) \in Client
  BY DEF Slot, Client, EngineTable, CodecTable

\* The fields of a slot.
LEMMA FieldTypes ==
    ASSUME RegistryTypeOK, NEW s \in Slots
    PROVE  /\ clients[s].pid \in Pids \cup {Null}
           /\ clients[s].refs \in Int
           /\ clients[s].engines \in EngineTable
           /\ clients[s].codecs \in CodecTable
  BY DEF RegistryTypeOK, Client, EngineTable, CodecTable

\* The registry operations keep the type of the slots (src/dce.c:214-323).
LEMMA RegisterEngineType ==
    ASSUME RegistryTypeOK, NEW pid \in Pids, NEW e \in Engines \cup {Null},
           dce_register_engine(pid, e)
    PROVE  RegistryTypeOK'
  <1>1. ASSUME NEW s \in Slots,
               clients' = [clients EXCEPT ![s] =
                   Slot(pid, clients[s].refs + 1, ReplaceFirst(clients[s].engines, Null, e), clients[s].codecs)]
        PROVE  RegistryTypeOK'
    <2>1. ReplaceFirst(clients[s].engines, Null, e) \in EngineTable
      BY ReplaceFirstType, FieldTypes DEF EngineTable
    <2>2. clients[s].refs + 1 \in Int
      BY FieldTypes
    <2>3. Slot(pid, clients[s].refs + 1, ReplaceFirst(clients[s].engines, Null, e), clients[s].codecs) \in Client
      BY <2>1, <2>2, FieldTypes, SlotType
    <2> QED  BY <1>1, <2>3 DEF RegistryTypeOK
  <1>2. ASSUME NEW s \in Slots,
               clients' = [clients EXCEPT ![s] =
                   Slot(pid, 1, [clients[s].engines EXCEPT ![1] = e], clients[s].codecs)]
        PROVE  RegistryTypeOK'
    <2>1. [clients[s].engines EXCEPT ![1] = e] \in EngineTable
      BY FieldTypes DEF EngineTable
    <2>2. 1 \in Int
      BY FieldTypes
    <2>3. Slot(pid, 1, [clients[s].engines EXCEPT ![1] = e], clients[s].codecs) \in Client
      BY <2>1, <2>2, FieldTypes, SlotType
    <2> QED  BY <1>2, <2>3 DEF RegistryTypeOK
  <1>3. CASE UNCHANGED clients
    BY <1>3 DEF RegistryTypeOK
  <1> QED  BY <1>1, <1>2, <1>3 DEF dce_register_engine

LEMMA UnregisterEngineType ==
    ASSUME RegistryTypeOK, NEW pid \in Pids \cup {Null}, NEW e, dce_unregister_engine(pid, e)
    PROVE  RegistryTypeOK'
  <1>1. ASSUME NEW s \in Slots,
               clients' = [clients EXCEPT ![s] =
                   Slot(IF clients[s].refs = 1 THEN Null ELSE pid, clients[s].refs - 1,
                        ReplaceFirst(clients[s].engines, e, Null), clients[s].codecs)]
        PROVE  RegistryTypeOK'
    <2>1. ReplaceFirst(clients[s].engines, e, Null) \in EngineTable
      BY ReplaceFirstType, FieldTypes DEF EngineTable
    <2>2. /\ clients[s].refs - 1 \in Int
          /\ (IF clients[s].refs = 1 THEN Null ELSE pid) \in Pids \cup {Null}
      BY FieldTypes
    <2>3. Slot(IF clients[s].refs = 1 THEN Null ELSE pid, clients[s].refs - 1, ReplaceFirst(clients[s].engines, e, Null), clients[s].codecs) \in Client
      BY <2>1, <2>2, FieldTypes, SlotType
    <2> QED  BY <1>1, <2>3 DEF RegistryTypeOK
  <1>2. CASE UNCHANGED clients
    BY <1>2 DEF RegistryTypeOK
  <1> QED  BY <1>1, <1>2 DEF dce_unregister_engine

LEMMA RegisterCodecType ==
    ASSUME RegistryTypeOK, NEW pid \in Pids \cup {Null}, NEW c \in Codecs \cup {Null}, dce_register_codec(pid, c)
    PROVE  RegistryTypeOK'
  <1>1. ASSUME NEW s \in Slots,
               clients' = [clients EXCEPT ![s] =
                   Slot(pid, clients[s].refs + 1, clients[s].engines, ReplaceFirst(clients[s].codecs, Null, c))]
        PROVE  RegistryTypeOK'
    <2>1. ReplaceFirst(clients[s].codecs, Null, c) \in CodecTable
      BY ReplaceFirstType, FieldTypes DEF CodecTable
    <2>2. clients[s].refs + 1 \in Int
      BY FieldTypes
    <2>3. Slot(pid, clients[s].refs + 1, clients[s].engines, ReplaceFirst(clients[s].codecs, Null, c)) \in Client
      BY <2>1, <2>2, FieldTypes, SlotType
    <2> QED  BY <1>1, <2>3 DEF RegistryTypeOK
  <1>2. CASE UNCHANGED clients
    BY <1>2 DEF RegistryTypeOK
  <1> QED  BY <1>1, <1>2 DEF dce_register_codec

LEMMA UnregisterCodecType ==
    ASSUME RegistryTypeOK, NEW pid \in Pids \cup {Null}, NEW c, dce_unregister_codec(pid, c)
    PROVE  RegistryTypeOK'
  <1>1. ASSUME NEW s \in Slots,
               clients' = [clients EXCEPT ![s] =
                   Slot(pid, clients[s].refs - 1, clients[s].engines, ReplaceFirst(clients[s].codecs, c, Null))]
        PROVE  RegistryTypeOK'
    <2>1. ReplaceFirst(clients[s].codecs, c, Null) \in CodecTable
      BY ReplaceFirstType, FieldTypes DEF CodecTable
    <2>2. clients[s].refs - 1 \in Int
      BY FieldTypes
    <2>3. Slot(pid, clients[s].refs - 1, clients[s].engines, ReplaceFirst(clients[s].codecs, c, Null)) \in Client
      BY <2>1, <2>2, FieldTypes, SlotType
    <2> QED  BY <1>1, <2>3 DEF RegistryTypeOK
  <1>2. CASE UNCHANGED clients
    BY <1>2 DEF RegistryTypeOK
  <1> QED  BY <1>1, <1>2 DEF dce_unregister_codec

LEMMA ThreadPid == ASSUME NEW t \in Threads PROVE PidOf(t) \in Pids
  BY DEF Threads, PidOf

\* What the operations shared by the actions do to the type of rpc and held.
LEMMA SendType ==
    ASSUME TypeOK, NEW t \in Threads, NEW fn \in Functions,
           NEW arg \in ArgsOf(fn), Send(t, fn, arg)
    PROVE  rpc' \in [Threads -> Calls]
  <1>1. [at |-> "queued", fn |-> fn, arg |-> arg, ret |-> Null] \in Calls
    BY DEF Calls, ArgsOf, RetsOf, Handles
  <1> QED  BY <1>1 DEF Send, TypeOK

LEMMA DispatchType ==
    ASSUME TypeOK, NEW t \in Threads, NEW fn \in Functions,
           NEW ret \in RetsOf(fn), Dispatch(t, fn, ret)
    PROVE  /\ rpc' \in [Threads -> Calls]
           /\ proc' \in [Pids -> {"alive", "obit", "dead"}]
           /\ held' \in [Pids -> SUBSET Handles]
           /\ cb' \in Cleanups
           /\ rpc[t].arg \in ArgsOf(fn)
  <1>1. rpc[t] \in Calls /\ rpc[t] # NoCall /\ rpc[t].fn = fn
    BY DEF Dispatch, TypeOK, NoCall
  <1>2. [rpc[t] EXCEPT !.at = "running", !.ret = ret] \in Calls
    BY <1>1 DEF Calls, RetsOf, Handles
  <1>3. rpc' = [rpc EXCEPT ![t] = [rpc[t] EXCEPT !.at = "running", !.ret = ret]]
    BY DEF Dispatch, TypeOK
  <1>4. rpc' \in [Threads -> Calls]
    BY <1>2, <1>3 DEF TypeOK
  <1>5. rpc[t].arg \in ArgsOf(fn)
    BY <1>1 DEF Calls
  <1> QED  BY <1>4, <1>5 DEF Dispatch, TypeOK

LEMMA ReplyType ==
    ASSUME TypeOK, NEW t \in Threads, NEW fn \in Functions, Reply(t, fn)
    PROVE  /\ rpc' \in [Threads -> Calls]
           /\ proc' \in [Pids -> {"alive", "obit", "dead"}]
           /\ held' \in [Pids -> SUBSET Handles]
           /\ cb' \in Cleanups
           /\ rpc[t].arg \in ArgsOf(fn)
           /\ rpc[t].ret \in RetsOf(fn)
  <1>1. NoCall \in Calls
    BY DEF Calls
  <1>2. rpc' \in [Threads -> Calls]
    BY <1>1 DEF Reply, TypeOK
  <1>3. /\ rpc[t].ret \in Handles \cup {Null}
        /\ rpc[t].arg \in ArgsOf(fn)
        /\ rpc[t].ret \in RetsOf(fn)
    BY DEF TypeOK, Calls, NoCall, Reply, Running
  <1>4. held' \in [Pids -> SUBSET Handles]
    <2>1. CASE proc[PidOf(t)] = "alive" /\ rpc[t].ret # Null
      <3>1. held[PidOf(t)] \cup {rpc[t].ret} \in SUBSET Handles
        BY <1>3, <2>1, ThreadPid DEF TypeOK
      <3>2. held' = [held EXCEPT ![PidOf(t)] = held[PidOf(t)] \cup {rpc[t].ret}]
        BY <2>1 DEF Reply
      <3> QED  BY <3>1, <3>2 DEF TypeOK
    <2>2. CASE ~(proc[PidOf(t)] = "alive" /\ rpc[t].ret # Null)
      BY <2>2 DEF Reply, TypeOK
    <2> QED  BY <2>1, <2>2
  <1> QED  BY <1>2, <1>3, <1>4 DEF Reply, TypeOK

LEMMA DestroyedType ==
    ASSUME TypeOK, NEW h, Destroyed(h)
    PROVE  /\ owner' \in [Handles -> Pids \cup {Null}]
           /\ engineOf' \in [Codecs -> Engines \cup {Null}]
  BY DEF Destroyed, TypeOK

LEMMA ApplicationType ==
    ASSUME TypeOK, NEW t \in Threads, Application(t)
    PROVE  TypeOK'
  <1>1. ASSUME NEW fn \in Functions, NEW arg \in ArgsOf(fn),
               Send(t, fn, arg), held' \in [Pids -> SUBSET Handles]
        PROVE  TypeOK'
    <2>1. rpc' \in [Threads -> Calls]
      BY <1>1, SendType
    <2> QED
      BY <1>1, <2>1 DEF TypeOK, Send, RegistryTypeOK, IvahdTypeOK, ivahd_vars, ceVars
  <1>2. CASE CallOpen(t)
    BY <1>1, <1>2 DEF CallOpen, TypeOK, Functions, ArgsOf
  <1>3. CASE CallClose(t)
    <2>1. PICK e \in Engines :
            Send(t, "Engine_close", e) /\ held' = [held EXCEPT ![PidOf(t)] = @ \ {e}]
      BY <1>3 DEF CallClose
    <2>2. held' \in [Pids -> SUBSET Handles]
      BY <2>1 DEF TypeOK
    <2> QED  BY <1>1, <2>1, <2>2 DEF Functions, ArgsOf
  <1>4. CASE CallCreate(t)
    BY <1>1, <1>4 DEF CallCreate, TypeOK, Functions, ArgsOf
  <1>5. CASE CallCodec(t)
    <2>1. PICK c \in Codecs, fn \in {"VIDDEC3_control", "VIDDEC3_process"} :
            Send(t, fn, c) /\ UNCHANGED held
      BY <1>5 DEF CallCodec
    <2> QED  BY <1>1, <2>1 DEF TypeOK, Functions, ArgsOf
  <1>6. CASE CallDelete(t)
    <2>1. PICK c \in Codecs :
            Send(t, "VIDDEC3_delete", c) /\ held' = [held EXCEPT ![PidOf(t)] = @ \ {c}]
      BY <1>6 DEF CallDelete
    <2>2. held' \in [Pids -> SUBSET Handles]
      BY <2>1 DEF TypeOK
    <2> QED  BY <1>1, <2>1, <2>2 DEF Functions, ArgsOf
  <1> QED  BY <1>2, <1>3, <1>4, <1>5, <1>6 DEF Application

LEMMA BeginType ==
    ASSUME TypeOK, NEW t \in Threads, Begin(t)
    PROVE  TypeOK'
  <1> USE ThreadPid DEF Handles, Functions, ArgsOf, RetsOf
  <1>1. CASE rpc_Engine_open_begin(t)
    <2>1. PICK ret \in Engines \cup {Null} :
            /\ Dispatch(t, "Engine_open", ret)
            /\ owner' \in [Handles -> Pids \cup {Null}]
            /\ UNCHANGED <<clients, ivahd_vars, engineOf>>
      BY <1>1 DEF rpc_Engine_open_begin, ceVars, TypeOK
    <2> QED
      BY <2>1, DispatchType DEF TypeOK, RegistryTypeOK, IvahdTypeOK, ivahd_vars
  <1>2. CASE rpc_Engine_close_begin(t)
    <2>1. RegistryTypeOK'
      BY <1>2, UnregisterEngineType DEF rpc_Engine_close_begin, TypeOK
    <2> QED
      BY <1>2, <2>1, DispatchType
      DEF rpc_Engine_close_begin, TypeOK, IvahdTypeOK, ivahd_vars, ceVars
  <1>3. CASE rpc_VIDDEC3_create_begin(t)
    <2>1. CASE Dispatch(t, "VIDDEC3_create", Null) /\ UNCHANGED <<clients, ivahd_vars, ceVars>>
      BY <2>1, DispatchType DEF TypeOK, RegistryTypeOK, IvahdTypeOK, ivahd_vars, ceVars
    <2>2. CASE \E c \in Codecs :
                /\ owner[c] = Null
                /\ Dispatch(t, "VIDDEC3_create", c)
                /\ owner' = [owner EXCEPT ![c] = PidOf(t)]
                /\ engineOf' = [engineOf EXCEPT ![c] = rpc[t].arg]
                /\ UNCHANGED <<clients, ivahd_vars>>
      <3>1. PICK c \in Codecs :
                /\ Dispatch(t, "VIDDEC3_create", c)
                /\ owner' = [owner EXCEPT ![c] = PidOf(t)]
                /\ engineOf' = [engineOf EXCEPT ![c] = rpc[t].arg]
                /\ UNCHANGED <<clients, ivahd_vars>>
        BY <2>2
      <3>2. rpc[t].arg \in Engines \cup {Null}
        BY <3>1, DispatchType
      <3> QED
        BY <3>1, <3>2, DispatchType DEF TypeOK, RegistryTypeOK, IvahdTypeOK, ivahd_vars
    <2> QED  BY <1>3, <2>1, <2>2 DEF rpc_VIDDEC3_create_begin
  <1>4. CASE rpc_VIDDEC3_control_begin(t)
    BY <1>4, DispatchType
    DEF rpc_VIDDEC3_control_begin, TypeOK, RegistryTypeOK, IvahdTypeOK, ivahd_vars, ceVars
  <1>5. CASE rpc_VIDDEC3_process_begin(t)
    <2>1. IvahdTypeOK'
      BY <1>5 DEF rpc_VIDDEC3_process_begin, ivahd_acquire, TypeOK, IvahdTypeOK, Opps
    <2> QED
      BY <1>5, <2>1, DispatchType DEF rpc_VIDDEC3_process_begin, TypeOK, RegistryTypeOK, ceVars
  <1>6. CASE rpc_VIDDEC3_delete_begin(t)
    <2>1. RegistryTypeOK'
      BY <1>6, UnregisterCodecType DEF rpc_VIDDEC3_delete_begin, TypeOK
    <2> QED
      BY <1>6, <2>1, DispatchType
      DEF rpc_VIDDEC3_delete_begin, TypeOK, IvahdTypeOK, ivahd_vars, ceVars
  <1> QED  BY <1>1, <1>2, <1>3, <1>4, <1>5, <1>6 DEF Begin

LEMMA EndType ==
    ASSUME TypeOK, NEW t \in Threads, End(t)
    PROVE  TypeOK'
  <1> USE ThreadPid DEF Handles, Functions, ArgsOf, RetsOf
  <1>1. CASE rpc_Engine_open_end(t)
    <2>1. rpc[t].ret \in Engines \cup {Null}
      BY <1>1, ReplyType DEF rpc_Engine_open_end
    <2>2. RegistryTypeOK'
      <3>1. CASE UNCHANGED clients
        BY <3>1 DEF TypeOK, RegistryTypeOK
      <3>2. CASE dce_register_engine(PidOf(t), rpc[t].ret)
        BY <2>1, <3>2, RegisterEngineType DEF TypeOK
      <3> QED  BY <1>1, <3>1, <3>2 DEF rpc_Engine_open_end
    <2> QED
      BY <1>1, <2>2, ReplyType DEF rpc_Engine_open_end, TypeOK, IvahdTypeOK, ivahd_vars, ceVars
  <1>2. CASE rpc_Engine_close_end(t)
    BY <1>2, ReplyType, DestroyedType
    DEF rpc_Engine_close_end, TypeOK, RegistryTypeOK, IvahdTypeOK, ivahd_vars
  <1>3. CASE rpc_VIDDEC3_create_end(t)
    <2>1. rpc[t].ret \in Codecs \cup {Null}
      BY <1>3, ReplyType DEF rpc_VIDDEC3_create_end
    <2>2. RegistryTypeOK'
      <3>1. CASE UNCHANGED clients
        BY <3>1 DEF TypeOK, RegistryTypeOK
      <3>2. CASE dce_register_codec(PidOf(t), rpc[t].ret)
        BY <2>1, <3>2, RegisterCodecType DEF TypeOK
      <3> QED  BY <1>3, <3>1, <3>2 DEF rpc_VIDDEC3_create_end
    <2> QED
      BY <1>3, <2>2, ReplyType DEF rpc_VIDDEC3_create_end, TypeOK, IvahdTypeOK, ivahd_vars, ceVars
  <1>4. CASE rpc_VIDDEC3_control_end(t)
    BY <1>4, ReplyType
    DEF rpc_VIDDEC3_control_end, TypeOK, RegistryTypeOK, IvahdTypeOK, ivahd_vars, ceVars
  <1>5. CASE rpc_VIDDEC3_process_end(t)
    <2>1. IvahdTypeOK'
      BY <1>5 DEF rpc_VIDDEC3_process_end, ivahd_release, TypeOK, IvahdTypeOK, Opps
    <2> QED
      BY <1>5, <2>1, ReplyType DEF rpc_VIDDEC3_process_end, TypeOK, RegistryTypeOK, ceVars
  <1>6. CASE rpc_VIDDEC3_delete_end(t)
    BY <1>6, ReplyType, DestroyedType
    DEF rpc_VIDDEC3_delete_end, TypeOK, RegistryTypeOK, IvahdTypeOK, ivahd_vars
  <1> QED  BY <1>1, <1>2, <1>3, <1>4, <1>5, <1>6 DEF End

LEMMA ProcessType ==
    ASSUME TypeOK, NEW p \in Pids, Crash(p) \/ Respawn(p)
    PROVE  TypeOK'
  BY DEF Crash, Respawn, TypeOK, RegistryTypeOK, IvahdTypeOK, ivahd_vars, callVars, ceVars

\* The loop goes on to an index of its range, with a handle to destroy.
LEMMA CleanupMoves ==
    ASSUME cb \in Cleanups, NEW h \in Handles \cup {Null}, NEW i \in Indexes(cb.in)
    PROVE  [cb EXCEPT !.busy = h, !.i = i] \in Cleanups
  <1>1. cb.in \in {"none", "codecs", "engines"}
    BY DEF Cleanups
  <1>2. i \in 1..(NumCodecs + NumEngines + 1)
    BY <1>1, RegistryAssumption DEF Indexes
  <1> QED  BY <1>2 DEF Cleanups

LEMMA CleanupType ==
    ASSUME TypeOK, dce_cleanup_cb
    PROVE  TypeOK'
  <1> USE RegistryAssumption DEF Handles
  <1>1. ASSUME NEW p \in Pids, cleanup_start(p)
        PROVE  TypeOK'
    <2>1. cb' \in Cleanups
      <3>1. CASE UNCHANGED cb
        BY <3>1 DEF TypeOK
      <3>2. ASSUME NEW c \in Slots,
                   cb' = [NoCleanup EXCEPT !.in = "codecs", !.pid = p, !.c = c]
            PROVE  cb' \in Cleanups
        <4>1. cb' = [in |-> "codecs", pid |-> p, c |-> c, i |-> 1, busy |-> Null]
          BY <3>2 DEF NoCleanup
        <4> QED  BY <4>1, RegistryAssumption DEF Cleanups, Indexes
      <3> QED  BY <1>1, <3>1, <3>2 DEF cleanup_start
    <2> QED
      BY <1>1, <2>1 DEF cleanup_start, cleanupUnchanged, TypeOK, RegistryTypeOK, IvahdTypeOK,
                        ivahd_vars, ceVars
  <1>2. CASE cleanup_delete_codec
    <2>1. PICK j \in 1..NumCodecs :
            /\ dce_unregister_codec(cb.pid, clients[cb.c].codecs[j])
            /\ cb' = [cb EXCEPT !.busy = clients[cb.c].codecs[j], !.i = j + 1]
      BY <1>2 DEF cleanup_delete_codec
    <2>2. cb.pid \in Pids \cup {Null} /\ cb.c \in Slots
      BY DEF TypeOK, Cleanups
    <2>3. clients[cb.c].codecs[j] \in Codecs \cup {Null}
      BY <2>2, FieldTypes DEF TypeOK, CodecTable
    <2>4. RegistryTypeOK'
      BY <2>1, <2>2, UnregisterCodecType DEF TypeOK
    <2>5. cb' \in Cleanups
      <3>1. cb \in Cleanups /\ cb.in = "codecs" /\ j + 1 \in Indexes("codecs")
        BY <1>2 DEF TypeOK, Indexes, cleanup_delete_codec
      <3> QED  BY <2>1, <2>3, <3>1, CleanupMoves
    <2> QED
      BY <1>2, <2>4, <2>5 DEF cleanup_delete_codec, cleanupUnchanged, TypeOK, IvahdTypeOK,
                              ivahd_vars, ceVars
  <1>3. CASE cleanup_codecs_done
    <2>1. cb' \in Cleanups
      <3>1. 1 \in 1..(NumCodecs + NumEngines + 1) /\ 1 \in Indexes("engines")
        BY DEF Indexes
      <3> QED  BY <1>3, <3>1 DEF cleanup_codecs_done, TypeOK, Cleanups
    <2> QED
      BY <1>3, <2>1 DEF cleanup_codecs_done, cleanupUnchanged, TypeOK, RegistryTypeOK,
                        IvahdTypeOK, ivahd_vars, ceVars
  <1>4. CASE cleanup_close_engine
    <2>1. PICK j \in 1..NumEngines :
            /\ dce_unregister_engine(cb.pid, clients[cb.c].engines[j])
            /\ cb' = [cb EXCEPT !.busy = clients[cb.c].engines[j], !.i = j + 1]
      BY <1>4 DEF cleanup_close_engine
    <2>2. cb.pid \in Pids \cup {Null} /\ cb.c \in Slots
      BY DEF TypeOK, Cleanups
    <2>3. clients[cb.c].engines[j] \in Engines \cup {Null}
      BY <2>2, FieldTypes DEF TypeOK, EngineTable
    <2>4. RegistryTypeOK'
      BY <2>1, <2>2, UnregisterEngineType DEF TypeOK
    <2>5. cb' \in Cleanups
      <3>1. cb \in Cleanups /\ cb.in = "engines" /\ j + 1 \in Indexes("engines")
        BY <1>4 DEF TypeOK, Indexes, cleanup_close_engine
      <3> QED  BY <2>1, <2>3, <3>1, CleanupMoves
    <2> QED
      BY <1>4, <2>4, <2>5 DEF cleanup_close_engine, cleanupUnchanged, TypeOK, IvahdTypeOK,
                              ivahd_vars, ceVars
  <1>5. CASE cleanup_ce_returns
    <2>1. cb' \in Cleanups
      BY <1>5 DEF cleanup_ce_returns, TypeOK, Cleanups
    <2> QED
      BY <1>5, <2>1, DestroyedType
      DEF cleanup_ce_returns, cleanupUnchanged, TypeOK, RegistryTypeOK, IvahdTypeOK, ivahd_vars
  <1>6. CASE cleanup_end
    <2>1. cb' \in Cleanups
      BY <1>6 DEF cleanup_end, TypeOK, Cleanups, Indexes, NoCleanup, Slots
    <2> QED
      BY <1>6, <2>1 DEF cleanup_end, cleanupUnchanged, TypeOK, RegistryTypeOK,
                        IvahdTypeOK, ivahd_vars, ceVars
  <1> QED  BY <1>1, <1>2, <1>3, <1>4, <1>5, <1>6 DEF dce_cleanup_cb, CleanupLoops

\* Types are kept in every reachable state: in particular no register or
\* unregister, whatever the table holds, writes past the ends of a slot's
\* arrays, and the accelerator is never at an unknown operating point.
THEOREM TypeCorrect == Spec => []TypeOK
  <1>1. Init => TypeOK
    <2> SUFFICES ASSUME Init PROVE TypeOK
      OBVIOUS
    <2>1. RegistryTypeOK
      BY RegistryAssumption, SlotType DEF Init, RegistryInit, RegistryTypeOK, UnusedClient,
                                          EngineTable, CodecTable
    <2>2. IvahdTypeOK
      BY DEF Init, IvahdInit, IvahdTypeOK, Opps
    <2>3. rpc \in [Threads -> Calls]
      BY DEF Init, Calls
    <2>4. cb \in Cleanups
      BY RegistryAssumption DEF Init, NoCleanup, Cleanups, Indexes, Slots
    <2> QED  BY <2>1, <2>2, <2>3, <2>4 DEF Init, TypeOK
  <1>2. TypeOK /\ [Next]_serverVars => TypeOK'
    <2> SUFFICES ASSUME TypeOK, [Next]_serverVars PROVE TypeOK'
      OBVIOUS
    <2>1. CASE Next
      BY <2>1, ApplicationType, BeginType, EndType, ProcessType, CleanupType DEF Next
    <2>2. CASE UNCHANGED serverVars
      BY <2>2 DEF serverVars, ivahd_vars, callVars, ceVars, TypeOK, RegistryTypeOK, IvahdTypeOK
    <2> QED  BY <2>1, <2>2
  <1> QED  BY <1>1, <1>2, PTL DEF Spec

-----------------------------------------------------------------------------
\* One slot per client

\* The pid of the slot an operation writes is the one it had, a pid that no
\* slot had, or null; the other slots keep theirs.
LEMMA OneSlotStep ==
    ASSUME RegistryTypeOK, OneSlotPerPid, NEW s \in Slots,
           NEW pid, NEW refs, NEW engines, NEW codecs,
           pid = Null \/ pid = clients[s].pid \/ no_client(pid)
    PROVE  clients' = [clients EXCEPT ![s] = Slot(pid, refs, engines, codecs)] => OneSlotPerPid'
  <1> SUFFICES ASSUME clients' = [clients EXCEPT ![s] = Slot(pid, refs, engines, codecs)]
               PROVE  OneSlotPerPid'
    OBVIOUS
  <1>1. Slot(pid, refs, engines, codecs).pid = pid
    BY DEF Slot
  <1>2. \A u \in Slots : clients'[u].pid = IF u = s THEN pid ELSE clients[u].pid
    BY <1>1 DEF RegistryTypeOK
  <1> QED  BY <1>2 DEF OneSlotPerPid, no_client

LEMMA RegistryOneSlot ==
    ASSUME RegistryTypeOK, OneSlotPerPid, NEW pid, NEW h,
           \/ dce_register_engine(pid, h) \/ dce_unregister_engine(pid, h)
           \/ dce_register_codec(pid, h)  \/ dce_unregister_codec(pid, h)
    PROVE  OneSlotPerPid'
  <1>1. CASE dce_register_engine(pid, h)
    <2>1. ASSUME NEW s \in Slots, get_client(pid, s),
                 clients' = [clients EXCEPT ![s] =
                     Slot(pid, clients[s].refs + 1, ReplaceFirst(clients[s].engines, Null, h),
                          clients[s].codecs)]
          PROVE  OneSlotPerPid'
      BY <2>1, OneSlotStep DEF get_client
    <2>2. ASSUME NEW s \in Slots, no_client(pid),
                 clients' = [clients EXCEPT ![s] =
                     Slot(pid, 1, [clients[s].engines EXCEPT ![1] = h], clients[s].codecs)]
          PROVE  OneSlotPerPid'
      BY <2>2, OneSlotStep
    <2>3. CASE UNCHANGED clients
      BY <2>3 DEF OneSlotPerPid
    <2> QED  BY <1>1, <2>1, <2>2, <2>3 DEF dce_register_engine
  <1>2. CASE dce_unregister_engine(pid, h)
    <2>1. ASSUME NEW s \in Slots, get_client(pid, s),
                 clients' = [clients EXCEPT ![s] =
                     Slot(IF clients[s].refs = 1 THEN Null ELSE pid, clients[s].refs - 1,
                          ReplaceFirst(clients[s].engines, h, Null), clients[s].codecs)]
          PROVE  OneSlotPerPid'
      BY <2>1, OneSlotStep DEF get_client
    <2>2. CASE UNCHANGED clients
      BY <2>2 DEF OneSlotPerPid
    <2> QED  BY <1>2, <2>1, <2>2 DEF dce_unregister_engine
  <1>3. CASE dce_register_codec(pid, h)
    <2>1. ASSUME NEW s \in Slots, get_client(pid, s),
                 clients' = [clients EXCEPT ![s] =
                     Slot(pid, clients[s].refs + 1, clients[s].engines,
                          ReplaceFirst(clients[s].codecs, Null, h))]
          PROVE  OneSlotPerPid'
      BY <2>1, OneSlotStep DEF get_client
    <2>2. CASE UNCHANGED clients
      BY <2>2 DEF OneSlotPerPid
    <2> QED  BY <1>3, <2>1, <2>2 DEF dce_register_codec
  <1>4. CASE dce_unregister_codec(pid, h)
    <2>1. ASSUME NEW s \in Slots, get_client(pid, s),
                 clients' = [clients EXCEPT ![s] =
                     Slot(pid, clients[s].refs - 1, clients[s].engines,
                          ReplaceFirst(clients[s].codecs, h, Null))]
          PROVE  OneSlotPerPid'
      BY <2>1, OneSlotStep DEF get_client
    <2>2. CASE UNCHANGED clients
      BY <2>2 DEF OneSlotPerPid
    <2> QED  BY <1>4, <2>1, <2>2 DEF dce_unregister_codec
  <1> QED  BY <1>1, <1>2, <1>3, <1>4

\* Every step leaves the registry alone or makes one operation on it.
LEMMA RegistrySteps ==
    ASSUME [Next]_serverVars
    PROVE  \/ UNCHANGED clients
           \/ \E pid, h : \/ dce_register_engine(pid, h) \/ dce_unregister_engine(pid, h)
                          \/ dce_register_codec(pid, h)  \/ dce_unregister_codec(pid, h)
  <1> DEFINE Ops == \E pid, h :
                 \/ dce_register_engine(pid, h) \/ dce_unregister_engine(pid, h)
                 \/ dce_register_codec(pid, h)  \/ dce_unregister_codec(pid, h)
  <1>1. ASSUME NEW t \in Threads, Application(t) PROVE UNCHANGED clients
    BY <1>1 DEF Application, CallOpen, CallClose, CallCreate, CallCodec, CallDelete, Send
  <1>2. ASSUME NEW t \in Threads, Begin(t) PROVE UNCHANGED clients \/ Ops
    BY <1>2 DEF Begin, rpc_Engine_open_begin, rpc_Engine_close_begin, rpc_VIDDEC3_create_begin,
        rpc_VIDDEC3_control_begin, rpc_VIDDEC3_process_begin, rpc_VIDDEC3_delete_begin
  <1>3. ASSUME NEW t \in Threads, End(t) PROVE UNCHANGED clients \/ Ops
    BY <1>3 DEF End, rpc_Engine_open_end, rpc_Engine_close_end, rpc_VIDDEC3_create_end,
        rpc_VIDDEC3_control_end, rpc_VIDDEC3_process_end, rpc_VIDDEC3_delete_end
  <1>4. ASSUME NEW p \in Pids, Crash(p) \/ Respawn(p) PROVE UNCHANGED clients
    BY <1>4 DEF Crash, Respawn
  <1>5. CASE dce_cleanup_cb
    BY <1>5 DEF dce_cleanup_cb, CleanupLoops, cleanup_start, cleanup_delete_codec,
        cleanup_codecs_done, cleanup_close_engine, cleanup_ce_returns, cleanup_end
  <1>6. CASE UNCHANGED serverVars
    BY <1>6 DEF serverVars
  <1> QED  BY <1>1, <1>2, <1>3, <1>4, <1>5, <1>6 DEF Next

\* A client process never has two slots, however its threads open engines at
\* the same time and however late a handler registers for a dead process.
THEOREM OneSlot == Spec => []OneSlotPerPid
  <1>1. Init => OneSlotPerPid
    BY DEF Init, RegistryInit, UnusedClient, Slot, OneSlotPerPid
  <1>2. TypeOK /\ OneSlotPerPid /\ [Next]_serverVars => OneSlotPerPid'
    <2> SUFFICES ASSUME TypeOK, OneSlotPerPid, [Next]_serverVars PROVE OneSlotPerPid'
      OBVIOUS
    <2>1. CASE UNCHANGED clients
      BY <2>1 DEF OneSlotPerPid
    <2>2. RegistryTypeOK
      BY DEF TypeOK
    <2> QED  BY <2>1, <2>2, RegistrySteps, RegistryOneSlot
  <1> QED  BY <1>1, <1>2, TypeCorrect, PTL DEF Spec

-----------------------------------------------------------------------------
\* The use count of the accelerator

LEMMA ThreadsFinite == IsFiniteSet(Threads)
  <1>1. IsFiniteSet(1..ThreadsPerClient)
    BY ServerAssumption, FS_Interval
  <1> QED  BY <1>1, ServerAssumption, FS_Product DEF Threads

LEMMA DecodingFinite == IsFiniteSet(Decoding) /\ Cardinality(Decoding) \in Nat
  BY ThreadsFinite, FS_Subset, FS_CardinalityType DEF Decoding

\* A step that starts or ends no VIDDEC3_process leaves Decoding alone.
LEMMA DecodingKept ==
    ASSUME TypeOK, NEW t \in Threads, NEW fn \in Functions \ {"VIDDEC3_process"},
           \/ \E arg : Send(t, fn, arg)
           \/ \E ret : Dispatch(t, fn, ret)
           \/ Reply(t, fn)
    PROVE  Decoding' = Decoding
  <1>1. \A u \in Threads : u # t => rpc'[u] = rpc[u]
    BY DEF Send, Dispatch, Reply, TypeOK
  <1>2. ~Running(t, "VIDDEC3_process") /\ rpc'[t].fn # "VIDDEC3_process"
    <2>1. ASSUME NEW arg, Send(t, fn, arg)
          PROVE  rpc[t].fn = "none" /\ rpc'[t].fn = fn
      BY <2>1 DEF Send, NoCall, TypeOK
    <2>2. ASSUME NEW ret, Dispatch(t, fn, ret)
          PROVE  rpc[t].fn = fn /\ rpc'[t].fn = fn
      <3>1. rpc' = [rpc EXCEPT ![t] = [rpc[t] EXCEPT !.at = "running", !.ret = ret]]
        BY <2>2 DEF Dispatch, TypeOK
      <3>2. [rpc[t] EXCEPT !.at = "running", !.ret = ret].fn = rpc[t].fn
        <4>1. CASE rpc[t] = NoCall
          BY <4>1 DEF NoCall
        <4>2. CASE rpc[t] # NoCall
          BY <4>2 DEF TypeOK, Calls
        <4> QED  BY <4>1, <4>2
      <3> QED  BY <2>2, <3>1, <3>2 DEF Dispatch, TypeOK
    <2>3. CASE Reply(t, fn)
      BY <2>3 DEF Reply, Running, NoCall, TypeOK
    <2>4. CASE \E arg : Send(t, fn, arg)
      BY <2>1, <2>4 DEF Running, Functions
    <2>5. CASE \E ret : Dispatch(t, fn, ret)
      BY <2>2, <2>5 DEF Running
    <2>6. rpc'[t].fn # "VIDDEC3_process"
      BY <2>1, <2>2, <2>3 DEF Reply, NoCall, TypeOK
    <2> QED  BY <2>1, <2>2, <2>3, <2>4, <2>5, <2>6 DEF Reply, Running
  <1> QED  BY <1>1, <1>2 DEF Decoding, Running

\* The first user raises the clock, the last one drops it.
LEMMA OppAcquire ==
    ASSUME TypeOK, OppMatchesUse, NEW t, t \notin Decoding,
           Decoding' = Decoding \cup {t}, ivahd_acquire
    PROVE  OppMatchesUse'
  <1>1. Cardinality(Decoding') = Cardinality(Decoding) + 1
    BY DecodingFinite, FS_AddElement
  <1>2. Decoding = {} <=> Cardinality(Decoding) = 0
    BY DecodingFinite, FS_EmptySet
  <1>3. ivahd_use_cnt' = Cardinality(Decoding') /\ opp' = 100
    BY <1>1, <1>2, DecodingFinite DEF OppMatchesUse, ivahd_acquire
  <1> QED  BY <1>3 DEF OppMatchesUse

LEMMA OppRelease ==
    ASSUME TypeOK, OppMatchesUse, NEW t, t \in Decoding,
           Decoding' = Decoding \ {t}, ivahd_release
    PROVE  OppMatchesUse'
  <1>1. /\ IsFiniteSet(Decoding')
        /\ Cardinality(Decoding') = Cardinality(Decoding) - 1
    BY DecodingFinite, FS_RemoveElement
  <1>2. Decoding' = {} <=> Cardinality(Decoding') = 0
    BY <1>1, FS_EmptySet
  <1>3. opp = 100
    BY DEF OppMatchesUse
  <1>4. /\ ivahd_use_cnt' = Cardinality(Decoding')
        /\ opp' = IF Cardinality(Decoding') = 0 THEN 0 ELSE 100
    BY <1>1, <1>3, DecodingFinite DEF OppMatchesUse, ivahd_release
  <1> QED  BY <1>2, <1>4 DEF OppMatchesUse

LEMMA OppKept ==
    ASSUME OppMatchesUse, Decoding' = Decoding, UNCHANGED ivahd_vars
    PROVE  OppMatchesUse'
  BY DEF OppMatchesUse, ivahd_vars

\* The use count and the clock follow the decoding workers: a release is
\* never lost or doubled, also when clients die while decoding.
THEOREM OppFollowsUse == Spec => []OppMatchesUse
  <1>1. Init => OppMatchesUse
    <2>1. Init => Decoding = {}
      BY DEF Init, Decoding, Running, NoCall
    <2> QED  BY <2>1, FS_EmptySet DEF Init, IvahdInit, OppMatchesUse
  <1>2. TypeOK /\ OppMatchesUse /\ [Next]_serverVars => OppMatchesUse'
    <2> SUFFICES ASSUME TypeOK, OppMatchesUse, [Next]_serverVars
                 PROVE  OppMatchesUse'
      OBVIOUS
    <2>1. ASSUME NEW t \in Threads, rpc_VIDDEC3_process_begin(t)
          PROVE  OppMatchesUse'
      <3>1. rpc' = [rpc EXCEPT ![t] = [rpc[t] EXCEPT !.at = "running", !.ret = Null]]
        BY <2>1 DEF rpc_VIDDEC3_process_begin, Dispatch, TypeOK
      <3>2. rpc[t].at = "queued" /\ rpc[t].fn = "VIDDEC3_process" /\ rpc[t] # NoCall
        BY <2>1 DEF rpc_VIDDEC3_process_begin, Dispatch, NoCall
      <3>3. (Running(t, "VIDDEC3_process"))'
        BY <3>1, <3>2 DEF Running, TypeOK, Calls
      <3>4. \A u \in Threads : u # t => rpc'[u] = rpc[u]
        BY <3>1 DEF TypeOK
      <3>5. t \notin Decoding /\ Decoding' = Decoding \cup {t}
        BY <3>2, <3>3, <3>4 DEF Decoding, Running
      <3> QED  BY <2>1, <3>5, OppAcquire DEF rpc_VIDDEC3_process_begin
    <2>2. ASSUME NEW t \in Threads, rpc_VIDDEC3_process_end(t)
          PROVE  OppMatchesUse'
      <3>1. rpc' = [rpc EXCEPT ![t] = NoCall] /\ t \in Decoding
        BY <2>2 DEF rpc_VIDDEC3_process_end, Reply, Decoding
      <3>2. \A u \in Threads : rpc'[u] = IF u = t THEN NoCall ELSE rpc[u]
        BY <3>1 DEF TypeOK
      <3>3. Decoding' = Decoding \ {t}
        BY <3>2 DEF Decoding, Running, NoCall
      <3> QED  BY <2>2, <3>1, <3>3, OppRelease DEF rpc_VIDDEC3_process_end
    <2>3. ASSUME NEW t \in Threads, Begin(t) \/ End(t),
                 ~rpc_VIDDEC3_process_begin(t), ~rpc_VIDDEC3_process_end(t)
          PROVE  OppMatchesUse'
      <3>1. PICK fn \in Functions \ {"VIDDEC3_process"} :
              (\E ret : Dispatch(t, fn, ret)) \/ Reply(t, fn)
        BY <2>3 DEF Begin, End, Functions,
            rpc_Engine_open_begin, rpc_Engine_close_begin, rpc_VIDDEC3_create_begin,
            rpc_VIDDEC3_control_begin, rpc_VIDDEC3_delete_begin,
            rpc_Engine_open_end, rpc_Engine_close_end, rpc_VIDDEC3_create_end,
            rpc_VIDDEC3_control_end, rpc_VIDDEC3_delete_end
      <3>2. UNCHANGED ivahd_vars
        BY <2>3 DEF Begin, End,
            rpc_Engine_open_begin, rpc_Engine_close_begin, rpc_VIDDEC3_create_begin,
            rpc_VIDDEC3_control_begin, rpc_VIDDEC3_delete_begin,
            rpc_Engine_open_end, rpc_Engine_close_end, rpc_VIDDEC3_create_end,
            rpc_VIDDEC3_control_end, rpc_VIDDEC3_delete_end
      <3> QED  BY <3>1, <3>2, DecodingKept, OppKept
    <2>4. ASSUME NEW t \in Threads, Application(t)
          PROVE  OppMatchesUse'
      <3>1. ASSUME NEW arg, Send(t, "VIDDEC3_process", arg)
            PROVE  Decoding' = Decoding
        <4>1. \A u \in Threads : u # t => rpc'[u] = rpc[u]
          BY <3>1 DEF Send, TypeOK
        <4>2. rpc[t].at = "idle" /\ rpc'[t].at = "queued"
          BY <3>1 DEF Send, NoCall, TypeOK
        <4> QED  BY <4>1, <4>2 DEF Decoding, Running
      <3>2. \E fn \in Functions : \E arg : Send(t, fn, arg)
        BY <2>4 DEF Application, CallOpen, CallClose, CallCreate, CallCodec, CallDelete, Functions
      <3>3. Decoding' = Decoding
        BY <3>1, <3>2, DecodingKept
      <3> QED  BY <3>2, <3>3, OppKept DEF Send
    <2>5. ASSUME UNCHANGED rpc, UNCHANGED ivahd_vars
          PROVE  OppMatchesUse'
      BY <2>5, OppKept DEF Decoding, Running
    <2>6. ASSUME NEW p \in Pids, Crash(p) \/ Respawn(p)
          PROVE  OppMatchesUse'
      BY <2>5, <2>6 DEF Crash, Respawn, callVars
    <2>7. CASE dce_cleanup_cb
      BY <2>5, <2>7 DEF dce_cleanup_cb, CleanupLoops, cleanup_start, cleanup_delete_codec,
          cleanup_codecs_done, cleanup_close_engine, cleanup_ce_returns, cleanup_end,
          cleanupUnchanged
    <2>8. CASE UNCHANGED serverVars
      BY <2>5, <2>8 DEF serverVars, callVars
    <2> QED  BY <2>1, <2>2, <2>3, <2>4, <2>6, <2>7, <2>8 DEF Next
  <1> QED  BY <1>1, <1>2, TypeCorrect, PTL DEF Spec
=============================================================================
