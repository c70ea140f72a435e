------------------------ MODULE DceServer_ownership ------------------------
(***************************************************************************)
(* The server keeps every handle for the client that owns it, and reclaims *)
(* all of them when the client dies: for any number of clients, threads,   *)
(* workers and handles, within the limits the registry has (Limits).       *)
(***************************************************************************)
EXTENDS DceServer_proofs, WellFoundedInduction

\* Processes delete codecs before they close the engine, die between their
\* calls only, use one engine at a time, and fit into the tables.
Limits ==
    /\ CodecsFirst
    /\ IdleCrashOnly
    /\ EnginesPerClient = 1
    /\ IsFiniteSet(Codecs)
    /\ NumCodecs >= Cardinality(Codecs)
    /\ NumClients >= Cardinality(Pids)

OpenClose == {"Engine_open", "Engine_close"}
Giving == {"Engine_close", "VIDDEC3_delete"}

\* A call is a living client's; what it works on, and what it has made, is live
\* and that client's; what is given back is not held any more.
CallsOwn ==
    \A t \in Threads :
        /\ rpc[t].at # "idle" => proc[PidOf(t)] = "alive"
        /\ rpc[t].at = "queued" => rpc[t].ret = Null
        /\ rpc[t].arg # Null => owner[rpc[t].arg] = PidOf(t)
        /\ rpc[t].ret # Null => owner[rpc[t].ret] = PidOf(t) /\ rpc[t].ret \notin held[PidOf(t)]
        /\ rpc[t].fn \in Giving => rpc[t].arg \notin held[PidOf(t)]

\* No handle is in two calls.
CallsApart ==
    \A t, u \in Threads :
        /\ t # u /\ rpc[t].arg # Null => rpc[u].arg # rpc[t].arg
        /\ t # u /\ rpc[t].ret # Null => rpc[u].ret # rpc[t].ret
        /\ rpc[t].ret # Null => rpc[u].arg # rpc[t].ret

\* A living client's handles are held by it, being given back or just made.
Accounted ==
    \A h \in Handles :
        owner[h] # Null /\ proc[owner[h]] = "alive" =>
            \/ h \in held[owner[h]]
            \/ \E t \in Threads : \/ rpc[t].ret = h
                                  \/ rpc[t].fn \in Giving /\ rpc[t].arg = h

HeldOwn == HeldAreLive /\ \A p \in Pids : proc[p] # "alive" => held[p] = {}

\* One engine at a time, in the application and on the server.
OneEngine ==
    /\ \A p \in Pids : \A e, f \in held[p] \cap Engines : e = f
    /\ \A t, u \in Threads :
        PidOf(t) = PidOf(u) /\ rpc[t].fn \in OpenClose /\ rpc[u].fn \in OpenClose => t = u
    /\ \A t \in Threads : rpc[t].fn \in OpenClose => held[PidOf(t)] \cap Engines = {}
    /\ \A e, f \in Engines : owner[e] # Null /\ owner[e] = owner[f] => e = f

\* A codec refers to the engine of its owner, which is not being closed.
Bound ==
    /\ \A c \in Codecs : owner[c] # Null => /\ engineOf[c] \in Engines
                                            /\ owner[engineOf[c]] = owner[c]
    /\ \A t \in Threads :
        /\ rpc[t].fn = "Engine_close" => BoundTo(rpc[t].arg) = {}
        /\ rpc[t].fn = "VIDDEC3_create" /\ rpc[t].ret # Null => engineOf[rpc[t].ret] = rpc[t].arg

\* What the cleanup has done.
Cleaning ==
    /\ cb.in # "none" => cb.pid \in Pids /\ proc[cb.pid] = "obit"
    /\ cb.busy # Null => cb.in # "none" /\ owner[cb.busy] = cb.pid
    /\ cb.in = "codecs" => /\ clients[cb.c].pid = cb.pid
                           /\ cb.busy \notin Engines
                           /\ \A k \in 1..NumCodecs : k < cb.i => clients[cb.c].codecs[k] = Null
    /\ cb.in = "engines" => /\ \A c \in Codecs : owner[c] # cb.pid
                            /\ \/ cb.i = 1 /\ cb.busy = Null /\ clients[cb.c].pid = cb.pid
                               \/ cb.i = 2 /\ no_client(cb.pid)

\* A handle that is live and not in the registry, not yet or not any more.
Pending(h) ==
    \/ h = cb.busy
    \/ \E t \in Threads : /\ rpc[t].at = "running"
                          /\ \/ rpc[t].ret = h
                             \/ rpc[t].fn \in Giving /\ rpc[t].arg = h

\* A slot in use lists the engine first and the codecs once each, and counts
\* them; one not in use is empty.
SlotShape ==
    \A s \in Slots :
        /\ \A i \in 1..NumEngines : i # 1 => clients[s].engines[i] = Null
        /\ clients[s].pid = Null <=> clients[s].engines[1] = Null
        /\ clients[s].pid = Null => \A i \in 1..NumCodecs : clients[s].codecs[i] = Null
        /\ \A i, j \in 1..NumCodecs :
               clients[s].codecs[i] = clients[s].codecs[j] /\ clients[s].codecs[i] # Null => i = j
        /\ IsFiniteSet(Tracked(s)) /\ clients[s].refs = Cardinality(Tracked(s))

\* A slot of p lists h; h should be listed there.
Listed(h, p) == \E s \in Slots : clients[s].pid = p /\ h \in Tracked(s)
Known(h, p) == owner[h] = p /\ ~Pending(h)

\* The slots list what is live and not pending, each handle under its owner.
SlotContents == \A h \in Handles, p \in Pids : Listed(h, p) <=> Known(h, p)

\* What concerns calls and handles, and the inductive invariant: it is
\* inductive together with TypeOK and OneSlotPerPid.
Contract == CallsOwn /\ CallsApart /\ Accounted /\ HeldOwn /\ OneEngine /\ Bound

OwnInv == Contract /\ Cleaning /\ SlotShape /\ SlotContents /\ DeadOwnNothing

-----------------------------------------------------------------------------
\* Calls and messages

\* What each function works on and returns.
LEMMA CallTypes ==
  ASSUME TypeOK, NEW t \in Threads
  PROVE  /\ rpc[t].at \in {"idle", "queued", "running"}
         /\ rpc[t].at = "idle" <=> rpc[t] = NoCall
         /\ rpc[t].fn \in Functions \cup {"none"}
         /\ rpc[t].arg \in Handles \cup {Null} /\ rpc[t].ret \in Handles \cup {Null}
         /\ rpc[t].at = "idle" <=> rpc[t].fn = "none"
         /\ rpc[t].at = "idle" => rpc[t].arg = Null /\ rpc[t].ret = Null
         /\ rpc[t].at # "idle" => rpc[t].arg \in ArgsOf(rpc[t].fn) /\ rpc[t].ret \in RetsOf(rpc[t].fn)
  <1>1. CASE rpc[t] = NoCall
    BY <1>1 DEF NoCall
  <1>2. CASE rpc[t] # NoCall
    <2>1. rpc[t] \in {r \in [at  : {"queued", "running"},
                             fn  : Functions,
                             arg : Handles \cup {Null},
                             ret : Handles \cup {Null}] : r.arg \in ArgsOf(r.fn) /\ r.ret \in RetsOf(r.fn)}
      BY <1>2 DEF TypeOK, Calls
    <2> QED BY <1>2, <2>1 DEF Functions
  <1> QED BY <1>1, <1>2

\* Null is no handle, and every thread is of a client.
LEMMA NotNull ==
  /\ Null \notin Pids /\ Null \notin Handles /\ Engines \cap Codecs = {}
  /\ \A t \in Threads : PidOf(t) \in Pids
  BY RegistryAssumption, ThreadPid DEF Handles

LEMMA Kinds ==
  ASSUME TypeOK, NEW t \in Threads
  PROVE  /\ rpc[t].fn = "Engine_open" => rpc[t].arg = Null /\ rpc[t].ret \in Engines \cup {Null}
         /\ rpc[t].fn = "Engine_close" => rpc[t].arg \in Engines /\ rpc[t].ret = Null
         /\ rpc[t].fn = "VIDDEC3_create" => rpc[t].arg \in Engines /\ rpc[t].ret \in Codecs \cup {Null}
         /\ rpc[t].fn = "VIDDEC3_delete" => rpc[t].arg \in Codecs /\ rpc[t].ret = Null
         /\ rpc[t].fn \in {"VIDDEC3_control", "VIDDEC3_process"} =>
                rpc[t].arg \in Codecs /\ rpc[t].ret = Null
         /\ rpc[t].ret \in Engines => rpc[t].fn = "Engine_open"
         /\ rpc[t].ret \in Codecs => rpc[t].fn = "VIDDEC3_create"
         /\ rpc[t].arg \in Engines => rpc[t].fn \in {"Engine_close", "VIDDEC3_create"}
  BY CallTypes, NotNull DEF ArgsOf, RetsOf, Functions, Handles

\* Only Engine_open makes engines, and only VIDDEC3_create codecs.
LEMMA RetKinds ==
  ASSUME NEW fn, NEW ret \in RetsOf(fn)
  PROVE  /\ ret \in Engines => fn = "Engine_open"
         /\ ret \in Codecs => fn = "VIDDEC3_create"
  BY RegistryAssumption DEF RetsOf

LEMMA Sent ==
  ASSUME TypeOK, NEW t \in Threads, NEW fn \in Functions, NEW arg \in Handles \cup {Null},
         Send(t, fn, arg)
  PROVE  /\ rpc'[t].at = "queued" /\ rpc'[t].fn = fn /\ rpc'[t].arg = arg /\ rpc'[t].ret = Null
         /\ \A u \in Threads \ {t} : rpc'[u] = rpc[u]
         /\ rpc[t] = NoCall /\ proc[PidOf(t)] = "alive"
         /\ arg # Null => arg \in held[PidOf(t)] /\ ~InUse(arg)
         /\ UNCHANGED <<clients, proc, owner, engineOf, cb>>
  BY DEF Send, TypeOK, ceVars

LEMMA Dispatched ==
  ASSUME TypeOK, NEW t \in Threads, NEW fn \in Functions, NEW ret \in Handles \cup {Null},
         Dispatch(t, fn, ret)
  PROVE  /\ rpc'[t].at = "running" /\ rpc'[t].fn = fn /\ rpc'[t].arg = rpc[t].arg
         /\ rpc'[t].ret = ret
         /\ \A u \in Threads \ {t} : rpc'[u] = rpc[u]
         /\ rpc[t].at = "queued" /\ rpc[t].fn = fn
         /\ UNCHANGED <<proc, held, cb>>
  <1> DEFINE new == [rpc[t] EXCEPT !.at = "running", !.ret = ret]
  <1>1. rpc[t].at = "queued" /\ rpc[t].fn = fn /\ UNCHANGED <<proc, held, cb>>
    BY DEF Dispatch
  <1>2. rpc[t] \in [at : {"queued", "running"}, fn : Functions, arg : Handles \cup {Null},
                    ret : Handles \cup {Null}]
    BY <1>1 DEF TypeOK, Calls, NoCall
  <1>3. new.at = "running" /\ new.fn = rpc[t].fn /\ new.arg = rpc[t].arg /\ new.ret = ret
    BY <1>2
  <1>4. rpc' = [rpc EXCEPT ![t] = new]
    BY DEF Dispatch
  <1> HIDE DEF new
  <1> QED BY <1>1, <1>3, <1>4 DEF TypeOK

LEMMA Replied ==
  ASSUME TypeOK, NEW t \in Threads, NEW fn \in Functions, Reply(t, fn)
  PROVE  /\ rpc'[t] = NoCall /\ rpc'[t].at = "idle" /\ rpc'[t].fn = "none"
         /\ rpc'[t].arg = Null /\ rpc'[t].ret = Null
         /\ \A u \in Threads \ {t} : rpc'[u] = rpc[u]
         /\ rpc[t].at = "running" /\ rpc[t].fn = fn
         /\ UNCHANGED <<proc, cb>>
  BY DEF Reply, Running, TypeOK, NoCall

-----------------------------------------------------------------------------
\* The application's calls: what they give and take away.
LEMMA Calling ==
  ASSUME TypeOK, NEW t \in Threads, Application(t)
  PROVE  \E fn \in Functions, arg \in Handles \cup {Null} :
           /\ Send(t, fn, arg)
           /\ arg \in ArgsOf(fn)
           /\ fn = "Engine_open" => Sessions(PidOf(t)) < EnginesPerClient
           /\ held' = IF fn \in Giving THEN [held EXCEPT ![PidOf(t)] = @ \ {arg}] ELSE held
           /\ CodecsFirst /\ fn = "Engine_close" =>
                /\ \A c \in held[PidOf(t)] \cap Codecs : engineOf[c] # arg
                /\ \A u \in Threads : PidOf(u) = PidOf(t) /\ rpc[u].arg \in Codecs
                                        => engineOf[rpc[u].arg] # arg
  <1> USE NotNull DEF Functions, Handles, Giving, ArgsOf
  <1>1. CASE CallOpen(t)
    BY <1>1 DEF CallOpen
  <1>2. CASE CallClose(t)
    BY <1>2 DEF CallClose
  <1>3. CASE CallCreate(t)
    BY <1>3 DEF CallCreate
  <1>4. CASE CallCodec(t)
    BY <1>4 DEF CallCodec
  <1>5. CASE CallDelete(t)
    BY <1>5 DEF CallDelete
  <1> QED BY <1>1, <1>2, <1>3, <1>4, <1>5 DEF Application

\* A client that may open an engine has none, and no other thread opens or
\* closes one.
LEMMA MayOpen ==
  ASSUME TypeOK, Limits, OneEngine, NEW p \in Pids, Sessions(p) < EnginesPerClient
  PROVE  /\ held[p] \cap Engines = {}
         /\ \A u \in Threads : PidOf(u) = p => rpc[u].fn \notin OpenClose
  <1> DEFINE T == {t \in Threads : PidOf(t) = p /\ rpc[t].fn \in {"Engine_open", "Engine_close"}}
  <1>1. IsFiniteSet(held[p] \cap Engines)
    <2>1. CASE held[p] \cap Engines = {}
      BY <2>1, FS_EmptySet
    <2>2. CASE held[p] \cap Engines # {}
      <3>1. PICK e : held[p] \cap Engines = {e}
        BY <2>2 DEF OneEngine
      <3> QED BY <3>1, FS_Singleton
    <2> QED BY <2>1, <2>2
  <1>2. IsFiniteSet(T)
    BY ThreadsFinite, FS_Subset
  <1>3. Cardinality(held[p] \cap Engines) \in Nat /\ Cardinality(T) \in Nat
    BY <1>1, <1>2, FS_CardinalityType
  <1>4. Cardinality(held[p] \cap Engines) + Cardinality(T) < 1
    BY DEF Sessions, Limits
  <1>5. Cardinality(held[p] \cap Engines) = 0 /\ Cardinality(T) = 0
    BY <1>3, <1>4
  <1>6. held[p] \cap Engines = {} /\ T = {}
    BY <1>1, <1>2, <1>5, FS_EmptySet
  <1> QED BY <1>6 DEF OpenClose

LEMMA CallingContract ==
  ASSUME TypeOK, Limits, Contract, NEW t \in Threads, Application(t)
  PROVE  Contract'
  <1> DEFINE p == PidOf(t)
  <1>1. PICK fn \in Functions, arg \in Handles \cup {Null} :
           /\ Send(t, fn, arg)
           /\ arg \in ArgsOf(fn)
           /\ fn = "Engine_open" => Sessions(p) < EnginesPerClient
           /\ held' = IF fn \in Giving THEN [held EXCEPT ![p] = @ \ {arg}] ELSE held
           /\ fn = "Engine_close" =>
                /\ \A c \in held[p] \cap Codecs : engineOf[c] # arg
                /\ \A u \in Threads : PidOf(u) = p /\ rpc[u].arg \in Codecs
                                        => engineOf[rpc[u].arg] # arg
    BY Calling DEF Limits
  <1>2. /\ rpc'[t].at = "queued" /\ rpc'[t].fn = fn /\ rpc'[t].arg = arg /\ rpc'[t].ret = Null
        /\ \A u \in Threads \ {t} : rpc'[u] = rpc[u]
        /\ rpc[t] = NoCall /\ proc[p] = "alive"
        /\ arg # Null => arg \in held[p] /\ ~InUse(arg)
        /\ UNCHANGED <<proc, owner, engineOf>>
    BY <1>1, Sent
  <1>3. p \in Pids /\ rpc[t].fn = "none" /\ rpc[t].arg = Null /\ rpc[t].ret = Null
    BY <1>2, NotNull DEF NoCall
  <1>4. /\ \A q \in Pids : held'[q] \subseteq held[q]
        /\ \A q \in Pids : \A h \in held[q] : h \in held'[q] \/ (q = p /\ fn \in Giving /\ h = arg)
        /\ fn \in Giving => arg \notin held'[p]
    BY <1>1, <1>3 DEF TypeOK
  <1>5. arg # Null => /\ owner[arg] = p
                      /\ \A u \in Threads : rpc[u].arg # arg /\ rpc[u].ret # arg
    BY <1>2, <1>3, NotNull DEF Contract, HeldOwn, HeldAreLive, InUse, CallsOwn
  <1> HIDE DEF p
  <1>6. CallsOwn'
    <2> SUFFICES ASSUME NEW u \in Threads
                 PROVE  /\ rpc'[u].at # "idle" => proc'[PidOf(u)] = "alive"
                        /\ rpc'[u].at = "queued" => rpc'[u].ret = Null
                        /\ rpc'[u].arg # Null => owner'[rpc'[u].arg] = PidOf(u)
                        /\ rpc'[u].ret # Null => owner'[rpc'[u].ret] = PidOf(u) /\ rpc'[u].ret \notin held'[PidOf(u)]
                        /\ rpc'[u].fn \in Giving => rpc'[u].arg \notin held'[PidOf(u)]
      BY DEF CallsOwn
    <2>1. CASE u = t
      BY <1>2, <1>4, <1>5, <2>1 DEF p
    <2>2. CASE u # t
      BY <1>2, <1>4, <2>2, NotNull DEF Contract, CallsOwn
    <2> QED BY <2>1, <2>2
  <1>7. CallsApart'
    BY <1>2, <1>5 DEF Contract, CallsApart
  <1>8. Accounted'
    <2> SUFFICES ASSUME NEW h \in Handles, owner[h] # Null, proc[owner[h]] = "alive"
                 PROVE  \/ h \in held'[owner[h]]
                        \/ \E u \in Threads : \/ rpc'[u].ret = h
                                              \/ rpc'[u].fn \in Giving /\ rpc'[u].arg = h
      BY <1>2 DEF Accounted
    <2>1. owner[h] \in Pids /\ h # Null
      BY NotNull DEF TypeOK
    <2>2. CASE h \in held[owner[h]]
      BY <1>2, <1>4, <2>1, <2>2
    <2>3. CASE \E u \in Threads : rpc[u].ret = h \/ (rpc[u].fn \in Giving /\ rpc[u].arg = h)
      <3>1. PICK u \in Threads : rpc[u].ret = h \/ (rpc[u].fn \in Giving /\ rpc[u].arg = h)
        BY <2>3
      <3>2. u # t
        BY <1>3, <2>1, <3>1
      <3> QED BY <1>2, <3>1, <3>2
    <2> QED BY <2>2, <2>3 DEF Contract, Accounted
  <1>9. HeldOwn'
    BY <1>2, <1>4 DEF Contract, HeldOwn, HeldAreLive
  <1>10. OneEngine'
    <2>1. fn \in OpenClose => /\ \A u \in Threads : PidOf(u) = p => rpc[u].fn \notin OpenClose
                              /\ held'[p] \cap Engines = {}
      <3>1. CASE fn = "Engine_open"
        BY <1>1, <1>3, <1>4, <3>1, MayOpen DEF Contract
      <3>2. CASE fn = "Engine_close"
        <4>1. arg \in Engines
          BY <1>1, <3>2 DEF ArgsOf
        <4>2. arg \in held[p] /\ arg \notin held'[p] /\ held'[p] \subseteq held[p]
          BY <1>2, <1>3, <1>4, <3>2, <4>1, NotNull DEF Giving, Handles
        <4>3. \A e \in held[p] \cap Engines : e = arg
          BY <1>3, <4>1, <4>2 DEF Contract, OneEngine
        <4>4. \A u \in Threads : PidOf(u) = p => rpc[u].fn \notin OpenClose
          BY <4>1, <4>2 DEF Contract, OneEngine
        <4> QED BY <4>2, <4>3, <4>4
      <3> QED BY <3>1, <3>2 DEF OpenClose
    <2> QED BY <1>2, <1>3, <1>4, <2>1, NotNull DEF Contract, OneEngine, OpenClose, p
  <1>11. Bound'
    <2>1. fn = "Engine_close" => BoundTo(arg) = {}
      <3> SUFFICES ASSUME fn = "Engine_close", NEW c \in Codecs, owner[c] # Null, engineOf[c] = arg
                   PROVE  FALSE
        BY DEF BoundTo
      <3>1. arg \in Engines
        BY <1>1 DEF ArgsOf
      <3>2. owner[c] = p /\ c \in Handles /\ arg # Null
        BY <1>5, <3>1, NotNull DEF Contract, Bound, Handles
      <3>3. c \notin held[p]
        BY <1>1
      <3>4. PICK u \in Threads : rpc[u].ret = c \/ (rpc[u].fn \in Giving /\ rpc[u].arg = c)
        BY <1>2, <3>2, <3>3, NotNull DEF Contract, Accounted
      <3>5. CASE rpc[u].ret = c
        <4>1. rpc[u].fn = "VIDDEC3_create" /\ rpc[u].ret # Null
          BY <3>5, Kinds, NotNull DEF Handles
        <4>2. rpc[u].arg = arg
          BY <3>5, <4>1 DEF Contract, Bound
        <4> QED BY <1>5, <3>2, <4>2
      <3>6. CASE rpc[u].arg = c
        <4>1. PidOf(u) = p
          BY <3>2, <3>6, NotNull DEF Contract, CallsOwn
        <4> QED BY <1>1, <3>6, <4>1
      <3> QED BY <3>4, <3>5, <3>6
    <2>2. \A e : BoundTo(e)' = BoundTo(e)
      BY <1>2 DEF BoundTo
    <2> QED BY <1>2, <2>1, <2>2 DEF Contract, Bound
  <1> QED BY <1>6, <1>7, <1>8, <1>9, <1>10, <1>11 DEF Contract

-----------------------------------------------------------------------------
\* The first half of a handler: it may make a handle, or unregister one.
LEMMA Beginning ==
  ASSUME TypeOK, NEW t \in Threads, Begin(t)
  PROVE  \E fn \in Functions, ret \in Handles \cup {Null} :
           /\ Dispatch(t, fn, ret)
           /\ ret \in RetsOf(fn)
           /\ ret = Null => UNCHANGED <<owner, engineOf>>
           /\ ret # Null => /\ owner[ret] = Null
                            /\ owner' = [owner EXCEPT ![ret] = PidOf(t)]
                            /\ engineOf' = IF ret \in Codecs
                                             THEN [engineOf EXCEPT ![ret] = rpc[t].arg]
                                             ELSE engineOf
           /\ fn = "Engine_close" => dce_unregister_engine(PidOf(t), rpc[t].arg)
           /\ fn = "VIDDEC3_delete" => dce_unregister_codec(PidOf(t), rpc[t].arg)
           /\ fn \notin Giving => UNCHANGED clients
  <1> USE NotNull DEF Functions, Handles, Giving, RetsOf, ceVars
  <1>1. CASE rpc_Engine_open_begin(t)
    BY <1>1 DEF rpc_Engine_open_begin
  <1>2. CASE rpc_Engine_close_begin(t)
    BY <1>2 DEF rpc_Engine_close_begin
  <1>3. CASE rpc_VIDDEC3_create_begin(t)
    BY <1>3 DEF rpc_VIDDEC3_create_begin
  <1>4. CASE rpc_VIDDEC3_control_begin(t)
    BY <1>4 DEF rpc_VIDDEC3_control_begin
  <1>5. CASE rpc_VIDDEC3_process_begin(t)
    BY <1>5 DEF rpc_VIDDEC3_process_begin
  <1>6. CASE rpc_VIDDEC3_delete_begin(t)
    BY <1>6 DEF rpc_VIDDEC3_delete_begin
  <1> QED BY <1>1, <1>2, <1>3, <1>4, <1>5, <1>6 DEF Begin

\* A new handle is nobody's: it is neither held nor in a call.
LEMMA NewHandle ==
  ASSUME TypeOK, Contract, NEW h \in Handles, owner[h] = Null
  PROVE  /\ \A p \in Pids : h \notin held[p]
         /\ \A u \in Threads : rpc[u].arg # h /\ rpc[u].ret # h
         /\ \A c \in Codecs : owner[c] # Null => engineOf[c] # h
  BY NotNull DEF Contract, HeldOwn, HeldAreLive, CallsOwn, Bound

LEMMA BeginningContract ==
  ASSUME TypeOK, Contract, NEW t \in Threads, Begin(t)
  PROVE  Contract'
  <1> DEFINE p == PidOf(t)
  <1>1. PICK fn \in Functions, ret \in Handles \cup {Null} :
           /\ Dispatch(t, fn, ret)
           /\ ret \in RetsOf(fn)
           /\ ret = Null => UNCHANGED <<owner, engineOf>>
           /\ ret # Null => /\ owner[ret] = Null
                            /\ owner' = [owner EXCEPT ![ret] = p]
                            /\ engineOf' = IF ret \in Codecs
                                             THEN [engineOf EXCEPT ![ret] = rpc[t].arg]
                                             ELSE engineOf
    BY Beginning
  <1>2. /\ rpc'[t].at = "running" /\ rpc'[t].fn = fn /\ rpc'[t].arg = rpc[t].arg
        /\ rpc'[t].ret = ret
        /\ \A u \in Threads \ {t} : rpc'[u] = rpc[u]
        /\ rpc[t].at = "queued" /\ rpc[t].fn = fn
        /\ UNCHANGED <<proc, held>>
    BY <1>1, Dispatched
  <1>3. p \in Pids /\ p # Null /\ proc[p] = "alive" /\ rpc[t].ret = Null
    BY <1>2, NotNull DEF Contract, CallsOwn
  <1>4. ret # Null =>
          /\ \A q \in Pids : ret \notin held[q]
          /\ \A u \in Threads : rpc[u].arg # ret /\ rpc[u].ret # ret
          /\ \A c \in Codecs : owner[c] # Null => engineOf[c] # ret
    BY <1>1, NewHandle
  <1>5. \A h \in Handles : owner'[h] = IF h = ret THEN p ELSE owner[h]
    BY <1>1, NotNull DEF TypeOK
  <1>6. \A c \in Codecs : engineOf'[c] = IF c = ret THEN rpc[t].arg ELSE engineOf[c]
    BY <1>1, NotNull DEF TypeOK, Handles
  <1> HIDE DEF p
  <1>7. CallsOwn'
    <2> SUFFICES ASSUME NEW u \in Threads
                 PROVE  /\ rpc'[u].at # "idle" => proc'[PidOf(u)] = "alive"
                        /\ rpc'[u].at = "queued" => rpc'[u].ret = Null
                        /\ rpc'[u].arg # Null => owner'[rpc'[u].arg] = PidOf(u)
                        /\ rpc'[u].ret # Null => owner'[rpc'[u].ret] = PidOf(u) /\ rpc'[u].ret \notin held'[PidOf(u)]
                        /\ rpc'[u].fn \in Giving => rpc'[u].arg \notin held'[PidOf(u)]
      BY DEF CallsOwn
    <2>1. rpc[u].arg \in Handles \cup {Null} /\ rpc[u].ret \in Handles \cup {Null}
      BY CallTypes
    <2>2. CASE u = t
      BY <1>2, <1>3, <1>4, <1>5, <2>1, <2>2 DEF Contract, CallsOwn, p
    <2>3. CASE u # t
      BY <1>2, <1>3, <1>4, <1>5, <2>1, <2>3 DEF Contract, CallsOwn
    <2> QED BY <2>2, <2>3
  <1>8. CallsApart'
    BY <1>2, <1>3, <1>4 DEF Contract, CallsApart
  <1>9. Accounted'
    <2> SUFFICES ASSUME NEW h \in Handles, owner'[h] # Null, proc[owner'[h]] = "alive"
                 PROVE  \/ h \in held[owner'[h]]
                        \/ \E u \in Threads : \/ rpc'[u].ret = h
                                              \/ rpc'[u].fn \in Giving /\ rpc'[u].arg = h
      BY <1>2 DEF Accounted
    <2>1. CASE h = ret
      BY <1>2, <2>1
    <2>2. CASE h # ret
      <3>1. owner'[h] = owner[h] /\ h # Null
        BY <1>5, <2>2, NotNull
      <3>2. CASE \E u \in Threads : rpc[u].ret = h \/ (rpc[u].fn \in Giving /\ rpc[u].arg = h)
        <4>1. PICK u \in Threads : rpc[u].ret = h \/ (rpc[u].fn \in Giving /\ rpc[u].arg = h)
          BY <3>2
        <4>2. CASE u = t
          BY <1>2, <1>3, <3>1, <4>1, <4>2
        <4>3. CASE u # t
          BY <1>2, <4>1, <4>3
        <4> QED BY <4>2, <4>3
      <3> QED BY <3>1, <3>2 DEF Contract, Accounted
    <2> QED BY <2>1, <2>2
  <1>10. HeldOwn'
    <2>1. ASSUME NEW q \in Pids, NEW h \in held[q] PROVE owner'[h] = q
      <3>1. h \in Handles /\ owner[h] = q /\ h # Null
        BY NotNull DEF TypeOK, Contract, HeldOwn, HeldAreLive
      <3>2. h # ret
        BY <1>4, <2>1, <3>1
      <3> QED BY <1>5, <3>1, <3>2
    <2> QED BY <1>2, <2>1 DEF Contract, HeldOwn, HeldAreLive
  <1>11. OneEngine'
    <2>1. \A u \in Threads : rpc'[u].fn = rpc[u].fn
      BY <1>2
    <2>2. ASSUME ret \in Engines, NEW f \in Engines PROVE owner[f] # p
      <3> SUFFICES ASSUME owner[f] = p PROVE FALSE
        OBVIOUS
      <3>1. fn = "Engine_open"
        BY <1>1, <2>2, RetKinds
      <3>2. f \notin held[p] /\ f \in Handles /\ f # Null
        BY <1>2, <3>1, NotNull DEF Contract, OneEngine, OpenClose, p, Handles
      <3>3. PICK u \in Threads : rpc[u].ret = f \/ (rpc[u].fn \in Giving /\ rpc[u].arg = f)
        BY <1>3, <3>2 DEF Contract, Accounted
      <3>4. PidOf(u) = p
        BY <3>2, <3>3 DEF Contract, CallsOwn
      <3>5. rpc[u].fn \in OpenClose /\ u # t
        BY <1>2, <1>3, <3>1, <3>2, <3>3, Kinds, NotNull DEF OpenClose, Giving
      <3> QED BY <1>2, <3>1, <3>4, <3>5 DEF Contract, OneEngine, OpenClose, p
    <2>3. \A e, f \in Engines : owner'[e] # Null /\ owner'[e] = owner'[f] => e = f
      BY <1>5, <2>2 DEF Contract, OneEngine, Handles
    <2> QED BY <1>2, <2>1, <2>3 DEF Contract, OneEngine
  <1>12. Bound'
    <2>1. ret \in Codecs => fn = "VIDDEC3_create" /\ rpc[t].arg \in Engines /\ owner[rpc[t].arg] = p
      <3>1. ret \in Codecs => fn = "VIDDEC3_create"
        BY <1>1, RetKinds
      <3>2. rpc[t].fn = "VIDDEC3_create" => rpc[t].arg \in Engines
        BY Kinds
      <3>3. rpc[t].arg \in Engines => rpc[t].arg # Null
        BY NotNull DEF Handles
      <3>4. rpc[t].arg # Null => owner[rpc[t].arg] = p
        BY DEF Contract, CallsOwn, p
      <3> QED BY <1>2, <3>1, <3>2, <3>3, <3>4
    <2>2. ASSUME NEW c \in Codecs, owner'[c] # Null
          PROVE  engineOf'[c] \in Engines /\ owner'[engineOf'[c]] = owner'[c]
      <3>1. CASE c = ret
        <4>1. engineOf'[c] = rpc[t].arg /\ rpc[t].arg \in Engines /\ owner[rpc[t].arg] = p
          BY <1>6, <2>1, <3>1
        <4>2. rpc[t].arg \in Handles /\ c \in Handles /\ owner'[c] = p
          BY <1>5, <3>1, <4>1 DEF Handles
        <4>3. owner'[rpc[t].arg] = p
          BY <1>5, <4>1, <4>2
        <4> QED BY <4>1, <4>2, <4>3
      <3>2. CASE c # ret
        <4>1. owner'[c] = owner[c] /\ engineOf'[c] = engineOf[c]
          BY <1>5, <1>6, <3>2 DEF Handles
        <4>2. engineOf[c] \in Engines /\ owner[engineOf[c]] = owner[c]
          BY <2>2, <4>1 DEF Contract, Bound
        <4>3. engineOf[c] # ret \/ ret = Null
          BY <1>4, <2>2, <4>1
        <4>4. owner'[engineOf[c]] = owner[engineOf[c]]
          BY <1>5, <4>2, <4>3, NotNull DEF Handles
        <4> QED BY <4>1, <4>2, <4>4
      <3> QED BY <3>1, <3>2
    <2>3. ASSUME NEW u \in Threads, rpc[u].fn = "Engine_close", NEW c \in Codecs,
                 owner'[c] # Null, engineOf'[c] = rpc[u].arg
          PROVE  FALSE
      <3>1. rpc[u].arg # Null
        BY <2>3, Kinds, NotNull DEF Handles
      <3>2. CASE c = ret
        <4>1. u # t
          BY <1>2, <2>1, <2>3, <3>2
        <4>2. engineOf'[c] = rpc[t].arg
          BY <1>6, <3>2
        <4>3. rpc[u].arg = rpc[t].arg
          BY <2>3, <4>2
        <4> QED BY <3>1, <4>1, <4>3 DEF Contract, CallsApart
      <3>3. CASE c # ret
        <4>1. owner[c] # Null /\ engineOf[c] = rpc[u].arg
          BY <1>5, <1>6, <2>3, <3>3 DEF Handles
        <4> QED BY <2>3, <4>1 DEF Contract, Bound, BoundTo
      <3> QED BY <3>2, <3>3
    <2>4. ASSUME NEW u \in Threads, rpc'[u].fn = "VIDDEC3_create", rpc'[u].ret # Null
          PROVE  engineOf'[rpc'[u].ret] = rpc'[u].arg
      <3>1. CASE u = t
        <4>1. ret \in Codecs
          BY <1>1, <1>2, <2>4, <3>1 DEF RetsOf
        <4> QED BY <1>2, <1>6, <3>1, <4>1
      <3>2. CASE u # t
        <4>1. rpc[u].ret \in Codecs /\ rpc[u].ret # ret
          BY <1>2, <1>4, <2>4, <3>2, Kinds
        <4> QED BY <1>2, <1>6, <2>4, <3>2, <4>1 DEF Contract, Bound
      <3> QED BY <3>1, <3>2
    <2>5. \A u \in Threads : rpc'[u].fn = rpc[u].fn /\ rpc'[u].arg = rpc[u].arg
      BY <1>2
    <2> QED BY <2>2, <2>3, <2>4, <2>5 DEF Bound, BoundTo
  <1> QED BY <1>7, <1>8, <1>9, <1>10, <1>11, <1>12 DEF Contract

-----------------------------------------------------------------------------
\* The second half of a handler: a new handle is registered and handed over,
\* one given back is destroyed.
LEMMA Ending ==
  ASSUME TypeOK, NEW t \in Threads, End(t)
  PROVE  \E fn \in Functions :
           /\ Reply(t, fn)
           /\ fn \in Giving => Destroyed(rpc[t].arg)
           /\ fn \notin Giving => UNCHANGED <<owner, engineOf>>
           /\ fn = "Engine_open" /\ rpc[t].ret # Null => dce_register_engine(PidOf(t), rpc[t].ret)
           /\ fn = "VIDDEC3_create" /\ rpc[t].ret # Null => dce_register_codec(PidOf(t), rpc[t].ret)
           /\ rpc[t].ret = Null => UNCHANGED clients
  <1> USE DEF Functions, Giving, ceVars
  <1>1. CASE rpc_Engine_open_end(t)
    BY <1>1 DEF rpc_Engine_open_end
  <1>2. CASE rpc_Engine_close_end(t)
    BY <1>2 DEF rpc_Engine_close_end
  <1>3. CASE rpc_VIDDEC3_create_end(t)
    BY <1>3 DEF rpc_VIDDEC3_create_end
  <1>4. CASE rpc_VIDDEC3_control_end(t)
    BY <1>4 DEF rpc_VIDDEC3_control_end
  <1>5. CASE rpc_VIDDEC3_process_end(t)
    BY <1>5 DEF rpc_VIDDEC3_process_end
  <1>6. CASE rpc_VIDDEC3_delete_end(t)
    BY <1>6 DEF rpc_VIDDEC3_delete_end
  <1> QED BY <1>1, <1>2, <1>3, <1>4, <1>5, <1>6 DEF End

LEMMA DestroyedFields ==
  ASSUME TypeOK, NEW h, Destroyed(h)
  PROVE  /\ \A x \in Handles : owner'[x] = IF x = h THEN Null ELSE owner[x]
         /\ \A c \in Codecs : engineOf'[c] = IF c = h THEN Null ELSE engineOf[c]
  BY DEF Destroyed, TypeOK

\* A handle that its owner gives back is destroyed: nothing refers to it.
LEMMA GoneBound ==
  ASSUME TypeOK, Bound, NEW gone \in Handles \cup {Null},
         gone \in Engines => BoundTo(gone) = {},
         \A x \in Handles : owner'[x] = IF x = gone THEN Null ELSE owner[x],
         \A c \in Codecs : engineOf'[c] = IF c = gone THEN Null ELSE engineOf[c]
  PROVE  /\ \A c \in Codecs : owner'[c] # Null => /\ engineOf'[c] \in Engines
                                                 /\ owner'[engineOf'[c]] = owner'[c]
         /\ \A e \in Engines : BoundTo(e) = {} => BoundTo(e)' = {}
  <1>1. ASSUME NEW c \in Codecs, owner'[c] # Null
        PROVE  /\ engineOf'[c] \in Engines
               /\ owner'[engineOf'[c]] = owner'[c]
    <2>1. c # gone /\ owner'[c] = owner[c] /\ engineOf'[c] = engineOf[c]
      BY <1>1 DEF Handles
    <2>2. engineOf[c] \in Engines /\ owner[engineOf[c]] = owner[c]
      BY <1>1, <2>1 DEF Bound
    <2>3. engineOf[c] # gone
      BY <1>1, <2>1, <2>2 DEF BoundTo
    <2> QED BY <2>1, <2>2, <2>3 DEF Handles
  <1>2. ASSUME NEW e \in Engines, BoundTo(e) = {}, NEW c \in Codecs,
               owner'[c] # Null, engineOf'[c] = e
        PROVE  FALSE
    <2>1. c # gone /\ owner'[c] = owner[c] /\ engineOf'[c] = engineOf[c]
      BY <1>2 DEF Handles
    <2> QED BY <1>2, <2>1 DEF BoundTo
  <1> QED BY <1>1, <1>2 DEF BoundTo

LEMMA EndingContract ==
  ASSUME TypeOK, Contract, NEW t \in Threads, End(t)
  PROVE  Contract'
  <1> DEFINE p == PidOf(t)
             ret == rpc[t].ret
             gone == IF rpc[t].fn \in Giving THEN rpc[t].arg ELSE Null
  <1>1. PICK fn \in Functions :
           /\ Reply(t, fn)
           /\ fn \in Giving => Destroyed(rpc[t].arg)
           /\ fn \notin Giving => UNCHANGED <<owner, engineOf>>
    BY Ending
  <1>2. /\ rpc'[t] = NoCall /\ rpc'[t].at = "idle" /\ rpc'[t].fn = "none"
        /\ rpc'[t].arg = Null /\ rpc'[t].ret = Null
        /\ \A u \in Threads \ {t} : rpc'[u] = rpc[u]
        /\ rpc[t].at = "running" /\ rpc[t].fn = fn
        /\ UNCHANGED proc
    BY <1>1, Replied
  <1>3. p \in Pids /\ p # Null /\ proc[p] = "alive"
    BY <1>2, NotNull DEF Contract, CallsOwn
  <1>4. /\ \A x \in Handles : owner'[x] = IF x = gone THEN Null ELSE owner[x]
        /\ \A c \in Codecs : engineOf'[c] = IF c = gone THEN Null ELSE engineOf[c]
    <2>1. CASE fn \in Giving
      BY <1>1, <1>2, <2>1, DestroyedFields
    <2>2. CASE fn \notin Giving
      BY <1>1, <1>2, <2>2, NotNull DEF Handles
    <2> QED BY <2>1, <2>2
  <1>5. /\ ret \in Handles \cup {Null} /\ gone \in Handles \cup {Null}
        /\ ret # Null => gone = Null
        /\ gone \in Engines => rpc[t].fn = "Engine_close"
        /\ ret \in Engines => rpc[t].fn = "Engine_open"
    <2>1. ret # Null => rpc[t].fn \notin Giving
      BY Kinds DEF Giving
    <2>2. gone \in Engines => rpc[t].fn = "Engine_close"
      <3>1. rpc[t].fn = "VIDDEC3_delete" => rpc[t].arg \notin Engines
        BY Kinds, NotNull
      <3> QED BY <3>1, NotNull DEF Giving, Handles
    <2>3. ret \in Engines => rpc[t].fn = "Engine_open"
      BY Kinds
    <2>4. ret \in Handles \cup {Null} /\ gone \in Handles \cup {Null}
      BY CallTypes
    <2> QED BY <2>1, <2>2, <2>3, <2>4
  <1>6. gone # Null => /\ gone = rpc[t].arg /\ owner[gone] = p /\ gone \notin held[p]
                       /\ \A u \in Threads \ {t} : rpc[u].arg # gone /\ rpc[u].ret # gone
    BY <1>3 DEF Contract, CallsOwn, CallsApart
  <1>7. ret # Null => /\ owner[ret] = p
                      /\ \A u \in Threads \ {t} : rpc[u].arg # ret /\ rpc[u].ret # ret
    BY <1>3 DEF Contract, CallsOwn, CallsApart
  <1>8. \A q \in Pids : held'[q] = IF q = p /\ ret # Null THEN held[q] \cup {ret} ELSE held[q]
    BY <1>1, <1>3 DEF Reply, TypeOK
  <1>9. gone \in Engines => BoundTo(gone) = {}
    BY <1>5, <1>6, NotNull DEF Contract, Bound, Handles
  <1> HIDE DEF p, ret, gone
  <1>10. CallsOwn'
    <2> SUFFICES ASSUME NEW u \in Threads
                 PROVE  /\ rpc'[u].at # "idle" => proc'[PidOf(u)] = "alive"
                        /\ rpc'[u].at = "queued" => rpc'[u].ret = Null
                        /\ rpc'[u].arg # Null => owner'[rpc'[u].arg] = PidOf(u)
                        /\ rpc'[u].ret # Null => owner'[rpc'[u].ret] = PidOf(u) /\ rpc'[u].ret \notin held'[PidOf(u)]
                        /\ rpc'[u].fn \in Giving => rpc'[u].arg \notin held'[PidOf(u)]
      BY DEF CallsOwn
    <2>1. CASE u = t
      BY <1>2, <2>1 DEF Giving
    <2>2. CASE u # t
      <3>1. /\ rpc[u].arg \in Handles \cup {Null} /\ rpc[u].ret \in Handles \cup {Null}
            /\ rpc'[u] = rpc[u] /\ PidOf(u) \in Pids
        BY <1>2, <2>2, CallTypes, NotNull
      <3>2. rpc[u].fn \in Giving => rpc[u].arg # Null
        BY Kinds, NotNull DEF Giving, Handles
      <3>3. rpc[u].arg # Null => owner'[rpc[u].arg] = PidOf(u)
        BY <1>4, <1>6, <2>2, <3>1 DEF Contract, CallsOwn
      <3>4. ASSUME rpc[u].ret # Null
            PROVE  owner'[rpc[u].ret] = PidOf(u) /\ rpc[u].ret \notin held'[PidOf(u)]
        <4>1. owner[rpc[u].ret] = PidOf(u) /\ rpc[u].ret \notin held[PidOf(u)]
          BY <3>4 DEF Contract, CallsOwn
        <4>2. rpc[u].ret # gone /\ rpc[u].ret # ret
          BY <1>6, <1>7, <2>2, <3>4
        <4>3. owner'[rpc[u].ret] = PidOf(u)
          BY <1>4, <3>1, <3>4, <4>1, <4>2
        <4>4. rpc[u].ret \notin held'[PidOf(u)]
          BY <1>8, <3>1, <4>1, <4>2
        <4> QED BY <4>3, <4>4
      <3>5. ASSUME rpc[u].fn \in Giving PROVE rpc[u].arg \notin held'[PidOf(u)]
        <4>1. rpc[u].arg \notin held[PidOf(u)]
          BY <3>5 DEF Contract, CallsOwn
        <4>2. rpc[u].arg # ret
          BY <1>7, <2>2, <3>2, <3>5
        <4> QED BY <1>8, <3>1, <4>1, <4>2
      <3> QED BY <1>2, <3>1, <3>3, <3>4, <3>5 DEF Contract, CallsOwn
    <2> QED BY <2>1, <2>2
  <1>11. CallsApart'
    BY <1>2 DEF Contract, CallsApart
  <1>12. Accounted'
    <2> SUFFICES ASSUME NEW h \in Handles, owner'[h] # Null, proc[owner'[h]] = "alive"
                 PROVE  \/ h \in held'[owner'[h]]
                        \/ \E u \in Threads : \/ rpc'[u].ret = h
                                              \/ rpc'[u].fn \in Giving /\ rpc'[u].arg = h
      BY <1>2 DEF Accounted
    <2>1. h # gone /\ owner'[h] = owner[h] /\ owner[h] \in Pids /\ h # Null
      BY <1>4, NotNull DEF TypeOK
    <2>2. CASE h \in held[owner[h]]
      BY <1>8, <2>1, <2>2
    <2>3. CASE \E u \in Threads : rpc[u].ret = h \/ (rpc[u].fn \in Giving /\ rpc[u].arg = h)
      <3>1. PICK u \in Threads : rpc[u].ret = h \/ (rpc[u].fn \in Giving /\ rpc[u].arg = h)
        BY <2>3
      <3>2. CASE u = t
        <4>1. h = ret
          BY <2>1, <3>1, <3>2 DEF gone, ret
        <4> QED BY <1>3, <1>7, <1>8, <2>1, <4>1
      <3>3. CASE u # t
        BY <1>2, <3>1, <3>3
      <3> QED BY <3>2, <3>3
    <2> QED BY <2>1, <2>2, <2>3 DEF Contract, Accounted
  <1>13. HeldOwn'
    <2>1. ASSUME NEW q \in Pids, NEW h \in held'[q] PROVE owner'[h] = q
      <3>1. CASE h \in held[q]
        <4>1. h \in Handles /\ owner[h] = q /\ h # Null
          BY <3>1, NotNull DEF TypeOK, Contract, HeldOwn, HeldAreLive
        <4>2. h # gone
          BY <1>6, <3>1, <4>1
        <4> QED BY <1>4, <4>1, <4>2
      <3>2. CASE h \notin held[q]
        <4>1. q = p /\ ret # Null /\ h = ret
          BY <1>8, <2>1, <3>2
        <4> QED BY <1>4, <1>5, <1>7, <4>1
      <3> QED BY <3>1, <3>2
    <2>2. ASSUME NEW q \in Pids, proc'[q] # "alive" PROVE held'[q] = {}
      BY <1>2, <1>3, <1>8, <2>2 DEF Contract, HeldOwn
    <2> QED BY <2>1, <2>2 DEF HeldOwn, HeldAreLive
  <1>14. OneEngine'
    <2>1. ret \in Engines => held[p] \cap Engines = {} /\ rpc[t].fn \in OpenClose
      BY <1>5 DEF Contract, OneEngine, OpenClose, p
    <2>2. \A q \in Pids : held'[q] \cap Engines =
            IF q = p /\ ret \in Engines THEN {ret} ELSE held[q] \cap Engines
      BY <1>8, <2>1, NotNull DEF Handles
    <2>3. \A q \in Pids : \A e, f \in held'[q] \cap Engines : e = f
      BY <2>2 DEF Contract, OneEngine
    <2>4. \A u \in Threads : rpc'[u].fn \in OpenClose => u # t /\ rpc'[u].fn = rpc[u].fn
      BY <1>2 DEF OpenClose
    <2>5. ASSUME NEW u \in Threads, rpc'[u].fn \in OpenClose
          PROVE  held'[PidOf(u)] \cap Engines = {}
      <3>1. u # t /\ rpc[u].fn \in OpenClose /\ PidOf(u) \in Pids
        BY <2>4, <2>5, NotNull
      <3>2. ~(PidOf(u) = p /\ ret \in Engines)
        BY <2>1, <3>1 DEF Contract, OneEngine, p
      <3> QED BY <2>2, <3>1, <3>2 DEF Contract, OneEngine
    <2>6. \A e, f \in Engines : owner'[e] # Null /\ owner'[e] = owner'[f] => e = f
      BY <1>4 DEF Contract, OneEngine, Handles
    <2> QED BY <2>3, <2>4, <2>5, <2>6 DEF Contract, OneEngine
  <1>15. Bound'
    <2>1. /\ \A c \in Codecs : owner'[c] # Null => /\ engineOf'[c] \in Engines
                                                  /\ owner'[engineOf'[c]] = owner'[c]
          /\ \A e \in Engines : BoundTo(e) = {} => BoundTo(e)' = {}
      BY <1>4, <1>5, <1>9, GoneBound DEF Contract
    <2>2. ASSUME NEW u \in Threads, rpc'[u].fn = "Engine_close"
          PROVE  (BoundTo(rpc[u].arg) = {})'
      <3>1. u # t /\ rpc'[u] = rpc[u]
        BY <1>2, <2>2
      <3>2. rpc[u].arg \in Engines /\ BoundTo(rpc[u].arg) = {}
        BY <2>2, <3>1, Kinds DEF Contract, Bound
      <3>3. (BoundTo(rpc[u].arg))' = {c \in Codecs : owner'[c] # Null /\ engineOf'[c] = rpc[u].arg}
        BY <3>1 DEF BoundTo
      <3>4. \A e \in Engines : BoundTo(e) = {} => {c \in Codecs : owner'[c] # Null /\ engineOf'[c] = e} = {}
        BY <2>1 DEF BoundTo
      <3> QED BY <3>2, <3>3, <3>4
    <2>3. ASSUME NEW u \in Threads, rpc'[u].fn = "VIDDEC3_create", rpc'[u].ret # Null
          PROVE  engineOf'[rpc'[u].ret] = rpc'[u].arg
      <3>1. u # t /\ rpc'[u] = rpc[u]
        BY <1>2, <2>3
      <3>2. rpc[u].ret \in Codecs /\ engineOf[rpc[u].ret] = rpc[u].arg
        BY <2>3, <3>1, Kinds DEF Contract, Bound
      <3>3. rpc[u].ret # gone
        BY <1>6, <2>3, <3>1
      <3>4. \A c \in Codecs : c # gone => engineOf'[c] = engineOf[c]
        BY <1>4
      <3>5. engineOf'[rpc[u].ret] = engineOf[rpc[u].ret]
        BY <3>2, <3>3, <3>4
      <3> QED BY <3>1, <3>2, <3>5
    <2> QED BY <2>1, <2>2, <2>3 DEF Bound, BoundTo
  <1> QED BY <1>10, <1>11, <1>12, <1>13, <1>14, <1>15 DEF Contract

-----------------------------------------------------------------------------
\* A process dies with no call of its own under way; a pid comes back when
\* nothing is owned under it.
LEMMA CrashContract ==
  ASSUME TypeOK, Limits, Contract, NEW p \in Pids, Crash(p)
  PROVE  Contract'
  <1>1. /\ \A q \in Pids : proc'[q] = IF q = p THEN "obit" ELSE proc[q]
        /\ \A q \in Pids : held'[q] = IF q = p THEN {} ELSE held[q]
        /\ UNCHANGED <<rpc, owner, engineOf>>
    BY DEF Crash, TypeOK, ceVars
  <1>2. \A t \in Threads : PidOf(t) = p => rpc[t] = NoCall
    BY DEF Crash, Limits
  <1>3. \A q \in Pids : held'[q] \subseteq held[q]
    BY <1>1
  <1>4. CallsOwn'
    <2> SUFFICES ASSUME NEW u \in Threads
                 PROVE  /\ rpc[u].at # "idle" => proc'[PidOf(u)] = "alive"
                        /\ rpc[u].ret # Null => rpc[u].ret \notin held'[PidOf(u)]
                        /\ rpc[u].fn \in Giving => rpc[u].arg \notin held'[PidOf(u)]
      BY <1>1 DEF Contract, CallsOwn
    <2>1. PidOf(u) \in Pids
      BY NotNull
    <2>2. rpc[u].at # "idle" => PidOf(u) # p
      BY <1>2 DEF NoCall
    <2> QED BY <1>1, <1>3, <2>1, <2>2 DEF Contract, CallsOwn
  <1>5. CallsApart'
    BY <1>1 DEF Contract, CallsApart
  <1>6. Accounted'
    <2> SUFFICES ASSUME NEW h \in Handles, owner[h] # Null, proc'[owner[h]] = "alive"
                 PROVE  \/ h \in held'[owner[h]]
                        \/ \E u \in Threads : \/ rpc[u].ret = h
                                              \/ rpc[u].fn \in Giving /\ rpc[u].arg = h
      BY <1>1 DEF Accounted
    <2>1. owner[h] \in Pids /\ owner[h] # p
      BY <1>1 DEF TypeOK
    <2> QED BY <1>1, <2>1 DEF Contract, Accounted
  <1>7. HeldOwn'
    BY <1>1 DEF Contract, HeldOwn, HeldAreLive
  <1>8. OneEngine'
    <2>1. \A q \in Pids : held'[q] \cap Engines \subseteq held[q] \cap Engines
      BY <1>3
    <2> QED BY <1>1, <2>1, NotNull DEF Contract, OneEngine
  <1>9. Bound'
    BY <1>1 DEF Contract, Bound, BoundTo
  <1> QED BY <1>4, <1>5, <1>6, <1>7, <1>8, <1>9 DEF Contract

LEMMA RespawnContract ==
  ASSUME TypeOK, Contract, DeadOwnNothing, NEW p \in Pids, Respawn(p)
  PROVE  Contract'
  <1>1. /\ \A q \in Pids : proc'[q] = IF q = p THEN "alive" ELSE proc[q]
        /\ \A h \in Handles : owner[h] # p
        /\ UNCHANGED <<rpc, held, owner, engineOf>>
    BY DEF Respawn, TypeOK, ceVars, callVars, DeadOwnNothing
  <1>2. CallsOwn'
    BY <1>1, NotNull DEF Contract, CallsOwn
  <1>3. Accounted'
    BY <1>1 DEF Contract, Accounted, TypeOK
  <1>4. HeldOwn'
    BY <1>1 DEF Contract, HeldOwn, HeldAreLive
  <1>5. CallsApart' /\ OneEngine' /\ Bound'
    BY <1>1 DEF Contract, CallsApart, OneEngine, Bound, BoundTo
  <1> QED BY <1>2, <1>3, <1>4, <1>5 DEF Contract

\* The cleanup of a dead process concerns no living one.
LEMMA StillContract ==
  ASSUME TypeOK, Contract, UNCHANGED <<rpc, held, owner, engineOf>>,
         \A q \in Pids : proc'[q] = "alive" <=> proc[q] = "alive"
  PROVE  Contract'
  <1>1. CallsOwn'
    BY NotNull DEF Contract, CallsOwn
  <1>2. Accounted'
    BY DEF Contract, Accounted, TypeOK
  <1>3. HeldOwn'
    BY DEF Contract, HeldOwn, HeldAreLive
  <1>4. CallsApart' /\ OneEngine' /\ Bound'
    BY DEF Contract, CallsApart, OneEngine, Bound, BoundTo
  <1> QED BY <1>1, <1>2, <1>3, <1>4 DEF Contract

\* What the cleanup destroys is a dead client's, which no call refers to.
LEMMA CleanupDestroys ==
  ASSUME TypeOK, Contract, Cleaning, cleanup_ce_returns
  PROVE  /\ cb.busy \in Handles /\ cb.busy # Null
         /\ cb.pid \in Pids /\ proc[cb.pid] = "obit" /\ owner[cb.busy] = cb.pid
         /\ \A u \in Threads : rpc[u].arg # cb.busy /\ rpc[u].ret # cb.busy
         /\ \A q \in Pids : cb.busy \notin held[q]
         /\ cb.busy \in Engines => BoundTo(cb.busy) = {}
         /\ \A x \in Handles : owner'[x] = IF x = cb.busy THEN Null ELSE owner[x]
         /\ \A c \in Codecs : engineOf'[c] = IF c = cb.busy THEN Null ELSE engineOf[c]
         /\ UNCHANGED <<proc, rpc, held, clients>>
  <1>1. cb.busy \in Handles /\ cb.busy # Null
    BY DEF cleanup_ce_returns, TypeOK, Cleanups
  <1>2. cb.pid \in Pids /\ proc[cb.pid] = "obit" /\ owner[cb.busy] = cb.pid
    BY <1>1 DEF Cleaning
  <1>3. \A u \in Threads : PidOf(u) = cb.pid => rpc[u].at = "idle"
    BY <1>2 DEF Contract, CallsOwn
  <1>4. \A u \in Threads : rpc[u].arg # cb.busy /\ rpc[u].ret # cb.busy
    BY <1>1, <1>2, <1>3, CallTypes DEF Contract, CallsOwn
  <1>5. \A q \in Pids : cb.busy \notin held[q]
    BY <1>2 DEF Contract, HeldOwn, HeldAreLive
  <1>6. ASSUME cb.busy \in Engines PROVE BoundTo(cb.busy) = {}
    <2>1. cb.in = "engines"
      BY <1>1, <1>6 DEF Cleaning, TypeOK, Cleanups
    <2>2. \A c \in Codecs : owner[c] # cb.pid
      BY <2>1 DEF Cleaning
    <2> QED BY <1>2, <2>2 DEF BoundTo, Contract, Bound
  <1>7. /\ \A x \in Handles : owner'[x] = IF x = cb.busy THEN Null ELSE owner[x]
        /\ \A c \in Codecs : engineOf'[c] = IF c = cb.busy THEN Null ELSE engineOf[c]
    BY DestroyedFields DEF cleanup_ce_returns
  <1> QED BY <1>1, <1>2, <1>4, <1>5, <1>6, <1>7 DEF cleanup_ce_returns, cleanupUnchanged

LEMMA CleaningContract ==
  ASSUME TypeOK, Contract, Cleaning, dce_cleanup_cb
  PROVE  Contract'
  <1>1. CASE ~cleanup_ce_returns
    <2>1. UNCHANGED <<rpc, held, owner, engineOf>>
      BY <1>1 DEF dce_cleanup_cb, CleanupLoops, cleanup_start, cleanup_delete_codec,
          cleanup_codecs_done, cleanup_close_engine, cleanup_end, cleanupUnchanged, ceVars
    <2>2. \/ UNCHANGED proc
          \/ \E p \in Pids : proc[p] = "obit" /\ proc' = [proc EXCEPT ![p] = "dead"]
      BY <1>1 DEF dce_cleanup_cb, CleanupLoops, cleanup_start, cleanup_delete_codec,
          cleanup_codecs_done, cleanup_close_engine, cleanup_end, Cleaning
    <2>3. \A q \in Pids : proc'[q] = "alive" <=> proc[q] = "alive"
      BY <2>2 DEF TypeOK
    <2> QED BY <2>1, <2>3, StillContract
  <1>2. CASE cleanup_ce_returns
    <2> DEFINE gone == cb.busy
    <2>1. /\ gone \in Handles /\ gone # Null
          /\ cb.pid \in Pids /\ proc[cb.pid] = "obit" /\ owner[gone] = cb.pid
          /\ \A u \in Threads : rpc[u].arg # gone /\ rpc[u].ret # gone
          /\ \A q \in Pids : gone \notin held[q]
          /\ gone \in Engines => BoundTo(gone) = {}
          /\ \A x \in Handles : owner'[x] = IF x = gone THEN Null ELSE owner[x]
          /\ \A c \in Codecs : engineOf'[c] = IF c = gone THEN Null ELSE engineOf[c]
          /\ UNCHANGED <<proc, rpc, held>>
      BY <1>2, CleanupDestroys
    <2> HIDE DEF gone
    <2>2. CallsOwn'
      <3>1. \A u \in Threads : /\ rpc[u].arg # Null => owner'[rpc[u].arg] = owner[rpc[u].arg]
                               /\ rpc[u].ret # Null => owner'[rpc[u].ret] = owner[rpc[u].ret]
        BY <2>1, CallTypes
      <3> QED BY <2>1, <3>1 DEF Contract, CallsOwn
    <2>3. Accounted'
      BY <2>1 DEF Contract, Accounted
    <2>4. HeldOwn'
      BY <2>1 DEF Contract, HeldOwn, HeldAreLive, TypeOK
    <2>5. CallsApart'
      BY <2>1 DEF Contract, CallsApart
    <2>6. OneEngine'
      <3>1. \A e, f \in Engines : owner'[e] # Null /\ owner'[e] = owner'[f] => e = f
        BY <2>1 DEF Contract, OneEngine, Handles
      <3> QED BY <2>1, <3>1 DEF Contract, OneEngine
    <2>7. Bound'
      <3>1. /\ \A c \in Codecs : owner'[c] # Null => /\ engineOf'[c] \in Engines
                                                    /\ owner'[engineOf'[c]] = owner'[c]
            /\ \A e \in Engines : BoundTo(e) = {} => BoundTo(e)' = {}
        BY <2>1, GoneBound DEF Contract
      <3>2. ASSUME NEW u \in Threads, rpc[u].fn = "Engine_close"
            PROVE  {c \in Codecs : owner'[c] # Null /\ engineOf'[c] = rpc[u].arg} = {}
        <4>1. rpc[u].arg \in Engines /\ BoundTo(rpc[u].arg) = {}
          BY <3>2, Kinds DEF Contract, Bound
        <4>2. \A e \in Engines : BoundTo(e) = {} => {c \in Codecs : owner'[c] # Null /\ engineOf'[c] = e} = {}
          BY <3>1 DEF BoundTo
        <4> QED BY <4>1, <4>2
      <3>3. ASSUME NEW u \in Threads, rpc[u].fn = "VIDDEC3_create", rpc[u].ret # Null
            PROVE  engineOf'[rpc[u].ret] = rpc[u].arg
        <4>1. rpc[u].ret \in Codecs /\ rpc[u].ret # gone
          BY <2>1, <3>3, Kinds
        <4>2. engineOf'[rpc[u].ret] = engineOf[rpc[u].ret]
          BY <2>1, <4>1
        <4> QED BY <3>3, <4>2 DEF Contract, Bound
      <3> QED BY <2>1, <3>1, <3>2, <3>3 DEF Bound, BoundTo
    <2> QED BY <2>2, <2>3, <2>4, <2>5, <2>6, <2>7 DEF Contract
  <1> QED BY <1>1, <1>2

-----------------------------------------------------------------------------
\* The tables of the registry

\* The entry that a scan replaces holds what it looked for.
LEMMA ReplaceHit ==
  ASSUME NEW table \in CodecTable, NEW old, NEW new,
         \E i \in 1..NumCodecs : table[i] = old
  PROVE  \E i \in 1..NumCodecs :
           /\ table[i] = old
           /\ \A j \in 1..NumCodecs :
                ReplaceFirst(table, old, new)[j] = IF j = i THEN new ELSE table[j]
  <1> DEFINE hits == {i \in DOMAIN table : table[i] = old}
             first == CHOOSE i \in hits : \A j \in hits : i <= j
  <1>1. hits # {} /\ hits \subseteq 1..NumCodecs /\ hits \subseteq Nat
    BY DEF CodecTable
  <1>2. PICK i \in hits : \A j \in hits : ~(<<j, i>> \in OpToRel(<, Nat))
    <2> HIDE DEF hits
    <2> QED BY <1>1, WFMin, NatLessThanWellFounded
  <1>3. \A j \in hits : i <= j
    <2> SUFFICES ASSUME NEW j \in hits, ~(i <= j) PROVE FALSE
      OBVIOUS
    <2>1. i \in Nat /\ j \in Nat /\ j < i
      BY <1>1
    <2>2. <<j, i>> \in OpToRel(<, Nat)
      BY <2>1 DEF OpToRel
    <2> QED BY <1>2, <2>2
  <1>4. first \in hits
    <2> HIDE DEF hits
    <2> QED BY <1>2, <1>3
  <1>5. ReplaceFirst(table, old, new) = [table EXCEPT ![first] = new]
    BY <1>1 DEF ReplaceFirst
  <1> HIDE DEF first
  <1> QED BY <1>1, <1>4, <1>5 DEF CodecTable

\* The fields of a slot that an operation of the registry writes.
LEMMA SlotFields ==
  ASSUME NEW pid, NEW refs, NEW engines, NEW codecs
  PROVE  /\ Slot(pid, refs, engines, codecs).pid = pid
         /\ Slot(pid, refs, engines, codecs).refs = refs
         /\ Slot(pid, refs, engines, codecs).engines = engines
         /\ Slot(pid, refs, engines, codecs).codecs = codecs
  BY DEF Slot

\* A client has one slot, the one get_client returns.
LEMMA OwnSlot ==
  ASSUME TypeOK, OneSlotPerPid, NEW p \in Pids, NEW s \in Slots, clients[s].pid = p
  PROVE  /\ ~no_client(p)
         /\ \A u \in Slots : get_client(p, u) => u = s
         /\ \A h : Listed(h, p) <=> h \in Tracked(s)
  BY NotNull DEF OneSlotPerPid, no_client, get_client, Listed

\* What a slot lists, by its tables.
LEMMA TrackedTables ==
  ASSUME TypeOK, NEW s \in Slots
  PROVE  /\ clients[s].engines \in EngineTable /\ clients[s].codecs \in CodecTable
         /\ clients[s].refs \in Int /\ clients[s].pid \in Pids \cup {Null}
         /\ Tracked(s) \subseteq Handles
         /\ \A c \in Codecs : c \in Tracked(s) <=> \E i \in 1..NumCodecs : clients[s].codecs[i] = c
         /\ \A e \in Engines : e \in Tracked(s) <=> \E i \in 1..NumEngines : clients[s].engines[i] = e
  <1>1. /\ clients[s].engines \in EngineTable /\ clients[s].codecs \in CodecTable
        /\ clients[s].refs \in Int /\ clients[s].pid \in Pids \cup {Null}
    BY FieldTypes DEF TypeOK
  <1> QED BY <1>1, NotNull DEF Tracked, Handles

\* The engine of a slot in use is at the head of its table.
LEMMA HeadEngine ==
  ASSUME TypeOK, SlotShape, NEW s \in Slots
  PROVE  /\ clients[s].pid # Null => clients[s].engines[1] \in Engines \cap Tracked(s)
         /\ \A e \in Engines \cap Tracked(s) : clients[s].engines[1] = e
         /\ clients[s].pid = Null => Tracked(s) = {}
  <1>1. 1 \in 1..NumEngines
    BY RegistryAssumption
  <1>2. clients[s].engines[1] \in Engines \cup {Null}
    BY <1>1, TrackedTables DEF EngineTable
  <1>3. clients[s].pid # Null => clients[s].engines[1] \in Engines \cap Tracked(s)
    BY <1>1, <1>2, TrackedTables DEF SlotShape
  <1>4. \A e \in Engines \cap Tracked(s) : clients[s].engines[1] = e
    BY TrackedTables, NotNull DEF SlotShape, Handles
  <1>5. clients[s].pid = Null => \A c \in Codecs : c \notin Tracked(s)
    BY TrackedTables, NotNull DEF SlotShape, Handles
  <1>6. clients[s].pid = Null => \A e \in Engines : e \notin Tracked(s)
    BY <1>4, NotNull DEF SlotShape, Handles
  <1> QED BY <1>3, <1>4, <1>5, <1>6, TrackedTables DEF Handles

\* The shape of one slot after a write to it.
LEMMA ShapeStep ==
  ASSUME TypeOK, SlotShape, NEW s \in Slots,
         \A u \in Slots \ {s} : clients'[u] = clients[u],
         \A i \in 1..NumEngines : i # 1 => clients'[s].engines[i] = Null,
         clients'[s].pid = Null <=> clients'[s].engines[1] = Null,
         clients'[s].pid = Null => \A i \in 1..NumCodecs : clients'[s].codecs[i] = Null,
         \A i, j \in 1..NumCodecs :
             clients'[s].codecs[i] = clients'[s].codecs[j] /\ clients'[s].codecs[i] # Null => i = j,
         IsFiniteSet(Tracked(s)'), clients'[s].refs = Cardinality(Tracked(s)')
  PROVE  SlotShape'
  <1> SUFFICES ASSUME NEW u \in Slots
               PROVE  /\ \A i \in 1..NumEngines : i # 1 => clients'[u].engines[i] = Null
                      /\ clients'[u].pid = Null <=> clients'[u].engines[1] = Null
                      /\ clients'[u].pid = Null => \A i \in 1..NumCodecs : clients'[u].codecs[i] = Null
                      /\ \A i, j \in 1..NumCodecs :
                           clients'[u].codecs[i] = clients'[u].codecs[j] /\ clients'[u].codecs[i] # Null => i = j
                      /\ IsFiniteSet(Tracked(u)') /\ clients'[u].refs = Cardinality(Tracked(u)')
    BY DEF SlotShape, Tracked
  <1>1. CASE u = s
    BY <1>1
  <1>2. CASE u # s
    <2>1. clients'[u] = clients[u] /\ Tracked(u)' = Tracked(u)
      BY <1>2 DEF Tracked
    <2> QED BY <2>1 DEF SlotShape
  <1> QED BY <1>1, <1>2

\* What p's slot lists is what the registry lists for p.
LEMMA ListedStep ==
  ASSUME TypeOK, OneSlotPerPid, NEW s \in Slots, NEW p \in Pids,
         clients[s].pid = p \/ (clients[s].pid = Null /\ no_client(p)),
         clients'[s].pid = p \/ (clients'[s].pid = Null /\ Tracked(s)' = {}),
         \A u \in Slots \ {s} : clients'[u] = clients[u]
  PROVE  \A h \in Handles, q \in Pids :
           Listed(h, q)' <=> IF q = p THEN h \in Tracked(s)' ELSE Listed(h, q)
  <1> SUFFICES ASSUME NEW h \in Handles, NEW q \in Pids
               PROVE  (\E u \in Slots : clients'[u].pid = q /\ h \in Tracked(u)')
                        <=> IF q = p THEN h \in Tracked(s)' ELSE Listed(h, q)
    BY DEF Listed, Tracked
  <1>1. \A u \in Slots \ {s} : clients[u].pid # p
    BY NotNull DEF OneSlotPerPid, no_client
  <1>2. \A u \in Slots \ {s} : Tracked(u)' = Tracked(u)
    BY DEF Tracked
  <1>3. CASE q = p
    BY <1>1, <1>2, <1>3, NotNull
  <1>4. CASE q # p
    BY <1>2, <1>4, NotNull DEF Listed
  <1> QED BY <1>3, <1>4

\* A table of codecs has a free entry for a codec that is not in it.
LEMMA CodecRoom ==
  ASSUME TypeOK, Limits, SlotShape, NEW s \in Slots, NEW c \in Codecs, c \notin Tracked(s)
  PROVE  \E i \in 1..NumCodecs : clients[s].codecs[i] = Null
  <1> DEFINE f == clients[s].codecs
  <1> SUFFICES ASSUME \A i \in 1..NumCodecs : f[i] # Null PROVE FALSE
    OBVIOUS
  <1>1. f \in [1..NumCodecs -> Codecs \ {c}]
    <2>1. f \in [1..NumCodecs -> Codecs \cup {Null}] /\ \A i \in 1..NumCodecs : f[i] # c
      BY TrackedTables DEF CodecTable
    <2> HIDE DEF f
    <2>2. \A i \in 1..NumCodecs : f[i] \in Codecs \ {c}
      BY <2>1
    <2> QED BY <2>1, <2>2
  <1>2. IsFiniteSet(Codecs \ {c}) /\ Cardinality(Codecs \ {c}) = Cardinality(Codecs) - 1
    BY FS_RemoveElement DEF Limits
  <1>3. IsFiniteSet(1..NumCodecs) /\ Cardinality(1..NumCodecs) = NumCodecs
    BY FS_Interval, RegistryAssumption
  <1>4. NumCodecs \in Nat /\ Cardinality(Codecs) \in Nat /\ NumCodecs >= Cardinality(Codecs)
    BY FS_CardinalityType, RegistryAssumption DEF Limits
  <1>5. Cardinality(Codecs \ {c}) < Cardinality(1..NumCodecs)
    BY <1>2, <1>3, <1>4
  <1> HIDE DEF f
  <1>6. PICK x, y \in 1..NumCodecs : x # y /\ f[x] = f[y]
    BY <1>1, <1>2, <1>3, <1>5, FS_PigeonHole
  <1> QED BY <1>6 DEF SlotShape, f

\* A codec is added to its owner's slot.
LEMMA AddCodec ==
  ASSUME TypeOK, Limits, OneSlotPerPid, SlotShape, NEW p \in Pids, NEW c \in Codecs,
         NEW s \in Slots, clients[s].pid = p, c \notin Tracked(s), dce_register_codec(p, c)
  PROVE  /\ SlotShape'
         /\ \A h \in Handles, q \in Pids : Listed(h, q)' <=> Listed(h, q) \/ (h = c /\ q = p)
  <1> DEFINE table == clients[s].codecs
             added == ReplaceFirst(table, Null, c)
             new == Slot(p, clients[s].refs + 1, clients[s].engines, added)
  <1>1. clients' = [clients EXCEPT ![s] = new]
    BY OwnSlot DEF dce_register_codec
  <1>2. /\ clients'[s].pid = p /\ clients'[s].refs = clients[s].refs + 1
        /\ clients'[s].engines = clients[s].engines /\ clients'[s].codecs = added
        /\ \A u \in Slots \ {s} : clients'[u] = clients[u]
    <2>1. /\ new.pid = p /\ new.refs = clients[s].refs + 1
          /\ new.engines = clients[s].engines /\ new.codecs = added
      BY SlotFields
    <2> HIDE DEF new
    <2>2. clients'[s] = new /\ \A u \in Slots \ {s} : clients'[u] = clients[u]
      BY <1>1 DEF TypeOK, RegistryTypeOK
    <2> QED BY <2>1, <2>2
  <1>3. table \in [1..NumCodecs -> Codecs \cup {Null}] /\ NumCodecs \in Nat
    BY TrackedTables, RegistryAssumption DEF CodecTable
  <1>4. PICK i \in 1..NumCodecs : /\ table[i] = Null
                                 /\ \A j \in 1..NumCodecs : added[j] = IF j = i THEN c ELSE table[j]
    <2>1. \E i \in 1..NumCodecs : table[i] = Null
      BY CodecRoom
    <2>2. table \in CodecTable
      BY TrackedTables
    <2> HIDE DEF table
    <2> QED BY <2>1, <2>2, ReplaceHit
  <1>5. \A j \in 1..NumCodecs : added[j] = IF j = i THEN c ELSE table[j]
    BY <1>3, <1>4
  <1>6. \A j \in 1..NumCodecs : table[j] # c
    BY TrackedTables
  <1> HIDE DEF table, added, new
  <1>7. Tracked(s)' = Tracked(s) \cup {c}
    <2>1. \A d \in Codecs : (\E j \in 1..NumCodecs : added[j] = d)
                              <=> (\E j \in 1..NumCodecs : table[j] = d) \/ d = c
      BY <1>4, <1>5, NotNull DEF Handles
    <2> QED BY <1>2, <2>1 DEF Tracked, table
  <1>8. IsFiniteSet(Tracked(s)') /\ clients'[s].refs = Cardinality(Tracked(s)')
    <2>1. IsFiniteSet(Tracked(s)) /\ clients[s].refs = Cardinality(Tracked(s))
      BY DEF SlotShape
    <2> QED BY <1>2, <1>7, <2>1, FS_AddElement
  <1>9. \A j, k \in 1..NumCodecs : added[j] = added[k] /\ added[j] # Null => j = k
    <2>1. \A j, k \in 1..NumCodecs : table[j] = table[k] /\ table[j] # Null => j = k
      BY DEF SlotShape, table
    <2> QED BY <1>5, <1>6, <2>1
  <1>10. p # Null /\ clients[s].engines[1] # Null
    BY NotNull DEF SlotShape
  <1>11. \A j \in 1..NumEngines : j # 1 => clients[s].engines[j] = Null
    BY DEF SlotShape
  <1>12. SlotShape'
    BY <1>2, <1>8, <1>9, <1>10, <1>11, ShapeStep
  <1>13. \A h \in Handles, q \in Pids :
           Listed(h, q)' <=> IF q = p THEN h \in Tracked(s)' ELSE Listed(h, q)
    BY <1>2, ListedStep
  <1> QED BY <1>7, <1>12, <1>13, OwnSlot

\* A codec is taken out of its owner's slot.
LEMMA RemoveCodec ==
  ASSUME TypeOK, OneSlotPerPid, SlotShape, NEW p \in Pids, NEW c \in Codecs,
         NEW s \in Slots, clients[s].pid = p, c \in Tracked(s),
         \A q \in Pids : Listed(c, q) => q = p, dce_unregister_codec(p, c)
  PROVE  /\ SlotShape'
         /\ \A h \in Handles, q \in Pids : Listed(h, q)' <=> Listed(h, q) /\ h # c
         /\ clients'[s].pid = p
         /\ \A j \in 1..NumCodecs : clients'[s].codecs[j] =
                IF clients[s].codecs[j] = c THEN Null ELSE clients[s].codecs[j]
  <1> DEFINE table == clients[s].codecs
             left == ReplaceFirst(table, c, Null)
             new == Slot(p, clients[s].refs - 1, clients[s].engines, left)
  <1>1. clients' = [clients EXCEPT ![s] = new]
    BY OwnSlot DEF dce_unregister_codec
  <1>2. /\ clients'[s].pid = p /\ clients'[s].refs = clients[s].refs - 1
        /\ clients'[s].engines = clients[s].engines /\ clients'[s].codecs = left
        /\ \A u \in Slots \ {s} : clients'[u] = clients[u]
    <2>1. /\ new.pid = p /\ new.refs = clients[s].refs - 1
          /\ new.engines = clients[s].engines /\ new.codecs = left
      BY SlotFields
    <2> HIDE DEF new
    <2>2. clients'[s] = new /\ \A u \in Slots \ {s} : clients'[u] = clients[u]
      BY <1>1 DEF TypeOK, RegistryTypeOK
    <2> QED BY <2>1, <2>2
  <1>3. table \in [1..NumCodecs -> Codecs \cup {Null}] /\ NumCodecs \in Nat
    BY TrackedTables, RegistryAssumption DEF CodecTable
  <1>4. PICK i \in 1..NumCodecs : /\ table[i] = c
                                 /\ \A j \in 1..NumCodecs : left[j] = IF j = i THEN Null ELSE table[j]
    <2>1. \E i \in 1..NumCodecs : table[i] = c
      BY TrackedTables
    <2>2. table \in CodecTable
      BY TrackedTables
    <2> HIDE DEF table
    <2> QED BY <2>1, <2>2, ReplaceHit
  <1>5. \A j, k \in 1..NumCodecs : table[j] = table[k] /\ table[j] # Null => j = k
    BY DEF SlotShape
  <1>6. c # Null
    BY NotNull DEF Handles
  <1>7. \A j \in 1..NumCodecs : left[j] = IF table[j] = c THEN Null ELSE table[j]
    BY <1>3, <1>4, <1>5, <1>6
  <1>8. \A j \in 1..NumCodecs : clients'[s].codecs[j] =
           IF clients[s].codecs[j] = c THEN Null ELSE clients[s].codecs[j]
    BY <1>2, <1>7
  <1> HIDE DEF table, left, new
  <1>9. Tracked(s)' = Tracked(s) \ {c}
    <2>1. \A d \in Codecs : (\E j \in 1..NumCodecs : left[j] = d)
                              <=> (\E j \in 1..NumCodecs : table[j] = d) /\ d # c
      BY <1>7, NotNull DEF Handles
    <2>2. c \notin Engines
      BY NotNull
    <2> QED BY <1>2, <2>1, <2>2 DEF Tracked, table
  <1>10. IsFiniteSet(Tracked(s)') /\ clients'[s].refs = Cardinality(Tracked(s)')
    <2>1. IsFiniteSet(Tracked(s)) /\ clients[s].refs = Cardinality(Tracked(s))
      BY DEF SlotShape
    <2> QED BY <1>2, <1>9, <2>1, FS_RemoveElement
  <1>11. \A j, k \in 1..NumCodecs : left[j] = left[k] /\ left[j] # Null => j = k
    BY <1>5, <1>7
  <1>12. p # Null /\ clients[s].engines[1] # Null
    BY NotNull DEF SlotShape
  <1>13. \A j \in 1..NumEngines : j # 1 => clients[s].engines[j] = Null
    BY DEF SlotShape
  <1>14. SlotShape'
    BY <1>2, <1>10, <1>11, <1>12, <1>13, ShapeStep
  <1>15. \A h \in Handles, q \in Pids :
           Listed(h, q)' <=> IF q = p THEN h \in Tracked(s)' ELSE Listed(h, q)
    BY <1>2, ListedStep
  <1> QED BY <1>2, <1>8, <1>9, <1>14, <1>15, OwnSlot

\* There is an unused slot for a client that has none.
LEMMA UnusedSlot ==
  ASSUME TypeOK, Limits, OneSlotPerPid, NEW p \in Pids, no_client(p)
  PROVE  ~no_client(Null)
  <1> DEFINE f == [s \in Slots |-> clients[s].pid]
  <1> SUFFICES ASSUME no_client(Null) PROVE FALSE
    OBVIOUS
  <1>1. f \in [Slots -> Pids \ {p}]
    <2>1. \A s \in Slots : clients[s].pid \in Pids \ {p}
      BY TrackedTables DEF no_client
    <2> QED BY <2>1
  <1>2. IsFiniteSet(Pids \ {p}) /\ Cardinality(Pids \ {p}) = Cardinality(Pids) - 1
    BY FS_RemoveElement, ServerAssumption
  <1>3. IsFiniteSet(Slots) /\ Cardinality(Slots) = NumClients
    BY FS_Interval, RegistryAssumption DEF Slots
  <1>4. NumClients \in Nat /\ Cardinality(Pids) \in Nat /\ NumClients >= Cardinality(Pids)
    BY FS_CardinalityType, RegistryAssumption, ServerAssumption DEF Limits
  <1>5. Cardinality(Pids \ {p}) < Cardinality(Slots)
    BY <1>2, <1>3, <1>4
  <1>6. \A s \in Slots : f[s] = clients[s].pid /\ clients[s].pid # Null
    BY DEF no_client
  <1> HIDE DEF f
  <1>7. PICK x, y \in Slots : x # y /\ f[x] = f[y]
    BY <1>1, <1>2, <1>3, <1>5, FS_PigeonHole
  <1> QED BY <1>6, <1>7 DEF OneSlotPerPid

\* A client that opens its engine gets a slot.
LEMMA AddEngine ==
  ASSUME TypeOK, Limits, OneSlotPerPid, SlotShape, NEW p \in Pids, NEW e \in Engines,
         no_client(p), dce_register_engine(p, e)
  PROVE  /\ SlotShape'
         /\ \A h \in Handles, q \in Pids : Listed(h, q)' <=> Listed(h, q) \/ (h = e /\ q = p)
  <1>1. PICK s \in Slots :
          /\ clients[s].pid = Null
          /\ clients' = [clients EXCEPT ![s] =
                Slot(p, 1, [clients[s].engines EXCEPT ![1] = e], clients[s].codecs)]
    BY UnusedSlot DEF dce_register_engine, get_client, no_client
  <1> DEFINE engines == [clients[s].engines EXCEPT ![1] = e]
             new == Slot(p, 1, engines, clients[s].codecs)
  <1>2. /\ clients'[s].pid = p /\ clients'[s].refs = 1
        /\ clients'[s].engines = engines /\ clients'[s].codecs = clients[s].codecs
        /\ \A u \in Slots \ {s} : clients'[u] = clients[u]
    <2>1. /\ new.pid = p /\ new.refs = 1
          /\ new.engines = engines /\ new.codecs = clients[s].codecs
      BY SlotFields
    <2>2. clients' = [clients EXCEPT ![s] = new]
      BY <1>1
    <2> HIDE DEF new
    <2>3. clients'[s] = new /\ \A u \in Slots \ {s} : clients'[u] = clients[u]
      BY <2>2 DEF TypeOK, RegistryTypeOK
    <2> QED BY <2>1, <2>3
  <1>3. 1 \in 1..NumEngines
    BY RegistryAssumption
  <1>4. \A j \in 1..NumEngines : engines[j] = IF j = 1 THEN e ELSE Null
    <2>1. clients[s].engines \in EngineTable /\ \A j \in 1..NumEngines : j # 1 => clients[s].engines[j] = Null
      BY TrackedTables DEF SlotShape
    <2> QED BY <2>1 DEF EngineTable
  <1>5. \A j \in 1..NumCodecs : clients[s].codecs[j] = Null
    BY <1>1 DEF SlotShape
  <1> HIDE DEF engines, new
  <1>6. Tracked(s)' = {e}
    <2>1. \A d \in Engines : (\E j \in 1..NumEngines : engines[j] = d) <=> d = e
      BY <1>3, <1>4, NotNull DEF Handles
    <2>2. \A d \in Codecs : ~ \E j \in 1..NumCodecs : clients[s].codecs[j] = d
      BY <1>5, NotNull DEF Handles
    <2> QED BY <1>2, <2>1, <2>2 DEF Tracked
  <1>7. IsFiniteSet(Tracked(s)') /\ clients'[s].refs = Cardinality(Tracked(s)')
    BY <1>2, <1>6, FS_Singleton
  <1>8. p # Null /\ e # Null
    BY NotNull DEF Handles
  <1>9. SlotShape'
    BY <1>2, <1>3, <1>4, <1>5, <1>7, <1>8, ShapeStep
  <1>10. \A h \in Handles, q \in Pids :
           Listed(h, q)' <=> IF q = p THEN h \in Tracked(s)' ELSE Listed(h, q)
    BY <1>1, <1>2, ListedStep
  <1>11. \A h : ~Listed(h, p)
    BY DEF no_client, Listed
  <1> QED BY <1>6, <1>9, <1>10, <1>11

\* A client that closes its engine, with no codec left, leaves its slot.
LEMMA RemoveEngine ==
  ASSUME TypeOK, OneSlotPerPid, SlotShape, NEW p \in Pids, NEW e \in Engines,
         NEW s \in Slots, clients[s].pid = p, Tracked(s) = {e},
         \A q \in Pids : Listed(e, q) => q = p, dce_unregister_engine(p, e)
  PROVE  /\ SlotShape'
         /\ \A h \in Handles, q \in Pids : Listed(h, q)' <=> Listed(h, q) /\ h # e
         /\ no_client(p)'
  <1> DEFINE table == clients[s].engines
             left == ReplaceFirst(table, e, Null)
             new == Slot(Null, 0, left, clients[s].codecs)
  <1>1. clients[s].refs = 1
    BY FS_Singleton DEF SlotShape
  <1>2. clients' = [clients EXCEPT ![s] = new]
    <2>1. clients' = [clients EXCEPT ![s] =
                Slot(IF clients[s].refs = 1 THEN Null ELSE p, clients[s].refs - 1,
                     left, clients[s].codecs)]
      BY OwnSlot DEF dce_unregister_engine
    <2>2. clients[s].refs - 1 = 0
      BY <1>1
    <2> HIDE DEF left
    <2> QED BY <1>1, <2>1, <2>2
  <1>3. /\ clients'[s].pid = Null /\ clients'[s].refs = 0
        /\ clients'[s].engines = left /\ clients'[s].codecs = clients[s].codecs
        /\ \A u \in Slots \ {s} : clients'[u] = clients[u]
    <2>1. /\ new.pid = Null /\ new.refs = 0
          /\ new.engines = left /\ new.codecs = clients[s].codecs
      BY SlotFields
    <2> HIDE DEF new
    <2>2. clients'[s] = new /\ \A u \in Slots \ {s} : clients'[u] = clients[u]
      BY <1>2 DEF TypeOK, RegistryTypeOK
    <2> QED BY <2>1, <2>2
  <1>4. 1 \in 1..NumEngines /\ e # Null
    BY RegistryAssumption, NotNull DEF Handles
  <1>5. /\ table \in [1..NumEngines -> Engines \cup {Null}]
        /\ \A j \in 1..NumEngines : table[j] = IF j = 1 THEN e ELSE Null
    <2>1. table \in [1..NumEngines -> Engines \cup {Null}]
      BY TrackedTables DEF EngineTable
    <2>2. table[1] = e /\ \A j \in 1..NumEngines : j # 1 => table[j] = Null
      BY HeadEngine DEF SlotShape
    <2> QED BY <2>1, <2>2
  <1>6. \A j \in 1..NumEngines : left[j] = Null
    <2> HIDE DEF table
    <2>1. {j \in DOMAIN table : table[j] = e} = {1}
      BY <1>4, <1>5
    <2>2. left = [table EXCEPT ![1] = Null]
      <3>1. (CHOOSE i \in {1} : \A j \in {1} : i <= j) = 1
        OBVIOUS
      <3> QED BY <2>1, <3>1 DEF ReplaceFirst
    <2> QED BY <1>5, <2>2
  <1>7. \A j \in 1..NumCodecs : clients[s].codecs[j] = Null
    <2>1. \A c \in Codecs : c # e
      BY NotNull
    <2>2. clients[s].codecs \in CodecTable
      BY TrackedTables
    <2> QED BY <2>1, <2>2, TrackedTables DEF CodecTable
  <1> HIDE DEF table, left, new
  <1>8. Tracked(s)' = {}
    <2>1. \A d \in Engines : ~ \E j \in 1..NumEngines : left[j] = d
      BY <1>6, NotNull DEF Handles
    <2>2. \A d \in Codecs : ~ \E j \in 1..NumCodecs : clients[s].codecs[j] = d
      BY <1>7, NotNull DEF Handles
    <2> QED BY <1>3, <2>1, <2>2 DEF Tracked
  <1>9. IsFiniteSet(Tracked(s)') /\ clients'[s].refs = Cardinality(Tracked(s)')
    BY <1>3, <1>8, FS_EmptySet
  <1>10. SlotShape'
    BY <1>3, <1>4, <1>6, <1>7, <1>9, ShapeStep
  <1>11. \A h \in Handles, q \in Pids :
           Listed(h, q)' <=> IF q = p THEN h \in Tracked(s)' ELSE Listed(h, q)
    BY <1>3, <1>8, ListedStep
  <1>12. no_client(p)'
    BY <1>3, NotNull DEF no_client, OneSlotPerPid
  <1> QED BY <1>8, <1>10, <1>11, <1>12, OwnSlot

\* An operation of one client leaves the slots of the others alone.
LEMMA OthersSlots ==
  ASSUME TypeOK, NEW p \in Pids, NEW h, NEW q \in Pids \ {p}, NEW u \in Slots,
         \/ dce_register_engine(p, h) \/ dce_unregister_engine(p, h)
         \/ dce_register_codec(p, h)  \/ dce_unregister_codec(p, h)
         \/ UNCHANGED clients,
         clients[u].pid = q \/ clients'[u].pid = q
  PROVE  clients'[u] = clients[u]
  <1>1. ASSUME NEW s \in Slots, clients[s].pid \in {p, Null}, NEW pid \in {p, Null},
               NEW refs, NEW engines, NEW codecs,
               clients' = [clients EXCEPT ![s] = Slot(pid, refs, engines, codecs)]
        PROVE  clients'[u] = clients[u]
    <2> DEFINE new == Slot(pid, refs, engines, codecs)
    <2>1. new.pid = pid
      BY SlotFields
    <2> HIDE DEF new
    <2>2. clients' = [clients EXCEPT ![s] = new]
      BY <1>1 DEF new
    <2>3. clients'[s] = new /\ (u # s => clients'[u] = clients[u])
      BY <2>2 DEF TypeOK, RegistryTypeOK
    <2> QED BY <1>1, <2>1, <2>3, NotNull
  <1>2. CASE dce_register_engine(p, h)
    <2>1. ASSUME NEW s \in Slots, get_client(p, s),
                 clients' = [clients EXCEPT ![s] =
                     Slot(p, clients[s].refs + 1, ReplaceFirst(clients[s].engines, Null, h),
                          clients[s].codecs)]
          PROVE  clients'[u] = clients[u]
      BY <1>1, <2>1 DEF get_client
    <2>2. ASSUME NEW s \in Slots, get_client(Null, s),
                 clients' = [clients EXCEPT ![s] =
                     Slot(p, 1, [clients[s].engines EXCEPT ![1] = h], clients[s].codecs)]
          PROVE  clients'[u] = clients[u]
      BY <1>1, <2>2 DEF get_client
    <2> QED BY <1>2, <2>1, <2>2 DEF dce_register_engine
  <1>3. CASE dce_unregister_engine(p, h)
    BY <1>1, <1>3 DEF dce_unregister_engine, get_client
  <1>4. CASE dce_register_codec(p, h)
    BY <1>1, <1>4 DEF dce_register_codec, get_client
  <1>5. CASE dce_unregister_codec(p, h)
    BY <1>1, <1>5 DEF dce_unregister_codec, get_client
  <1> QED BY <1>2, <1>3, <1>4, <1>5

-----------------------------------------------------------------------------
\* What the registry lists and what it should list

LEMMA ListedSame ==
  ASSUME UNCHANGED clients
  PROVE  /\ \A h, q : Listed(h, q)' <=> Listed(h, q)
         /\ SlotShape => SlotShape'
  BY DEF Listed, Tracked, SlotShape

\* A step of a living client changes nothing for the cleanup of a dead one.
LEMMA CleaningKept ==
  ASSUME TypeOK, Cleaning, UNCHANGED cb,
         \A q \in Pids : proc[q] = "obit" => proc'[q] = "obit",
         \A q \in Pids : \A x \in Handles : proc[q] = "obit" => (owner'[x] = q <=> owner[x] = q),
         \A q \in Pids : \A u \in Slots :
             proc[q] = "obit" /\ (clients[u].pid = q \/ clients'[u].pid = q) => clients'[u] = clients[u]
  PROVE  Cleaning'
  <1>1. /\ cb.busy \in Handles \cup {Null} /\ cb.c \in Slots
        /\ cb.in \in {"none", "codecs", "engines"}
    BY DEF TypeOK, Cleanups
  <1>2. cb.in # "none" => cb.pid \in Pids /\ proc[cb.pid] = "obit" /\ proc'[cb.pid] = "obit"
    BY DEF Cleaning
  <1>3. cb.busy # Null => cb.in # "none" /\ owner'[cb.busy] = cb.pid
    BY <1>1, <1>2 DEF Cleaning
  <1>4. cb.in = "codecs" =>
          /\ clients'[cb.c].pid = cb.pid
          /\ cb.busy \notin Engines
          /\ \A k \in 1..NumCodecs : k < cb.i => clients'[cb.c].codecs[k] = Null
    <2> SUFFICES ASSUME cb.in = "codecs"
                 PROVE  /\ clients'[cb.c].pid = cb.pid
                        /\ cb.busy \notin Engines
                        /\ \A k \in 1..NumCodecs : k < cb.i => clients'[cb.c].codecs[k] = Null
      OBVIOUS
    <2>1. clients'[cb.c] = clients[cb.c]
      BY <1>1, <1>2 DEF Cleaning
    <2> QED BY <2>1 DEF Cleaning
  <1>5. cb.in = "engines" =>
          /\ \A c \in Codecs : owner'[c] # cb.pid
          /\ \/ cb.i = 1 /\ cb.busy = Null /\ clients'[cb.c].pid = cb.pid
             \/ cb.i = 2 /\ \A s \in Slots : clients'[s].pid # cb.pid
    <2> SUFFICES ASSUME cb.in = "engines"
                 PROVE  /\ \A c \in Codecs : owner'[c] # cb.pid
                        /\ \/ cb.i = 1 /\ cb.busy = Null /\ clients'[cb.c].pid = cb.pid
                           \/ cb.i = 2 /\ \A s \in Slots : clients'[s].pid # cb.pid
      OBVIOUS
    <2>1. \A c \in Codecs : owner'[c] # cb.pid
      BY <1>2 DEF Cleaning, Handles
    <2>2. ASSUME no_client(cb.pid) PROVE \A s \in Slots : clients'[s].pid # cb.pid
      BY <1>2, <2>2 DEF no_client
    <2>3. ASSUME clients[cb.c].pid = cb.pid PROVE clients'[cb.c].pid = cb.pid
      BY <1>1, <1>2, <2>3
    <2> QED BY <2>1, <2>2, <2>3 DEF Cleaning
  <1> QED BY <1>2, <1>3, <1>4, <1>5 DEF Cleaning, no_client

LEMMA DeadKept ==
  ASSUME DeadOwnNothing,
         \A q \in Pids : proc'[q] = "dead" => proc[q] = "dead",
         \A q \in Pids : \A x \in Handles : proc[q] = "dead" /\ owner'[x] = q => owner[x] = q
  PROVE  DeadOwnNothing'
  BY DEF DeadOwnNothing

\* What a call works on is in the registry, unless the call gives it back.
LEMMA ArgKnown ==
  ASSUME TypeOK, Contract, Cleaning, NEW t \in Threads, rpc[t].arg # Null,
         rpc[t].fn \in Giving => rpc[t].at # "running"
  PROVE  Known(rpc[t].arg, PidOf(t))
  <1>1. owner[rpc[t].arg] = PidOf(t) /\ rpc[t].at # "idle" /\ proc[PidOf(t)] = "alive"
    BY CallTypes DEF Contract, CallsOwn
  <1>2. rpc[t].arg # cb.busy
    BY <1>1 DEF Cleaning
  <1>3. \A u \in Threads : rpc[u].ret # rpc[t].arg
    BY DEF Contract, CallsApart
  <1>4. \A u \in Threads : u # t => rpc[u].arg # rpc[t].arg
    BY DEF Contract, CallsApart
  <1> QED BY <1>1, <1>2, <1>3, <1>4 DEF Known, Pending

\* The slot of a client that has no codec lists its engine only.
LEMMA OnlyEngine ==
  ASSUME TypeOK, SlotShape, SlotContents, NEW p \in Pids, NEW e \in Engines, NEW s \in Slots,
         clients[s].pid = p, e \in Tracked(s), \A c \in Codecs : owner[c] # p
  PROVE  Tracked(s) = {e}
  <1>1. \A c \in Codecs : c \notin Tracked(s)
    <2> SUFFICES ASSUME NEW c \in Codecs, c \in Tracked(s) PROVE FALSE
      OBVIOUS
    <2>1. Listed(c, p) /\ c \in Handles
      BY DEF Listed, Handles
    <2> QED BY <2>1 DEF SlotContents, Known
  <1>2. \A f \in Engines : f \in Tracked(s) => f = e
    BY HeadEngine
  <1> QED BY <1>1, <1>2, TrackedTables DEF Handles

\* A client's only engine, that no codec refers to, closes without codecs.
LEMMA NoCodecLeft ==
  ASSUME TypeOK, Contract, NEW p \in Pids, NEW e \in Engines, owner[e] = p, BoundTo(e) = {}
  PROVE  \A c \in Codecs : owner[c] # p
  BY NotNull DEF Contract, OneEngine, Bound, BoundTo

-----------------------------------------------------------------------------
\* The application's calls and the first half of a handler

LEMMA CallingBooks ==
  ASSUME TypeOK, Cleaning, SlotShape, SlotContents, DeadOwnNothing,
         NEW t \in Threads, Application(t)
  PROVE  Cleaning' /\ SlotShape' /\ SlotContents' /\ DeadOwnNothing'
  <1>1. PICK fn \in Functions, arg \in Handles \cup {Null} : Send(t, fn, arg)
    BY Calling
  <1>2. /\ rpc'[t].at = "queued" /\ rpc[t].at = "idle"
        /\ \A u \in Threads \ {t} : rpc'[u] = rpc[u]
        /\ UNCHANGED <<clients, proc, owner, cb>>
    BY <1>1, Sent DEF NoCall
  <1>3. \A h \in Handles, q \in Pids : Known(h, q)' <=> Known(h, q)
    BY <1>2 DEF Known, Pending
  <1>4. SlotShape' /\ SlotContents'
    BY <1>2, <1>3, ListedSame DEF SlotContents
  <1>5. Cleaning' /\ DeadOwnNothing'
    BY <1>2, CleaningKept, DeadKept
  <1> QED BY <1>4, <1>5

\* What becomes pending when a handler begins.
LEMMA PendingBegin ==
  ASSUME TypeOK, NEW t \in Threads, NEW fn \in Functions, NEW ret \in Handles \cup {Null},
         Dispatch(t, fn, ret)
  PROVE  \A h \in Handles :
           Pending(h)' <=> Pending(h) \/ h = ret \/ (fn \in Giving /\ h = rpc[t].arg)
  <1>1. /\ rpc'[t].at = "running" /\ rpc'[t].fn = fn /\ rpc'[t].arg = rpc[t].arg
        /\ rpc'[t].ret = ret
        /\ \A u \in Threads \ {t} : rpc'[u] = rpc[u]
        /\ rpc[t].at = "queued" /\ UNCHANGED cb
    BY Dispatched
  <1> QED BY <1>1 DEF Pending

LEMMA BeginningBooks ==
  ASSUME TypeOK, OneSlotPerPid, Contract, Cleaning, SlotShape, SlotContents, DeadOwnNothing,
         NEW t \in Threads, Begin(t)
  PROVE  Cleaning' /\ SlotShape' /\ SlotContents' /\ DeadOwnNothing'
  <1> DEFINE p == PidOf(t)
             arg == rpc[t].arg
  <1>1. PICK fn \in Functions, ret \in Handles \cup {Null} :
           /\ Dispatch(t, fn, ret)
           /\ ret \in RetsOf(fn)
           /\ ret = Null => UNCHANGED <<owner, engineOf>>
           /\ ret # Null => owner[ret] = Null /\ owner' = [owner EXCEPT ![ret] = p]
           /\ fn = "Engine_close" => dce_unregister_engine(p, arg)
           /\ fn = "VIDDEC3_delete" => dce_unregister_codec(p, arg)
           /\ fn \notin Giving => UNCHANGED clients
    BY Beginning
  <1>2. rpc[t].at = "queued" /\ rpc[t].fn = fn /\ UNCHANGED <<proc, cb>>
    BY <1>1, Dispatched
  <1>3. p \in Pids /\ p # Null /\ proc[p] = "alive"
    BY <1>2, NotNull DEF Contract, CallsOwn
  <1>4. \A h \in Handles : owner'[h] = IF h = ret THEN p ELSE owner[h]
    BY <1>1, NotNull DEF TypeOK
  <1>5. \A h \in Handles :
           Pending(h)' <=> Pending(h) \/ h = ret \/ (fn \in Giving /\ h = arg)
    BY <1>1, PendingBegin
  <1>6. fn \in Giving => ret = Null /\ arg \in Handles /\ arg # Null
    <2>1. fn \in Giving => ret = Null
      BY <1>1 DEF RetsOf, Giving
    <2> QED BY <1>2, <2>1, Kinds, NotNull DEF Giving, Handles
  <1>7. \A h \in Handles, q \in Pids :
           Known(h, q)' <=> Known(h, q) /\ ~(fn \in Giving /\ h = arg)
    <2> SUFFICES ASSUME NEW h \in Handles, NEW q \in Pids
                 PROVE  (owner'[h] = q /\ ~Pending(h)')
                          <=> (owner[h] = q /\ ~Pending(h)) /\ ~(fn \in Giving /\ h = arg)
      BY DEF Known
    <2>1. CASE h = ret
      BY <1>1, <1>5, <2>1, NotNull
    <2>2. CASE h # ret
      BY <1>4, <1>5, <2>2
    <2> QED BY <2>1, <2>2
  <1>8. /\ SlotShape'
        /\ \A h \in Handles, q \in Pids :
             Listed(h, q)' <=> Listed(h, q) /\ ~(fn \in Giving /\ h = arg)
    <2>1. CASE fn \notin Giving
      BY <1>1, <2>1, ListedSame
    <2>2. ASSUME fn \in Giving PROVE Known(arg, p) /\ \E s \in Slots : clients[s].pid = p /\ arg \in Tracked(s)
      <3>1. Known(arg, p)
        BY <1>2, <1>6, <2>2, ArgKnown
      <3>2. Listed(arg, p)
        BY <1>3, <1>6, <2>2, <3>1 DEF SlotContents
      <3> QED BY <3>1, <3>2 DEF Listed
    <2>3. ASSUME fn \in Giving PROVE \A q \in Pids : Listed(arg, q) => q = p
      BY <1>6, <2>2, <2>3 DEF SlotContents, Known
    <2>4. CASE fn = "VIDDEC3_delete"
      <3>1. fn \in Giving /\ arg \in Codecs
        BY <1>2, <2>4, Kinds DEF Giving
      <3>2. PICK s \in Slots : clients[s].pid = p /\ arg \in Tracked(s)
        BY <2>2, <3>1
      <3>3. dce_unregister_codec(p, arg)
        BY <1>1, <2>4
      <3> HIDE DEF p, arg
      <3> QED BY <1>3, <2>3, <3>1, <3>2, <3>3, RemoveCodec
    <2>5. CASE fn = "Engine_close"
      <3>1. fn \in Giving /\ arg \in Engines /\ BoundTo(arg) = {} /\ owner[arg] = p
        BY <1>2, <1>6, <2>5, Kinds DEF Giving, Contract, Bound, CallsOwn
      <3>2. PICK s \in Slots : clients[s].pid = p /\ arg \in Tracked(s)
        BY <2>2, <3>1
      <3>3. dce_unregister_engine(p, arg)
        BY <1>1, <2>5
      <3> HIDE DEF p, arg
      <3>4. Tracked(s) = {arg}
        BY <1>3, <3>1, <3>2, NoCodecLeft, OnlyEngine
      <3> QED BY <1>3, <2>3, <3>1, <3>2, <3>3, <3>4, RemoveEngine
    <2> QED BY <2>1, <2>4, <2>5 DEF Giving
  <1>9. SlotContents'
    BY <1>7, <1>8 DEF SlotContents
  <1>10. \A q \in Pids \ {p} : \A u \in Slots :
            clients[u].pid = q \/ clients'[u].pid = q => clients'[u] = clients[u]
    <2>1. \/ dce_unregister_engine(p, arg) \/ dce_unregister_codec(p, arg) \/ UNCHANGED clients
      BY <1>1 DEF Giving
    <2> HIDE DEF p, arg
    <2> QED BY <1>3, <2>1, OthersSlots
  <1>11. \A q \in Pids \ {p} : \A x \in Handles : owner'[x] = q <=> owner[x] = q
    BY <1>1, <1>4, NotNull
  <1>12. \A q \in Pids : proc[q] # "alive" => q # p
    BY <1>3
  <1> HIDE DEF p
  <1>13. Cleaning'
    BY <1>2, <1>10, <1>11, <1>12, CleaningKept
  <1>14. DeadOwnNothing'
    BY <1>2, <1>11, <1>12, DeadKept
  <1> QED BY <1>8, <1>9, <1>13, <1>14

-----------------------------------------------------------------------------
\* The second half of a handler

\* What is pending no more when a handler ends.
LEMMA PendingEnd ==
  ASSUME TypeOK, Contract, Cleaning, NEW t \in Threads, NEW fn \in Functions, Reply(t, fn)
  PROVE  \A h \in Handles :
           /\ Pending(h)' => Pending(h)
           /\ Pending(h) => Pending(h)' \/ h = rpc[t].ret \/ (fn \in Giving /\ h = rpc[t].arg)
           /\ h = rpc[t].ret \/ (fn \in Giving /\ h = rpc[t].arg) => Pending(h) /\ ~Pending(h)'
  <1>1. /\ rpc'[t].at = "idle" /\ rpc[t].at = "running" /\ rpc[t].fn = fn
        /\ \A u \in Threads \ {t} : rpc'[u] = rpc[u]
        /\ UNCHANGED cb
    BY Replied
  <1>2. proc[PidOf(t)] = "alive"
    BY <1>1 DEF Contract, CallsOwn
  <1>3. rpc[t].ret # Null => rpc[t].ret # cb.busy /\ \A u \in Threads \ {t} :
                                rpc[u].ret # rpc[t].ret /\ rpc[u].arg # rpc[t].ret
    BY <1>2 DEF Contract, CallsOwn, CallsApart, Cleaning
  <1>4. rpc[t].arg # Null => rpc[t].arg # cb.busy /\ \A u \in Threads \ {t} :
                                rpc[u].ret # rpc[t].arg /\ rpc[u].arg # rpc[t].arg
    BY <1>2 DEF Contract, CallsOwn, CallsApart, Cleaning
  <1> QED BY <1>1, <1>3, <1>4, NotNull DEF Pending

LEMMA EndingBooks ==
  ASSUME TypeOK, Limits, OneSlotPerPid, Contract, Cleaning, SlotShape, SlotContents,
         DeadOwnNothing, NEW t \in Threads, End(t)
  PROVE  Cleaning' /\ SlotShape' /\ SlotContents' /\ DeadOwnNothing'
  <1> DEFINE p == PidOf(t)
             arg == rpc[t].arg
             ret == rpc[t].ret
  <1>1. PICK fn \in Functions :
           /\ Reply(t, fn)
           /\ fn \in Giving => Destroyed(arg)
           /\ fn \notin Giving => UNCHANGED <<owner, engineOf>>
           /\ fn = "Engine_open" /\ ret # Null => dce_register_engine(p, ret)
           /\ fn = "VIDDEC3_create" /\ ret # Null => dce_register_codec(p, ret)
           /\ ret = Null => UNCHANGED clients
    BY Ending
  <1>2. rpc[t].at = "running" /\ rpc[t].fn = fn /\ UNCHANGED <<proc, cb>>
    BY <1>1, Replied
  <1>3. p \in Pids /\ p # Null /\ proc[p] = "alive"
    BY <1>2, NotNull DEF Contract, CallsOwn
  <1>4. /\ fn \in Giving => ret = Null /\ arg \in Handles /\ arg # Null /\ owner[arg] = p
        /\ ret \in Handles \cup {Null}
        /\ ret # Null => /\ owner[ret] = p
                         /\ \/ fn = "Engine_open" /\ ret \in Engines
                            \/ fn = "VIDDEC3_create" /\ ret \in Codecs /\ arg \in Engines
    <2>1. fn \in Giving => ret = Null /\ arg \in Handles
      BY <1>2, Kinds DEF Giving, Handles
    <2>2. ret \in Handles \cup {Null}
      BY CallTypes
    <2>3. ret \in Engines => fn = "Engine_open"
      BY <1>2, Kinds
    <2>4. ret \in Codecs => fn = "VIDDEC3_create" /\ arg \in Engines
      BY <1>2, Kinds
    <2>5. /\ arg # Null => owner[arg] = p
          /\ ret # Null => owner[ret] = p
      BY DEF Contract, CallsOwn
    <2> QED BY <2>1, <2>2, <2>3, <2>4, <2>5, NotNull DEF Handles
  <1>5. \A h \in Handles : owner'[h] = IF fn \in Giving /\ h = arg THEN Null ELSE owner[h]
    BY <1>1, DestroyedFields
  <1>6. \A h \in Handles :
           /\ Pending(h)' => Pending(h)
           /\ Pending(h) => Pending(h)' \/ h = ret \/ (fn \in Giving /\ h = arg)
           /\ h = ret \/ (fn \in Giving /\ h = arg) => Pending(h) /\ ~Pending(h)'
    BY <1>1, PendingEnd
  <1> HIDE DEF p, arg, ret
  <1>7. \A h \in Handles, q \in Pids : Known(h, q)' <=> Known(h, q) \/ (h = ret /\ q = p)
    <2> SUFFICES ASSUME NEW h \in Handles, NEW q \in Pids
                 PROVE  (owner'[h] = q /\ ~Pending(h)')
                          <=> (owner[h] = q /\ ~Pending(h)) \/ (h = ret /\ q = p)
      BY DEF Known
    <2>1. CASE h = ret
      <3>1. h # Null /\ owner[h] = p /\ owner'[h] = p /\ Pending(h) /\ ~Pending(h)'
        BY <1>4, <1>5, <1>6, <2>1, NotNull
      <3> QED BY <2>1, <3>1
    <2>2. CASE fn \in Giving /\ h = arg
      <3>1. owner'[h] = Null /\ Pending(h) /\ q # Null /\ h # ret
        BY <1>4, <1>5, <1>6, <2>2, NotNull
      <3> QED BY <3>1
    <2>3. CASE h # ret /\ ~(fn \in Giving /\ h = arg)
      BY <1>5, <1>6, <2>3
    <2> QED BY <2>1, <2>2, <2>3
  <1>8. /\ SlotShape'
        /\ \A h \in Handles, q \in Pids : Listed(h, q)' <=> Listed(h, q) \/ (h = ret /\ q = p)
    <2>1. CASE ret = Null
      BY <1>1, <2>1, ListedSame, NotNull
    <2>2. ASSUME ret # Null PROVE ~Listed(ret, p)
      BY <1>3, <1>4, <1>6, <2>2 DEF SlotContents, Known
    <2>3. CASE ret # Null /\ fn = "Engine_open"
      <3>1. ret \in Engines /\ owner[ret] = p /\ dce_register_engine(p, ret)
        BY <1>1, <1>4, <2>3, NotNull
      <3>2. no_client(p)
        <4> SUFFICES ASSUME NEW s \in Slots, clients[s].pid = p PROVE FALSE
          BY DEF no_client
        <4>1. PICK f \in Engines : f \in Tracked(s)
          BY <1>3, HeadEngine
        <4>2. Listed(f, p) /\ f \in Handles
          BY <4>1 DEF Listed, Handles
        <4>3. owner[f] = p
          BY <1>3, <4>2 DEF SlotContents, Known
        <4>4. f = ret
          BY <1>3, <3>1, <4>3 DEF Contract, OneEngine
        <4> QED BY <2>2, <2>3, <4>2, <4>4
      <3> QED BY <1>3, <3>1, <3>2, AddEngine
    <2>4. CASE ret # Null /\ fn = "VIDDEC3_create"
      <3>1. ret \in Codecs /\ dce_register_codec(p, ret) /\ arg \in Engines
        BY <1>1, <1>4, <2>4, NotNull
      <3>2. Known(arg, p)
        <4>1. arg # Null /\ fn \notin Giving
          BY <2>4, <3>1, NotNull DEF Handles, Giving
        <4> QED BY <1>2, <4>1, ArgKnown DEF arg, p
      <3>3. Listed(arg, p)
        BY <1>3, <3>1, <3>2 DEF SlotContents, Handles
      <3>4. PICK s \in Slots : clients[s].pid = p
        BY <3>3 DEF Listed
      <3>5. ret \notin Tracked(s)
        BY <2>2, <2>4, <3>4 DEF Listed
      <3> QED BY <1>3, <3>1, <3>4, <3>5, AddCodec
    <2> QED BY <1>4, <2>1, <2>3, <2>4
  <1>9. SlotContents'
    BY <1>7, <1>8 DEF SlotContents
  <1>10. \A q \in Pids \ {p} : \A u \in Slots :
            clients[u].pid = q \/ clients'[u].pid = q => clients'[u] = clients[u]
    <2>1. \/ dce_register_engine(p, ret) \/ dce_register_codec(p, ret) \/ UNCHANGED clients
      BY <1>1, <1>4
    <2> QED BY <1>3, <2>1, OthersSlots
  <1>11. \A q \in Pids \ {p} : \A x \in Handles : owner'[x] = q <=> owner[x] = q
    BY <1>4, <1>5, NotNull
  <1>12. \A q \in Pids : proc[q] # "alive" => q # p
    BY <1>3
  <1>13. Cleaning'
    BY <1>2, <1>10, <1>11, <1>12, CleaningKept
  <1>14. DeadOwnNothing'
    BY <1>2, <1>11, <1>12, DeadKept
  <1> QED BY <1>8, <1>9, <1>13, <1>14

-----------------------------------------------------------------------------
\* Death, the cleanup, and the pid's return

LEMMA ProcessBooks ==
  ASSUME TypeOK, Cleaning, SlotShape, SlotContents, DeadOwnNothing,
         NEW p \in Pids, Crash(p) \/ Respawn(p)
  PROVE  Cleaning' /\ SlotShape' /\ SlotContents' /\ DeadOwnNothing'
  <1>1. /\ UNCHANGED <<clients, rpc, owner, cb>>
        /\ \/ proc[p] = "alive" /\ proc' = [proc EXCEPT ![p] = "obit"]
           \/ proc[p] = "dead" /\ proc' = [proc EXCEPT ![p] = "alive"]
    BY DEF Crash, Respawn, callVars, ceVars
  <1>2. \A q \in Pids : /\ proc[q] = "obit" => proc'[q] = "obit"
                        /\ proc'[q] = "dead" => proc[q] = "dead"
    BY <1>1 DEF TypeOK
  <1>3. \A h \in Handles, q \in Pids : Known(h, q)' <=> Known(h, q)
    BY <1>1 DEF Known, Pending
  <1>4. SlotShape' /\ SlotContents'
    BY <1>1, <1>3, ListedSame DEF SlotContents
  <1>5. Cleaning' /\ DeadOwnNothing'
    BY <1>1, <1>2, CleaningKept, DeadKept
  <1> QED BY <1>4, <1>5

\* All that a dead client owns is in the registry, but for the handle that is
\* being destroyed.
LEMMA ObitListed ==
  ASSUME TypeOK, Contract, SlotContents, NEW p \in Pids, proc[p] # "alive",
         NEW h \in Handles, owner[h] = p, h # cb.busy
  PROVE  \E s \in Slots : clients[s].pid = p /\ h \in Tracked(s)
  <1>1. \A u \in Threads : rpc[u].ret # h /\ rpc[u].arg # h
    <2> SUFFICES ASSUME NEW u \in Threads, rpc[u].ret = h \/ rpc[u].arg = h PROVE FALSE
      OBVIOUS
    <2>1. PidOf(u) = p /\ rpc[u].at # "idle"
      BY CallTypes, NotNull DEF Contract, CallsOwn
    <2> QED BY <2>1 DEF Contract, CallsOwn
  <1>2. Known(h, p)
    BY <1>1 DEF Known, Pending
  <1> QED BY <1>2 DEF SlotContents, Listed

\* A pid with no slot owns nothing.
LEMMA NoSlotOwnsNothing ==
  ASSUME TypeOK, Contract, SlotContents, NEW p \in Pids, proc[p] # "alive",
         no_client(p), cb.busy = Null
  PROVE  \A h \in Handles : owner[h] # p
  BY ObitListed, NotNull DEF no_client

\* The fields of the cleanup's state.
LEMMA CbTypes ==
  ASSUME TypeOK
  PROVE  /\ cb.in \in {"none", "codecs", "engines"} /\ cb.pid \in Pids \cup {Null}
         /\ cb.c \in Slots /\ cb.i \in Nat /\ cb.busy \in Handles \cup {Null}
         /\ cb \in [in : {"none", "codecs", "engines"}, pid : Pids \cup {Null}, c : Slots,
                    i : Nat, busy : Handles \cup {Null}]
  BY DEF TypeOK, Cleanups

LEMMA StartBooks ==
  ASSUME TypeOK, Contract, Cleaning, SlotShape, SlotContents, DeadOwnNothing,
         NEW p \in Pids, cleanup_start(p)
  PROVE  Cleaning' /\ SlotShape' /\ SlotContents' /\ DeadOwnNothing'
  <1>1. /\ UNCHANGED <<clients, rpc, owner>> /\ proc[p] = "obit" /\ cb = NoCleanup
        /\ \/ \E c \in Slots : /\ clients[c].pid = p /\ UNCHANGED proc
                               /\ cb' = [NoCleanup EXCEPT !.in = "codecs", !.pid = p, !.c = c]
           \/ no_client(p) /\ proc' = [proc EXCEPT ![p] = "dead"] /\ UNCHANGED cb
    BY DEF cleanup_start, get_client, cleanupUnchanged, ceVars
  <1>2. cb.in = "none" /\ cb.busy = Null
    BY <1>1 DEF NoCleanup
  <1>3. CASE \E c \in Slots : /\ clients[c].pid = p /\ UNCHANGED proc
                              /\ cb' = [NoCleanup EXCEPT !.in = "codecs", !.pid = p, !.c = c]
    <2>1. PICK c \in Slots : /\ clients[c].pid = p /\ UNCHANGED proc
                             /\ cb' = [NoCleanup EXCEPT !.in = "codecs", !.pid = p, !.c = c]
      BY <1>3
    <2>2. cb'.in = "codecs" /\ cb'.pid = p /\ cb'.c = c /\ cb'.i = 1 /\ cb'.busy = Null
      BY <2>1 DEF NoCleanup
    <2>3. \A k \in 1..NumCodecs : ~(k < 1)
      OBVIOUS
    <2>4. Cleaning'
      BY <1>1, <2>1, <2>2, <2>3, NotNull DEF Cleaning, Handles
    <2>5. \A h \in Handles, q \in Pids : Known(h, q)' <=> Known(h, q)
      BY <1>1, <1>2, <2>2 DEF Known, Pending
    <2>6. SlotShape' /\ SlotContents'
      BY <1>1, <2>5, ListedSame DEF SlotContents
    <2> QED BY <1>1, <2>1, <2>4, <2>6 DEF DeadOwnNothing
  <1>4. CASE no_client(p) /\ proc' = [proc EXCEPT ![p] = "dead"] /\ UNCHANGED cb
    <2>1. Cleaning'
      BY <1>2, <1>4 DEF Cleaning
    <2>2. \A h \in Handles, q \in Pids : Known(h, q)' <=> Known(h, q)
      BY <1>1, <1>4 DEF Known, Pending
    <2>3. SlotShape' /\ SlotContents'
      BY <1>1, <2>2, ListedSame DEF SlotContents
    <2>4. \A h \in Handles : owner[h] # p
      BY <1>1, <1>2, <1>4, NoSlotOwnsNothing
    <2>5. DeadOwnNothing'
      BY <1>1, <1>4, <2>4 DEF DeadOwnNothing, TypeOK
    <2> QED BY <2>1, <2>3, <2>5
  <1> QED BY <1>1, <1>3, <1>4

\* The Codec Engine begins to destroy h for the cleanup.
LEMMA KnownBusy ==
  ASSUME TypeOK, UNCHANGED <<rpc, owner>>, cb.busy = Null, NEW h \in Handles, cb'.busy = h
  PROVE  \A x \in Handles, q \in Pids : Known(x, q)' <=> Known(x, q) /\ x # h
  BY NotNull DEF Known, Pending

LEMMA DeleteCodecBooks ==
  ASSUME TypeOK, OneSlotPerPid, Cleaning, SlotShape, SlotContents, DeadOwnNothing,
         cleanup_delete_codec
  PROVE  Cleaning' /\ SlotShape' /\ SlotContents' /\ DeadOwnNothing'
  <1> DEFINE codecs == clients[cb.c].codecs
  <1>1. PICK j \in 1..NumCodecs :
          /\ cb.in = "codecs" /\ cb.busy = Null /\ UNCHANGED <<proc, rpc, owner>>
          /\ j >= cb.i /\ codecs[j] # Null
          /\ \A k \in DOMAIN codecs : cb.i <= k /\ k < j => codecs[k] = Null
          /\ dce_unregister_codec(cb.pid, codecs[j])
          /\ cb' = [cb EXCEPT !.busy = codecs[j], !.i = j + 1]
    BY DEF cleanup_delete_codec, NextEntry, cleanupUnchanged, ceVars
  <1> DEFINE c == codecs[j]
  <1>2. cb.c \in Slots /\ codecs \in CodecTable /\ c \in Codecs /\ c \in Handles
    <2>1. cb.c \in Slots /\ codecs \in CodecTable
      BY CbTypes, TrackedTables
    <2> HIDE DEF codecs
    <2> QED BY <1>1, <2>1 DEF CodecTable, Handles
  <1>3. cb.pid \in Pids /\ proc[cb.pid] = "obit" /\ clients[cb.c].pid = cb.pid
    BY <1>1 DEF Cleaning
  <1>4. c \in Tracked(cb.c) /\ Listed(c, cb.pid)
    BY <1>2, <1>3, TrackedTables DEF Listed
  <1>5. Known(c, cb.pid) /\ \A q \in Pids : Listed(c, q) => q = cb.pid
    BY <1>2, <1>3, <1>4 DEF SlotContents, Known
  <1>6. /\ cb'.in = cb.in /\ cb'.pid = cb.pid /\ cb'.c = cb.c /\ cb'.i = j + 1 /\ cb'.busy = c
    <2> HIDE DEF codecs
    <2> QED BY <1>1, CbTypes
  <1>7. /\ SlotShape'
        /\ \A h \in Handles, q \in Pids : Listed(h, q)' <=> Listed(h, q) /\ h # c
        /\ clients'[cb.c].pid = cb.pid
        /\ \A k \in 1..NumCodecs : clients'[cb.c].codecs[k] = IF codecs[k] = c THEN Null ELSE codecs[k]
    <2>1. dce_unregister_codec(cb.pid, c)
      BY <1>1
    <2> QED BY <1>2, <1>3, <1>4, <1>5, <2>1, RemoveCodec
  <1>8. \A k \in 1..NumCodecs : k < j + 1 => clients'[cb.c].codecs[k] = Null
    <2> SUFFICES ASSUME NEW k \in 1..NumCodecs, k < j + 1, codecs[k] # c
                 PROVE  codecs[k] = Null
      BY <1>7
    <2>1. cb.i \in Nat /\ k \in DOMAIN codecs
      BY <1>2, CbTypes DEF CodecTable
    <2>2. k < j
      OBVIOUS
    <2>3. CASE k < cb.i
      BY <1>1, <2>3 DEF Cleaning
    <2>4. CASE cb.i <= k
      BY <1>1, <2>1, <2>2, <2>4
    <2> QED BY <2>1, <2>3, <2>4
  <1> HIDE DEF codecs, c
  <1>9. Cleaning'
    BY <1>1, <1>2, <1>3, <1>5, <1>6, <1>7, <1>8, NotNull DEF Cleaning, Known
  <1>10. \A x \in Handles, q \in Pids : Known(x, q)' <=> Known(x, q) /\ x # c
    BY <1>1, <1>2, <1>6, KnownBusy
  <1>11. SlotContents'
    BY <1>7, <1>10 DEF SlotContents
  <1> QED BY <1>1, <1>7, <1>9, <1>11 DEF DeadOwnNothing

LEMMA CodecsDoneBooks ==
  ASSUME TypeOK, OneSlotPerPid, Contract, Cleaning, SlotShape, SlotContents, DeadOwnNothing,
         cleanup_codecs_done
  PROVE  Cleaning' /\ SlotShape' /\ SlotContents' /\ DeadOwnNothing'
  <1>1. /\ cb.in = "codecs" /\ cb.busy = Null /\ UNCHANGED <<clients, proc, rpc, owner>>
        /\ NoEntry(clients[cb.c].codecs) /\ cb' = [cb EXCEPT !.in = "engines", !.i = 1]
    BY DEF cleanup_codecs_done, cleanupUnchanged, ceVars
  <1>2. cb.pid \in Pids /\ proc[cb.pid] = "obit" /\ clients[cb.c].pid = cb.pid /\ cb.c \in Slots
    BY <1>1, CbTypes DEF Cleaning
  <1>3. cb'.in = "engines" /\ cb'.pid = cb.pid /\ cb'.c = cb.c /\ cb'.i = 1 /\ cb'.busy = Null
    BY <1>1, CbTypes
  <1>4. \A k \in 1..NumCodecs : clients[cb.c].codecs[k] = Null
    <2> SUFFICES ASSUME NEW k \in 1..NumCodecs PROVE clients[cb.c].codecs[k] = Null
      OBVIOUS
    <2>1. cb.i \in Nat /\ DOMAIN clients[cb.c].codecs = 1..NumCodecs
      BY <1>2, CbTypes, TrackedTables DEF CodecTable
    <2>2. CASE k < cb.i
      BY <1>1, <2>2 DEF Cleaning
    <2>3. CASE k >= cb.i
      BY <1>1, <2>1, <2>3 DEF NoEntry
    <2> QED BY <2>1, <2>2, <2>3
  <1>5. \A c \in Codecs : owner[c] # cb.pid
    <2> SUFFICES ASSUME NEW c \in Codecs, owner[c] = cb.pid PROVE FALSE
      OBVIOUS
    <2>1. c \in Handles /\ c # Null
      BY NotNull DEF Handles
    <2>2. PICK s \in Slots : clients[s].pid = cb.pid /\ c \in Tracked(s)
      BY <1>1, <1>2, <2>1, ObitListed
    <2>3. s = cb.c
      BY <1>2, <2>2, NotNull DEF OneSlotPerPid
    <2> QED BY <1>4, <2>1, <2>2, <2>3, TrackedTables
  <1>6. Cleaning'
    BY <1>1, <1>2, <1>3, <1>5 DEF Cleaning
  <1>7. \A h \in Handles, q \in Pids : Known(h, q)' <=> Known(h, q)
    BY <1>1, <1>3 DEF Known, Pending
  <1>8. SlotShape' /\ SlotContents'
    BY <1>1, <1>7, ListedSame DEF SlotContents
  <1> QED BY <1>1, <1>6, <1>8 DEF DeadOwnNothing

LEMMA CloseEngineBooks ==
  ASSUME TypeOK, OneSlotPerPid, Cleaning, SlotShape, SlotContents, DeadOwnNothing,
         cleanup_close_engine
  PROVE  Cleaning' /\ SlotShape' /\ SlotContents' /\ DeadOwnNothing'
  <1> DEFINE engines == clients[cb.c].engines
  <1>1. PICK j \in 1..NumEngines :
          /\ cb.in = "engines" /\ cb.busy = Null /\ UNCHANGED <<proc, rpc, owner>>
          /\ j >= cb.i /\ engines[j] # Null
          /\ dce_unregister_engine(cb.pid, engines[j])
          /\ cb' = [cb EXCEPT !.busy = engines[j], !.i = j + 1]
    BY DEF cleanup_close_engine, NextEntry, cleanupUnchanged, ceVars
  <1>2. cb.c \in Slots /\ engines \in EngineTable
    BY CbTypes, TrackedTables
  <1>3. j = 1
    BY <1>1, <1>2 DEF SlotShape
  <1>4. /\ cb.pid \in Pids /\ proc[cb.pid] = "obit" /\ clients[cb.c].pid = cb.pid
        /\ \A c \in Codecs : owner[c] # cb.pid
    BY <1>1, <1>3 DEF Cleaning
  <1> DEFINE e == engines[1]
  <1>5. /\ e \in Engines /\ e \in Handles
        /\ cb'.in = "engines" /\ cb'.pid = cb.pid /\ cb'.i = 2 /\ cb'.busy = e
        /\ dce_unregister_engine(cb.pid, e)
    <2> HIDE DEF engines
    <2> QED BY <1>1, <1>2, <1>3, CbTypes DEF EngineTable, Handles
  <1>6. e \in Tracked(cb.c) /\ Listed(e, cb.pid)
    BY <1>2, <1>4, <1>5, HeadEngine, NotNull DEF Listed
  <1>7. Known(e, cb.pid) /\ \A q \in Pids : Listed(e, q) => q = cb.pid
    BY <1>4, <1>5, <1>6 DEF SlotContents, Known
  <1>8. /\ SlotShape'
        /\ \A h \in Handles, q \in Pids : Listed(h, q)' <=> Listed(h, q) /\ h # e
        /\ \A s \in Slots : clients'[s].pid # cb.pid
    <2> HIDE DEF e
    <2>1. Tracked(cb.c) = {e}
      BY <1>2, <1>4, <1>5, <1>6, OnlyEngine
    <2>2. PICK p \in Pids : p = cb.pid
      BY <1>4
    <2>3. clients[cb.c].pid = p /\ dce_unregister_engine(p, e) /\ \A q \in Pids : Listed(e, q) => q = p
      BY <1>4, <1>5, <1>7, <2>2
    <2>4. /\ SlotShape' /\ no_client(p)'
          /\ \A h \in Handles, q \in Pids : Listed(h, q)' <=> Listed(h, q) /\ h # e
      BY <1>2, <1>5, <2>1, <2>3, RemoveEngine
    <2>5. \A s \in Slots : clients'[s].pid # p
      BY <2>4 DEF no_client
    <2> QED BY <2>2, <2>4, <2>5
  <1> HIDE DEF engines, e
  <1>9. Cleaning'
    BY <1>1, <1>4, <1>5, <1>7, <1>8 DEF Cleaning, Known, no_client
  <1>10. \A x \in Handles, q \in Pids : Known(x, q)' <=> Known(x, q) /\ x # e
    BY <1>1, <1>5, KnownBusy
  <1>11. SlotContents'
    BY <1>8, <1>10 DEF SlotContents
  <1> QED BY <1>1, <1>8, <1>9, <1>11 DEF DeadOwnNothing

LEMMA CeReturnsBooks ==
  ASSUME TypeOK, Contract, Cleaning, SlotShape, SlotContents, DeadOwnNothing,
         cleanup_ce_returns
  PROVE  Cleaning' /\ SlotShape' /\ SlotContents' /\ DeadOwnNothing'
  <1>1. /\ cb.busy \in Handles /\ cb.busy # Null
        /\ cb.pid \in Pids /\ proc[cb.pid] = "obit" /\ owner[cb.busy] = cb.pid
        /\ \A u \in Threads : rpc[u].arg # cb.busy /\ rpc[u].ret # cb.busy
        /\ \A x \in Handles : owner'[x] = IF x = cb.busy THEN Null ELSE owner[x]
        /\ UNCHANGED <<proc, rpc, clients>>
    BY CleanupDestroys
  <1>2. cb'.in = cb.in /\ cb'.pid = cb.pid /\ cb'.c = cb.c /\ cb'.i = cb.i /\ cb'.busy = Null
    BY CbTypes DEF cleanup_ce_returns
  <1>3. Cleaning'
    <2>1. \A c \in Codecs : owner[c] # cb.pid => owner'[c] # cb.pid
      BY <1>1, NotNull DEF Handles
    <2>2. cb'.in = "codecs" => cb'.busy \notin Engines
      BY <1>2, NotNull DEF Handles
    <2>3. cb.in = "engines" => cb.i = 2 /\ no_client(cb.pid) /\ \A c \in Codecs : owner[c] # cb.pid
      BY <1>1 DEF Cleaning
    <2>4. cb.in = "engines" => /\ cb'.i = 2 /\ \A s \in Slots : clients'[s].pid # cb'.pid
                               /\ \A c \in Codecs : owner'[c] # cb'.pid
      BY <1>1, <1>2, <2>1, <2>3 DEF no_client
    <2>5. cb.in = "codecs" => /\ clients'[cb'.c].pid = cb'.pid
                              /\ \A k \in 1..NumCodecs : k < cb'.i => clients'[cb'.c].codecs[k] = Null
      BY <1>1, <1>2 DEF Cleaning
    <2>6. cb'.pid \in Pids /\ proc'[cb'.pid] = "obit"
      BY <1>1, <1>2
    <2> QED BY <1>2, <2>2, <2>4, <2>5, <2>6 DEF Cleaning, no_client
  <1>4. \A h \in Handles, q \in Pids : Known(h, q)' <=> Known(h, q)
    BY <1>1, <1>2, NotNull DEF Known, Pending
  <1>5. SlotShape' /\ SlotContents'
    BY <1>1, <1>4, ListedSame DEF SlotContents
  <1>6. DeadOwnNothing'
    BY <1>1, NotNull DEF DeadOwnNothing
  <1> QED BY <1>3, <1>5, <1>6

LEMMA EndBooks ==
  ASSUME TypeOK, Contract, Cleaning, SlotShape, SlotContents, DeadOwnNothing, cleanup_end
  PROVE  Cleaning' /\ SlotShape' /\ SlotContents' /\ DeadOwnNothing'
  <1>1. /\ cb.in = "engines" /\ cb.busy = Null /\ UNCHANGED <<clients, rpc, owner>>
        /\ NoEntry(clients[cb.c].engines) /\ cb' = NoCleanup
        /\ proc' = [proc EXCEPT ![cb.pid] = "dead"]
    BY DEF cleanup_end, cleanupUnchanged, ceVars
  <1>2. cb.pid \in Pids /\ proc[cb.pid] = "obit" /\ cb.c \in Slots
    BY <1>1, CbTypes DEF Cleaning
  <1>3. no_client(cb.pid)
    <2> SUFFICES ASSUME cb.i = 1, clients[cb.c].pid = cb.pid PROVE FALSE
      BY <1>1 DEF Cleaning
    <2>1. DOMAIN clients[cb.c].engines = 1..NumEngines /\ 1 \in 1..NumEngines
      BY <1>2, TrackedTables, RegistryAssumption DEF EngineTable
    <2>2. clients[cb.c].engines[1] = Null
      BY <1>1, <2>1 DEF NoEntry
    <2> QED BY <1>2, <2>2, NotNull DEF SlotShape
  <1>4. \A h \in Handles : owner[h] # cb.pid
    BY <1>1, <1>2, <1>3, NoSlotOwnsNothing
  <1>5. DeadOwnNothing'
    BY <1>1, <1>2, <1>4 DEF DeadOwnNothing, TypeOK
  <1>6. cb'.in = "none" /\ cb'.busy = Null
    BY <1>1 DEF NoCleanup
  <1>7. Cleaning'
    BY <1>6 DEF Cleaning
  <1>8. \A h \in Handles, q \in Pids : Known(h, q)' <=> Known(h, q)
    BY <1>1, <1>6 DEF Known, Pending
  <1>9. SlotShape' /\ SlotContents'
    BY <1>1, <1>8, ListedSame DEF SlotContents
  <1> QED BY <1>5, <1>7, <1>9

LEMMA CleanupBooks ==
  ASSUME TypeOK, OneSlotPerPid, Contract, Cleaning, SlotShape, SlotContents, DeadOwnNothing,
         dce_cleanup_cb
  PROVE  Cleaning' /\ SlotShape' /\ SlotContents' /\ DeadOwnNothing'
  BY StartBooks, DeleteCodecBooks, CodecsDoneBooks, CloseEngineBooks, CeReturnsBooks, EndBooks
  DEF dce_cleanup_cb, CleanupLoops

-----------------------------------------------------------------------------
\* The invariant

LEMMA OwnInit == Init => OwnInv
  <1> SUFFICES ASSUME Init PROVE OwnInv
    OBVIOUS
  <1>1. /\ \A p \in Pids : proc[p] = "alive" /\ held[p] = {}
        /\ \A t \in Threads : rpc[t] = NoCall
        /\ \A h \in Handles : owner[h] = Null
        /\ \A c \in Codecs : owner[c] = Null
        /\ cb.in = "none" /\ cb.busy = Null
    BY DEF Init, NoCleanup, Handles
  <1>2. \A t \in Threads : /\ rpc[t].at = "idle" /\ rpc[t].fn = "none"
                           /\ rpc[t].arg = Null /\ rpc[t].ret = Null
    BY <1>1 DEF NoCall
  <1>3. Contract
    <2>1. CallsOwn /\ CallsApart /\ Accounted
      BY <1>1, <1>2 DEF CallsOwn, CallsApart, Accounted, Giving
    <2>2. HeldOwn
      BY <1>1 DEF HeldOwn, HeldAreLive
    <2>3. \A e \in Engines : owner[e] = Null
      BY <1>1 DEF Handles
    <2>4. \A t \in Threads : rpc[t].fn \notin OpenClose
      BY <1>2 DEF OpenClose
    <2>5. OneEngine
      <3>1. \A p \in Pids : \A e, f \in held[p] \cap Engines : e = f
        BY <1>1
      <3> QED BY <2>3, <2>4, <3>1 DEF OneEngine
    <2>6. Bound
      BY <1>1, <1>2 DEF Bound
    <2> QED BY <2>1, <2>2, <2>5, <2>6 DEF Contract
  <1>4. Cleaning
    BY <1>1 DEF Cleaning
  <1>5. \A s \in Slots : /\ clients[s].pid = Null /\ clients[s].refs = 0
                         /\ \A i \in 1..NumEngines : clients[s].engines[i] = Null
                         /\ \A i \in 1..NumCodecs : clients[s].codecs[i] = Null
    <2>1. \A s \in Slots : clients[s] = UnusedClient
      BY DEF Init, RegistryInit
    <2>2. /\ UnusedClient.pid = Null /\ UnusedClient.refs = 0
          /\ \A i \in 1..NumEngines : UnusedClient.engines[i] = Null
          /\ \A i \in 1..NumCodecs : UnusedClient.codecs[i] = Null
      <3> DEFINE noEngines == [i \in 1..NumEngines |-> Null]
                 noCodecs == [i \in 1..NumCodecs |-> Null]
      <3>1. UnusedClient = Slot(Null, 0, noEngines, noCodecs)
        BY DEF UnusedClient
      <3> HIDE DEF noEngines, noCodecs
      <3>2. /\ UnusedClient.pid = Null /\ UnusedClient.refs = 0
            /\ UnusedClient.engines = noEngines /\ UnusedClient.codecs = noCodecs
        BY <3>1, SlotFields
      <3>3. /\ \A i \in 1..NumEngines : noEngines[i] = Null
            /\ \A i \in 1..NumCodecs : noCodecs[i] = Null
        BY DEF noEngines, noCodecs
      <3> QED BY <3>2, <3>3
    <2> QED BY <2>1, <2>2
  <1>6. \A s \in Slots : Tracked(s) = {}
    BY <1>5, NotNull DEF Tracked, Handles
  <1>7. SlotShape
    <2>1. 1 \in 1..NumEngines
      BY RegistryAssumption
    <2> QED BY <1>5, <1>6, <2>1, FS_EmptySet DEF SlotShape
  <1>8. SlotContents
    BY <1>1, <1>6, NotNull DEF SlotContents, Listed, Known
  <1>9. DeadOwnNothing
    BY <1>1, NotNull DEF DeadOwnNothing
  <1> QED BY <1>3, <1>4, <1>7, <1>8, <1>9 DEF OwnInv

LEMMA OwnStep ==
  ASSUME Limits, TypeOK, OneSlotPerPid, OwnInv, [Next]_serverVars
  PROVE  OwnInv'
  <1> USE DEF OwnInv
  <1>1. ASSUME NEW t \in Threads, Application(t) PROVE OwnInv'
    BY <1>1, CallingContract, CallingBooks
  <1>2. ASSUME NEW t \in Threads, Begin(t) PROVE OwnInv'
    BY <1>2, BeginningContract, BeginningBooks
  <1>3. ASSUME NEW t \in Threads, End(t) PROVE OwnInv'
    BY <1>3, EndingContract, EndingBooks
  <1>4. ASSUME NEW p \in Pids, Crash(p) \/ Respawn(p) PROVE OwnInv'
    BY <1>4, CrashContract, RespawnContract, ProcessBooks
  <1>5. CASE dce_cleanup_cb
    BY <1>5, CleaningContract, CleanupBooks
  <1>6. CASE UNCHANGED serverVars
    <2>1. UNCHANGED <<clients, proc, held, rpc, owner, engineOf, cb>>
      BY <1>6 DEF serverVars, callVars, ceVars
    <2>2. Contract'
      BY <2>1, StillContract
    <2>3. \A h \in Handles, q \in Pids : Known(h, q)' <=> Known(h, q)
      BY <2>1 DEF Known, Pending
    <2>4. SlotShape' /\ SlotContents'
      BY <2>1, <2>3, ListedSame DEF SlotContents
    <2>5. Cleaning' /\ DeadOwnNothing'
      BY <2>1, CleaningKept, DeadKept
    <2> QED BY <2>2, <2>4, <2>5
  <1> QED BY <1>1, <1>2, <1>3, <1>4, <1>5, <1>6 DEF Next

\* The calls, the registry, the cleanup and the Codec Engine agree on who owns
\* what, in every reachable state.
THEOREM Owned == ASSUME Limits PROVE Spec => []OwnInv
  <1>1. TypeOK /\ OneSlotPerPid /\ OwnInv /\ [Next]_serverVars => OwnInv'
    BY OwnStep
  <1> QED BY <1>1, OwnInit, TypeCorrect, OneSlot, PTL DEF Spec

-----------------------------------------------------------------------------
\* What a client still has is never closed behind its back, by any thread,
\* any other client or any cleanup.
THEOREM HeldStayLive == ASSUME Limits PROVE Spec => []HeldAreLive
  <1>1. OwnInv => HeldAreLive
    BY DEF OwnInv, Contract, HeldOwn
  <1> QED BY <1>1, Owned, PTL

\* The Codec Engine never works on a handle that is gone or that somebody else
\* is destroying.
THEOREM CallsFindHandles == ASSUME Limits PROVE Spec => []CallsOnLiveHandles
  <1>1. TypeOK /\ OwnInv => CallsOnLiveHandles
    <2> SUFFICES ASSUME TypeOK, OwnInv PROVE CallsOnLiveHandles
      OBVIOUS
    <2>1. cb.busy # Null => owner[cb.busy] = cb.pid /\ proc[cb.pid] = "obit"
      BY DEF OwnInv, Cleaning
    <2>2. \A t \in Threads : rpc[t].at = "running" /\ rpc[t].arg # Null =>
             owner[rpc[t].arg] = PidOf(t) /\ proc[PidOf(t)] = "alive"
      BY DEF OwnInv, Contract, CallsOwn
    <2> QED BY <2>1, <2>2 DEF CallsOnLiveHandles
  <1> QED BY <1>1, Owned, TypeCorrect, PTL

\* An engine is closed when no codec refers to it, by its client or by the
\* cleanup.
THEOREM ClosesAfterCodecs == ASSUME Limits PROVE Spec => []CloseFindsNoCodec
  <1>1. TypeOK /\ OwnInv => CloseFindsNoCodec
    <2> SUFFICES ASSUME TypeOK, OwnInv PROVE CloseFindsNoCodec
      OBVIOUS
    <2>1. \A t \in Threads : Running(t, "Engine_close") => BoundTo(rpc[t].arg) = {}
      BY DEF OwnInv, Contract, Bound, Running
    <2>2. ASSUME cb.busy \in Engines, NEW c \in Codecs, owner[c] # Null, engineOf[c] = cb.busy
          PROVE  FALSE
      <3>1. cb.busy # Null
        BY <2>2, NotNull DEF Handles
      <3>2. owner[cb.busy] = cb.pid /\ cb.in = "engines"
        BY <2>2, <3>1, CbTypes DEF OwnInv, Cleaning
      <3>3. owner[c] = cb.pid
        BY <2>2, <3>2 DEF OwnInv, Contract, Bound
      <3> QED BY <3>2, <3>3 DEF OwnInv, Cleaning
    <2> QED BY <2>1, <2>2 DEF CloseFindsNoCodec, BoundTo
  <1> QED BY <1>1, Owned, TypeCorrect, PTL

\* The registry lists, and counts, exactly what each client owns.
THEOREM RegistryAgrees == ASSUME Limits PROVE Spec => []RegistryExact
  <1>1. TypeOK /\ OneSlotPerPid /\ OwnInv => RegistryExact
    <2> SUFFICES ASSUME TypeOK, OneSlotPerPid, OwnInv PROVE RegistryExact
      OBVIOUS
    <2>1. \A p \in Pids : Registered(p) = {h \in Handles : Known(h, p)}
      <3> SUFFICES ASSUME NEW p \in Pids, NEW h \in Handles
                   PROVE  (/\ owner[h] = p
                           /\ h # cb.busy
                           /\ \A t \in Threads : rpc[t].at = "running" =>
                                /\ rpc[t].ret # h
                                /\ rpc[t].fn \in {"Engine_close", "VIDDEC3_delete"} => rpc[t].arg # h)
                          <=> Known(h, p)
        BY DEF Registered
      <3> QED BY DEF Known, Pending, Giving
    <2>2. ASSUME NEW s \in Slots, clients[s].pid # Null
          PROVE  Tracked(s) = Registered(clients[s].pid)
      <3> DEFINE p == clients[s].pid
      <3>1. p \in Pids
        BY <2>2, TrackedTables
      <3>2. \A h \in Handles : h \in Tracked(s) <=> Known(h, p)
        BY <3>1, OwnSlot DEF OwnInv, SlotContents
      <3>3. Tracked(s) \subseteq Handles
        BY TrackedTables
      <3> HIDE DEF p
      <3>4. Tracked(s) = Registered(p)
        BY <2>1, <3>1, <3>2, <3>3
      <3> QED BY <3>4 DEF p
    <2>3. ASSUME NEW s \in Slots
          PROVE  /\ clients[s].pid = Null => Tracked(s) = {}
                 /\ clients[s].refs = Cardinality(Tracked(s))
      BY HeadEngine DEF OwnInv, SlotShape
    <2>4. ASSUME NEW p \in Pids, Registered(p) # {} PROVE ~no_client(p)
      BY <2>1, <2>4 DEF OwnInv, SlotContents, Listed, no_client
    <2> QED BY <2>2, <2>3, <2>4 DEF RegistryExact
  <1> QED BY <1>1, Owned, TypeCorrect, OneSlot, PTL

\* The cleanup of a dead client leaves nothing that it owned.
THEOREM NothingLeft == ASSUME Limits PROVE Spec => []DeadOwnNothing
  <1>1. OwnInv => DeadOwnNothing
    BY DEF OwnInv
  <1> QED BY <1>1, Owned, PTL

\* Nor does it leave the slot in use: the engine, which goes last, frees it.
THEOREM NoSlotLeft == ASSUME Limits PROVE Spec => []DeadHaveNoSlot
  <1>1. TypeOK /\ OwnInv => DeadHaveNoSlot
    <2> SUFFICES ASSUME TypeOK, OwnInv, NEW p \in Pids, proc[p] = "dead",
                        NEW s \in Slots, clients[s].pid = p
                 PROVE  FALSE
      BY DEF DeadHaveNoSlot, no_client
    <2> DEFINE e == clients[s].engines[1]
    <2>1. 1 \in 1..NumEngines
      BY RegistryAssumption
    <2>2. e \in Engines \cup {Null}
      BY <2>1 DEF TypeOK, RegistryTypeOK, Client
    <2>3. e # Null
      BY NotNull DEF OwnInv, SlotShape
    <2>4. e \in Handles /\ Listed(e, p)
      BY <2>1, <2>2, <2>3 DEF Listed, Tracked, Handles
    <2>5. owner[e] = p
      BY <2>4 DEF OwnInv, SlotContents, Known
    <2> QED BY <2>4, <2>5 DEF OwnInv, DeadOwnNothing
  <1> QED BY <1>1, Owned, TypeCorrect, PTL

-----------------------------------------------------------------------------
\* The server implements module Ownership: every step of it is one of that
\* module, or changes nothing there.

LEMMA EndPromise ==
  ASSUME TypeOK, Contract, NEW t \in Threads, End(t)
  PROVE  [Promise!Next]_(Promise!vars)
  <1> DEFINE p == PidOf(t)
             arg == rpc[t].arg
             ret == rpc[t].ret
  <1>1. PICK fn \in Functions :
           /\ Reply(t, fn)
           /\ fn \in Giving => Destroyed(arg)
           /\ fn \notin Giving => UNCHANGED <<owner, engineOf>>
    BY Ending
  <1>2. rpc[t].at = "running" /\ rpc[t].fn = fn /\ UNCHANGED proc
    BY <1>1, Replied
  <1>3. p \in Pids /\ proc[p] = "alive"
    BY <1>2, NotNull DEF Contract, CallsOwn
  <1>4. held' = IF ret # Null THEN [held EXCEPT ![p] = @ \cup {ret}] ELSE held
    BY <1>1, <1>3 DEF Reply
  <1>5. ret \in Handles \cup {Null} /\ (ret # Null => owner[ret] = p)
    BY CallTypes DEF Contract, CallsOwn
  <1>6. fn \in Giving => /\ ret = Null /\ arg \in Handles /\ owner[arg] = p /\ arg \notin held[p]
                         /\ owner' = [owner EXCEPT ![arg] = Null]
    <2>1. fn \in Giving => ret = Null /\ arg \in Handles
      BY <1>2, Kinds DEF Giving, Handles
    <2> QED BY <1>1, <1>2, <2>1, NotNull DEF Contract, CallsOwn, Destroyed
  <1> HIDE DEF p, arg, ret
  <1>7. CASE fn \in Giving
    <2>1. Promise!Destroy(p, arg)
      BY <1>2, <1>3, <1>4, <1>6, <1>7 DEF Promise!Destroy
    <2> QED BY <1>3, <1>6, <1>7, <2>1 DEF Promise!Next
  <1>8. CASE fn \notin Giving /\ ret # Null
    <2>1. Promise!Grant(p, ret)
      BY <1>1, <1>2, <1>3, <1>4, <1>5, <1>8 DEF Promise!Grant
    <2> QED BY <1>3, <1>5, <1>8, <2>1 DEF Promise!Next
  <1>9. CASE fn \notin Giving /\ ret = Null
    BY <1>1, <1>2, <1>4, <1>9 DEF Promise!vars
  <1> QED BY <1>7, <1>8, <1>9

LEMMA CleanupPromise ==
  ASSUME TypeOK, Contract, Cleaning, DeadOwnNothing', dce_cleanup_cb
  PROVE  [Promise!Next]_(Promise!vars)
  <1>1. CASE cleanup_ce_returns
    <2>1. /\ cb.busy \in Handles
          /\ cb.pid \in Pids /\ proc[cb.pid] = "obit" /\ owner[cb.busy] = cb.pid
          /\ UNCHANGED <<proc, held>>
      BY <1>1, CleanupDestroys
    <2>2. owner' = [owner EXCEPT ![cb.busy] = Null]
      BY <1>1 DEF cleanup_ce_returns, Destroyed
    <2>3. Promise!Reclaim(cb.pid, cb.busy)
      BY <2>1, <2>2 DEF Promise!Reclaim
    <2> QED BY <2>1, <2>3 DEF Promise!Next
  <1>2. CASE ~cleanup_ce_returns
    <2>1. UNCHANGED <<held, owner>>
      BY <1>2 DEF dce_cleanup_cb, CleanupLoops, cleanup_start, cleanup_delete_codec,
          cleanup_codecs_done, cleanup_close_engine, cleanup_end, cleanupUnchanged, ceVars
    <2>2. \/ UNCHANGED proc
          \/ \E p \in Pids : proc[p] = "obit" /\ proc' = [proc EXCEPT ![p] = "dead"]
      BY <1>2 DEF dce_cleanup_cb, CleanupLoops, cleanup_start, cleanup_delete_codec,
          cleanup_codecs_done, cleanup_close_engine, cleanup_end, Cleaning
    <2>3. CASE UNCHANGED proc
      BY <2>1, <2>3 DEF Promise!vars
    <2>4. CASE \E p \in Pids : proc[p] = "obit" /\ proc' = [proc EXCEPT ![p] = "dead"]
      <3>1. PICK p \in Pids : proc[p] = "obit" /\ proc' = [proc EXCEPT ![p] = "dead"]
        BY <2>4
      <3>2. proc'[p] = "dead"
        BY <3>1 DEF TypeOK
      <3>3. \A h \in Handles : owner[h] # p
        BY <2>1, <3>2 DEF DeadOwnNothing
      <3>4. Promise!Bury(p)
        BY <2>1, <3>1, <3>3 DEF Promise!Bury
      <3> QED BY <3>4 DEF Promise!Next
    <2> QED BY <2>2, <2>3, <2>4
  <1> QED BY <1>1, <1>2

\* No step takes a handle from a living client before it is given back, gives
\* it to another, or lets a pid come back before all it had is reclaimed.
THEOREM KeepsPromise == ASSUME Limits PROVE Spec => OwnershipKept
  <1>1. Init => Promise!Init
    BY DEF Init, Promise!Init
  <1>2. /\ TypeOK /\ OneSlotPerPid /\ OwnInv /\ OwnInv' /\ [Next]_serverVars
        => [Promise!Next]_(Promise!vars)
    <2> SUFFICES ASSUME TypeOK, OwnInv, OwnInv', [Next]_serverVars
                 PROVE  [Promise!Next]_(Promise!vars)
      OBVIOUS
    <2>1. Contract /\ Cleaning /\ DeadOwnNothing'
      BY DEF OwnInv
    <2>2. ASSUME NEW t \in Threads, Application(t) PROVE [Promise!Next]_(Promise!vars)
      <3> DEFINE p == PidOf(t)
      <3>1. PICK fn \in Functions, arg \in Handles \cup {Null} :
               /\ Send(t, fn, arg)
               /\ arg \in ArgsOf(fn)
               /\ held' = IF fn \in Giving THEN [held EXCEPT ![p] = @ \ {arg}] ELSE held
        BY <2>2, Calling
      <3>2. UNCHANGED <<proc, owner>> /\ p \in Pids /\ (arg # Null => arg \in held[p])
        BY <3>1, Sent, NotNull
      <3>3. CASE fn \in Giving
        <4>1. arg \in Handles /\ arg # Null
          BY <3>1, <3>3, NotNull DEF Giving, ArgsOf, Handles
        <4>2. Promise!GiveBack(p, arg)
          BY <3>1, <3>2, <3>3, <4>1 DEF Promise!GiveBack
        <4> QED BY <3>2, <4>1, <4>2 DEF Promise!Next
      <3>4. CASE fn \notin Giving
        BY <3>1, <3>2, <3>4 DEF Promise!vars
      <3> QED BY <3>3, <3>4
    <2>3. ASSUME NEW t \in Threads, Begin(t) PROVE [Promise!Next]_(Promise!vars)
      <3> DEFINE p == PidOf(t)
      <3>1. PICK fn \in Functions, ret \in Handles \cup {Null} :
               /\ Dispatch(t, fn, ret)
               /\ ret = Null => UNCHANGED <<owner, engineOf>>
               /\ ret # Null => owner[ret] = Null /\ owner' = [owner EXCEPT ![ret] = p]
        BY <2>3, Beginning
      <3>2. UNCHANGED <<proc, held>> /\ p \in Pids /\ proc[p] = "alive"
        BY <2>1, <3>1, Dispatched, NotNull DEF Contract, CallsOwn
      <3>3. CASE ret # Null
        <4>1. Promise!Make(p, ret)
          BY <3>1, <3>2, <3>3 DEF Promise!Make
        <4> QED BY <3>2, <3>3, <4>1 DEF Promise!Next
      <3>4. CASE ret = Null
        BY <3>1, <3>2, <3>4 DEF Promise!vars
      <3> QED BY <3>3, <3>4
    <2>4. ASSUME NEW t \in Threads, End(t) PROVE [Promise!Next]_(Promise!vars)
      BY <2>1, <2>4, EndPromise
    <2>5. ASSUME NEW p \in Pids, Crash(p) PROVE [Promise!Next]_(Promise!vars)
      <3>1. Promise!Die(p)
        BY <2>5 DEF Crash, ceVars, Promise!Die
      <3> QED BY <3>1 DEF Promise!Next
    <2>6. ASSUME NEW p \in Pids, Respawn(p) PROVE [Promise!Next]_(Promise!vars)
      <3>1. Promise!Reuse(p)
        BY <2>6 DEF Respawn, callVars, ceVars, Promise!Reuse
      <3> QED BY <3>1 DEF Promise!Next
    <2>7. CASE dce_cleanup_cb
      BY <2>1, <2>7, CleanupPromise
    <2>8. CASE UNCHANGED serverVars
      BY <2>8 DEF serverVars, callVars, ceVars, Promise!vars
    <2> QED BY <2>2, <2>3, <2>4, <2>5, <2>6, <2>7, <2>8 DEF Next
  <1> QED BY <1>1, <1>2, Owned, TypeCorrect, OneSlot, PTL DEF Spec, OwnershipKept, Promise!Spec
=============================================================================
