------------------------- MODULE DceClient_session -------------------------
(***************************************************************************)
(* More about the client library, for applications that open one engine at *)
(* a time (MaxSessions = 1), which is what its use count can carry: with   *)
(* any number of threads and codecs, and whatever RCM does, the process    *)
(* stays connected for as long as anybody needs the connection.            *)
(***************************************************************************)
EXTENDS DceClient_proofs, FiniteSetTheorems

OpenClose == {"Engine_open", "Engine_close"}
OnCodec == {"VIDDEC3_process", "VIDDEC3_delete"}

\* A thread that opens or closes is alone, and nothing is held meanwhile.
Alone ==
    \A t \in Threads : call[t].fn \in OpenClose =>
        held = {} /\ \A u \in Threads \ {t} : call[u] = NoCall

\* Everything else is based on the one engine held.
Based ==
    /\ \A e, f \in held \cap Engines : e = f
    /\ madeBy \in [Codecs \cup {Garbage} -> Engines \cup {Null}]
    /\ \A c \in held \ Engines : madeBy[c] \in held \cap Engines
    /\ \A t \in Threads :
        /\ call[t].fn = "VIDDEC3_create" => call[t].arg \in held \cap Engines
        /\ call[t].fn \in OnCodec => /\ call[t].arg \in Codecs \cup {Garbage}
                                     /\ madeBy[call[t].arg] \in held \cap Engines

\* Where a call can be, and what it has there.
Phases ==
    \A t \in Threads :
        /\ call[t].pc = "idle" \/ call[t].fn = "none" => call[t] = NoCall
        /\ call[t].pc \in {"init", "setup"} => call[t].fn = "Engine_open"
        /\ call[t].pc \in {"deinit", "destroy"} => call[t].fn = "Engine_close"
        /\ call[t].msg # Null <=> call[t].pc \in {"exec", "free"}
        /\ call[t].pc = "free" =>
               call[t].ret \in IF call[t].fn = "Engine_open" THEN Engines \cup {Null}
                               ELSE IF call[t].fn = "VIDDEC3_create"
                                 THEN Codecs \cup {Null, Garbage} ELSE {Null}

\* The connection: count says whether there may be one, and messages and
\* handles there are only with one.  Besides the handle's, only connections
\* that Rcm_delete refused to delete exist.
Connection ==
    /\ conns = ({handle} \ {Null}) \cup undeleted
    /\ undeleted \cap {handle, Null} = {}
    /\ count \in {0, 1}
    /\ handle # Null => ipc
    /\ count = 0 => /\ handle = Null /\ held = {}
                    /\ \A t \in Threads : call[t].pc \in {"idle", "init", "destroy"}
    /\ held # {} => handle # Null
    /\ \A t \in Threads : /\ call[t].msg # Null => call[t].msg = handle
                          /\ call[t].pc = "setup" => handle = Null
                          /\ call[t].pc = "destroy" => count = 0

SessionInv == LockTypes /\ Alone /\ Based /\ Phases /\ Connection

LEMMA SessionInit == Init => SessionInv
  BY ClientAssumption DEF Init, SessionInv, LockTypes, Alone, Based, Phases, Connection,
     NoCall, CallRecord, OpenClose, OnCodec, Handles

\* One application call in the library at most, so that a count of zero or one
\* is right: nothing is open when Engine_open begins.
LEMMA NothingOpen ==
  ASSUME MaxSessions = 1, SessionInv, Sessions < MaxSessions
  PROVE  held = {} /\ \A t \in Threads : call[t] = NoCall
  <1> DEFINE T == {t \in Threads : call[t].fn \in {"Engine_open", "Engine_close"}}
  <1>1. IsFiniteSet(held \cap Engines)
    <2>1. CASE held \cap Engines = {}
      BY <2>1, FS_EmptySet
    <2>2. CASE held \cap Engines # {}
      <3>1. PICK e : held \cap Engines = {e}
        BY <2>2 DEF SessionInv, Based
      <3> QED BY <3>1, FS_Singleton
    <2> QED BY <2>1, <2>2
  <1>2. IsFiniteSet(T)
    BY ClientAssumption, FS_Subset
  <1>3. Cardinality(held \cap Engines) = 0 /\ Cardinality(T) = 0
    <2>1. Cardinality(held \cap Engines) \in Nat /\ Cardinality(T) \in Nat
      BY <1>1, <1>2, FS_CardinalityType
    <2>2. Cardinality(held \cap Engines) + Cardinality(T) < 1
      BY DEF Sessions
    <2> QED BY <2>1, <2>2
  <1>4. held \cap Engines = {} /\ T = {}
    BY <1>1, <1>2, <1>3, FS_EmptySet
  <1>5. held = {}
    BY <1>4 DEF SessionInv, Based
  <1>6. \A t \in Threads : call[t].fn = "none"
    BY <1>4 DEF SessionInv, Based, LockTypes, CallRecord, OnCodec
  <1> QED BY <1>5, <1>6 DEF SessionInv, Phases

\* Nor is anybody else in the library when Engine_close begins.
LEMMA LastEngine ==
  ASSUME SessionInv, NEW e \in Engines, e \in held, ~InUse(e), ~HasCodec(e)
  PROVE  held = {e} /\ \A t \in Threads : call[t] = NoCall
  <1>1. \A c \in held \ Engines : madeBy[c] = e /\ c \in DOMAIN madeBy
    BY DEF SessionInv, Based, LockTypes, Handles
  <1>2. held \ Engines = {}
    BY <1>1 DEF HasCodec
  <1>3. held = {e}
    BY <1>2 DEF SessionInv, Based
  <1>4. ASSUME NEW t \in Threads PROVE call[t].fn = "none"
    <2>1. call[t].fn \notin OpenClose
      BY <1>3 DEF SessionInv, Alone
    <2>2. call[t].fn # "VIDDEC3_create"
      BY <1>3 DEF SessionInv, Based, InUse
    <2>3. call[t].fn \notin OnCodec
      BY <1>3 DEF SessionInv, Based, InUse, HasCodec
    <2> QED BY <2>1, <2>2, <2>3 DEF SessionInv, LockTypes, CallRecord, OpenClose, OnCodec
  <1> QED BY <1>3, <1>4 DEF SessionInv, Phases

-----------------------------------------------------------------------------
\* What Enter and Return do to the calls.
LEMMA EnterCall ==
  ASSUME SessionInv, NEW t \in Threads, NEW pc \in {"init", "alloc"},
         NEW fn \in OpenClose \cup OnCodec \cup {"VIDDEC3_create"},
         NEW arg \in Handles \cup {Null, Garbage}, Enter(t, fn, arg, pc)
  PROVE  /\ call' \in [Threads -> CallRecord]
         /\ call'[t].pc = pc /\ call'[t].fn = fn /\ call'[t].arg = arg
         /\ call'[t].msg = Null
         /\ \A u \in Threads \ {t} : call'[u] = call[u]
         /\ call[t] = NoCall
         /\ arg # Null => arg \in held /\ ~InUse(arg)
         /\ UNCHANGED <<mutex, count, ipc, handle, conns, undeleted, madeBy>>
  <1>1. LockTypes
    BY DEF SessionInv
  <1>2. /\ call[t] = NoCall /\ (arg # Null => arg \in held /\ ~InUse(arg))
        /\ UNCHANGED <<mutex, count, ipc, handle, conns, undeleted, madeBy>>
    BY DEF Enter, libVars
  <1> QED BY <1>1, <1>2, CallEntered DEF OpenClose, OnCodec

LEMMA OpenStep ==
  ASSUME MaxSessions = 1, SessionInv, NEW t \in Threads, CallOpen(t)
  PROVE  SessionInv'
  <1>1. held = {} /\ \A u \in Threads : call[u] = NoCall
    BY NothingOpen DEF CallOpen
  <1>2. /\ call' \in [Threads -> CallRecord] /\ call'[t].msg = Null
        /\ call'[t].pc = "init" /\ call'[t].fn = "Engine_open" /\ call'[t].arg = Null
        /\ \A u \in Threads \ {t} : call'[u] = call[u]
        /\ UNCHANGED <<mutex, count, ipc, handle, conns, undeleted, madeBy, held>>
    BY EnterCall DEF CallOpen, OpenClose
  <1>4. LockTypes'
    BY <1>2 DEF SessionInv, LockTypes
  <1>5. Alone' /\ Based' /\ Phases'
    BY <1>1, <1>2 DEF SessionInv, Alone, Based, Phases, NoCall, OpenClose, OnCodec
  <1>6. Connection'
    BY <1>1, <1>2 DEF SessionInv, Connection, NoCall
  <1> QED BY <1>4, <1>5, <1>6 DEF SessionInv

LEMMA CloseStep ==
  ASSUME SessionInv, NEW t \in Threads, CallClose(t)
  PROVE  SessionInv'
  <1>1. PICK e \in Engines : /\ ~HasCodec(e) /\ Enter(t, "Engine_close", e, "alloc")
                             /\ held' = held \ {e}
    BY DEF CallClose
  <1>2. /\ call' \in [Threads -> CallRecord] /\ call'[t].msg = Null
        /\ call'[t].pc = "alloc" /\ call'[t].fn = "Engine_close" /\ call'[t].arg = e
        /\ \A u \in Threads \ {t} : call'[u] = call[u]
        /\ e # Null => e \in held /\ ~InUse(e)
        /\ UNCHANGED <<mutex, count, ipc, handle, conns, undeleted, madeBy>>
    BY <1>1, EnterCall DEF OpenClose, Handles
  <1>3. held = {e} /\ \A u \in Threads : call[u] = NoCall
    BY <1>1, <1>2, LastEngine, ClientAssumption
  <1>5. LockTypes'
    BY <1>1, <1>2 DEF SessionInv, LockTypes
  <1>6. Alone' /\ Based' /\ Phases'
    BY <1>1, <1>2, <1>3 DEF SessionInv, Alone, Based, Phases, NoCall, OpenClose, OnCodec
  <1>7. Connection'
    BY <1>1, <1>2, <1>3 DEF SessionInv, Connection, NoCall
  <1> QED BY <1>5, <1>6, <1>7 DEF SessionInv

\* VIDDEC3_create, process and delete need something that is held, so no thread
\* opens or closes.
LEMMA UseStep ==
  ASSUME SessionInv, NEW t \in Threads, CallCreate(t) \/ CallCodec(t) \/ CallDelete(t)
  PROVE  SessionInv'
  <1>1. PICK fn \in OnCodec \cup {"VIDDEC3_create"}, arg \in held :
          /\ Enter(t, fn, arg, "alloc")
          /\ fn = "VIDDEC3_create" => arg \in Engines /\ held' = held
          /\ fn \in OnCodec => /\ arg \in held \ Engines
                               /\ held' = held \/ held' = held \ {arg}
    <2>1. CASE CallCreate(t)
      <3>1. PICK e \in Engines : Enter(t, "VIDDEC3_create", e, "alloc") /\ UNCHANGED held
        BY <2>1 DEF CallCreate
      <3>2. e \in held
        BY <3>1, ClientAssumption DEF Enter
      <3>3. "VIDDEC3_create" \notin OnCodec
        BY DEF OnCodec
      <3> QED BY <3>1, <3>2, <3>3
    <2>2. CASE CallCodec(t)
      BY <2>2 DEF CallCodec, OnCodec
    <2>3. CASE CallDelete(t)
      BY <2>3 DEF CallDelete, OnCodec
    <2> QED BY <2>1, <2>2, <2>3
  <1>2. /\ call' \in [Threads -> CallRecord] /\ call'[t].msg = Null
        /\ call'[t].pc = "alloc" /\ call'[t].fn = fn /\ call'[t].arg = arg
        /\ \A u \in Threads \ {t} : call'[u] = call[u]
        /\ UNCHANGED <<mutex, count, ipc, handle, conns, undeleted, madeBy>>
    BY <1>1, EnterCall DEF SessionInv, LockTypes
  <1>3. held \cap Engines = held' \cap Engines /\ held' \subseteq held
    BY <1>1 DEF OnCodec
  <1>4. held \cap Engines # {}
    BY <1>1 DEF SessionInv, Based, OnCodec
  <1>5. fn \notin OpenClose /\ fn # "none"
    BY DEF OnCodec, OpenClose
  <1>6. LockTypes'
    BY <1>2, <1>3 DEF SessionInv, LockTypes
  <1>7. \A u \in Threads : call'[u].fn \notin OpenClose
    BY <1>1, <1>2, <1>5 DEF SessionInv, Alone
  <1>8. Based'
    BY <1>1, <1>2, <1>3, <1>4 DEF SessionInv, Based, LockTypes, Handles, OnCodec
  <1>9. Phases'
    BY <1>2, <1>5 DEF SessionInv, Phases
  <1>10. Connection'
    BY <1>1, <1>2, <1>3 DEF SessionInv, Connection
  <1> QED BY <1>6, <1>7, <1>8, <1>9, <1>10 DEF SessionInv, Alone

-----------------------------------------------------------------------------
\* What a thread that opens or closes finds, and where count stands in between.
LEMMA InSession ==
  ASSUME SessionInv, NEW t \in Threads
  PROVE  /\ call[t].pc \in {"init", "setup"} => call[t].fn = "Engine_open" /\ call[t].msg = Null
         /\ call[t].pc \in {"deinit", "destroy"} => call[t].fn = "Engine_close" /\ call[t].msg = Null
         /\ call[t].pc \notin {"idle", "init", "destroy"} => count = 1
         /\ call[t].pc = "setup" => handle = Null /\ conns = undeleted
         /\ call[t].fn \in OpenClose =>
                held = {} /\ \A u \in Threads \ {t} : call[u] = NoCall
  BY DEF SessionInv, Phases, Connection, Alone

\* init and deinit (src/dce.c:919-966), where nobody else is in the library.
LEMMA InitStep ==
  ASSUME SessionInv, NEW t \in Threads, init_begin(t) \/ init_end(t)
  PROVE  SessionInv'
  <1>1. call[t].fn = "Engine_open" /\ call[t].pc \in {"init", "setup"} /\ call[t].msg = Null
    BY InSession DEF init_begin, init_end
  <1>2. held = {} /\ \A u \in Threads \ {t} : call[u] = NoCall
    BY <1>1, InSession DEF OpenClose
  <1>3. UNCHANGED <<held, madeBy>> /\ mutex' \in Threads \cup {Null}
    BY DEF init_begin, init_end, appVars, libVars, SessionInv, LockTypes
  <1>4. PICK pc \in {"setup", "alloc"} :
          /\ Goto(t, pc) /\ count' = 1 /\ (handle' # Null => ipc')
          /\ handle' \in Conns \cup {Null}
          /\ conns' = ({handle'} \ {Null}) \cup undeleted'
          /\ undeleted' \cap {handle', Null} = {}
          /\ pc = "setup" => handle' = Null
    <2>1. CASE init_begin(t)
      <3>1. /\ conns = ({handle} \ {Null}) \cup undeleted
            /\ undeleted \cap {handle, Null} = {}
            /\ count \in {0, 1} /\ handle \in Conns \cup {Null}
            /\ (handle # Null => ipc) /\ (count = 0 => handle = Null)
        BY DEF SessionInv, Connection, LockTypes
      <3> QED BY <2>1, <3>1 DEF init_begin, libVars
    <2>2. CASE init_end(t)
      <3>1. conns = undeleted /\ Null \notin undeleted /\ count = 1
        BY <2>2, InSession DEF init_end, SessionInv, Connection
      <3>2. /\ handle' \in Conns \cup {Null} /\ (handle' # Null => ipc)
            /\ conns' = ({handle'} \ {Null}) \cup conns
            /\ handle' \notin conns \/ handle' = Null
        BY <2>2, ClientAssumption DEF init_end, connect
      <3> QED BY <2>2, <3>1, <3>2 DEF init_end
    <2> QED BY <2>1, <2>2
  <1>5. /\ call' \in [Threads -> CallRecord]
        /\ call'[t].pc = pc /\ call'[t].msg = Null /\ call'[t].fn = "Engine_open"
        /\ \A u \in Threads \ {t} : call'[u] = call[u]
    BY <1>1, <1>4, CallGoesTo DEF SessionInv
  <1>6. LockTypes' /\ Alone' /\ Based' /\ Phases'
    BY <1>2, <1>3, <1>4, <1>5 DEF SessionInv, LockTypes, Alone, Based, Phases, NoCall,
       OpenClose, OnCodec
  <1>7. Connection'
    BY <1>2, <1>3, <1>4, <1>5 DEF Connection, NoCall
  <1> QED BY <1>6, <1>7 DEF SessionInv

LEMMA DeinitStep ==
  ASSUME SessionInv, NEW t \in Threads, deinit_begin(t) \/ deinit_end(t)
  PROVE  SessionInv'
  <1>1. call[t].fn = "Engine_close" /\ call[t].pc \in {"deinit", "destroy"} /\ call[t].msg = Null
    BY InSession DEF deinit_begin, deinit_end
  <1>2. held = {} /\ \A u \in Threads \ {t} : call[u] = NoCall
    BY <1>1, InSession DEF OpenClose
  <1>3. CASE deinit_begin(t)
    <2>1. /\ count = 1 /\ call[t].pc = "deinit"
          /\ conns = ({handle} \ {Null}) \cup undeleted
          /\ undeleted \cap {handle, Null} = {}
      BY <1>3, InSession DEF deinit_begin, SessionInv, Connection
    <2>2. /\ count' = 0 /\ mutex' = t /\ handle' = Null
          /\ conns' = undeleted' /\ Null \notin undeleted'
          /\ Goto(t, "destroy") /\ UNCHANGED <<held, madeBy>>
      BY <1>3, <2>1 DEF deinit_begin, dce_deinit, appVars
    <2>3. /\ call' \in [Threads -> CallRecord]
          /\ call'[t].pc = "destroy" /\ call'[t].msg = Null /\ call'[t].fn = "Engine_close"
          /\ \A u \in Threads \ {t} : call'[u] = call[u]
      BY <1>1, <2>2, CallGoesTo DEF SessionInv
    <2>4. LockTypes' /\ Alone' /\ Based' /\ Phases'
      BY <1>2, <2>2, <2>3 DEF SessionInv, LockTypes, Alone, Based, Phases, NoCall,
         OpenClose, OnCodec
    <2>5. Connection'
      BY <1>2, <2>2, <2>3 DEF Connection, NoCall
    <2> QED BY <2>4, <2>5 DEF SessionInv
  <1>4. CASE deinit_end(t)
    <2>1. /\ count = 0 /\ handle = Null /\ conns = undeleted /\ Null \notin undeleted
          /\ mutex' = Null /\ UNCHANGED <<count, handle, conns, undeleted>>
      BY <1>4 DEF deinit_end, SessionInv, Connection
    <2>2. /\ call' \in [Threads -> CallRecord]
          /\ \A u \in Threads : call'[u] = NoCall
      <3>1. NoCall \in CallRecord
        BY DEF NoCall, CallRecord
      <3>2. call' = [call EXCEPT ![t] = NoCall]
        BY <1>4 DEF deinit_end, Return
      <3> QED BY <1>2, <3>1, <3>2 DEF SessionInv, LockTypes
    <2>3. held' = {} /\ madeBy' = madeBy
      BY <1>2, <1>4, ClientAssumption DEF deinit_end, Return, SessionInv, Based
    <2>4. LockTypes' /\ Alone' /\ Based' /\ Phases'
      BY <2>1, <2>2, <2>3, ClientAssumption DEF SessionInv, LockTypes, Alone, Based, Phases,
         NoCall, OpenClose, OnCodec
    <2>5. Connection'
      BY <2>1, <2>2, <2>3 DEF Connection, NoCall
    <2> QED BY <2>4, <2>5 DEF SessionInv
  <1> QED BY <1>3, <1>4

-----------------------------------------------------------------------------
\* The body the six functions share (src/dce.c:376-788), in a session.
LEMMA ReturnsStep ==
  ASSUME SessionInv, NEW t \in Threads, NEW ret, Return(t, ret), UNCHANGED libVars,
         call[t].pc \in {"alloc", "free"}, call[t].fn # "Engine_close",
         call[t].fn = "Engine_open" =>
             ret \in Engines \cup {Null} /\ (ret # Null => handle # Null),
         call[t].fn = "VIDDEC3_create" => ret \in Codecs \cup {Null, Garbage},
         call[t].fn \notin {"Engine_open", "VIDDEC3_create"} => ret = Null
  PROVE  SessionInv'
  <1>1. /\ call' \in [Threads -> CallRecord] /\ call'[t] = NoCall
        /\ \A u \in Threads \ {t} : call'[u] = call[u]
    <2>1. NoCall \in CallRecord
      BY DEF NoCall, CallRecord
    <2> QED BY <2>1 DEF Return, SessionInv, LockTypes
  <1>2. UNCHANGED <<mutex, count, ipc, handle, conns, undeleted>> /\ count = 1
    BY InSession DEF libVars
  <1>3. held' = held \cup ({ret} \ {Null})
    BY DEF Return
  <1>4. NoCall.fn = "none" /\ NoCall.pc = "idle" /\ NoCall.msg = Null
    BY DEF NoCall
  <1>5. Phases'
    BY <1>1, <1>4, ClientAssumption DEF SessionInv, Phases
  <1>6. CASE call[t].fn = "Engine_open"
    <2>1. /\ held = {} /\ held' \subseteq Engines /\ held' = {ret} \ {Null}
          /\ \A u \in Threads : call'[u] = NoCall
      BY <1>1, <1>3, <1>6, InSession DEF OpenClose
    <2>2. madeBy' = madeBy
      BY <1>6, ClientAssumption DEF Return, SessionInv, Based
    <2>3. LockTypes' /\ Alone' /\ Based'
      BY <1>1, <1>2, <1>4, <2>1, <2>2, ClientAssumption DEF SessionInv, LockTypes, Alone,
         Based, OpenClose, OnCodec, Handles
    <2>4. Connection'
      BY <1>2, <1>4, <1>6, <2>1 DEF SessionInv, Connection
    <2> QED BY <1>5, <2>3, <2>4 DEF SessionInv
  <1>7. CASE call[t].fn # "Engine_open"
    <2>1. call[t].fn \in OpenClose <=> FALSE
      BY <1>7 DEF OpenClose
    <2>2. /\ ret = Null \/ (call[t].fn = "VIDDEC3_create" /\ ret \in Codecs \cup {Garbage})
          /\ held' \cap Engines = held \cap Engines
          /\ held' \ Engines \subseteq Codecs \cup {Garbage}
      BY <1>3, <1>7, ClientAssumption DEF SessionInv, LockTypes, Handles
    <2>3. /\ madeBy' \in [Codecs \cup {Garbage} -> Engines \cup {Null}]
          /\ \A c \in Codecs \cup {Garbage} :
                madeBy'[c] = IF c = ret THEN call[t].arg ELSE madeBy[c]
          /\ ret # Null => call[t].arg \in held \cap Engines
      <3>1. madeBy' = [c \in Codecs \cup {Garbage} |-> IF c = ret THEN call[t].arg ELSE madeBy[c]]
        BY DEF Return, SessionInv, Based
      <3>2. ret # Null => call[t].arg \in held \cap Engines
        BY <2>2 DEF SessionInv, Based
      <3>3. \A c \in Codecs \cup {Garbage} :
              (IF c = ret THEN call[t].arg ELSE madeBy[c]) \in Engines \cup {Null}
        BY <3>2, ClientAssumption DEF SessionInv, Based
      <3> QED BY <3>1, <3>2, <3>3
    <2>4. LockTypes'
      BY <1>1, <1>2, <1>3, <2>2 DEF SessionInv, LockTypes, Handles
    <2>5. Alone'
      <3> SUFFICES ASSUME NEW u \in Threads, call'[u].fn \in OpenClose
                   PROVE  held' = {} /\ \A v \in Threads \ {u} : call'[v] = NoCall
        BY DEF Alone
      <3>1. u # t /\ call'[u] = call[u]
        BY <1>1, <1>4 DEF OpenClose
      <3>2. held = {} /\ call[t] = NoCall
        BY <3>1 DEF SessionInv, Alone
      <3> QED BY <3>2, <1>4
    <2>6. Based'
      <3>1. \A e, f \in held' \cap Engines : e = f
        BY <2>2 DEF SessionInv, Based
      <3>2. \A c \in held' \ Engines : madeBy'[c] \in held' \cap Engines
        BY <1>3, <2>2, <2>3, ClientAssumption DEF SessionInv, Based
      <3>3. ASSUME NEW u \in Threads
            PROVE  /\ call'[u].fn = "VIDDEC3_create" => call'[u].arg \in held' \cap Engines
                   /\ call'[u].fn \in OnCodec => /\ call'[u].arg \in Codecs \cup {Garbage}
                                                 /\ madeBy'[call'[u].arg] \in held' \cap Engines
        <4>1. CASE u = t
          BY <1>1, <1>4, <4>1 DEF OnCodec
        <4>2. CASE u # t
          <5>1. call'[u] = call[u]
            BY <1>1, <4>2
          <5>2. /\ call[u].fn = "VIDDEC3_create" => call[u].arg \in held \cap Engines
                /\ call[u].fn \in OnCodec => /\ call[u].arg \in Codecs \cup {Garbage}
                                             /\ madeBy[call[u].arg] \in held \cap Engines
            BY DEF SessionInv, Based
          <5>3. call[u].arg \in Codecs \cup {Garbage} /\ madeBy[call[u].arg] \in held \cap Engines
                  => madeBy'[call[u].arg] \in held' \cap Engines
            BY <2>2, <2>3, ClientAssumption
          <5> QED BY <5>1, <5>2, <5>3, <2>2
        <4> QED BY <4>1, <4>2
      <3> QED BY <2>3, <3>1, <3>2, <3>3 DEF Based
    <2>7. held' # {} => handle # Null
      BY <1>3, <2>2, <2>3 DEF SessionInv, Connection
    <2>8. Connection'
      BY <1>1, <1>2, <1>4, <2>7 DEF SessionInv, Connection
    <2> QED BY <1>5, <2>4, <2>5, <2>6, <2>8 DEF SessionInv
  <1> QED BY <1>6, <1>7

\* A step of a call from one place of the body to the next.
LEMMA BodyStep ==
  ASSUME SessionInv, NEW t \in Threads, UNCHANGED <<libVars, held, madeBy>>,
         call[t].pc \in {"alloc", "exec", "free"},
         call' \in [Threads -> CallRecord],
         call'[t].fn = call[t].fn, call'[t].arg = call[t].arg,
         \A u \in Threads \ {t} : call'[u] = call[u],
         \/ call'[t].pc = "exec" /\ call'[t].msg = handle /\ handle # Null
         \/ /\ call'[t].pc = "free" /\ call'[t].msg = call[t].msg /\ call[t].pc = "exec"
            /\ call'[t].ret \in IF call[t].fn = "Engine_open" THEN Engines \cup {Null}
                                ELSE IF call[t].fn = "VIDDEC3_create"
                                  THEN Codecs \cup {Null, Garbage} ELSE {Null}
         \/ call'[t].pc = "deinit" /\ call'[t].msg = Null /\ call[t].fn = "Engine_close"
  PROVE  SessionInv'
  <1>1. UNCHANGED <<mutex, count, ipc, handle, conns, undeleted, held, madeBy>> /\ count = 1
    BY InSession DEF libVars
  <1>2. call[t].fn # "none"
    BY DEF SessionInv, Phases, NoCall
  <1>3. LockTypes' /\ Alone' /\ Based'
    BY <1>1 DEF SessionInv, LockTypes, Alone, Based, NoCall, OpenClose
  <1>4. Phases'
    BY <1>1, <1>2 DEF SessionInv, Phases
  <1>5. Connection'
    BY <1>1, <1>4 DEF SessionInv, Connection, Phases
  <1> QED BY <1>3, <1>4, <1>5 DEF SessionInv

\* The end of a function, from where it is in the body.
LEMMA LeavesStep ==
  ASSUME SessionInv, NEW t \in Threads, NEW ret, Leave(t, ret), UNCHANGED libVars,
         call[t].pc \in {"alloc", "free"},
         call[t].fn = "Engine_open" =>
             ret \in Engines \cup {Null} /\ (ret # Null => handle # Null),
         call[t].fn = "VIDDEC3_create" => ret \in Codecs \cup {Null, Garbage},
         call[t].fn \notin {"Engine_open", "VIDDEC3_create"} => ret = Null
  PROVE  SessionInv'
  <1>1. CASE call[t].fn = "Engine_close"
    <2> DEFINE new == [call[t] EXCEPT !.pc = "deinit", !.msg = Null]
    <2>1. /\ new \in CallRecord /\ new.pc = "deinit" /\ new.msg = Null
          /\ new.fn = call[t].fn /\ new.arg = call[t].arg
      BY DEF SessionInv, LockTypes, CallRecord
    <2>2. call' = [call EXCEPT ![t] = new] /\ UNCHANGED <<held, madeBy>>
      BY <1>1 DEF Leave, appVars
    <2> HIDE DEF new
    <2>3. /\ call' \in [Threads -> CallRecord] /\ call'[t] = new
          /\ \A u \in Threads \ {t} : call'[u] = call[u]
      BY <2>1, <2>2 DEF SessionInv, LockTypes
    <2> QED BY <1>1, <2>1, <2>2, <2>3, BodyStep
  <1>2. CASE call[t].fn # "Engine_close"
    BY <1>2, ReturnsStep DEF Leave
  <1> QED BY <1>1, <1>2

LEMMA SessionMessageStep ==
  ASSUME SessionInv, NEW t \in Threads,
         alloc_message(t) \/ exec_message(t) \/ free_message(t)
  PROVE  SessionInv'
  <1>1. CASE alloc_message(t)
    <2>1. call[t].pc = "alloc" /\ UNCHANGED libVars
      BY <1>1 DEF alloc_message
    <2>2. CASE /\ handle # Null
               /\ call' = [call EXCEPT ![t].pc = "exec", ![t].msg = handle]
               /\ UNCHANGED appVars
      <3> DEFINE new == [call[t] EXCEPT !.pc = "exec", !.msg = handle]
      <3>1. /\ new \in CallRecord /\ new.pc = "exec" /\ new.msg = handle
            /\ new.fn = call[t].fn /\ new.arg = call[t].arg
        BY DEF SessionInv, LockTypes, CallRecord
      <3>2. call' = [call EXCEPT ![t] = new] /\ UNCHANGED <<held, madeBy>>
        BY <2>2 DEF appVars
      <3> HIDE DEF new
      <3>3. /\ call' \in [Threads -> CallRecord] /\ call'[t] = new
            /\ \A u \in Threads \ {t} : call'[u] = call[u]
        BY <3>1, <3>2 DEF SessionInv, LockTypes
      <3> QED BY <2>1, <2>2, <3>1, <3>2, <3>3, BodyStep
    <2>3. CASE \E ret \in Unset(t) : Leave(t, ret)
      BY <2>1, <2>3, LeavesStep DEF Unset
    <2> QED BY <1>1, <2>2, <2>3 DEF alloc_message
  <1>2. CASE exec_message(t)
    <2>1. call[t].pc = "exec" /\ UNCHANGED <<libVars, held, madeBy>>
      BY <1>2 DEF exec_message, appVars
    <2>2. PICK ret \in Handles \cup {Null, Garbage} :
            /\ call' = [call EXCEPT ![t].pc = "free", ![t].ret = ret]
            /\ ret \in IF call[t].fn = "Engine_open" THEN Engines \cup {Null}
                       ELSE IF call[t].fn = "VIDDEC3_create"
                         THEN Codecs \cup {Null, Garbage} ELSE {Null}
      BY <1>2 DEF exec_message, Unset, Serve
    <2> DEFINE new == [call[t] EXCEPT !.pc = "free", !.ret = ret]
    <2>3. /\ new \in CallRecord /\ new.pc = "free" /\ new.ret = ret
          /\ new.msg = call[t].msg /\ new.fn = call[t].fn /\ new.arg = call[t].arg
      BY DEF SessionInv, LockTypes, CallRecord
    <2>4. call' = [call EXCEPT ![t] = new]
      BY <2>2
    <2> HIDE DEF new
    <2>5. /\ call' \in [Threads -> CallRecord] /\ call'[t] = new
          /\ \A u \in Threads \ {t} : call'[u] = call[u]
      BY <2>3, <2>4 DEF SessionInv, LockTypes
    <2> QED BY <2>1, <2>2, <2>3, <2>5, BodyStep
  <1>3. CASE free_message(t)
    <2>1. call[t].pc = "free" /\ UNCHANGED libVars /\ Leave(t, call[t].ret)
      BY <1>3 DEF free_message
    <2>2. handle # Null
      BY <2>1 DEF SessionInv, Phases, Connection
    <2>3. call[t].ret \in IF call[t].fn = "Engine_open" THEN Engines \cup {Null}
                          ELSE IF call[t].fn = "VIDDEC3_create"
                            THEN Codecs \cup {Null, Garbage} ELSE {Null}
      BY <2>1 DEF SessionInv, Phases
    <2> QED BY <2>1, <2>2, <2>3, LeavesStep
  <1> QED BY <1>1, <1>2, <1>3

-----------------------------------------------------------------------------
LEMMA SessionAlways ==
  ASSUME MaxSessions = 1
  PROVE  Spec => []SessionInv
  <1>1. SessionInv /\ [Next]_vars => SessionInv'
    <2> SUFFICES ASSUME SessionInv, [Next]_vars PROVE SessionInv'
      OBVIOUS
    <2>1. CASE UNCHANGED vars
      BY <2>1 DEF vars, libVars, appVars, SessionInv, LockTypes, Alone, Based, Phases,
         Connection
    <2>2. CASE \E t \in Threads : App(t)
      BY <2>2, OpenStep, CloseStep, UseStep DEF App
    <2>3. CASE \E t \in Threads : Lock(t)
      BY <2>3, InitStep, DeinitStep DEF Lock
    <2>4. CASE \E t \in Threads : Run(t)
      BY <2>4, InitStep, DeinitStep, SessionMessageStep DEF Run
    <2> QED BY <2>1, <2>2, <2>3, <2>4 DEF Next
  <1> QED BY <1>1, SessionInit, PTL DEF Spec

\* An application that opens one engine at a time leaves no message behind on
\* a deleted connection (src/dce.c:837-966), with any number of threads and
\* codecs and whatever operation of RCM fails.
THEOREM ConnectedInSession == MaxSessions = 1 => (Spec => []InFlightConnected)
  <1> SUFFICES ASSUME MaxSessions = 1 PROVE Spec => []InFlightConnected
    OBVIOUS
  <1>1. SessionInv => InFlightConnected
    BY DEF SessionInv, Connection, InFlightConnected, Connected
  <1> QED BY <1>1, SessionAlways, PTL

\* Such an application can call any function as long as it holds an engine:
\* init has connected it before Engine_open gave the engine out, and no other
\* thread's deinit takes the connection away (src/dce.c:373, 471, 919-966).
THEOREM OpenIsConnected == MaxSessions = 1 => (Spec => []ConnectedWhileOpen)
  <1> SUFFICES ASSUME MaxSessions = 1 PROVE Spec => []ConnectedWhileOpen
    OBVIOUS
  <1>1. SessionInv => ConnectedWhileOpen
    <2> SUFFICES ASSUME SessionInv PROVE ConnectedWhileOpen
      OBVIOUS
    <2>1. /\ conns = ({handle} \ {Null}) \cup undeleted
          /\ held # {} => handle # Null /\ ipc
      BY DEF SessionInv, Connection
    <2> QED BY <2>1 DEF ConnectedWhileOpen
  <1> QED BY <1>1, SessionAlways, PTL

\* In such an application Rcm_delete alone loses connections, by refusing to
\* delete them (src/dce.c:901-905).  Whichever operation of init or deinit
\* fails, every other connection is deleted or in the global handle: init
\* overwrites the handle only after deinit cleared it, also when looking up a
\* function failed after RcmClient_create (src/dce.c:837-876, 894-906).
THEOREM NoConnectionLost == MaxSessions = 1 => (Spec => []NoLeakedConnection)
  <1> SUFFICES ASSUME MaxSessions = 1 PROVE Spec => []NoLeakedConnection
    OBVIOUS
  <1>1. SessionInv => NoLeakedConnection
    <2> SUFFICES ASSUME SessionInv PROVE NoLeakedConnection
      OBVIOUS
    <2>1. conns = ({handle} \ {Null}) \cup undeleted
      BY DEF SessionInv, Connection
    <2> QED BY <2>1 DEF NoLeakedConnection
  <1> QED BY <1>1, SessionAlways, PTL
=============================================================================
