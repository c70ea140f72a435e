---------------------------- MODULE DceRegistry ----------------------------
(***************************************************************************)
(* The table in which the server (the Ducati side of src/dce.c) records,   *)
(* for every client process, the engines it has opened and the codecs it   *)
(* has created, so that they can be closed when the process dies.          *)
(*                                                                         *)
(* The operations are action predicates over the variable clients; a       *)
(* handler of the server conjoins one of them to its own step (DceServer). *)
(* Each is one step here: the pool workers that run them have one and the  *)
(* same priority, and no operation blocks on the way.                      *)
(***************************************************************************)
EXTENDS Integers, FiniteSets

CONSTANTS
    Pids,         \* process ids of the clients (never zero)
    Engines,      \* the Engine_Handle values the Codec Engine hands out
    Codecs,       \* the VIDDEC3_Handle values the Codec Engine hands out
    Null,         \* the null handle, and the pid zero of an unused slot
    NumClients,   \* DIM(clients), 10 in the code
    NumEngines,   \* DIM(clients[i].engines), 10 in the code
    NumCodecs     \* DIM(clients[i].codecs), 10 in the code

ASSUME RegistryAssumption ==
    /\ NumClients \in Nat \ {0}
    /\ NumEngines \in Nat \ {0}
    /\ NumCodecs \in Nat \ {0}
    /\ Null \notin Pids \cup Engines \cup Codecs
    /\ Engines \cap Codecs = {}

VARIABLE clients  \* the slots, in array order

Slots == 1..NumClients

Client == [pid     : Pids \cup {Null},
           refs    : Int,
           engines : [1..NumEngines -> Engines \cup {Null}],
           codecs  : [1..NumCodecs -> Codecs \cup {Null}]]

RegistryTypeOK == clients \in [Slots -> Client]

Slot(pid, refs, engines, codecs) ==
    [pid |-> pid, refs |-> refs, engines |-> engines, codecs |-> codecs]

UnusedClient == Slot(Null, 0, [i \in 1..NumEngines |-> Null],
                              [i \in 1..NumCodecs |-> Null])

RegistryInit == clients = [s \in Slots |-> UnusedClient]

-----------------------------------------------------------------------------
\* The scans

\* get_client(pid) returns slot s: the first one that carries this pid.
get_client(pid, s) ==
    /\ s \in Slots
    /\ clients[s].pid = pid
    /\ \A u \in Slots : clients[u].pid = pid => s <= u

\* get_client(pid) returns NULL.
no_client(pid) == \A s \in Slots : clients[s].pid # pid

\* A variant, not part of the specification: "i <= DIM", past the end.
slip_ReplaceFirst_past_end(table, old, new) ==
    LET n == Cardinality(DOMAIN table)
        last == CHOOSE i \in 1..(n + 1) :
                    i = n + 1 \/ table[i] = old
    IN  [i \in 1..n \cup {last} |-> IF i = last THEN new ELSE table[i]]

\* The loop "find the first entry that equals old, overwrite it, break",
\* which leaves the table alone when there is none.
ReplaceFirst(table, old, new) ==
    LET hits == {i \in DOMAIN table : table[i] = old}
        first == CHOOSE i \in hits : \A j \in hits : i <= j
    IN  IF hits = {} THEN table ELSE [table EXCEPT ![first] = new]

\* The handles a slot lists.
Tracked(s) ==
    { h \in Engines : \E i \in 1..NumEngines : clients[s].engines[i] = h }
        \cup { h \in Codecs : \E i \in 1..NumCodecs : clients[s].codecs[i] = h }

-----------------------------------------------------------------------------
\* Variants with a slip in them, for testing the properties: they are not
\* part of the specification.

slip_register_engine_any_slot(pid, engine) ==  \* no get_client(pid) first
    \E s \in Slots : LET c == clients[s] IN
        /\ get_client(Null, s)
        /\ clients' = [clients EXCEPT ![s] =
                Slot(pid, 1, [c.engines EXCEPT ![1] = engine], c.codecs)]

slip_register_engine_slot_0(pid, engine) ==    \* no search for an unused slot
    clients' = [clients EXCEPT ![1] =
        Slot(pid, 1, [@.engines EXCEPT ![1] = engine], @.codecs)]

slip_unregister_engine_keeps_slot(pid, engine) ==  \* no "if (!c->refs)"
    \/ \E s \in Slots : LET c == clients[s] IN
        /\ get_client(pid, s)
        /\ clients' = [clients EXCEPT ![s] =
                Slot(pid, c.refs - 1, ReplaceFirst(c.engines, engine, Null), c.codecs)]
    \/ no_client(pid) /\ UNCHANGED clients

slip_register_codec_no_ref(pid, codec) ==      \* no c->refs++
    \/ \E s \in Slots : LET c == clients[s] IN
        /\ get_client(pid, s)
        /\ clients' = [clients EXCEPT ![s] =
                Slot(pid, c.refs, c.engines, ReplaceFirst(c.codecs, Null, codec))]
    \/ no_client(pid) /\ UNCHANGED clients

slip_register_codec_ref_if_room(pid, codec) == \* c->refs++ inside the loop
    \/ \E s \in Slots : LET c == clients[s] IN
        /\ get_client(pid, s)
        /\ clients' = [clients EXCEPT ![s] =
                Slot(pid, IF \E i \in DOMAIN c.codecs : c.codecs[i] = Null
                            THEN c.refs + 1 ELSE c.refs,
                     c.engines, ReplaceFirst(c.codecs, Null, codec))]
    \/ no_client(pid) /\ UNCHANGED clients

slip_register_codec_entry_0(pid, codec) ==     \* no search for a free entry
    \/ \E s \in Slots : LET c == clients[s] IN
        /\ get_client(pid, s)
        /\ clients' = [clients EXCEPT ![s] =
                Slot(pid, c.refs + 1, c.engines, [c.codecs EXCEPT ![1] = codec])]
    \/ no_client(pid) /\ UNCHANGED clients

slip_unregister_codec_keeps_entry(pid, codec) ==
    \/ \E s \in Slots : LET c == clients[s] IN
        /\ get_client(pid, s)
        /\ clients' = [clients EXCEPT ![s] =
                Slot(pid, c.refs - 1, c.engines, c.codecs)]
    \/ no_client(pid) /\ UNCHANGED clients

slip_unregister_codec_frees_slot(pid, codec) == \* one reference too early
    \/ \E s \in Slots : LET c == clients[s] IN
        /\ get_client(pid, s)
        /\ clients' = [clients EXCEPT ![s] =
                Slot(IF c.refs = 2 THEN Null ELSE pid, c.refs - 1,
                     c.engines, ReplaceFirst(c.codecs, codec, Null))]
    \/ no_client(pid) /\ UNCHANGED clients

-----------------------------------------------------------------------------
\* The operations

\* A known client gets one more reference, and the engine if there is room;
\* a new one gets the first unused slot; "too many clients" is only logged.
dce_register_engine(pid, engine) ==
    \/ \E s \in Slots : LET c == clients[s] IN
        /\ get_client(pid, s)
        /\ clients' = [clients EXCEPT ![s] =
                Slot(pid, c.refs + 1, ReplaceFirst(c.engines, Null, engine), c.codecs)]
    \/ \E s \in Slots : LET c == clients[s] IN
        /\ no_client(pid)
        /\ get_client(Null, s)
        /\ clients' = [clients EXCEPT ![s] =
                Slot(pid, 1, [c.engines EXCEPT ![1] = engine], c.codecs)]
    \/ no_client(pid) /\ no_client(Null) /\ UNCHANGED clients

\* The reference is dropped whether or not the engine was in the table; the
\* last one frees the slot, whatever else is in it.
dce_unregister_engine(pid, engine) ==
    \/ \E s \in Slots : LET c == clients[s] IN
        /\ get_client(pid, s)
        /\ clients' = [clients EXCEPT ![s] =
                Slot(IF c.refs = 1 THEN Null ELSE pid, c.refs - 1,
                     ReplaceFirst(c.engines, engine, Null), c.codecs)]
    \/ no_client(pid) /\ UNCHANGED clients

dce_register_codec(pid, codec) ==
    \/ \E s \in Slots : LET c == clients[s] IN
        /\ get_client(pid, s)
        /\ clients' = [clients EXCEPT ![s] =
                Slot(pid, c.refs + 1, c.engines, ReplaceFirst(c.codecs, Null, codec))]
    \/ no_client(pid) /\ UNCHANGED clients

\* Unlike dce_unregister_engine, this one never frees the slot.
dce_unregister_codec(pid, codec) ==
    \/ \E s \in Slots : LET c == clients[s] IN
        /\ get_client(pid, s)
        /\ clients' = [clients EXCEPT ![s] =
                Slot(pid, c.refs - 1, c.engines, ReplaceFirst(c.codecs, codec, Null))]
    \/ no_client(pid) /\ UNCHANGED clients
=============================================================================
