----------------------------- MODULE Ownership -----------------------------
(***************************************************************************)
(* What the server promises about engine and codec handles, without the    *)
(* calls, the registry, the pool and the cleanup that keep the promise:    *)
(* a handle belongs to one client process; it is taken away from a living  *)
(* client only after that client has given it back; and when a client has  *)
(* died, everything it owned is reclaimed before its pid is used again     *)
(* (src/dce.c:184-188 and Engine.h:441-459).                               *)
(***************************************************************************)
CONSTANTS Pids, Handles, Null

VARIABLES
    proc,    \* "alive", "obit": dead and its obituary due, "dead": buried
    owner,   \* the client a handle belongs to; Null: the handle is not live
    held     \* the handles a client may use

vars == <<proc, owner, held>>

Init == /\ proc = [p \in Pids |-> "alive"]
        /\ owner = [h \in Handles |-> Null]
        /\ held = [p \in Pids |-> {}]

\* The server makes a handle for a client, then hands it over.
Make(p, h) == /\ proc[p] = "alive"
              /\ owner[h] = Null
              /\ owner' = [owner EXCEPT ![h] = p]
              /\ UNCHANGED <<proc, held>>

Grant(p, h) == /\ proc[p] = "alive"
               /\ owner[h] = p
               /\ held' = [held EXCEPT ![p] = @ \cup {h}]
               /\ UNCHANGED <<proc, owner>>

\* A client gives a handle back, then the server destroys it.
GiveBack(p, h) == /\ h \in held[p]
                  /\ held' = [held EXCEPT ![p] = @ \ {h}]
                  /\ UNCHANGED <<proc, owner>>

Destroy(p, h) == /\ proc[p] = "alive"
                 /\ owner[h] = p
                 /\ h \notin held[p]
                 /\ owner' = [owner EXCEPT ![h] = Null]
                 /\ UNCHANGED <<proc, held>>

Die(p) == /\ proc[p] = "alive"
          /\ proc' = [proc EXCEPT ![p] = "obit"]
          /\ held' = [held EXCEPT ![p] = {}]
          /\ UNCHANGED owner

Reclaim(p, h) == /\ proc[p] = "obit"
                 /\ owner[h] = p
                 /\ owner' = [owner EXCEPT ![h] = Null]
                 /\ UNCHANGED <<proc, held>>

Bury(p) == /\ proc[p] = "obit"
           /\ \A h \in Handles : owner[h] # p
           /\ proc' = [proc EXCEPT ![p] = "dead"]
           /\ UNCHANGED <<owner, held>>

Reuse(p) == /\ proc[p] = "dead"
            /\ proc' = [proc EXCEPT ![p] = "alive"]
            /\ UNCHANGED <<owner, held>>

Next == \E p \in Pids :
    \/ Die(p) \/ Bury(p) \/ Reuse(p)
    \/ \E h \in Handles :
        Make(p, h) \/ Grant(p, h) \/ GiveBack(p, h) \/ Destroy(p, h) \/ Reclaim(p, h)

Spec == Init /\ [][Next]_vars
=============================================================================
