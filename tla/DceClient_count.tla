--------------------------- MODULE DceClient_count ---------------------------
(***************************************************************************)
(* How far the use count of the client library can go, for applications    *)
(* with any number of engines: init counts only at zero or below, deinit   *)
(* always, so that the count goes wrong, but not beyond all bounds.        *)
(***************************************************************************)
EXTENDS DceClient_proofs, FiniteSetTheorems

HeldEngines == held \cap Engines
Opening == {t \in Threads : call[t].fn \in {"Engine_open", "Engine_close"}}

\* Those of them that have to count down some day: they are past init and have
\* not counted down yet.
Past == {t \in Opening : call[t].pc \notin {"init", "destroy"}}
ToCountDown == Cardinality(HeldEngines) + Cardinality(Past)

\* What a function may return, once its reply is there.
Result(fn) == IF fn = "Engine_open" THEN Engines \cup {Null}
              ELSE IF fn = "VIDDEC3_create" THEN Codecs \cup {Null, Garbage} ELSE {Null}

\* Which function is where, and what it works on and returns.
Kind(t) ==
    /\ call[t].fn = "none" <=> call[t].pc = "idle"
    /\ call[t].pc \in {"init", "setup"} => call[t].fn = "Engine_open"
    /\ call[t].pc \in {"deinit", "destroy"} => call[t].fn = "Engine_close"
    /\ call[t].fn = "VIDDEC3_create" => call[t].arg \in Engines
    /\ call[t].pc = "free" => call[t].ret \in Result(call[t].fn)

Kinds == \A t \in Threads : Kind(t)

OtherTypes ==
    /\ ipc \in BOOLEAN
    /\ conns \subseteq Conns
    /\ undeleted \subseteq conns
    /\ handle # Null => handle \in conns \ undeleted
    /\ madeBy \in [Codecs \cup {Garbage} -> Engines \cup {Null}]
    /\ live \subseteq Handles

\* The count leaves room for all the engines that will be closed.
Bounds ==
    /\ count \in Int /\ count <= 1
    /\ IsFiniteSet(HeldEngines)
    /\ Sessions <= MaxSessions
    /\ MaxSessions = 0 => count = 0
    /\ MaxSessions # 0 => count - ToCountDown >= 1 - MaxSessions

CountInv == Kinds /\ OtherTypes /\ Bounds

-----------------------------------------------------------------------------
\* Sessions and ToCountDown are numbers, and nobody counts down twice.
LEMMA Numbers ==
  ASSUME Bounds
  PROVE  /\ IsFiniteSet(HeldEngines) /\ IsFiniteSet(Opening) /\ IsFiniteSet(Past)
         /\ Cardinality(HeldEngines) \in Nat
         /\ Cardinality(Opening) \in Nat /\ Cardinality(Past) \in Nat
         /\ Cardinality(Past) <= Cardinality(Opening)
         /\ Sessions = Cardinality(HeldEngines) + Cardinality(Opening)
         /\ Sessions \in Nat /\ ToCountDown \in Nat /\ MaxSessions \in Nat
  <1>1. IsFiniteSet(Opening) /\ IsFiniteSet(Past) /\ IsFiniteSet(HeldEngines)
    BY ClientAssumption, FS_Subset DEF Opening, Past, Bounds
  <1>2. Cardinality(HeldEngines) \in Nat /\ Cardinality(Opening) \in Nat /\ Cardinality(Past) \in Nat
    BY <1>1, FS_CardinalityType
  <1>3. Past \subseteq Opening
    BY DEF Past
  <1>4. Cardinality(Past) <= Cardinality(Opening)
    BY <1>1, <1>3, FS_Subset
  <1>5. Sessions = Cardinality(HeldEngines) + Cardinality(Opening)
    BY DEF Sessions, HeldEngines, Opening
  <1>6. Sessions \in Nat /\ ToCountDown \in Nat
    BY <1>2, <1>5 DEF ToCountDown
  <1> QED BY <1>1, <1>2, <1>4, <1>5, <1>6, ClientAssumption

\* What both are after a step, from the cardinalities.
LEMMA NextNumbers ==
  /\ Sessions' = Cardinality(HeldEngines') + Cardinality(Opening')
  /\ ToCountDown' = Cardinality(HeldEngines') + Cardinality(Past')
  BY DEF Sessions, ToCountDown, HeldEngines, Opening

LEMMA CountInit == Init => CountInv
  <1> SUFFICES ASSUME Init PROVE CountInv
    OBVIOUS
  <1>1. /\ mutex = Null /\ count = 0 /\ ipc = FALSE /\ handle = Null /\ conns = {} /\ undeleted = {}
        /\ held = {} /\ live = {}
    BY DEF Init
  <1>2. \A t \in Threads : call[t].fn = "none" /\ call[t].pc = "idle"
    BY DEF Init, NoCall
  <1>4. Kinds
    BY <1>2 DEF Kinds, Kind
  <1>5. OtherTypes
    BY <1>1 DEF Init, OtherTypes
  <1>6. HeldEngines = {} /\ Opening = {} /\ Past = {}
    BY <1>1, <1>2 DEF HeldEngines, Opening, Past
  <1>7. Cardinality({}) = 0 /\ IsFiniteSet({})
    BY FS_EmptySet
  <1>8. Sessions = 0 /\ ToCountDown = 0
    <2>1. Sessions = Cardinality(HeldEngines) + Cardinality(Opening)
      BY DEF Sessions, HeldEngines, Opening
    <2> QED BY <1>6, <1>7, <2>1 DEF ToCountDown
  <1>9. Bounds
    BY <1>1, <1>6, <1>7, <1>8, ClientAssumption DEF Bounds
  <1> QED BY <1>4, <1>5, <1>9 DEF CountInv

\* The ways in which engines and threads move between the sets.
LEMMA NobodyMoves ==
  ASSUME Bounds, HeldEngines' = HeldEngines, Opening' = Opening, Past' = Past,
         count' = count
  PROVE  Bounds'
  <1>1. Sessions' = Sessions /\ ToCountDown' = ToCountDown
    BY Numbers, NextNumbers DEF ToCountDown
  <1> QED BY <1>1 DEF Bounds

LEMMA OneOpens ==
  ASSUME Bounds, NEW t \in Threads, t \notin Opening, Sessions < MaxSessions,
         HeldEngines' = HeldEngines, Opening' = Opening \cup {t}, Past' = Past,
         count' = count
  PROVE  Bounds'
  <1>1. IsFiniteSet(Opening)
    BY Numbers
  <1>2. Cardinality(Opening') = Cardinality(Opening) + 1
    BY <1>1, FS_AddElement
  <1>3. Sessions' = Sessions + 1 /\ ToCountDown' = ToCountDown
    BY <1>2, Numbers, NextNumbers DEF ToCountDown
  <1>4. Sessions \in Nat /\ MaxSessions \in Nat
    BY Numbers
  <1>5. Sessions' <= MaxSessions
    BY <1>3, <1>4
  <1> QED BY <1>3, <1>5 DEF Bounds

LEMMA OneCloses ==
  ASSUME Bounds, NEW t \in Threads, t \notin Opening, NEW e \in HeldEngines,
         HeldEngines' = HeldEngines \ {e}, Opening' = Opening \cup {t},
         Past' = Past \cup {t}, count' = count
  PROVE  Bounds'
  <1>1. t \notin Past
    BY DEF Past
  <1>2. IsFiniteSet(HeldEngines) /\ IsFiniteSet(Opening) /\ IsFiniteSet(Past)
    BY Numbers
  <1>3. /\ Cardinality(HeldEngines') = Cardinality(HeldEngines) - 1
        /\ IsFiniteSet(HeldEngines')
    BY <1>2, FS_RemoveElement
  <1>4. Cardinality(Opening') = Cardinality(Opening) + 1
    BY <1>2, FS_AddElement
  <1>5. Cardinality(Past') = Cardinality(Past) + 1
    BY <1>1, <1>2, FS_AddElement
  <1>6. Sessions' = Sessions /\ ToCountDown' = ToCountDown
    BY <1>3, <1>4, <1>5, Numbers, NextNumbers DEF ToCountDown
  <1> QED BY <1>3, <1>6 DEF Bounds

LEMMA OneConnects ==
  ASSUME Bounds, NEW t \in Opening, t \notin Past,
         HeldEngines' = HeldEngines, Opening' = Opening, Past' = Past \cup {t},
         \/ count > 0 /\ count' = count
         \/ count <= 0 /\ count' = count + 1
  PROVE  Bounds'
  <1>1. IsFiniteSet(Opening) /\ IsFiniteSet(Past)
    BY Numbers
  <1>2. Cardinality(Past') = Cardinality(Past) + 1
    BY <1>1, FS_AddElement
  <1>3. Past' \subseteq Opening
    BY DEF Past
  <1>4. Cardinality(Past') <= Cardinality(Opening)
    BY <1>1, <1>3, FS_Subset
  <1>5. Sessions' = Sessions /\ ToCountDown' = ToCountDown + 1 /\ ToCountDown' <= Sessions
    BY <1>2, <1>4, Numbers, NextNumbers DEF ToCountDown
  <1>6. /\ Sessions \in Nat /\ ToCountDown \in Nat /\ MaxSessions \in Nat
        /\ count \in Int /\ count <= 1 /\ Sessions <= MaxSessions
    BY Numbers DEF Bounds
  <1>7. MaxSessions # 0
    BY <1>5, <1>6
  <1>8. count - ToCountDown >= 1 - MaxSessions
    BY <1>7 DEF Bounds
  <1>9. count' \in Int /\ count' <= 1 /\ count' - ToCountDown' >= 1 - MaxSessions
    BY <1>5, <1>6, <1>8
  <1>10. IsFiniteSet(HeldEngines')
    BY Numbers
  <1> QED BY <1>5, <1>6, <1>7, <1>9, <1>10 DEF Bounds

LEMMA OneCountsDown ==
  ASSUME Bounds, NEW t \in Past,
         HeldEngines' = HeldEngines, Opening' = Opening \/ Opening' = Opening \ {t},
         Past' = Past \ {t}, count' = count - 1
  PROVE  Bounds'
  <1>1. IsFiniteSet(Opening) /\ IsFiniteSet(Past) /\ t \in Opening
    BY Numbers DEF Past
  <1>2. Cardinality(Past') = Cardinality(Past) - 1
    BY <1>1, FS_RemoveElement
  <1>3. Cardinality(Opening \ {t}) = Cardinality(Opening) - 1
    BY <1>1, FS_RemoveElement
  <1>4. Cardinality(Opening') <= Cardinality(Opening) /\ Cardinality(Opening') \in Int
    <2>1. CASE Opening' = Opening
      BY <2>1, Numbers
    <2>2. CASE Opening' = Opening \ {t}
      BY <1>3, <2>2, Numbers
    <2> QED BY <2>1, <2>2
  <1>5. ToCountDown' = ToCountDown - 1
    BY <1>2, Numbers, NextNumbers DEF ToCountDown
  <1>6. Sessions' <= Sessions /\ Sessions' \in Int
    BY <1>4, Numbers, NextNumbers
  <1>7. Cardinality(Past) # 0
    BY <1>1, FS_EmptySet
  <1>8. /\ Sessions \in Nat /\ ToCountDown \in Nat /\ MaxSessions \in Nat
        /\ count \in Int /\ count <= 1 /\ Sessions <= MaxSessions
    BY Numbers DEF Bounds
  <1>9. Sessions # 0
    BY <1>7, Numbers
  <1>10. MaxSessions # 0
    BY <1>8, <1>9
  <1>11. count - ToCountDown >= 1 - MaxSessions
    BY <1>10 DEF Bounds
  <1>12. /\ count' \in Int /\ count' <= 1 /\ Sessions' <= MaxSessions
         /\ count' - ToCountDown' >= 1 - MaxSessions
    BY <1>5, <1>6, <1>8, <1>11
  <1>13. IsFiniteSet(HeldEngines')
    BY Numbers
  <1> QED BY <1>10, <1>12, <1>13 DEF Bounds

LEMMA OneLeaves ==
  ASSUME Bounds, NEW t \in Opening, Opening' = Opening \ {t}, Past' = Past \ {t},
         count' = count,
         \/ HeldEngines' = HeldEngines
         \/ t \in Past /\ \E e \in Engines : HeldEngines' = HeldEngines \cup {e}
  PROVE  Bounds'
  <1>1. IsFiniteSet(HeldEngines) /\ IsFiniteSet(Opening) /\ IsFiniteSet(Past)
    BY Numbers
  <1>2. Cardinality(Opening') = Cardinality(Opening) - 1
    BY <1>1, FS_RemoveElement
  <1>3. t \in Past => Cardinality(Past') = Cardinality(Past) - 1
    BY <1>1, FS_RemoveElement
  <1>4. t \notin Past => Past' = Past
    OBVIOUS
  <1>5. /\ IsFiniteSet(HeldEngines')
        /\ \/ Cardinality(HeldEngines') = Cardinality(HeldEngines)
           \/ t \in Past /\ Cardinality(HeldEngines') = Cardinality(HeldEngines) + 1
    <2>1. CASE HeldEngines' = HeldEngines
      BY <1>1, <2>1
    <2>2. CASE t \in Past /\ \E e \in Engines : HeldEngines' = HeldEngines \cup {e}
      <3>1. PICK e \in Engines : HeldEngines' = HeldEngines \cup {e}
        BY <2>2
      <3>2. CASE e \in HeldEngines
        <4>1. HeldEngines' = HeldEngines
          BY <3>1, <3>2
        <4> QED BY <1>1, <4>1
      <3>3. CASE e \notin HeldEngines
        <4>1. IsFiniteSet(HeldEngines') /\ Cardinality(HeldEngines') = Cardinality(HeldEngines) + 1
          BY <1>1, <3>1, <3>3, FS_AddElement
        <4> QED BY <2>2, <4>1
      <3> QED BY <3>2, <3>3
    <2> QED BY <2>1, <2>2
  <1>6. Sessions' <= Sessions /\ ToCountDown' <= ToCountDown
        /\ Sessions' \in Int /\ ToCountDown' \in Int
    <2>1. CASE t \in Past
      BY <1>2, <1>3, <1>5, <2>1, Numbers, NextNumbers DEF ToCountDown
    <2>2. CASE t \notin Past
      <3>1. Cardinality(Past') = Cardinality(Past)
        BY <1>4, <2>2
      <3>2. Cardinality(HeldEngines') = Cardinality(HeldEngines)
        BY <1>5, <2>2
      <3> QED BY <1>2, <3>1, <3>2, Numbers, NextNumbers DEF ToCountDown
    <2> QED BY <2>1, <2>2
  <1>7. /\ Sessions \in Nat /\ ToCountDown \in Nat /\ MaxSessions \in Nat
        /\ count \in Int /\ Sessions <= MaxSessions
    BY Numbers DEF Bounds
  <1>8. Sessions' <= MaxSessions
    BY <1>6, <1>7
  <1>9. MaxSessions # 0 => count' - ToCountDown' >= 1 - MaxSessions
    <2> SUFFICES ASSUME MaxSessions # 0 PROVE count' - ToCountDown' >= 1 - MaxSessions
      OBVIOUS
    <2>1. count - ToCountDown >= 1 - MaxSessions
      BY DEF Bounds
    <2>2. \A c, x, y, m \in Int : y <= x /\ c - x >= 1 - m => c - y >= 1 - m
      OBVIOUS
    <2>3. ToCountDown' <= ToCountDown /\ ToCountDown' \in Int
      BY <1>6
    <2>4. ToCountDown \in Int /\ MaxSessions \in Int /\ count \in Int
      BY <1>7
    <2>5. count - ToCountDown' >= 1 - MaxSessions
      BY <2>1, <2>2, <2>3, <2>4
    <2> QED BY <2>5
  <1>10. count' \in Int /\ count' <= 1 /\ (MaxSessions = 0 => count' = 0)
    BY DEF Bounds
  <1> QED BY <1>5, <1>8, <1>9, <1>10 DEF Bounds

-----------------------------------------------------------------------------
\* A step of t moves no other thread, and keeps their kinds.
LEMMA OthersStay ==
  ASSUME Kinds, NEW t \in Threads, \A u \in Threads \ {t} : call'[u] = call[u], Kind(t)'
  PROVE  /\ Kinds'
         /\ Opening' = IF call'[t].fn \in {"Engine_open", "Engine_close"}
                         THEN Opening \cup {t} ELSE Opening \ {t}
         /\ Past' = IF /\ call'[t].fn \in {"Engine_open", "Engine_close"}
                       /\ call'[t].pc \notin {"init", "destroy"}
                      THEN Past \cup {t} ELSE Past \ {t}
  <1>1. Kinds'
    BY DEF Kinds, Kind
  <1>2. Opening' = IF call'[t].fn \in {"Engine_open", "Engine_close"}
                     THEN Opening \cup {t} ELSE Opening \ {t}
    BY DEF Opening
  <1>3. Past' = IF /\ call'[t].fn \in {"Engine_open", "Engine_close"}
                   /\ call'[t].pc \notin {"init", "destroy"}
                  THEN Past \cup {t} ELSE Past \ {t}
    BY DEF Past, Opening
  <1> QED BY <1>1, <1>2, <1>3

\* A thread that stays in its function, and on its side of init and of the
\* count in deinit, moves nothing.
LEMMA StaysInside ==
  ASSUME CountInv, NEW t \in Threads, \A u \in Threads \ {t} : call'[u] = call[u], Kind(t)',
         call'[t].fn = call[t].fn,
         call[t].pc \notin {"init", "destroy"}, call'[t].pc \notin {"init", "destroy"},
         UNCHANGED <<held, count>>
  PROVE  Kinds' /\ Bounds'
  <1>1. Kinds' /\ Opening' = Opening /\ Past' = Past
    BY OthersStay DEF CountInv, Opening, Past
  <1>2. HeldEngines' = HeldEngines
    BY DEF HeldEngines
  <1> QED BY <1>1, <1>2, NobodyMoves DEF CountInv

\* A thread that returns.
LEMMA Returned ==
  ASSUME LockTypes, CountInv, NEW t \in Threads, NEW ret \in Result(call[t].fn), Return(t, ret)
  PROVE  /\ Kinds' /\ Opening' = Opening \ {t} /\ Past' = Past \ {t}
         /\ \/ HeldEngines' = HeldEngines
            \/ /\ call[t].fn = "Engine_open" /\ ret \in Engines
               /\ HeldEngines' = HeldEngines \cup {ret}
         /\ madeBy' \in [Codecs \cup {Garbage} -> Engines \cup {Null}]
  <1>1. call'[t] = NoCall /\ \A u \in Threads \ {t} : call'[u] = call[u]
    BY DEF Return, LockTypes
  <1>2. NoCall.fn = "none" /\ NoCall.pc = "idle"
    BY DEF NoCall
  <1>3. Kind(t)'
    BY <1>1, <1>2 DEF Kind
  <1>4. Kinds' /\ Opening' = Opening \ {t} /\ Past' = Past \ {t}
    BY <1>1, <1>2, <1>3, OthersStay DEF CountInv
  <1>5. held' = held \cup ({ret} \ {Null})
    BY DEF Return
  <1>6. \/ HeldEngines' = HeldEngines
        \/ /\ call[t].fn = "Engine_open" /\ ret \in Engines
           /\ HeldEngines' = HeldEngines \cup {ret}
    BY <1>5, ClientAssumption DEF HeldEngines, Result
  <1>7. ASSUME NEW c \in Codecs \cup {Garbage}
        PROVE  (IF c = ret THEN call[t].arg ELSE madeBy[c]) \in Engines \cup {Null}
    <2>1. CASE c = ret
      BY <2>1, ClientAssumption DEF Result, CountInv, Kinds, Kind
    <2>2. CASE c # ret
      BY <2>2 DEF CountInv, OtherTypes
    <2> QED BY <2>1, <2>2
  <1>8. madeBy' = [c \in Codecs \cup {Garbage} |-> IF c = ret THEN call[t].arg ELSE madeBy[c]]
    BY DEF Return, CountInv, OtherTypes
  <1> QED BY <1>4, <1>6, <1>7, <1>8

-----------------------------------------------------------------------------
\* The calls of the application.
LEMMA AppCounts ==
  ASSUME LockTypes, CountInv, NEW t \in Threads, App(t)
  PROVE  CountInv'
  <1>1. PICK fn \in {"Engine_open", "Engine_close", "VIDDEC3_create", "VIDDEC3_process",
                     "VIDDEC3_delete"},
             arg \in Handles \cup {Null, Garbage}, pc \in {"init", "alloc"} :
          /\ Enter(t, fn, arg, pc)
          /\ fn = "Engine_open" => pc = "init" /\ Sessions < MaxSessions /\ held' = held
          /\ fn # "Engine_open" => pc = "alloc"
          /\ fn = "Engine_close" => arg \in Engines /\ held' = held \ {arg}
          /\ fn = "VIDDEC3_create" => arg \in Engines
          /\ fn \notin {"Engine_open", "Engine_close"} => held' \cap Engines = held \cap Engines
    <2>1. CASE CallOpen(t)
      BY <2>1 DEF CallOpen
    <2>2. CASE CallClose(t)
      BY <2>2 DEF CallClose, Handles
    <2>3. CASE CallCreate(t)
      BY <2>3 DEF CallCreate, Handles
    <2>4. CASE CallCodec(t)
      BY <2>4 DEF CallCodec, LockTypes
    <2>5. CASE CallDelete(t)
      BY <2>5 DEF CallDelete, LockTypes
    <2> QED BY <2>1, <2>2, <2>3, <2>4, <2>5 DEF App
  <1>2. /\ call'[t].pc = pc /\ call'[t].fn = fn /\ call'[t].arg = arg
        /\ \A u \in Threads \ {t} : call'[u] = call[u]
    BY <1>1, CallEntered
  <1>3. call[t].fn = "none" /\ (arg # Null => arg \in held)
        /\ UNCHANGED <<count, ipc, handle, conns, undeleted, madeBy, live>>
    BY <1>1 DEF Enter, NoCall, libVars
  <1>4. t \notin Opening /\ t \notin Past
    BY <1>3 DEF Opening, Past
  <1>5. Kind(t)'
    BY <1>1, <1>2 DEF Kind
  <1>6. Kinds' /\ OtherTypes'
    BY <1>2, <1>3, <1>5, OthersStay DEF CountInv, OtherTypes
  <1>7. Bounds
    BY DEF CountInv
  <1>8. CASE fn = "Engine_open"
    <2>1. Opening' = Opening \cup {t} /\ Past' = Past /\ HeldEngines' = HeldEngines
      BY <1>1, <1>2, <1>4, <1>5, <1>8, OthersStay DEF CountInv, HeldEngines
    <2> QED BY <1>1, <1>3, <1>4, <1>6, <1>7, <1>8, <2>1, OneOpens DEF CountInv
  <1>9. CASE fn = "Engine_close"
    <2>1. Opening' = Opening \cup {t} /\ Past' = Past \cup {t}
      BY <1>1, <1>2, <1>5, <1>9, OthersStay DEF CountInv
    <2>2. arg \in HeldEngines /\ HeldEngines' = HeldEngines \ {arg}
      BY <1>1, <1>3, <1>9, ClientAssumption DEF HeldEngines
    <2> QED BY <1>3, <1>4, <1>6, <1>7, <2>1, <2>2, OneCloses DEF CountInv
  <1>10. CASE fn \notin {"Engine_open", "Engine_close"}
    <2>1. Opening' = Opening /\ Past' = Past
      BY <1>2, <1>4, <1>5, <1>10, OthersStay DEF CountInv
    <2>2. HeldEngines' = HeldEngines
      BY <1>1, <1>10 DEF HeldEngines
    <2> QED BY <1>3, <1>6, <1>7, <2>1, <2>2, NobodyMoves DEF CountInv
  <1> QED BY <1>8, <1>9, <1>10

-----------------------------------------------------------------------------
\* init and deinit.
LEMMA InitCounts ==
  ASSUME LockTypes, CountInv, NEW t \in Threads, init_begin(t) \/ init_end(t)
  PROVE  CountInv'
  <1>1. call[t].fn = "Engine_open" /\ call[t].pc \in {"init", "setup"}
    BY DEF CountInv, Kinds, Kind, init_begin, init_end
  <1>2. PICK pc \in {"setup", "alloc"} : Goto(t, pc)
    BY DEF init_begin, init_end
  <1>3. /\ call'[t].pc = pc /\ call'[t].fn = "Engine_open"
        /\ \A u \in Threads \ {t} : call'[u] = call[u]
    BY <1>1, <1>2, CallGoesTo
  <1>4. Kind(t)'
    BY <1>3 DEF Kind
  <1>5. UNCHANGED <<held, madeBy, live>>
    BY DEF init_begin, init_end, appVars
  <1>6. /\ ipc' \in BOOLEAN /\ conns' \subseteq Conns /\ undeleted' \subseteq conns'
        /\ handle' # Null => handle' \in conns' \ undeleted'
    BY DEF init_begin, init_end, connect, Ipc_setup, libVars, CountInv, OtherTypes
  <1>7. OtherTypes'
    BY <1>5, <1>6 DEF CountInv, OtherTypes
  <1>8. CASE init_begin(t)
    <2>1. /\ call[t].pc = "init"
          /\ \/ count > 0 /\ count' = count
             \/ count <= 0 /\ count' = count + 1
      BY <1>8 DEF init_begin, libVars
    <2>2. t \in Opening /\ t \notin Past
      BY <1>1, <2>1 DEF Opening, Past
    <2>3. Kinds' /\ Opening' = Opening /\ Past' = Past \cup {t} /\ HeldEngines' = HeldEngines
      BY <1>3, <1>4, <1>5, <2>2, OthersStay DEF CountInv, HeldEngines
    <2> QED BY <1>7, <2>1, <2>2, <2>3, OneConnects DEF CountInv
  <1>9. CASE init_end(t)
    <2>1. call[t].pc = "setup" /\ count' = count
      BY <1>9 DEF init_end
    <2> QED BY <1>1, <1>3, <1>4, <1>5, <1>7, <2>1, StaysInside DEF CountInv
  <1> QED BY <1>8, <1>9

LEMMA DeinitCounts ==
  ASSUME LockTypes, CountInv, NEW t \in Threads, deinit_begin(t) \/ deinit_end(t)
  PROVE  CountInv'
  <1>1. call[t].fn = "Engine_close" /\ call[t].pc \in {"deinit", "destroy"} /\ t \in Opening
    BY DEF CountInv, Kinds, Kind, deinit_begin, deinit_end, Opening
  <1>2. /\ UNCHANGED live /\ ipc' \in BOOLEAN /\ conns' \subseteq Conns
        /\ undeleted' \subseteq conns'
        /\ handle' # Null => handle' \in conns' \ undeleted'
    BY ClientAssumption DEF deinit_begin, deinit_end, dce_deinit, Ipc_destroy, CountInv, OtherTypes
  <1>3. Null \in Result(call[t].fn)
    BY <1>1 DEF Result
  <1>4. Return(t, Null) => /\ Kinds' /\ Opening' = Opening \ {t} /\ Past' = Past \ {t}
                           /\ HeldEngines' = HeldEngines /\ OtherTypes'
    BY <1>1, <1>2, <1>3, Returned DEF CountInv, OtherTypes
  <1>5. Bounds
    BY DEF CountInv
  <1>6. CASE deinit_begin(t)
    <2>1. call[t].pc = "deinit" /\ count' = count - 1
          /\ (Return(t, Null) \/ (Goto(t, "destroy") /\ UNCHANGED appVars))
      BY <1>6 DEF deinit_begin
    <2>2. t \in Past
      BY <1>1, <2>1 DEF Past
    <2>3. CASE Return(t, Null)
      BY <1>4, <1>5, <2>1, <2>2, <2>3, OneCountsDown DEF CountInv
    <2>4. CASE Goto(t, "destroy") /\ UNCHANGED appVars
      <3>1. /\ call'[t].pc = "destroy" /\ call'[t].fn = "Engine_close"
            /\ \A u \in Threads \ {t} : call'[u] = call[u]
        BY <1>1, <2>4, CallGoesTo
      <3>2. Kind(t)'
        BY <3>1 DEF Kind
      <3>3. Kinds' /\ Opening' = Opening /\ Past' = Past \ {t}
        BY <1>1, <3>1, <3>2, OthersStay DEF CountInv
      <3>4. HeldEngines' = HeldEngines /\ OtherTypes'
        BY <1>2, <2>4 DEF HeldEngines, appVars, CountInv, OtherTypes
      <3> QED BY <1>5, <2>1, <2>2, <3>3, <3>4, OneCountsDown DEF CountInv
    <2> QED BY <2>1, <2>3, <2>4
  <1>7. CASE deinit_end(t)
    <2>1. Return(t, Null) /\ count' = count
      BY <1>7 DEF deinit_end
    <2> QED BY <1>1, <1>4, <1>5, <2>1, OneLeaves DEF CountInv
  <1> QED BY <1>6, <1>7

-----------------------------------------------------------------------------
\* The body the functions share: an engine is given back only by a thread that
\* is past init, and Engine_close goes on to deinit.
LEMMA LeaveCounts ==
  ASSUME LockTypes, CountInv, NEW t \in Threads, call[t].pc \in {"alloc", "free"},
         NEW ret \in Result(call[t].fn), Leave(t, ret), UNCHANGED <<libVars, live>>
  PROVE  CountInv'
  <1>1. UNCHANGED <<count, ipc, handle, conns, undeleted, live>> /\ Bounds
    BY DEF libVars, CountInv
  <1>2. CASE call[t].fn = "Engine_close"
    <2> DEFINE new == [call[t] EXCEPT !.pc = "deinit", !.msg = Null]
    <2>1. new.pc = "deinit" /\ new.fn = call[t].fn
      BY DEF LockTypes, CallRecord
    <2>2. call' = [call EXCEPT ![t] = new] /\ UNCHANGED <<held, madeBy>>
      BY <1>2 DEF Leave, appVars
    <2> HIDE DEF new
    <2>3. /\ call'[t].pc = "deinit" /\ call'[t].fn = call[t].fn
          /\ \A u \in Threads \ {t} : call'[u] = call[u]
      BY <2>1, <2>2 DEF LockTypes
    <2>4. Kind(t)'
      BY <1>2, <2>3 DEF Kind
    <2>5. Kinds' /\ Bounds'
      BY <1>1, <2>2, <2>3, <2>4, StaysInside
    <2> QED BY <1>1, <2>2, <2>5 DEF CountInv, OtherTypes
  <1>3. CASE call[t].fn # "Engine_close"
    <2>1. Return(t, ret)
      BY <1>3 DEF Leave
    <2>2. /\ Kinds' /\ Opening' = Opening \ {t} /\ Past' = Past \ {t}
          /\ \/ HeldEngines' = HeldEngines
             \/ /\ call[t].fn = "Engine_open" /\ ret \in Engines
                /\ HeldEngines' = HeldEngines \cup {ret}
          /\ madeBy' \in [Codecs \cup {Garbage} -> Engines \cup {Null}]
      BY <2>1, Returned
    <2>3. OtherTypes'
      BY <1>1, <2>2 DEF CountInv, OtherTypes
    <2>4. CASE call[t].fn = "Engine_open"
      <3>1. t \in Opening /\ t \in Past
        BY <2>4 DEF Opening, Past
      <3>2. Bounds'
        BY <1>1, <2>2, <3>1, OneLeaves
      <3> QED BY <2>2, <2>3, <3>2 DEF CountInv
    <2>5. CASE call[t].fn # "Engine_open"
      <3>1. t \notin Opening /\ t \notin Past
        BY <1>3, <2>5 DEF Opening, Past
      <3>2. Opening' = Opening /\ Past' = Past /\ HeldEngines' = HeldEngines
        BY <2>2, <2>5, <3>1
      <3>3. Bounds'
        BY <1>1, <3>2, NobodyMoves
      <3> QED BY <2>2, <2>3, <3>3 DEF CountInv
    <2> QED BY <2>4, <2>5
  <1> QED BY <1>2, <1>3

LEMMA BodyCounts ==
  ASSUME LockTypes, CountInv, NEW t \in Threads,
         alloc_message(t) \/ exec_message(t) \/ free_message(t)
  PROVE  CountInv'
  <1>1. \A ret \in Unset(t) : ret \in Result(call[t].fn)
    BY DEF Unset, Result
  <1>2. CASE alloc_message(t)
    <2>1. CASE \E ret \in Unset(t) : Leave(t, ret)
      BY <1>1, <1>2, <2>1, LeaveCounts DEF alloc_message
    <2>2. CASE call' = [call EXCEPT ![t].pc = "exec", ![t].msg = handle] /\ UNCHANGED appVars
      <3> DEFINE new == [call[t] EXCEPT !.pc = "exec", !.msg = handle]
      <3>1. new.pc = "exec" /\ new.fn = call[t].fn /\ new.arg = call[t].arg
        BY DEF LockTypes, CallRecord
      <3>2. call' = [call EXCEPT ![t] = new]
        BY <2>2
      <3> HIDE DEF new
      <3>3. /\ call'[t].pc = "exec" /\ call'[t].fn = call[t].fn /\ call'[t].arg = call[t].arg
            /\ \A u \in Threads \ {t} : call'[u] = call[u]
        BY <3>1, <3>2 DEF LockTypes
      <3>4. call[t].pc = "alloc" /\ UNCHANGED <<count, ipc, handle, conns, undeleted, live, held, madeBy>>
        BY <1>2, <2>2 DEF alloc_message, libVars, appVars
      <3>5. Kind(t)'
        BY <3>3, <3>4 DEF CountInv, Kinds, Kind
      <3>6. Kinds' /\ Bounds'
        BY <3>3, <3>4, <3>5, StaysInside
      <3> QED BY <3>4, <3>6 DEF CountInv, OtherTypes
    <2> QED BY <1>2, <2>1, <2>2 DEF alloc_message
  <1>3. CASE exec_message(t)
    <2>1. PICK ret \in Result(call[t].fn) :
            call' = [call EXCEPT ![t].pc = "free", ![t].ret = ret] /\ live' \subseteq Handles
      BY <1>1, <1>3 DEF exec_message, Serve, Result, CountInv, OtherTypes, Handles
    <2> DEFINE new == [call[t] EXCEPT !.pc = "free", !.ret = ret]
    <2>2. new.pc = "free" /\ new.fn = call[t].fn /\ new.arg = call[t].arg /\ new.ret = ret
      BY DEF LockTypes, CallRecord
    <2>3. call' = [call EXCEPT ![t] = new]
      BY <2>1
    <2> HIDE DEF new
    <2>4. /\ call'[t].pc = "free" /\ call'[t].fn = call[t].fn /\ call'[t].arg = call[t].arg
          /\ call'[t].ret = ret /\ \A u \in Threads \ {t} : call'[u] = call[u]
      BY <2>2, <2>3 DEF LockTypes
    <2>5. call[t].pc = "exec" /\ UNCHANGED <<count, ipc, handle, conns, undeleted, held, madeBy>>
      BY <1>3 DEF exec_message, libVars, appVars
    <2>6. Kind(t)'
      BY <2>4, <2>5 DEF CountInv, Kinds, Kind
    <2>7. Kinds' /\ Bounds'
      BY <2>4, <2>5, <2>6, StaysInside
    <2> QED BY <2>1, <2>5, <2>7 DEF CountInv, OtherTypes
  <1>4. CASE free_message(t)
    <2>1. call[t].pc = "free" /\ call[t].ret \in Result(call[t].fn)
      BY <1>4 DEF free_message, CountInv, Kinds, Kind
    <2> QED BY <1>4, <2>1, LeaveCounts DEF free_message
  <1> QED BY <1>2, <1>3, <1>4

-----------------------------------------------------------------------------
\* Every variable has its type, and the use count stays between 1 - MaxSessions
\* and 1 (src/dce.c:917-966), for any number of threads and engines and whatever
\* RCM does: the open that finds the count at zero or below makes up for the one
\* close it will count down, and the other opens leave at most MaxSessions - 1.
THEOREM CountBounded == Spec => []TypeOK
  <1>1. LockInv /\ CountInv /\ [Next]_vars => CountInv'
    <2> SUFFICES ASSUME LockInv, CountInv, [Next]_vars PROVE CountInv'
      OBVIOUS
    <2>1. LockTypes
      BY DEF LockInv
    <2>2. CASE UNCHANGED vars
      BY <2>2, NobodyMoves DEF vars, libVars, appVars, CountInv, Kinds, Kind, OtherTypes,
         HeldEngines, Opening, Past
    <2>3. CASE \E t \in Threads : App(t)
      BY <2>1, <2>3, AppCounts
    <2>4. CASE \E t \in Threads : Lock(t)
      BY <2>1, <2>4, InitCounts, DeinitCounts DEF Lock
    <2>5. CASE \E t \in Threads : Run(t)
      BY <2>1, <2>5, InitCounts, DeinitCounts, BodyCounts DEF Run
    <2> QED BY <2>2, <2>3, <2>4, <2>5 DEF Next
  <1>2. LockInv /\ CountInv => TypeOK
    <2> SUFFICES ASSUME LockInv, CountInv PROVE TypeOK
      OBVIOUS
    <2>1. count \in (IF MaxSessions = 0 THEN 0 ELSE 1 - MaxSessions) .. 1
      <3>1. /\ count \in Int /\ count <= 1 /\ ToCountDown \in Nat /\ MaxSessions \in Nat
        BY Numbers DEF CountInv, Bounds
      <3>2. CASE MaxSessions = 0
        BY <3>1, <3>2 DEF CountInv, Bounds
      <3>3. CASE MaxSessions # 0
        <4>1. count - ToCountDown >= 1 - MaxSessions
          BY <3>3 DEF CountInv, Bounds
        <4>2. 1 - MaxSessions <= count
          BY <3>1, <4>1
        <4> QED BY <3>1, <3>3, <4>2
      <3> QED BY <3>2, <3>3
    <2> QED BY <2>1 DEF LockInv, LockTypes, CountInv, OtherTypes, TypeOK
  <1> QED BY LockInit, LockStep, CountInit, <1>1, <1>2, PTL DEF Spec
=============================================================================
