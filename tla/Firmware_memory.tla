-------------------------- MODULE Firmware_memory --------------------------
(***************************************************************************)
(* Proofs about the memory of the codec framework (IresMem) in the running *)
(* firmware: for a heap of any size, any table of HDVICP's manager and any *)
(* number of workers that create and delete codecs concurrently, whichever *)
(* allocation fails.                                                       *)
(***************************************************************************)
EXTENDS Firmware_proofs, FiniteSetTheorems

\* What thread th has to give back, place by place: a record of its table (by
\* its index), its buffer (0) or its handle (-1), and what was asked for there.
Places(th) == Allocated(th) \cup (IF HasBuffer(th) THEN {0} ELSE {})
                            \cup (IF HasHandle(th) THEN {-1} ELSE {})
BaseAt(th, k) == IF k = 0 THEN th.ptr ELSE IF k = -1 THEN th.handle ELSE th.tab[k].base
SizeAt(th, k) == IF k = 0 THEN BufferSize ELSE IF k = -1 THEN HandleSize ELSE th.tab[k].size
AlignAt(th, k) == IF k \in {0, -1} THEN 4 ELSE th.tab[k].alignment

Getting == {"registering", "buffer", "handle"}
Giving == {"undo", "free_buffer", "free_handle"}
PowerOfTwo(a) == a \in 1 .. HeaderSize => HeaderSize % a = 0

\* How far a thread can be in the loops of allocFxn and freeFxn, and what its
\* table holds there.
Shape(t, th) ==
    /\ th.pc = "idle" => th = IdleThread
    /\ IF t = Boot THEN th.pc \in {"idle", "registering"} ELSE th.pc # "registering"
    /\ th.op = "none" <=> th.pc \in {"idle", "held"}
    /\ th.op \in {"alloc", "undo", "false"} => th.pc \in Getting
    /\ th.op = "free" => th.pc \in Giving
    /\ th.op = "alloc" => th.n = Len(th.tab) /\ th.i <= th.n + 1
    /\ th.op = "true" /\ th.pc \in Getting => th.n = Len(th.tab)
    /\ th.op \in {"undo", "free"} => th.n <= Len(th.tab)
    /\ th.pc \in {"buffer", "handle"} \cup Giving =>
           /\ Len(th.tab) = 1 /\ th.tab[1].alignment = 4
           /\ th.tab[1].size =
                IF th.pc \in {"handle", "free_handle"} THEN HandleSize ELSE BufferSize
    /\ \A j \in 1 .. Len(th.tab) : PowerOfTwo(th.tab[j].alignment)
Shapes == \A t \in Threads : Shape(t, thread[t])

\* The manager of tiled memory is used only after its init.
Pointers ==
    /\ "TILEDMEMORY" \in registered => fxnsSet
    /\ \A w \in Workers : thread[w].pc # "idle" => fxnsSet

\* The blocks in use do not overlap, and each has its header inside.
Apart(g, h) == g.ptr + g.size <= h.ptr \/ h.ptr + h.size <= g.ptr
Block(h) == [ptr |-> h.ptr, size |-> h.size]
Blocks ==
    /\ \A h \in header : h.ptr + HeaderSize <= h.base /\ h.base <= h.ptr + h.size
    /\ \A g, h \in header : g # h => Apart(g, h)
    /\ heap = {Block(h) : h \in header}
    /\ IsFiniteSet(header) /\ IsFiniteSet(heap) /\ Cardinality(heap) = Cardinality(header)

\* Each block is in exactly one place, and is what was asked for there.
Once == \A t, u \in Threads : \A k \in Places(thread[t]), l \in Places(thread[u]) :
            BaseAt(thread[t], k) = BaseAt(thread[u], l) => t = u /\ k = l
Live == \A t \in Threads : \A k \in Places(thread[t]) :
            \E h \in header : h.base = BaseAt(thread[t], k)
Reachable == \A h \in header : \E t \in Threads : \E k \in Places(thread[t]) :
                 h.base = BaseAt(thread[t], k)
Served == \A t \in Threads : \A k \in Places(thread[t]) : \A h \in header :
              h.base = BaseAt(thread[t], k) =>
                  Fits(h, SizeAt(thread[t], k), AlignAt(thread[t], k))
Claims == Once /\ Live /\ Reachable /\ Served

\* Inductive together with BootInv.
MemoryInv == IresTypeOK /\ Shapes /\ Pointers /\ Blocks /\ Claims /\ ~undefined

-----------------------------------------------------------------------------
\* Arithmetic of addresses

\* Adding the alignment keeps an address aligned.
LEMMA AlignedUp ==
  ASSUME NEW p \in Nat, NEW a \in Nat \ {0}, p % a = 0
  PROVE  (p + a) % a = 0
  <1> DEFINE q == p \div a
  <1>1. p = a * q + (p % a) /\ q \in Int
    OBVIOUS
  <1> HIDE DEF q
  <1>2. a * q \in Int /\ a * (q + 1) = a * q + a
    BY <1>1
  <1>3. p + a = a * (q + 1)
    BY <1>1, <1>2
  <1>4. \A m \in Int : (a * m) % a = 0
    OBVIOUS
  <1> QED BY <1>1, <1>3, <1>4

\* A block that begins where Memory_alloc puts it has its base aligned.
LEMMA PaddedBase ==
  ASSUME NEW p \in Nat, NEW a \in Nat, PowerOfTwo(a), p % Larger(a, 8) = 0
  PROVE  a > 0 => (p + Pad(a)) % a = 0
  <1>1. CASE a > 8
    <2>1. Larger(a, 8) = a /\ Pad(a) = a
      BY <1>1 DEF Larger, Pad, HeaderSize
    <2>2. a \in Nat \ {0} /\ p % a = 0
      BY <1>1, <2>1
    <2> QED BY <2>1, <2>2, AlignedUp
  <1>2. CASE a \in 1 .. 8
    <2>1. Larger(a, 8) = 8 /\ Pad(a) = 8
      BY <1>2 DEF Larger, Pad, HeaderSize
    <2>2. p % 8 = 0 /\ 8 % a = 0
      BY <1>2, <2>1 DEF PowerOfTwo, HeaderSize
    <2>3. (p + 8) % a = 0
      BY <1>2, <2>2
    <2> QED BY <2>1, <2>3
  <1> QED BY <1>1, <1>2

\* Blocks that do not overlap have different bases.
LEMMA BasesDiffer ==
  ASSUME NEW g, NEW h, g.ptr \in Int, g.size \in Int, g.base \in Int,
         h.ptr \in Int, h.size \in Int, h.base \in Int,
         g.ptr + HeaderSize <= g.base, g.base <= g.ptr + g.size,
         h.ptr + HeaderSize <= h.base, h.base <= h.ptr + h.size,
         Apart(g, h)
  PROVE  g.base # h.base /\ g.ptr # h.ptr
  BY DEF Apart, HeaderSize

-----------------------------------------------------------------------------
\* Places

\* Thread th asks for the same at its place k as thread nx at l.
SamePlace(th, k, nx, l) ==
    /\ BaseAt(th, k) = BaseAt(nx, l)
    /\ SizeAt(th, k) = SizeAt(nx, l)
    /\ AlignAt(th, k) = AlignAt(nx, l)

\* The places of nx are those of th under other names.
Renamed(m, th, nx) ==
    /\ \A k \in Places(nx) : m[k] \in Places(th) /\ SamePlace(nx, k, th, m[k])
    /\ \A k, l \in Places(nx) : m[k] = m[l] => k = l
    /\ \A l \in Places(th) : \E k \in Places(nx) : m[k] = l

\* Those of nx, and place k.
Extends(nx, th, k) ==
    /\ Places(th) = Places(nx) \cup {k} /\ k \notin Places(nx)
    /\ \A l \in Places(nx) : SamePlace(th, l, nx, l)

Others(t) == \A u \in Threads \ {t} : thread'[u] = thread[u]

LEMMA RenamedClaims ==
  ASSUME Claims, NEW t \in Threads, Others(t), header' = header,
         NEW m, Renamed(m, thread[t], thread'[t])
  PROVE  Claims'
  <1> USE DEF Others, Renamed, SamePlace
  <1>1. Once'
    <2> SUFFICES ASSUME NEW u \in Threads, NEW v \in Threads,
                        NEW k \in Places(thread'[u]), NEW l \in Places(thread'[v]),
                        BaseAt(thread'[u], k) = BaseAt(thread'[v], l)
                 PROVE  u = v /\ k = l
      BY DEF Once
    <2>1. CASE u = t /\ v = t
      BY <2>1 DEF Claims, Once
    <2>2. CASE u = t /\ v # t
      BY <2>2 DEF Claims, Once
    <2>3. CASE u # t /\ v = t
      BY <2>3 DEF Claims, Once
    <2>4. CASE u # t /\ v # t
      BY <2>4 DEF Claims, Once
    <2> QED BY <2>1, <2>2, <2>3, <2>4
  <1>2. Live'
    <2> SUFFICES ASSUME NEW u \in Threads, NEW k \in Places(thread'[u])
                 PROVE  \E h \in header : h.base = BaseAt(thread'[u], k)
      BY DEF Live
    <2> QED BY DEF Claims, Live
  <1>3. Reachable'
    <2> SUFFICES ASSUME NEW h \in header
                 PROVE  \E u \in Threads : \E k \in Places(thread'[u]) :
                            h.base = BaseAt(thread'[u], k)
      BY DEF Reachable
    <2>1. PICK u \in Threads : \E l \in Places(thread[u]) : h.base = BaseAt(thread[u], l)
      BY DEF Claims, Reachable
    <2>2. CASE u = t
      <3>1. PICK l \in Places(thread[t]) : h.base = BaseAt(thread[t], l)
        BY <2>1, <2>2
      <3>2. PICK k \in Places(thread'[t]) : m[k] = l
        BY <3>1
      <3> QED BY <3>1, <3>2
    <2>3. CASE u # t
      BY <2>1, <2>3
    <2> QED BY <2>2, <2>3
  <1>4. Served'
    <2> SUFFICES ASSUME NEW u \in Threads, NEW k \in Places(thread'[u]), NEW h \in header,
                        h.base = BaseAt(thread'[u], k)
                 PROVE  Fits(h, SizeAt(thread'[u], k), AlignAt(thread'[u], k))
      BY DEF Served
    <2> QED BY DEF Claims, Served
  <1> QED BY <1>1, <1>2, <1>3, <1>4 DEF Claims

\* Nothing changes at any place.
LEMMA SameClaims ==
  ASSUME Claims, NEW t \in Threads, Others(t), header' = header,
         Places(thread'[t]) = Places(thread[t]),
         \A k \in Places(thread[t]) : SamePlace(thread'[t], k, thread[t], k)
  PROVE  Claims'
  <1> DEFINE m == [k \in Places(thread[t]) |-> k]
  <1>1. Renamed(m, thread[t], thread'[t])
    BY DEF Renamed
  <1> HIDE DEF m
  <1> QED BY <1>1, RenamedClaims

\* A new block goes to a new place.
LEMMA MoreClaims ==
  ASSUME Claims, NEW t \in Threads, Others(t),
         NEW k0, Extends(thread[t], thread'[t], k0),
         NEW g, header' = header \cup {g}, g.base = BaseAt(thread'[t], k0),
         \A h \in header : h.base # g.base,
         Fits(g, SizeAt(thread'[t], k0), AlignAt(thread'[t], k0))
  PROVE  Claims'
  <1> USE DEF Others, Extends, SamePlace
  <1>1. \A u \in Threads : \A k \in Places(thread[u]) : BaseAt(thread[u], k) # g.base
    BY DEF Claims, Live
  <1>2. \A u \in Threads : \A k \in Places(thread'[u]) :
           \/ u = t /\ k = k0
           \/ /\ k \in Places(thread[u])
              /\ BaseAt(thread'[u], k) = BaseAt(thread[u], k)
              /\ SizeAt(thread'[u], k) = SizeAt(thread[u], k)
              /\ AlignAt(thread'[u], k) = AlignAt(thread[u], k)
    OBVIOUS
  <1>3. \A u \in Threads : \A k \in Places(thread[u]) :
           k \in Places(thread'[u]) /\ BaseAt(thread'[u], k) = BaseAt(thread[u], k)
    OBVIOUS
  <1>4. Once'
    <2> SUFFICES ASSUME NEW u \in Threads, NEW v \in Threads,
                        NEW k \in Places(thread'[u]), NEW l \in Places(thread'[v]),
                        BaseAt(thread'[u], k) = BaseAt(thread'[v], l)
                 PROVE  u = v /\ k = l
      BY DEF Once
    <2> QED BY <1>1, <1>2 DEF Claims, Once
  <1>5. Live'
    <2> SUFFICES ASSUME NEW u \in Threads, NEW k \in Places(thread'[u])
                 PROVE  \E h \in header' : h.base = BaseAt(thread'[u], k)
      BY DEF Live
    <2> QED BY <1>2 DEF Claims, Live
  <1>6. Reachable'
    <2> SUFFICES ASSUME NEW h \in header'
                 PROVE  \E u \in Threads : \E k \in Places(thread'[u]) :
                            h.base = BaseAt(thread'[u], k)
      BY DEF Reachable
    <2> QED BY <1>3 DEF Claims, Reachable
  <1>7. Served'
    <2> SUFFICES ASSUME NEW u \in Threads, NEW k \in Places(thread'[u]), NEW h \in header',
                        h.base = BaseAt(thread'[u], k)
                 PROVE  Fits(h, SizeAt(thread'[u], k), AlignAt(thread'[u], k))
      BY DEF Served
    <2> QED BY <1>1, <1>2 DEF Claims, Served
  <1> QED BY <1>4, <1>5, <1>6, <1>7 DEF Claims

\* A block leaves its place.
LEMMA FewerClaims ==
  ASSUME Claims, NEW t \in Threads, Others(t),
         NEW k0, Extends(thread'[t], thread[t], k0),
         header' = {h \in header : h.base # BaseAt(thread[t], k0)}
  PROVE  Claims'
  <1> USE DEF Others, Extends, SamePlace
  <1>1. \A u \in Threads : \A k \in Places(thread'[u]) :
              /\ ~(u = t /\ k = k0) /\ k \in Places(thread[u])
              /\ BaseAt(thread'[u], k) = BaseAt(thread[u], k)
              /\ SizeAt(thread'[u], k) = SizeAt(thread[u], k)
              /\ AlignAt(thread'[u], k) = AlignAt(thread[u], k)
    OBVIOUS
  <1>2. \A u \in Threads : \A k \in Places(thread[u]) :
           \/ u = t /\ k = k0
           \/ k \in Places(thread'[u]) /\ BaseAt(thread'[u], k) = BaseAt(thread[u], k)
    OBVIOUS
  <1>3. \A u \in Threads : \A k \in Places(thread'[u]) :
           BaseAt(thread[u], k) # BaseAt(thread[t], k0)
    BY <1>1 DEF Claims, Once
  <1>4. Once'
    <2> SUFFICES ASSUME NEW u \in Threads, NEW v \in Threads,
                        NEW k \in Places(thread'[u]), NEW l \in Places(thread'[v]),
                        BaseAt(thread'[u], k) = BaseAt(thread'[v], l)
                 PROVE  u = v /\ k = l
      BY DEF Once
    <2> QED BY <1>1 DEF Claims, Once
  <1>5. Live'
    <2> SUFFICES ASSUME NEW u \in Threads, NEW k \in Places(thread'[u])
                 PROVE  \E h \in header' : h.base = BaseAt(thread'[u], k)
      BY DEF Live
    <2>1. PICK h \in header : h.base = BaseAt(thread[u], k)
      BY <1>1 DEF Claims, Live
    <2> QED BY <1>1, <1>3, <2>1
  <1>6. Reachable'
    <2> SUFFICES ASSUME NEW h \in header'
                 PROVE  \E u \in Threads : \E k \in Places(thread'[u]) :
                            h.base = BaseAt(thread'[u], k)
      BY DEF Reachable
    <2>1. PICK u \in Threads : \E k \in Places(thread[u]) : h.base = BaseAt(thread[u], k)
      BY DEF Claims, Reachable
    <2>2. PICK k \in Places(thread[u]) : h.base = BaseAt(thread[u], k)
      BY <2>1
    <2> QED BY <1>2, <2>1, <2>2
  <1>7. Served'
    <2> SUFFICES ASSUME NEW u \in Threads, NEW k \in Places(thread'[u]), NEW h \in header',
                        h.base = BaseAt(thread'[u], k)
                 PROVE  Fits(h, SizeAt(thread'[u], k), AlignAt(thread'[u], k))
      BY DEF Served
    <2> QED BY <1>1 DEF Claims, Served
  <1> QED BY <1>4, <1>5, <1>6, <1>7 DEF Claims

-----------------------------------------------------------------------------
\* The loops of allocFxn and freeFxn

LEMMA Fields ==
  ASSUME NEW th \in ThreadStates
  PROVE  /\ th.tab \in Seq(MemRec) /\ Len(th.tab) \in Nat
         /\ th.n \in Nat /\ th.i \in Nat \ {0}
         /\ th.ptr \in Bases \cup {NULL} /\ th.handle \in Bases \cup {NULL}
         /\ \A j \in 1 .. Len(th.tab) :
                /\ th.tab[j] \in MemRec /\ th.tab[j].size \in Nat /\ th.tab[j].alignment \in Nat
                /\ th.tab[j].base \in Bases \cup {NULL, Garbage}
  <1>1. /\ th.tab \in Seq(MemRec) /\ Len(th.tab) \in Nat
        /\ th.n \in Nat /\ th.i \in Nat \ {0}
        /\ th.ptr \in Bases \cup {NULL} /\ th.handle \in Bases \cup {NULL}
    BY DEF ThreadStates
  <1>2. \A j \in 1 .. Len(th.tab) : th.tab[j] \in MemRec
    BY <1>1
  <1> QED BY <1>1, <1>2 DEF MemRec

\* The thread that takes a step, and its state after it.
LEMMA Updated ==
  ASSUME IresTypeOK, NEW t \in Threads, NEW nx \in ThreadStates,
         thread' = [thread EXCEPT ![t] = nx]
  PROVE  /\ thread[t] \in ThreadStates /\ thread'[t] = nx /\ Others(t)
         /\ thread' \in [Threads -> ThreadStates]
  BY DEF IresTypeOK, Others

\* Thread th has put base into the current record of its table.
Recorded(nx, th, base) ==
    /\ nx.pc = th.pc /\ nx.op = th.op /\ nx.n = th.n /\ nx.i = th.i + 1
    /\ nx.ptr = th.ptr /\ nx.handle = th.handle /\ Len(nx.tab) = Len(th.tab)
    /\ \A j \in 1 .. Len(th.tab) :
           /\ nx.tab[j].size = th.tab[j].size
           /\ nx.tab[j].alignment = th.tab[j].alignment
           /\ nx.tab[j].base = IF j = th.i THEN base ELSE th.tab[j].base

\* One record: its block has the padded size, and nothing else changes.
LEMMA AllocRecord ==
  ASSUME IresTypeOK, NEW t \in Threads, thread[t].i <= thread[t].n,
         thread[t].n = Len(thread[t].tab), alloc_record(t)
  PROVE  LET r == thread[t].tab[thread[t].i]  pad == Pad(r.alignment) IN
         \E p \in Room(r.size + pad, r.alignment) :
             /\ heap' = heap \cup {[ptr |-> p, size |-> r.size + pad]}
             /\ header' = header \cup {[base |-> p + pad, ptr |-> p, size |-> r.size + pad]}
             /\ p + pad \in Bases
             /\ thread' \in [Threads -> ThreadStates] /\ Others(t)
             /\ Recorded(thread'[t], thread[t], p + pad)
             /\ UNCHANGED <<fxnsSet, undefined>>
  <1> DEFINE th == thread[t]
             i == th.i
             r == th.tab[i]
             pad == Pad(r.alignment)
  <1>0. th \in ThreadStates
    BY DEF IresTypeOK
  <1>1. /\ i \in 1 .. Len(th.tab) /\ r \in MemRec /\ r.size \in Nat /\ pad \in Nat
        /\ th.tab \in Seq(MemRec) /\ Len(th.tab) \in Nat /\ i \in Nat
    BY <1>0, Fields DEF Pad, HeaderSize
  <1>2. PICK p \in Room(r.size + pad, r.alignment) :
           /\ heap' = heap \cup {[ptr |-> p, size |-> r.size + pad]}
           /\ header' = header \cup {[base |-> p + pad, ptr |-> p, size |-> r.size + pad]}
           /\ thread' = [thread EXCEPT ![t].tab[i].base = p + pad, ![t].i = i + 1]
           /\ UNCHANGED <<fxnsSet, undefined>>
    BY DEF alloc_record
  <1> DEFINE base == p + pad
             tab == [th.tab EXCEPT ![i] = [r EXCEPT !.base = base]]
             nx == [th EXCEPT !.tab = tab, !.i = i + 1]
  <1>3. base \in Bases
    <2>1. p \in Addresses /\ p + (r.size + pad) <= HeapBase + HeapSize
      BY <1>2 DEF Room
    <2>2. r.size \in Nat /\ pad \in Nat
      BY <1>1
    <2> HIDE DEF r, pad
    <2>3. HeapSize \in Nat /\ p \in Int /\ 16 <= p /\ p + (r.size + pad) <= 16 + HeapSize
      BY <2>1, IresAssumption DEF Addresses, HeapBase
    <2> QED BY <2>2, <2>3 DEF Bases, HeapBase
  <1> HIDE DEF base, pad
  <1>4. [r EXCEPT !.base = base] \in MemRec
    BY <1>1, <1>3 DEF MemRec
  <1>5. /\ tab \in Seq(MemRec) /\ Len(tab) = Len(th.tab)
        /\ \A j \in 1 .. Len(th.tab) :
               tab[j] = IF j = i THEN [r EXCEPT !.base = base] ELSE th.tab[j]
    BY <1>1, <1>4
  <1>6. nx \in ThreadStates
    <2> HIDE DEF tab
    <2>1. i + 1 \in Nat \ {0}
      BY <1>1
    <2> QED BY <1>0, <1>5, <2>1 DEF ThreadStates
  <1>7. thread' = [thread EXCEPT ![t] = nx]
    BY <1>2 DEF base
  <1>8. \A j \in 1 .. Len(th.tab) :
           /\ tab[j].size = th.tab[j].size /\ tab[j].alignment = th.tab[j].alignment
           /\ tab[j].base = IF j = i THEN base ELSE th.tab[j].base
    <2>1. r.size = [r EXCEPT !.base = base].size /\ base = [r EXCEPT !.base = base].base
          /\ r.alignment = [r EXCEPT !.base = base].alignment
      BY <1>1 DEF MemRec
    <2> HIDE DEF tab
    <2> SUFFICES ASSUME NEW j \in 1 .. Len(th.tab)
                 PROVE  /\ tab[j].size = th.tab[j].size /\ tab[j].alignment = th.tab[j].alignment
                        /\ tab[j].base = IF j = i THEN base ELSE th.tab[j].base
      OBVIOUS
    <2>2. CASE j = i
      BY <1>5, <2>1, <2>2
    <2>3. CASE j # i
      BY <1>5, <2>3
    <2> QED BY <2>2, <2>3
  <1>9. /\ nx.pc = th.pc /\ nx.op = th.op /\ nx.n = th.n /\ nx.i = i + 1 /\ nx.tab = tab
        /\ nx.ptr = th.ptr /\ nx.handle = th.handle
    BY <1>0 DEF ThreadStates
  <1>10. thread'[t] = nx /\ Others(t) /\ thread' \in [Threads -> ThreadStates]
    BY <1>6, <1>7, Updated
  <1> HIDE DEF nx, tab
  <1>11. Recorded(thread'[t], th, p + pad)
    BY <1>5, <1>8, <1>9, <1>10 DEF Recorded, base
  <1> QED BY <1>2, <1>3, <1>10, <1>11 DEF base, pad

-----------------------------------------------------------------------------
\* The heap

LEMMA HeaderFields ==
  ASSUME IresTypeOK
  PROVE  /\ \A h \in header : h.base \in Int /\ h.ptr \in Int /\ h.size \in Nat
         /\ \A g, h \in header : Blocks /\ g # h => g.base # h.base /\ g.ptr # h.ptr
         /\ \A h \in header : Block(h).ptr = h.ptr /\ Block(h).size = h.size
  <1>1. \A h \in header : h.base \in Int /\ h.ptr \in Int /\ h.size \in Nat
    BY IresAssumption DEF IresTypeOK, Bases, Addresses, HeapBase
  <1>2. ASSUME NEW g \in header, NEW h \in header, Blocks, g # h
        PROVE  g.base # h.base /\ g.ptr # h.ptr
    BY <1>1, <1>2, BasesDiffer DEF Blocks
  <1> QED BY <1>1, <1>2 DEF Block

\* What Memory_alloc returns for a record, with its header.
LEMMA NewBlock ==
  ASSUME IresTypeOK, Blocks, NEW size \in Nat, NEW alignment \in Nat,
         NEW p \in Room(size + Pad(alignment), alignment), NEW g,
         g = [base |-> p + Pad(alignment), ptr |-> p, size |-> size + Pad(alignment)],
         p + Pad(alignment) \in Bases,
         heap' = heap \cup {[ptr |-> p, size |-> size + Pad(alignment)]},
         header' = header \cup {g}
  PROVE  /\ Blocks'
         /\ \A h \in header : h.base # g.base
         /\ PowerOfTwo(alignment) => Fits(g, size, alignment)
         /\ heap' \subseteq [ptr : Addresses, size : Nat]
         /\ header' \subseteq [base : Bases, ptr : Addresses, size : Nat]
  <1> DEFINE pad == Pad(alignment)
             all == size + pad
  <1>1. pad \in Nat /\ pad >= HeaderSize
    BY DEF Pad, HeaderSize
  <1> HIDE DEF pad
  <1>2. all \in Nat /\ all >= HeaderSize
    BY <1>1 DEF HeaderSize
  <1>3. /\ g.base = p + pad /\ g.ptr = p /\ g.size = all
        /\ Block(g) = [ptr |-> p, size |-> all]
    BY DEF Block, pad
  <1>4. /\ p \in Addresses /\ p % Larger(alignment, 8) = 0
        /\ \A b \in heap : p + all <= b.ptr \/ b.ptr + b.size <= p
    BY DEF Room, pad
  <1>5. p \in Nat
    BY <1>4, IresAssumption DEF Addresses, HeapBase
  <1> HIDE DEF all
  <1>6. \A h \in header : p + all <= h.ptr \/ h.ptr + h.size <= p
    BY <1>4, HeaderFields DEF Blocks
  <1>7. g.ptr + HeaderSize <= g.base /\ g.base <= g.ptr + g.size
    BY <1>1, <1>2, <1>3, <1>5 DEF all, HeaderSize
  <1>8. \A h \in header : Apart(g, h) /\ Apart(h, g)
    BY <1>3, <1>6 DEF Apart
  <1>9. \A h \in header : h.base # g.base /\ h.ptr # g.ptr
    <2> SUFFICES ASSUME NEW h \in header PROVE h.base # g.base /\ h.ptr # g.ptr
      OBVIOUS
    <2>1. g.ptr \in Int /\ g.size \in Int /\ g.base \in Int
      BY <1>1, <1>2, <1>3, <1>5
    <2>2. h.ptr \in Int /\ h.size \in Int /\ h.base \in Int
      BY HeaderFields
    <2>3. h.ptr + HeaderSize <= h.base /\ h.base <= h.ptr + h.size
      BY DEF Blocks
    <2> QED BY <1>7, <1>8, <2>1, <2>2, <2>3, BasesDiffer
  <1>10. g \notin header /\ Block(g) \notin heap
    <2>1. g \notin header
      BY <1>9
    <2>2. \A b \in heap : b.ptr # p
      BY <1>3, <1>9, HeaderFields DEF Blocks
    <2>3. Block(g).ptr = p
      BY <1>3
    <2> QED BY <2>1, <2>2, <2>3
  <1>11. heap' = heap \cup {Block(g)}
    BY <1>3 DEF all, pad
  <1>12. Blocks'
    <2>1. \A h \in header' : h.ptr + HeaderSize <= h.base /\ h.base <= h.ptr + h.size
      BY <1>7 DEF Blocks
    <2>2. \A x, y \in header' : x # y => Apart(x, y)
      BY <1>8 DEF Blocks
    <2>3. heap' = {Block(h) : h \in header'}
      BY <1>11 DEF Blocks
    <2>4. /\ IsFiniteSet(header') /\ IsFiniteSet(heap')
          /\ Cardinality(heap') = Cardinality(header')
      <3>1. IsFiniteSet(header') /\ Cardinality(header') = Cardinality(header) + 1
        BY <1>10, FS_AddElement DEF Blocks
      <3>2. IsFiniteSet(heap)
        BY DEF Blocks
      <3>3. IsFiniteSet(heap') /\ Cardinality(heap') = Cardinality(heap) + 1
        BY <1>10, <1>11, <3>2, FS_AddElement
      <3> QED BY <3>1, <3>3 DEF Blocks
    <2> QED BY <2>1, <2>2, <2>3, <2>4 DEF Blocks
  <1>13. PowerOfTwo(alignment) => Fits(g, size, alignment)
    <2>1. PowerOfTwo(alignment) /\ alignment > 0 => g.base % alignment = 0
      BY <1>3, <1>4, <1>5, PaddedBase DEF pad
    <2>2. g.base + size <= g.ptr + g.size
      BY <1>1, <1>3, <1>5 DEF all
    <2> QED BY <1>7, <2>1, <2>2 DEF Fits
  <1>14. /\ heap' \subseteq [ptr : Addresses, size : Nat]
         /\ header' \subseteq [base : Bases, ptr : Addresses, size : Nat]
    BY <1>2, <1>4 DEF IresTypeOK, all, pad
  <1> QED BY <1>9, <1>12, <1>13, <1>14

\* What freeFxn takes away when there is a header before the base.
LEMMA BlockFreed ==
  ASSUME IresTypeOK, Blocks, NEW g \in header, NEW there,
         there = {h \in header : h.base = g.base},
         heap' = heap \ {[ptr |-> h.ptr, size |-> h.size] : h \in there},
         header' = header \ there
  PROVE  Blocks'
  <1>1. there = {g}
    BY HeaderFields
  <1>2. {[ptr |-> h.ptr, size |-> h.size] : h \in there} = {Block(g)}
    BY <1>1 DEF Block
  <1>3. heap' = heap \ {Block(g)} /\ header' = header \ {g}
    BY <1>1, <1>2
  <1>4. \A h \in header : h # g => Block(h) # Block(g)
    <2> SUFFICES ASSUME NEW h \in header, h # g PROVE Block(h) # Block(g)
      OBVIOUS
    <2>1. h.ptr # g.ptr /\ Block(h).ptr = h.ptr /\ Block(g).ptr = g.ptr
      BY HeaderFields
    <2> QED BY <2>1
  <1>5. Block(g) \in heap /\ heap' = {Block(h) : h \in header'}
    BY <1>3, <1>4 DEF Blocks
  <1>6. /\ \A h \in header' : h.ptr + HeaderSize <= h.base /\ h.base <= h.ptr + h.size
        /\ \A x, y \in header' : x # y => Apart(x, y)
    BY <1>3 DEF Blocks
  <1>7. IsFiniteSet(header') /\ Cardinality(header') = Cardinality(header) - 1
    BY <1>3, FS_RemoveElement DEF Blocks
  <1>8. IsFiniteSet(heap') /\ Cardinality(heap') = Cardinality(heap) - 1
    BY <1>3, <1>5, FS_RemoveElement DEF Blocks
  <1> QED BY <1>5, <1>6, <1>7, <1>8 DEF Blocks

-----------------------------------------------------------------------------
\* Steps of the loops

LEMMA AllocRecordStep ==
  ASSUME MemoryInv, NEW t \in Threads, thread[t].op = "alloc", thread[t].i <= thread[t].n,
         alloc_record(t), registered' = registered
  PROVE  MemoryInv'
  <1> DEFINE th == thread[t]
             nx == thread'[t]
             i == th.i
             r == th.tab[i]
             pad == Pad(r.alignment)
  <1>1. IresTypeOK /\ Blocks /\ Claims /\ Shape(t, th) /\ th \in ThreadStates
    BY DEF MemoryInv, Shapes, IresTypeOK
  <1>2. th.n = Len(th.tab) /\ i \in 1 .. Len(th.tab) /\ th.pc \in Getting
    BY <1>1, Fields DEF Shape
  <1>3. /\ r.size \in Nat /\ r.alignment \in Nat /\ PowerOfTwo(r.alignment)
    BY <1>1, <1>2, Fields DEF Shape
  <1>4. PICK p \in Room(r.size + pad, r.alignment) :
             /\ heap' = heap \cup {[ptr |-> p, size |-> r.size + pad]}
             /\ header' = header \cup {[base |-> p + pad, ptr |-> p, size |-> r.size + pad]}
             /\ p + pad \in Bases
             /\ thread' \in [Threads -> ThreadStates] /\ Others(t)
             /\ Recorded(nx, th, p + pad)
             /\ UNCHANGED <<fxnsSet, undefined>>
    BY <1>1, <1>2, AllocRecord
  <1> DEFINE g == [base |-> p + pad, ptr |-> p, size |-> r.size + pad]
  <1>5. /\ Blocks'
        /\ \A h \in header : h.base # g.base
        /\ Fits(g, r.size, r.alignment)
        /\ heap' \subseteq [ptr : Addresses, size : Nat]
        /\ header' \subseteq [base : Bases, ptr : Addresses, size : Nat]
    BY <1>1, <1>3, <1>4, NewBlock
  <1>6. g.base = p + pad /\ header' = header \cup {g}
    BY <1>4
  <1> HIDE DEF pad, r, th, nx, g
  <1>7. /\ nx.pc = th.pc /\ nx.op = "alloc" /\ nx.n = th.n /\ nx.i = i + 1
        /\ nx.ptr = th.ptr /\ nx.handle = th.handle /\ Len(nx.tab) = Len(th.tab)
        /\ \A j \in 1 .. Len(th.tab) :
               /\ nx.tab[j].size = th.tab[j].size
               /\ nx.tab[j].alignment = th.tab[j].alignment
               /\ nx.tab[j].base = IF j = i THEN g.base ELSE th.tab[j].base
    BY <1>4, <1>6 DEF Recorded, th
  <1>8. /\ i \in Nat \ {0} /\ Len(th.tab) \in Nat /\ i <= Len(th.tab)
        /\ th.op = "alloc" /\ th.i = i
    BY <1>1, <1>2, Fields DEF th
  <1>9. Extends(th, nx, i)
    <2>1. Allocated(th) = 1 .. i - 1 /\ Allocated(nx) = 1 .. (i + 1) - 1
      BY <1>7, <1>8 DEF Allocated
    <2>2. Allocated(nx) = Allocated(th) \cup {i}
      BY <1>8, <2>1
    <2>3. HasBuffer(nx) = HasBuffer(th) /\ HasHandle(nx) = HasHandle(th)
      BY <1>7 DEF HasBuffer, HasHandle
    <2>4. Places(nx) = Places(th) \cup {i}
      BY <2>2, <2>3 DEF Places
    <2>5. i \notin Places(th)
      BY <1>8, <2>1 DEF Places
    <2>6. ASSUME NEW l \in Places(th) PROVE SamePlace(nx, l, th, l)
      <3>1. l \in {0, -1} \/ (l \in 1 .. Len(th.tab) /\ l # i)
        BY <1>8, <2>1, <2>6 DEF Places
      <3> QED BY <1>7, <3>1 DEF SamePlace, BaseAt, SizeAt, AlignAt
    <2> QED BY <2>4, <2>5, <2>6 DEF Extends
  <1>10. BaseAt(nx, i) = g.base /\ SizeAt(nx, i) = r.size /\ AlignAt(nx, i) = r.alignment
    <2>1. i \notin {0, -1}
      BY <1>8
    <2> QED BY <1>2, <1>7, <1>8, <2>1 DEF BaseAt, SizeAt, AlignAt, r
  <1>11. Claims'
    <2>1. Fits(g, SizeAt(nx, i), AlignAt(nx, i))
      BY <1>5, <1>10
    <2> QED BY <1>1, <1>4, <1>5, <1>6, <1>9, <1>10, <2>1, MoreClaims DEF th, nx
  <1>12. Shapes'
    <2>1. Shape(t, nx)
      <3>1. /\ IF t = Boot THEN th.pc \in {"idle", "registering"} ELSE th.pc # "registering"
            /\ th.pc \in {"buffer", "handle"} =>
                   /\ Len(th.tab) = 1 /\ th.tab[1].alignment = 4
                   /\ th.tab[1].size = IF th.pc = "handle" THEN HandleSize ELSE BufferSize
            /\ \A j \in 1 .. Len(th.tab) : PowerOfTwo(th.tab[j].alignment)
        BY <1>1 DEF Shape
      <3>2. \A j \in 1 .. Len(nx.tab) : PowerOfTwo(nx.tab[j].alignment)
        BY <1>7, <3>1
      <3>3. nx.pc \in {"buffer", "handle"} =>
                   /\ Len(nx.tab) = 1 /\ nx.tab[1].alignment = 4
                   /\ nx.tab[1].size = IF nx.pc = "handle" THEN HandleSize ELSE BufferSize
        BY <1>7, <3>1
      <3>4. nx.n = Len(nx.tab) /\ nx.i <= nx.n + 1
        BY <1>2, <1>7, <1>8 DEF th
      <3> QED BY <1>2, <1>7, <3>1, <3>2, <3>3, <3>4 DEF Shape, Getting, Giving, th
    <2> QED BY <1>4, <2>1 DEF Shapes, Others, nx, MemoryInv
  <1>13. Pointers'
    BY <1>4, <1>7 DEF Pointers, MemoryInv, Others, Threads, th, nx
  <1>14. IresTypeOK' /\ ~undefined'
    BY <1>4, <1>5 DEF IresTypeOK, MemoryInv
  <1> QED BY <1>5, <1>11, <1>12, <1>13, <1>14 DEF MemoryInv

Ops == {"none", "alloc", "undo", "free", "true", "false"}
Pcs == {"idle", "registering", "buffer", "handle", "undo", "held", "free_buffer", "free_handle"}

\* What a thread has after one of its fields, or its loop, is set.
Same(nx, th) == nx.ptr = th.ptr /\ nx.handle = th.handle /\ nx.tab = th.tab /\ nx.pc = th.pc

LEMMA SetOp ==
  ASSUME NEW th \in ThreadStates, NEW op \in Ops, NEW x, x = [th EXCEPT !.op = op]
  PROVE  x \in ThreadStates /\ Same(x, th) /\ x.op = op /\ x.n = th.n /\ x.i = th.i
  BY DEF ThreadStates, Ops, Same

LEMMA SetIndex ==
  ASSUME NEW th \in ThreadStates, NEW i \in Nat \ {0}, NEW x, x = [th EXCEPT !.i = i]
  PROVE  x \in ThreadStates /\ Same(x, th) /\ x.op = th.op /\ x.n = th.n /\ x.i = i
  BY DEF ThreadStates, Same

LEMMA Entered ==
  ASSUME IresTypeOK, NEW t \in Threads, NEW op \in Ops, NEW tab \in Seq(MemRec), NEW n \in Nat,
         NEW x, x = Enter(t, op, tab, n)
  PROVE  /\ x \in ThreadStates
         /\ x.pc = thread[t].pc /\ x.ptr = thread[t].ptr /\ x.handle = thread[t].handle
         /\ x.op = op /\ x.tab = tab /\ x.n = n /\ x.i = 1
  <1> DEFINE th == thread[t]
  <1>1. th \in ThreadStates
    BY DEF IresTypeOK
  <1>2. x = [th EXCEPT !.op = op, !.tab = tab, !.n = n, !.i = 1]
    BY DEF Enter
  <1> HIDE DEF th
  <1>3. x = [pc |-> th.pc, op |-> op, tab |-> tab, n |-> n, i |-> 1,
             ptr |-> th.ptr, handle |-> th.handle]
    BY <1>1, <1>2 DEF ThreadStates
  <1>4. /\ th.pc \in Pcs /\ th.ptr \in Bases \cup {NULL} /\ th.handle \in Bases \cup {NULL}
    BY <1>1 DEF ThreadStates, Pcs
  <1>5. x \in ThreadStates
    BY <1>3, <1>4 DEF ThreadStates, Ops, Pcs
  <1> QED BY <1>3, <1>5 DEF th

LEMMA FreeRecordStep ==
  ASSUME MemoryInv, NEW t \in Threads, thread[t].op \in {"free", "undo"},
         thread[t].i <= thread[t].n, free_record(t), registered' = registered
  PROVE  MemoryInv'
  <1> DEFINE th == thread[t]
             nx == thread'[t]
             i == th.i
             base == th.tab[i].base
             there == {h \in header : h.base = base}
  <1>1. IresTypeOK /\ Blocks /\ Claims /\ Shape(t, th) /\ th \in ThreadStates
    BY DEF MemoryInv, Shapes, IresTypeOK
  <1>2. /\ heap' = heap \ {[ptr |-> h.ptr, size |-> h.size] : h \in there}
        /\ header' = header \ there
        /\ undefined' = (undefined \/ (base # NULL /\ there = {}))
        /\ thread' = [thread EXCEPT ![t] = [th EXCEPT !.i = i + 1]]
        /\ UNCHANGED fxnsSet
    BY DEF free_record
  <1>3. /\ i \in Nat \ {0} /\ th.n \in Nat /\ Len(th.tab) \in Nat
        /\ i <= th.n /\ th.n <= Len(th.tab)
    BY <1>1, Fields DEF Shape
  <1>4. /\ thread' \in [Threads -> ThreadStates] /\ Others(t)
        /\ Same(nx, th) /\ nx.op = th.op /\ nx.n = th.n /\ nx.i = i + 1
    <2>1. i + 1 \in Nat \ {0}
      BY <1>3
    <2> DEFINE x == [th EXCEPT !.i = i + 1]
    <2>2. x \in ThreadStates /\ Same(x, th) /\ x.op = th.op /\ x.n = th.n /\ x.i = i + 1
      BY <1>1, <2>1, SetIndex
    <2>3. nx = x /\ Others(t) /\ thread' \in [Threads -> ThreadStates]
      BY <1>1, <1>2, <2>2, Updated
    <2> QED BY <2>2, <2>3
  <1> HIDE DEF nx
  <1>5. Allocated(th) = i .. th.n /\ Allocated(nx) = (i + 1) .. th.n
    BY <1>4 DEF Allocated
  <1> HIDE DEF th
  <1>6. /\ Extends(nx, th, i)
        /\ BaseAt(th, i) = base
    <2>1. Allocated(th) = Allocated(nx) \cup {i} /\ i \notin Allocated(nx) /\ i \notin {0, -1}
      BY <1>3, <1>5
    <2>2. HasBuffer(nx) = HasBuffer(th) /\ HasHandle(nx) = HasHandle(th)
      BY <1>4 DEF Same, HasBuffer, HasHandle
    <2>3. Places(th) = Places(nx) \cup {i} /\ i \notin Places(nx)
      BY <2>1, <2>2 DEF Places
    <2>4. \A l : SamePlace(th, l, nx, l)
      BY <1>4 DEF Same, SamePlace, BaseAt, SizeAt, AlignAt
    <2> QED BY <2>1, <2>3, <2>4 DEF Extends, BaseAt
  <1>7. PICK g \in header : g.base = base
    BY <1>1, <1>6 DEF Claims, Live, Extends, th
  <1>8. Blocks'
    BY <1>1, <1>2, <1>7, BlockFreed
  <1>9. Claims'
    <2>1. header' = {h \in header : h.base # BaseAt(th, i)}
      BY <1>2, <1>6
    <2> QED BY <1>1, <1>4, <1>6, <2>1, FewerClaims DEF th, nx
  <1>10. ~undefined'
    BY <1>2, <1>7 DEF MemoryInv
  <1>11. Shapes'
    <2>1. th.op \in {"free", "undo"}
      BY DEF th
    <2>2. Shape(t, nx)
      BY <1>1, <1>4, <2>1 DEF Shape, Same, Giving, Getting
    <2> QED BY <1>4, <2>2 DEF Shapes, Others, nx, MemoryInv
  <1>12. Pointers'
    BY <1>2, <1>4 DEF Pointers, MemoryInv, Others, Threads, Same, th, nx
  <1>13. IresTypeOK'
    BY <1>2, <1>4, <1>10 DEF IresTypeOK, MemoryInv
  <1> QED BY <1>8, <1>9, <1>10, <1>11, <1>12, <1>13 DEF MemoryInv

-----------------------------------------------------------------------------
\* Steps that only move a thread on

\* A step of thread t that changes no block, and names its places anew.
LEMMA ThreadStep ==
  ASSUME MemoryInv, NEW t \in Threads, NEW nx \in ThreadStates,
         thread' = [thread EXCEPT ![t] = nx], Shape(t, nx),
         t \in Workers /\ nx.pc # "idle" => fxnsSet,
         NEW m, Renamed(m, thread[t], nx),
         UNCHANGED <<heap, header, fxnsSet, registered>>, ~undefined',
         undefined' \in BOOLEAN
  PROVE  MemoryInv'
  <1>1. IresTypeOK /\ Shapes /\ Pointers /\ Blocks /\ Claims
    BY DEF MemoryInv
  <1>2. thread'[t] = nx /\ Others(t) /\ thread' \in [Threads -> ThreadStates]
    BY <1>1, Updated
  <1>3. IresTypeOK'
    BY <1>1, <1>2 DEF IresTypeOK
  <1>4. Shapes'
    BY <1>1, <1>2 DEF Shapes, Others
  <1>5. Pointers'
    <2>1. \A w \in Workers : w \in Threads
      BY DEF Threads
    <2> QED BY <1>1, <1>2, <2>1 DEF Pointers, Others
  <1>6. Blocks'
    BY <1>1 DEF Blocks
  <1>7. Claims'
    BY <1>1, <1>2, RenamedClaims
  <1> QED BY <1>3, <1>4, <1>5, <1>6, <1>7 DEF MemoryInv

\* The places keep their names.
LEMMA NotRenamed ==
  ASSUME NEW th, NEW nx, Places(nx) = Places(th),
         \A k \in Places(th) : SamePlace(nx, k, th, k)
  PROVE  Renamed([k \in Places(th) |-> k], th, nx)
  BY DEF Renamed

LEMMA SamePlaces ==
  ASSUME NEW th, NEW nx, nx.tab = th.tab, nx.ptr = th.ptr, nx.handle = th.handle
  PROVE  \A k : SamePlace(nx, k, th, k)
  BY DEF SamePlace, BaseAt, SizeAt, AlignAt

LEMMA AllocFailsStep ==
  ASSUME MemoryInv, NEW t \in Threads, thread[t].op = "alloc", thread[t].i <= thread[t].n,
         alloc_fails(t), registered' = registered
  PROVE  MemoryInv'
  <1> DEFINE th == thread[t]
             nx == Enter(t, "undo", th.tab, th.i - 1)
  <1>1. IresTypeOK /\ Pointers /\ Shape(t, th) /\ th \in ThreadStates
    BY DEF MemoryInv, Shapes, IresTypeOK
  <1>2. /\ th.tab \in Seq(MemRec) /\ th.i \in Nat \ {0} /\ th.n = Len(th.tab)
        /\ th.n \in Nat /\ th.i <= th.n
    BY <1>1, Fields DEF Shape
  <1>3. th.i - 1 \in Nat /\ "undo" \in Ops
    BY <1>2 DEF Ops
  <1>4. thread' = [thread EXCEPT ![t] = nx]
        /\ UNCHANGED <<heap, header, fxnsSet, undefined>>
    BY DEF alloc_fails
  <1>5. /\ nx \in ThreadStates /\ Same(nx, th)
        /\ nx.op = "undo" /\ nx.n = th.i - 1 /\ nx.i = 1
    BY <1>1, <1>2, <1>3, Entered DEF Same
  <1>6. th.op = "alloc" /\ th.pc \in Getting
    BY <1>1 DEF Shape
  <1> HIDE DEF nx, th
  <1>7. Shape(t, nx)
    BY <1>1, <1>2, <1>5, <1>6 DEF Shape, Same, Getting, Giving
  <1>8. Places(nx) = Places(th)
    BY <1>5, <1>6 DEF Places, Allocated, HasBuffer, HasHandle, Same
  <1>9. Renamed([k \in Places(th) |-> k], th, nx)
    BY <1>5, <1>8, NotRenamed, SamePlaces DEF Same
  <1>10. t \in Workers => fxnsSet
    BY <1>1, <1>6 DEF Pointers, Getting, th
  <1>11. ~undefined' /\ undefined' \in BOOLEAN
    BY <1>1, <1>4 DEF MemoryInv, IresTypeOK
  <1> QED BY <1>4, <1>5, <1>7, <1>9, <1>10, <1>11, ThreadStep DEF th

\* The end of a loop, with the answer op.
LEMMA LoopEnds ==
  ASSUME MemoryInv, NEW t \in Threads, NEW op \in {"true", "false"},
         thread' = [thread EXCEPT ![t].op = op],
         \/ thread[t].op = "alloc" /\ op = "true"
         \/ thread[t].op = "free" /\ op = "true"
         \/ thread[t].op = "undo" /\ op = "false",
         thread[t].i > thread[t].n,
         UNCHANGED <<heap, header, fxnsSet, undefined, registered>>
  PROVE  MemoryInv'
  <1> DEFINE th == thread[t]
             nx == [th EXCEPT !.op = op]
  <1>1. IresTypeOK /\ Pointers /\ Shape(t, th) /\ th \in ThreadStates
    BY DEF MemoryInv, Shapes, IresTypeOK
  <1>2. /\ th.i \in Nat \ {0} /\ th.n \in Nat /\ th.i > th.n
    BY <1>1, Fields
  <1>3. thread' = [thread EXCEPT ![t] = nx]
    OBVIOUS
  <1>4. nx \in ThreadStates /\ Same(nx, th) /\ nx.op = op /\ nx.n = th.n /\ nx.i = th.i
    BY <1>1, SetOp DEF Ops
  <1>5. \/ th.op = "alloc" /\ op = "true" /\ th.pc \in Getting /\ th.n = Len(th.tab)
           /\ th.i <= th.n + 1
        \/ th.op = "free" /\ op = "true" /\ th.pc \in Giving
        \/ th.op = "undo" /\ op = "false" /\ th.pc \in Getting
    BY <1>1 DEF Shape
  <1> HIDE DEF nx, th
  <1>6. Shape(t, nx)
    BY <1>1, <1>4, <1>5 DEF Shape, Same, Getting, Giving
  <1>7. Allocated(nx) = Allocated(th)
    <2>1. CASE th.op = "alloc"
      <3>1. Allocated(th) = 1 .. th.i - 1
        BY <2>1 DEF Allocated
      <3>2. Allocated(nx) = 1 .. th.n
        BY <1>4, <1>5, <2>1 DEF Allocated, Getting, Same
      <3>3. th.i = th.n + 1
        BY <1>2, <1>5, <2>1
      <3> QED BY <1>2, <3>1, <3>2, <3>3
    <2>2. CASE th.op \in {"free", "undo"}
      <3>1. Allocated(th) = th.i .. th.n
        BY <2>2 DEF Allocated
      <3>2. Allocated(nx) = {}
        BY <1>4, <1>5, <2>2 DEF Allocated, Getting, Giving, Same
      <3> QED BY <1>2, <3>1, <3>2
    <2> QED BY <1>5, <2>1, <2>2
  <1>8. Places(nx) = Places(th)
    BY <1>4, <1>7 DEF Places, HasBuffer, HasHandle, Same
  <1>9. Renamed([k \in Places(th) |-> k], th, nx)
    BY <1>4, <1>8, NotRenamed, SamePlaces DEF Same
  <1>10. t \in Workers => fxnsSet
    BY <1>1, <1>5 DEF Pointers, Getting, Giving, th
  <1>11. ~undefined' /\ undefined' \in BOOLEAN
    BY <1>1 DEF MemoryInv, IresTypeOK
  <1> QED BY <1>3, <1>4, <1>6, <1>9, <1>10, <1>11, ThreadStep DEF th

LEMMA LoopStep ==
  ASSUME MemoryInv, NEW t \in Threads, Loop(t), registered' = registered
  PROVE  MemoryInv'
  <1>1. CASE allocFxn(t)
    <2>1. CASE thread[t].i <= thread[t].n /\ alloc_record(t)
      BY <1>1, <2>1, AllocRecordStep DEF allocFxn
    <2>2. CASE thread[t].i <= thread[t].n /\ alloc_fails(t)
      BY <1>1, <2>2, AllocFailsStep DEF allocFxn
    <2>3. CASE /\ thread[t].i > thread[t].n
               /\ thread' = [thread EXCEPT ![t].op = "true"]
               /\ UNCHANGED <<heap, header, fxnsSet, undefined>>
      BY <1>1, <2>3, LoopEnds DEF allocFxn
    <2> QED BY <1>1, <2>1, <2>2, <2>3 DEF allocFxn
  <1>2. CASE freeFxn(t)
    <2>1. CASE thread[t].i <= thread[t].n /\ free_record(t)
      BY <1>2, <2>1, FreeRecordStep DEF freeFxn
    <2>2. CASE /\ thread[t].i > thread[t].n
               /\ thread' = [thread EXCEPT
                      ![t].op = IF thread[t].op = "free" THEN "true" ELSE "false"]
               /\ UNCHANGED <<heap, header, fxnsSet, undefined>>
      <3>1. CASE thread[t].op = "free"
        BY <2>2, <3>1, LoopEnds
      <3>2. CASE thread[t].op = "undo"
        <4>1. thread' = [thread EXCEPT ![t].op = "false"]
          BY <2>2, <3>2
        <4> QED BY <2>2, <3>2, <4>1, LoopEnds
      <3> QED BY <1>2, <3>1, <3>2 DEF freeFxn
    <2> QED BY <1>2, <2>1, <2>2 DEF freeFxn
  <1> QED BY <1>1, <1>2 DEF Loop

-----------------------------------------------------------------------------
\* The manager of tiled memory

\* A call of allocRes or freeRes: the caller goes on at `at' and keeps ptr.
Calling(x, op, at, ptr, handle, size, base) ==
    /\ x.pc = at /\ x.op = op /\ x.n = 1 /\ x.i = 1
    /\ x.ptr = ptr /\ x.handle = handle /\ Len(x.tab) = 1
    /\ x.tab[1].size = size /\ x.tab[1].alignment = 4 /\ x.tab[1].base = base

LEMMA Called ==
  ASSUME IresTypeOK, NEW t \in Threads, NEW op \in Ops, NEW at \in Pcs,
         NEW ptr \in Bases \cup {NULL}, NEW size \in Nat, NEW base \in Bases \cup {NULL},
         NEW x, x = [Enter(t, op, Rec(size, base), 1) EXCEPT !.pc = at, !.ptr = ptr]
  PROVE  x \in ThreadStates /\ Calling(x, op, at, ptr, thread[t].handle, size, base)
  <1> DEFINE tab == Rec(size, base)
             y == Enter(t, op, tab, 1)
             handle == thread[t].handle
  <1>1. tab \in Seq(MemRec) /\ Len(tab) = 1
        /\ tab[1].size = size /\ tab[1].alignment = 4 /\ tab[1].base = base
    <2> DEFINE r == [size |-> size, alignment |-> 4, base |-> base]
    <2>1. r \in MemRec /\ r.size = size /\ r.alignment = 4 /\ r.base = base
      BY DEF MemRec
    <2> HIDE DEF r
    <2>2. tab = <<r>>
      BY DEF Rec, r
    <2> HIDE DEF tab
    <2> QED BY <2>1, <2>2
  <1> HIDE DEF tab
  <1>2. y \in ThreadStates /\ y.op = op /\ y.tab = tab /\ y.n = 1 /\ y.i = 1
        /\ y.handle = handle
    BY <1>1, Entered
  <1>3. x = [y EXCEPT !.pc = at, !.ptr = ptr]
    BY DEF tab
  <1> HIDE DEF y
  <1>4. x = [pc |-> at, op |-> op, tab |-> tab, n |-> 1, i |-> 1, ptr |-> ptr, handle |-> handle]
    BY <1>2, <1>3 DEF ThreadStates
  <1>5. handle \in Bases \cup {NULL}
    BY <1>2 DEF ThreadStates
  <1> HIDE DEF handle
  <1>6. x \in ThreadStates
    BY <1>1, <1>4, <1>5 DEF ThreadStates, Ops, Pcs
  <1>7. x.pc = at /\ x.op = op /\ x.ptr = ptr /\ x.handle = handle
    BY ONLY <1>4
  <1>8. x.tab = tab
    BY ONLY <1>4
  <1>9. x.n = 1 /\ x.i = 1
    BY ONLY <1>4
  <1> QED BY <1>1, <1>6, <1>7, <1>8, <1>9 DEF Calling, handle

\* The same where the caller leaves its ptr alone.
LEMMA CalledHere ==
  ASSUME IresTypeOK, NEW t \in Threads, NEW op \in Ops, NEW at \in Pcs,
         NEW size \in Nat, NEW base \in Bases \cup {NULL},
         NEW x, x = [Enter(t, op, Rec(size, base), 1) EXCEPT !.pc = at]
  PROVE  /\ x \in ThreadStates
         /\ Calling(x, op, at, thread[t].ptr, thread[t].handle, size, base)
  <1> DEFINE y == Enter(t, op, Rec(size, base), 1)
             ptr == thread[t].ptr
  <1>1. Rec(size, base) \in Seq(MemRec)
    <2> DEFINE r == [size |-> size, alignment |-> 4, base |-> base]
    <2>1. r \in MemRec
      BY DEF MemRec
    <2> HIDE DEF r
    <2>2. Rec(size, base) = <<r>>
      BY DEF Rec, r
    <2> QED BY <2>1, <2>2
  <1>2. y \in ThreadStates /\ y.ptr = ptr
    BY <1>1, Entered
  <1>3. ptr \in Bases \cup {NULL}
    BY <1>2 DEF ThreadStates
  <1>4. [y EXCEPT !.pc = at] = [y EXCEPT !.pc = at, !.ptr = ptr]
    <2> HIDE DEF y, ptr
    <2> QED BY <1>2 DEF ThreadStates
  <1>5. x = [Enter(t, op, Rec(size, base), 1) EXCEPT !.pc = at, !.ptr = ptr]
    BY <1>4
  <1> QED BY <1>3, <1>5, Called

\* The states between the steps of a worker.
LEMMA CallingShape ==
  ASSUME NEW w \in Workers, NEW x, NEW op, NEW at, NEW ptr, NEW handle, NEW size, NEW base,
         Calling(x, op, at, ptr, handle, size, base),
         \/ op = "alloc" /\ at \in {"buffer", "handle"}
         \/ op = "free" /\ at \in Giving,
         size = IF at \in {"handle", "free_handle"} THEN HandleSize ELSE BufferSize
  PROVE  Shape(w, x)
  <1>1. w # Boot
    BY IresAssumption
  <1>2. PowerOfTwo(4)
    BY DEF PowerOfTwo, HeaderSize
  <1>3. \A j \in 1 .. Len(x.tab) : PowerOfTwo(x.tab[j].alignment)
    BY <1>2 DEF Calling
  <1>4. x.op = op /\ x.pc = at /\ x.n = 1 /\ x.i = 1 /\ Len(x.tab) = 1
        /\ x.tab[1].alignment = 4 /\ x.tab[1].size = size
    BY DEF Calling
  <1>5. CASE op = "alloc" /\ at \in {"buffer", "handle"}
    BY <1>1, <1>3, <1>4, <1>5 DEF Shape, Getting, Giving
  <1>6. CASE op = "free" /\ at \in Giving
    BY <1>1, <1>3, <1>4, <1>6 DEF Shape, Getting, Giving
  <1> QED BY <1>5, <1>6

LEMMA IdleFacts ==
  ASSUME NEW t \in Threads
  PROVE  /\ IdleThread \in ThreadStates /\ Shape(t, IdleThread) /\ Places(IdleThread) = {}
         /\ IdleThread.pc = "idle"
  <1>1. /\ IdleThread.pc = "idle" /\ IdleThread.op = "none" /\ IdleThread.tab = <<>>
    BY DEF IdleThread
  <1>2. IdleThread \in ThreadStates
    BY DEF IdleThread, ThreadStates, NULL
  <1>3. \A j \in 1 .. Len(IdleThread.tab) : PowerOfTwo(IdleThread.tab[j].alignment)
    BY <1>1
  <1>4. Shape(t, IdleThread)
    BY <1>1, <1>3 DEF Shape, Giving, Getting
  <1>5. Places(IdleThread) = {}
    BY <1>1 DEF Places, Allocated, HasBuffer, HasHandle
  <1> QED BY <1>1, <1>2, <1>4, <1>5

\* What a worker keeps where it is (th), and what a call adds to that.
LEMMA PlacesOf ==
  ASSUME NEW th
  PROVE  /\ th.pc = "handle" => HasBuffer(th) /\ ~HasHandle(th)
         /\ th.pc = "held" => HasBuffer(th) /\ HasHandle(th)
         /\ th.pc = "free_buffer" => ~HasBuffer(th) /\ HasHandle(th)
         /\ th.pc \notin {"handle", "held", "free_buffer"} => ~HasBuffer(th) /\ ~HasHandle(th)
         /\ th.op = "true" /\ th.pc \in Getting => Allocated(th) = 1 .. th.n
         /\ th.op \in {"none", "false"} => Allocated(th) = {}
         /\ th.op = "true" /\ th.pc \notin Getting => Allocated(th) = {}
         /\ th.op = "alloc" /\ th.i = 1 => Allocated(th) = 1 .. 0
         /\ th.op = "free" /\ th.n = 1 /\ th.i = 1 => Allocated(th) = {1}
  <1>1. th.op = "free" /\ th.n = 1 /\ th.i = 1 => Allocated(th) = {1}
    <2>1. th.op = "free" => Allocated(th) = th.i .. th.n
      BY DEF Allocated
    <2> QED BY <2>1
  <1>2. th.op = "alloc" /\ th.i = 1 => Allocated(th) = 1 .. 0
    <2>1. th.op = "alloc" => Allocated(th) = 1 .. th.i - 1
      BY DEF Allocated
    <2> QED BY <2>1
  <1> QED BY <1>1, <1>2 DEF Allocated, HasBuffer, HasHandle, Getting


LEMMA GetHandlesStep ==
  ASSUME MemoryInv, NEW w \in Workers, getHandles(w), "TILEDMEMORY" \in registered,
         registered' = registered
  PROVE  MemoryInv'
  <1> DEFINE th == thread[w]
             nx == [AllocRes(w, BufferSize) EXCEPT !.pc = "buffer"]
  <1>1. IresTypeOK /\ Shape(w, th) /\ w \in Threads /\ fxnsSet
    BY DEF MemoryInv, Shapes, Pointers, Threads
  <1>2. th = IdleThread /\ Places(th) = {}
    BY <1>1, IdleFacts DEF getHandles, At, Shape
  <1>3. thread' = [thread EXCEPT ![w] = nx] /\ UNCHANGED <<heap, header, fxnsSet>>
        /\ undefined' = (undefined \/ ~fxnsSet)
    BY DEF getHandles, ThroughPointer
  <1>4. nx \in ThreadStates
        /\ Calling(nx, "alloc", "buffer", th.ptr, th.handle, BufferSize, NULL)
    <2>1. "alloc" \in Ops /\ "buffer" \in Pcs /\ BufferSize \in Nat /\ NULL \in Bases \cup {NULL}
      BY IresAssumption DEF Ops, Pcs
    <2> QED BY <1>1, <2>1, CalledHere DEF AllocRes
  <1> HIDE DEF nx, th
  <1>5. Shape(w, nx)
    BY <1>4, CallingShape
  <1>6. Places(nx) = {}
    <2>1. Allocated(nx) = 1 .. 0 /\ ~HasBuffer(nx) /\ ~HasHandle(nx)
      BY <1>4, PlacesOf DEF Calling
    <2> QED BY <2>1 DEF Places
  <1>7. Renamed([k \in Places(th) |-> k], th, nx)
    BY <1>2, <1>6, NotRenamed
  <1>8. ~undefined' /\ undefined' \in BOOLEAN
    BY <1>1, <1>3 DEF MemoryInv, IresTypeOK
  <1> QED BY <1>1, <1>3, <1>4, <1>5, <1>7, <1>8, ThreadStep DEF th

\* The buffer, still a record of the table, becomes place 0.
LEMMA BufferAllocatedStep ==
  ASSUME MemoryInv, NEW w \in Workers, buffer_allocated(w), registered' = registered
  PROVE  MemoryInv'
  <1> DEFINE th == thread[w]
             nx == [AllocRes(w, HandleSize) EXCEPT !.pc = "handle", !.ptr = Base(w)]
             m == [k \in {0} |-> 1]
  <1>1. /\ IresTypeOK /\ Shape(w, th) /\ w \in Threads /\ th \in ThreadStates
        /\ th.pc = "buffer" /\ th.op = "true" /\ Base(w) = th.tab[1].base
    BY DEF MemoryInv, Shapes, IresTypeOK, Threads, buffer_allocated, At, Base
  <1>2. fxnsSet
    BY <1>1 DEF MemoryInv, Pointers
  <1>3. thread' = [thread EXCEPT ![w] = nx] /\ UNCHANGED <<heap, header, fxnsSet>>
        /\ undefined' = (undefined \/ ~fxnsSet)
    BY DEF buffer_allocated, ThroughPointer
  <1>4. /\ Len(th.tab) = 1 /\ th.n = 1
        /\ th.tab[1].alignment = 4 /\ th.tab[1].size = BufferSize
    BY <1>1 DEF Shape, Getting, Giving
  <1>6. Places(th) = {1}
    <2>1. Allocated(th) = 1 .. 1 /\ ~HasBuffer(th) /\ ~HasHandle(th)
      BY <1>1, <1>4, PlacesOf DEF Getting
    <2> QED BY <2>1 DEF Places
  <1>7. Base(w) \in Bases
    <2>1. PICK h \in header : h.base = BaseAt(th, 1)
      BY <1>1, <1>6 DEF MemoryInv, Claims, Live
    <2>2. BaseAt(th, 1) = th.tab[1].base
      BY DEF BaseAt
    <2> QED BY <1>1, <2>1, <2>2 DEF IresTypeOK
  <1>8. nx \in ThreadStates
        /\ Calling(nx, "alloc", "handle", Base(w), th.handle, HandleSize, NULL)
    <2>1. "alloc" \in Ops /\ "handle" \in Pcs /\ HandleSize \in Nat /\ NULL \in Bases \cup {NULL}
      BY IresAssumption DEF Ops, Pcs
    <2>2. Base(w) \in Bases \cup {NULL}
      BY <1>7
    <2> QED BY <1>1, <2>1, <2>2, Called DEF AllocRes
  <1> HIDE DEF nx, th
  <1>9. Shape(w, nx)
    BY <1>8, CallingShape
  <1>10. Places(nx) = {0}
    <2>1. Allocated(nx) = 1 .. 0 /\ HasBuffer(nx) /\ ~HasHandle(nx)
      BY <1>8, PlacesOf DEF Calling
    <2> QED BY <2>1 DEF Places
  <1>11. SamePlace(nx, 0, th, 1)
    BY <1>1, <1>4, <1>8 DEF SamePlace, BaseAt, SizeAt, AlignAt, Calling
  <1>12. Renamed(m, th, nx)
    BY <1>6, <1>10, <1>11 DEF Renamed
  <1>13. ~undefined' /\ undefined' \in BOOLEAN
    BY <1>1, <1>2, <1>3 DEF MemoryInv, IresTypeOK
  <1> HIDE DEF m
  <1> QED BY <1>1, <1>2, <1>3, <1>8, <1>9, <1>12, <1>13, ThreadStep DEF th


\* The handle becomes place -1, and the table is gone.
LEMMA HandleAllocatedStep ==
  ASSUME MemoryInv, NEW w \in Workers, handle_allocated(w), registered' = registered
  PROVE  MemoryInv'
  <1> DEFINE th == thread[w]
             nx == [th EXCEPT !.pc = "held", !.op = "none", !.handle = Base(w), !.tab = <<>>]
             m == [k \in {0, -1} |-> IF k = 0 THEN 0 ELSE 1]
  <1>1. /\ IresTypeOK /\ Shape(w, th) /\ w \in Threads /\ th \in ThreadStates
        /\ th.pc = "handle" /\ th.op = "true" /\ Base(w) = th.tab[1].base
    BY DEF MemoryInv, Shapes, IresTypeOK, Threads, handle_allocated, At, Base
  <1>2. fxnsSet
    BY <1>1 DEF MemoryInv, Pointers
  <1>3. UNCHANGED <<heap, header, fxnsSet, undefined>>
        /\ thread' = [thread EXCEPT ![w] = nx]
    BY DEF handle_allocated
  <1>4. /\ Len(th.tab) = 1 /\ th.n = 1
        /\ th.tab[1].alignment = 4 /\ th.tab[1].size = HandleSize
    BY <1>1 DEF Shape, Getting, Giving
  <1>5. Places(th) = {1, 0}
    <2>1. Allocated(th) = 1 .. 1 /\ HasBuffer(th) /\ ~HasHandle(th)
      BY <1>1, <1>4, PlacesOf DEF Getting
    <2> QED BY <2>1 DEF Places
  <1>6. Base(w) \in Bases
    <2>1. PICK h \in header : h.base = BaseAt(th, 1)
      BY <1>1, <1>5 DEF MemoryInv, Claims, Live
    <2>2. BaseAt(th, 1) = th.tab[1].base
      BY DEF BaseAt
    <2> QED BY <1>1, <2>1, <2>2 DEF IresTypeOK
  <1>7. nx = [pc |-> "held", op |-> "none", tab |-> <<>>, n |-> th.n, i |-> th.i,
              ptr |-> th.ptr, handle |-> Base(w)]
    <2> DEFINE b == Base(w)
    <2>1. nx = [th EXCEPT !.pc = "held", !.op = "none", !.handle = b, !.tab = <<>>]
      OBVIOUS
    <2> HIDE DEF th, nx, b
    <2>2. nx = [pc |-> "held", op |-> "none", tab |-> <<>>, n |-> th.n, i |-> th.i,
                ptr |-> th.ptr, handle |-> b]
      BY <1>1, <2>1 DEF ThreadStates
    <2> QED BY <2>2 DEF b
  <1>8. /\ nx \in ThreadStates /\ nx.pc = "held" /\ nx.op = "none" /\ nx.ptr = th.ptr
        /\ nx.handle = Base(w) /\ nx.tab = <<>>
    <2> HIDE DEF nx, th
    <2>1. /\ nx.pc = "held" /\ nx.op = "none" /\ nx.ptr = th.ptr
          /\ nx.handle = Base(w) /\ nx.tab = <<>>
      BY ONLY <1>7
    <2>2. /\ th.n \in Nat /\ th.i \in Nat \ {0} /\ th.ptr \in Bases \cup {NULL}
      BY <1>1, Fields
    <2>3. nx \in ThreadStates
      BY <1>6, <1>7, <2>2 DEF ThreadStates
    <2> QED BY <2>1, <2>3
  <1> HIDE DEF nx, th
  <1>9. Shape(w, nx)
    <2>1. w # Boot /\ Len(nx.tab) = 0
      BY <1>8, IresAssumption
    <2> QED BY <1>8, <2>1 DEF Shape, Getting, Giving
  <1>10. Places(nx) = {0, -1}
    <2>1. Allocated(nx) = {} /\ HasBuffer(nx) /\ HasHandle(nx)
      BY <1>8, PlacesOf
    <2> QED BY <2>1 DEF Places
  <1>11. SamePlace(nx, 0, th, 0) /\ SamePlace(nx, -1, th, 1)
    BY <1>1, <1>4, <1>8 DEF SamePlace, BaseAt, SizeAt, AlignAt
  <1>12. m[0] = 0 /\ m[-1] = 1
    OBVIOUS
  <1> HIDE DEF m
  <1>13. Renamed(m, th, nx)
    BY <1>5, <1>10, <1>11, <1>12 DEF Renamed
  <1>14. ~undefined' /\ undefined' \in BOOLEAN
    BY <1>1, <1>3 DEF MemoryInv, IresTypeOK
  <1> QED BY <1>1, <1>2, <1>3, <1>8, <1>9, <1>13, <1>14, ThreadStep DEF th

\* Nothing is left when a thread goes idle.
LEMMA IdleStep ==
  ASSUME MemoryInv, NEW t \in Threads, thread' = [thread EXCEPT ![t] = IdleThread],
         Places(thread[t]) = {},
         UNCHANGED <<heap, header, fxnsSet, undefined, registered>>
  PROVE  MemoryInv'
  <1>1. Renamed([k \in Places(thread[t]) |-> k], thread[t], IdleThread)
    BY IdleFacts, NotRenamed
  <1>2. ~undefined' /\ undefined' \in BOOLEAN
    BY DEF MemoryInv, IresTypeOK
  <1> QED BY <1>1, <1>2, IdleFacts, ThreadStep

\* The block at place k moves into the table of a call of freeRes; what is at
\* the places of rest stays.
LEMMA FreeResStep ==
  ASSUME MemoryInv, NEW w \in Workers, NEW at \in Giving, NEW k \in {0, -1},
         NEW rest \in SUBSET {-1}, k \notin rest, rest = {-1} <=> at = "free_buffer",
         Places(thread[w]) = {k} \cup rest,
         thread[w].pc # "idle",
         NEW nx, nx = [FreeRes(w, BaseAt(thread[w], k), SizeAt(thread[w], k)) EXCEPT !.pc = at],
         thread' = [thread EXCEPT ![w] = nx],
         SizeAt(thread[w], k) = IF at = "free_handle" THEN HandleSize ELSE BufferSize,
         UNCHANGED <<heap, header, fxnsSet, registered>>, ~undefined', undefined' \in BOOLEAN
  PROVE  MemoryInv'
  <1> DEFINE th == thread[w]
             m == [l \in {1} \cup rest |-> IF l = 1 THEN k ELSE -1]
             size == SizeAt(thread[w], k)
             base == BaseAt(thread[w], k)
  <1>1. /\ IresTypeOK /\ w \in Threads /\ fxnsSet
    BY DEF MemoryInv, Threads, Pointers
  <1>2. base \in Bases \cup {NULL} /\ size \in Nat
    <2>1. th \in ThreadStates
      BY <1>1 DEF IresTypeOK
    <2>2. base \in {th.ptr, th.handle}
      BY DEF BaseAt
    <2> QED BY <2>1, <2>2, Fields, IresAssumption
  <1>3. nx \in ThreadStates /\ Calling(nx, "free", at, th.ptr, th.handle, size, base)
    <2>1. "free" \in Ops /\ at \in Pcs
      BY DEF Ops, Pcs, Giving
    <2> HIDE DEF size, base
    <2>2. nx = [Enter(w, "free", Rec(size, base), 1) EXCEPT !.pc = at]
      BY DEF FreeRes, size, base
    <2> QED BY <1>1, <1>2, <2>1, <2>2, CalledHere
  <1> HIDE DEF th, size, base
  <1>4. Shape(w, nx)
    <2>1. size = IF at \in {"handle", "free_handle"} THEN HandleSize ELSE BufferSize
      BY DEF size, Giving
    <2> QED BY <1>3, <2>1, CallingShape
  <1>5. Places(nx) = {1} \cup rest
    <2>1. Allocated(nx) = {1}
      BY <1>3, PlacesOf DEF Calling
    <2>2. ~HasBuffer(nx) /\ (HasHandle(nx) <=> at = "free_buffer")
      BY <1>3 DEF Calling, HasBuffer, HasHandle, Giving
    <2> QED BY <2>1, <2>2 DEF Places
  <1>6. SamePlace(nx, 1, th, k)
    <2>1. /\ BaseAt(nx, 1) = nx.tab[1].base /\ SizeAt(nx, 1) = nx.tab[1].size
          /\ AlignAt(nx, 1) = nx.tab[1].alignment
      BY DEF BaseAt, SizeAt, AlignAt
    <2>2. nx.tab[1].base = base /\ nx.tab[1].size = size /\ nx.tab[1].alignment = 4
      BY <1>3 DEF Calling
    <2>3. AlignAt(th, k) = 4
      BY DEF AlignAt
    <2> QED BY <2>1, <2>2, <2>3 DEF SamePlace, base, size, th
  <1>7. SamePlace(nx, -1, th, -1)
    BY <1>3 DEF Calling, SamePlace, BaseAt, SizeAt, AlignAt
  <1>8. m[1] = k /\ \A l \in rest : l = -1 /\ m[l] = -1
    OBVIOUS
  <1> HIDE DEF m
  <1>9. Renamed(m, th, nx)
    BY <1>5, <1>6, <1>7, <1>8 DEF Renamed, th
  <1> QED BY <1>1, <1>3, <1>4, <1>9, ThreadStep DEF th


LEMMA GetFailsStep ==
  ASSUME MemoryInv, NEW w \in Workers, get_fails(w), registered' = registered
  PROVE  MemoryInv'
  <1>1. IresTypeOK /\ Shape(w, thread[w]) /\ w \in Threads
    BY DEF MemoryInv, Shapes, Threads
  <1>2. CASE /\ At(w, "buffer", "false") /\ thread' = [thread EXCEPT ![w] = IdleThread]
             /\ UNCHANGED <<heap, header, fxnsSet, undefined>>
    <2>1. Places(thread[w]) = {}
      BY <1>2, PlacesOf DEF At, Places
    <2> QED BY <1>1, <1>2, <2>1, IdleStep
  <1>3. CASE /\ At(w, "handle", "false")
             /\ thread' = [thread EXCEPT ![w] =
                    [FreeRes(w, thread[w].ptr, BufferSize) EXCEPT !.pc = "undo"]]
             /\ ThroughPointer
    <2>1. Places(thread[w]) = {0} \cup {}
      BY <1>3, PlacesOf DEF At, Places
    <2>2. BaseAt(thread[w], 0) = thread[w].ptr /\ SizeAt(thread[w], 0) = BufferSize
      BY DEF BaseAt, SizeAt
    <2>3. thread[w].pc # "idle" /\ fxnsSet
      BY <1>3 DEF At, MemoryInv, Pointers
    <2>4. ~undefined' /\ undefined' \in BOOLEAN
      BY <1>1, <1>3, <2>3 DEF MemoryInv, IresTypeOK, ThroughPointer
    <2>5. "undo" \in Giving
      BY DEF Giving
    <2>6. UNCHANGED <<heap, header, fxnsSet, registered>>
      BY <1>3 DEF ThroughPointer
    <2> DEFINE nx == [FreeRes(w, BaseAt(thread[w], 0), SizeAt(thread[w], 0)) EXCEPT !.pc = "undo"]
    <2>7. thread' = [thread EXCEPT ![w] = nx]
      BY <1>3, <2>2
    <2>8. 0 \in {0, -1} /\ {} \in SUBSET {-1} /\ 0 \notin {} /\ {} # {-1}
      OBVIOUS
    <2> HIDE DEF nx
    <2>9. nx = [FreeRes(w, BaseAt(thread[w], 0), SizeAt(thread[w], 0)) EXCEPT !.pc = "undo"]
      BY DEF nx
    <2> QED BY <2>1, <2>2, <2>3, <2>4, <2>5, <2>6, <2>7, <2>8, <2>9, FreeResStep
  <1> QED BY <1>2, <1>3 DEF get_fails

LEMMA FreeHandlesStep ==
  ASSUME MemoryInv, NEW w \in Workers, freeHandles(w), registered' = registered
  PROVE  MemoryInv'
  <1> DEFINE nx == [FreeRes(w, BaseAt(thread[w], 0), SizeAt(thread[w], 0))
                       EXCEPT !.pc = "free_buffer"]
  <1>1. IresTypeOK /\ Claims /\ w \in Threads
    BY DEF MemoryInv, Threads
  <1>2. Places(thread[w]) = {0} \cup {-1}
    BY PlacesOf DEF freeHandles, At, Places
  <1>3. /\ BaseAt(thread[w], 0) = thread[w].ptr /\ SizeAt(thread[w], 0) = BufferSize
        /\ BaseAt(thread[w], -1) = thread[w].handle
    BY DEF BaseAt, SizeAt
  <1>4. thread[w].pc # "idle" /\ fxnsSet
    BY DEF freeHandles, At, MemoryInv, Pointers
  <1>5. InUse(thread[w].handle)
    BY <1>1, <1>2, <1>3 DEF Claims, Live, InUse
  <1>6. ~undefined' /\ undefined' \in BOOLEAN
    BY <1>1, <1>4, <1>5 DEF MemoryInv, IresTypeOK, freeHandles
  <1>7. "free_buffer" \in Giving /\ 0 \in {0, -1} /\ {-1} \in SUBSET {-1} /\ 0 \notin {-1}
    BY DEF Giving
  <1>8. thread' = [thread EXCEPT ![w] = nx] /\ UNCHANGED <<heap, header, fxnsSet, registered>>
    BY <1>3 DEF freeHandles
  <1> HIDE DEF nx
  <1>9. nx = [FreeRes(w, BaseAt(thread[w], 0), SizeAt(thread[w], 0)) EXCEPT !.pc = "free_buffer"]
    BY DEF nx
  <1> QED BY <1>2, <1>3, <1>4, <1>6, <1>7, <1>8, <1>9, FreeResStep

LEMMA BufferFreedStep ==
  ASSUME MemoryInv, NEW w \in Workers, buffer_freed(w), registered' = registered
  PROVE  MemoryInv'
  <1> DEFINE nx == [FreeRes(w, BaseAt(thread[w], -1), SizeAt(thread[w], -1))
                       EXCEPT !.pc = "free_handle"]
  <1>1. IresTypeOK /\ w \in Threads
    BY DEF MemoryInv, Threads
  <1>2. Places(thread[w]) = {-1} \cup {}
    BY PlacesOf DEF buffer_freed, At, Places, Getting
  <1>3. BaseAt(thread[w], -1) = thread[w].handle /\ SizeAt(thread[w], -1) = HandleSize
    BY DEF BaseAt, SizeAt
  <1>4. thread[w].pc # "idle" /\ fxnsSet
    BY DEF buffer_freed, At, MemoryInv, Pointers
  <1>5. ~undefined' /\ undefined' \in BOOLEAN
    BY <1>1, <1>4 DEF MemoryInv, IresTypeOK, buffer_freed, ThroughPointer
  <1>6. "free_handle" \in Giving /\ -1 \in {0, -1} /\ {} \in SUBSET {-1} /\ -1 \notin {} /\ {} # {-1}
    BY DEF Giving
  <1>7. thread' = [thread EXCEPT ![w] = nx] /\ UNCHANGED <<heap, header, fxnsSet, registered>>
    BY <1>3 DEF buffer_freed, ThroughPointer
  <1> HIDE DEF nx
  <1>8. nx = [FreeRes(w, BaseAt(thread[w], -1), SizeAt(thread[w], -1)) EXCEPT !.pc = "free_handle"]
    BY DEF nx
  <1> QED BY <1>2, <1>3, <1>4, <1>5, <1>6, <1>7, <1>8, FreeResStep

LEMMA FreedStep ==
  ASSUME MemoryInv, NEW w \in Workers, freed(w), registered' = registered
  PROVE  MemoryInv'
  <1>1. Places(thread[w]) = {}
    BY PlacesOf DEF freed, At, Places, Getting
  <1>2. w \in Threads
    BY DEF Threads
  <1> QED BY <1>1, <1>2, IdleStep DEF freed

LEMMA WorkerStep ==
  ASSUME MemoryInv, NEW w \in Workers, Worker(w)
  PROVE  MemoryInv'
  <1>1. registered' = registered
    BY DEF Worker, Rest
  <1>2. CASE create_codec(w)
    BY <1>1, <1>2, GetHandlesStep DEF create_codec
  <1>3. CASE buffer_allocated(w) \/ handle_allocated(w)
    BY <1>1, <1>3, BufferAllocatedStep, HandleAllocatedStep
  <1>4. CASE get_fails(w)
    BY <1>1, <1>4, GetFailsStep
  <1>5. CASE freeHandles(w) \/ buffer_freed(w) \/ freed(w)
    BY <1>1, <1>5, FreeHandlesStep, BufferFreedStep, FreedStep
  <1> QED BY <1>2, <1>3, <1>4, <1>5 DEF Worker, Resource


-----------------------------------------------------------------------------
\* The boot

\* The table of HDVICP's manager as its registration passes it to allocFxn.
ManagerRecs == [r \in DOMAIN ManagerTab |-> [size |-> ManagerTab[r].size,
                    alignment |-> ManagerTab[r].alignment, base |-> Garbage]]

LEMMA ManagerRecsFit ==
  /\ ManagerRecs \in Seq(MemRec) /\ Len(ManagerRecs) = Len(ManagerTab)
  /\ Len(ManagerTab) \in Nat
  /\ \A j \in 1 .. Len(ManagerRecs) : PowerOfTwo(ManagerRecs[j].alignment)
  <1> DEFINE n == Len(ManagerTab)
  <1>1. n \in Nat /\ DOMAIN ManagerTab = 1 .. n
    BY IresAssumption
  <1>2. \A j \in 1 .. n : ManagerTab[j].size \in Nat /\ ManagerTab[j].alignment \in Nat
    <2> DEFINE Asked == [size : Nat, alignment : Nat]
    <2>1. ManagerTab \in Seq(Asked)
      BY IresAssumption
    <2> HIDE DEF Asked
    <2>2. \A j \in 1 .. n : ManagerTab[j] \in Asked
      BY <2>1
    <2> QED BY <2>2 DEF Asked
  <1>3. \A j \in 1 .. n : PowerOfTwo(ManagerTab[j].alignment)
    BY <1>1, IresAssumption DEF PowerOfTwo
  <1>4. \A j \in 1 .. n : [size |-> ManagerTab[j].size,
            alignment |-> ManagerTab[j].alignment, base |-> Garbage] \in MemRec
    BY <1>2 DEF MemRec
  <1> HIDE DEF n
  <1>5. ManagerRecs \in [1 .. n -> MemRec]
    BY <1>1, <1>4 DEF ManagerRecs
  <1>6. ManagerRecs \in Seq(MemRec) /\ Len(ManagerRecs) = n
    BY <1>1, <1>5
  <1>7. \A j \in 1 .. n : ManagerRecs[j].alignment = ManagerTab[j].alignment
    BY <1>1 DEF ManagerRecs
  <1> QED BY <1>1, <1>3, <1>6, <1>7 DEF n

LEMMA RegisterHdvicpStep ==
  ASSUME MemoryInv, register_hdvicp
  PROVE  MemoryInv'
  <1> DEFINE th == thread[Boot]
             y == Enter(Boot, "alloc", ManagerRecs, Len(ManagerTab))
             nx == [y EXCEPT !.pc = "registering"]
  <1>1. /\ UNCHANGED <<heap, header, fxnsSet, undefined, registered>>
        /\ Boot \in Threads /\ Boot \notin Workers
        /\ IresTypeOK /\ Shape(Boot, th)
    BY IresAssumption DEF register_hdvicp, MemoryInv, Shapes, Threads
  <1>2. CASE thread' = thread
    BY <1>1, <1>2 DEF MemoryInv, IresTypeOK, Shapes, Pointers, Blocks, Claims, Once, Live,
       Reachable, Served
  <1>3. CASE thread' = [thread EXCEPT ![Boot] = nx]
    <2>1. th = IdleThread /\ Places(th) = {}
      BY <1>1, IdleFacts DEF register_hdvicp, Shape
    <2>2. /\ y \in ThreadStates /\ y.ptr = th.ptr /\ y.handle = th.handle /\ y.op = "alloc"
          /\ y.tab = ManagerRecs /\ y.n = Len(ManagerTab) /\ y.i = 1
      BY <1>1, ManagerRecsFit, Entered DEF Ops
    <2> HIDE DEF y
    <2>3. nx = [pc |-> "registering", op |-> "alloc", tab |-> ManagerRecs,
                n |-> Len(ManagerTab), i |-> 1, ptr |-> y.ptr, handle |-> y.handle]
      BY <2>2 DEF ThreadStates
    <2> HIDE DEF nx
    <2>4. /\ nx.pc = "registering" /\ nx.op = "alloc" /\ nx.tab = ManagerRecs
          /\ nx.n = Len(ManagerTab) /\ nx.i = 1
      BY ONLY <2>3
    <2>5. nx \in ThreadStates
      <3>1. y.ptr \in Bases \cup {NULL} /\ y.handle \in Bases \cup {NULL}
        BY <2>2, Fields
      <3> QED BY <2>3, <3>1, ManagerRecsFit DEF ThreadStates
    <2>6. Shape(Boot, nx)
      BY <2>4, ManagerRecsFit DEF Shape, Getting, Giving
    <2>7. Places(nx) = {}
      <3>1. Allocated(nx) = 1 .. 0 /\ ~HasBuffer(nx) /\ ~HasHandle(nx)
        BY <2>4, PlacesOf
      <3> QED BY <3>1 DEF Places
    <2>8. Renamed([k \in Places(th) |-> k], th, nx)
      BY <2>1, <2>7, NotRenamed
    <2>9. ~undefined' /\ undefined' \in BOOLEAN
      BY <1>1 DEF MemoryInv, IresTypeOK
    <2> HIDE DEF th
    <2> QED BY <1>1, <1>3, <2>5, <2>6, <2>8, <2>9, ThreadStep DEF th
  <1> QED BY <1>2, <1>3 DEF register_hdvicp, ManagerRecs

LEMMA HdvicpRegisteredStep ==
  ASSUME MemoryInv, hdvicp_registered
  PROVE  MemoryInv'
  <1>1. Boot \in Threads /\ UNCHANGED <<heap, header, fxnsSet, undefined>>
    BY DEF Threads, hdvicp_registered
  <1>2. CASE registered' = registered \cup {"HDVICP"} /\ thread' = thread
    BY <1>1, <1>2 DEF MemoryInv, IresTypeOK, Shapes, Pointers, Blocks, Claims, Once, Live,
       Reachable, Served
  <1>3. CASE /\ thread[Boot].op = "false" /\ registered' = registered
             /\ thread' = [thread EXCEPT ![Boot] = IdleThread]
    <2>1. Places(thread[Boot]) = {}
      BY <1>3, PlacesOf DEF hdvicp_registered, Places
    <2> QED BY <1>1, <1>3, <2>1, IdleStep
  <1> QED BY <1>2, <1>3 DEF hdvicp_registered

\* The pointers are there before their users are.
LEMMA RegisterTiledMemoryStep ==
  ASSUME MemoryInv, register_tiledmemory
  PROVE  MemoryInv'
  <1>1. UNCHANGED <<heap, header, thread, undefined>>
    BY DEF register_tiledmemory
  <1>2. \/ fxnsSet' = TRUE
        \/ fxnsSet' = fxnsSet /\ registered' = registered
    BY DEF register_tiledmemory, init
  <1>3. Pointers' /\ fxnsSet' \in BOOLEAN
    BY <1>1, <1>2 DEF MemoryInv, Pointers, IresTypeOK
  <1> QED BY <1>1, <1>3 DEF MemoryInv, IresTypeOK, Shapes, Blocks, Claims, Once, Live,
       Reachable, Served

LEMMA MemoryInit == Init => MemoryInv
  <1> SUFFICES ASSUME Init PROVE MemoryInv
    OBVIOUS
  <1>1. /\ heap = {} /\ header = {} /\ fxnsSet = FALSE /\ undefined = FALSE
        /\ thread = [t \in Threads |-> IdleThread] /\ registered = {}
    BY DEF Init, IresInit
  <1>2. \A t \in Threads : thread[t] = IdleThread
    BY <1>1
  <1>3. IresTypeOK
    BY <1>1, IdleFacts DEF IresTypeOK
  <1>4. Shapes
    BY <1>2, IdleFacts DEF Shapes
  <1>5. Pointers
    BY <1>1, <1>2, IdleFacts DEF Pointers, Threads
  <1>6. Blocks
    <2>1. heap = {Block(h) : h \in header}
      BY <1>1
    <2> QED BY <1>1, <2>1, FS_EmptySet DEF Blocks
  <1>7. Claims
    BY <1>1, <1>2, IdleFacts DEF Claims, Once, Live, Reachable, Served
  <1> QED BY <1>1, <1>3, <1>4, <1>5, <1>6, <1>7 DEF MemoryInv

LEMMA MemoryStep == MemoryInv /\ [Next]_vars => MemoryInv'
  <1> SUFFICES ASSUME MemoryInv, [Next]_vars PROVE MemoryInv'
    OBVIOUS
  <1>1. CASE UNCHANGED <<ires_vars, registered>>
    BY <1>1 DEF ires_vars, MemoryInv, IresTypeOK, Shapes, Pointers, Blocks, Claims, Once, Live,
       Reachable, Served
  <1>2. CASE register_hdvicp \/ hdvicp_registered \/ register_tiledmemory
    BY <1>2, RegisterHdvicpStep, HdvicpRegisteredStep, RegisterTiledMemoryStep
  <1>3. CASE HDVICP_Reset
    BY <1>1, <1>3 DEF HDVICP_Reset, reset_auto, reset_standby, reset_disable, reset_disabled,
       reset_assert, reset_copy, reset_wake_up, reset_enable, reset_release, reset_enabled,
       Clkctrl, ResetStep
  <1>4. CASE rman_init \/ ipc_start \/ ipc_attach \/ rcm_create \/ setup_fxn \/ rcm_start
             \/ register_callback
    BY <1>1, <1>4 DEF rman_init, ipc_start, ipc_attach, rcm_create, setup_fxn, rcm_start,
       register_callback
  <1>5. CASE Hardware
    BY <1>1, <1>5 DEF Hardware, standby, settle, peer_ready
  <1>6. CASE Memory
    BY <1>6, LoopStep DEF Memory, Rest
  <1>7. CASE \E w \in Workers : Worker(w)
    BY <1>7, WorkerStep
  <1>8. CASE UNCHANGED vars
    BY <1>1, <1>8 DEF vars
  <1> QED BY <1>2, <1>3, <1>4, <1>5, <1>6, <1>7, <1>8 DEF Next, Ducati_AppTask

LEMMA MemoryAlways == Spec => []MemoryInv
  BY MemoryInit, MemoryStep, PTL DEF Spec


-----------------------------------------------------------------------------
\* What the runs check

(***************************************************************************)
(* Whatever allocation fails and however workers' creations and deletions  *)
(* interleave, freeFxn finds the header of a block in use before each base *)
(* and freeHandles finds the handle (baseimage_ivahd_frwkconfig.c:126-195, *)
(* iresman_tiledmemory.c:109-183).                                         *)
(***************************************************************************)
THEOREM NothingIsUndefined == Spec => []NothingUndefined
  <1>1. MemoryInv => NothingUndefined
    BY DEF MemoryInv, NothingUndefined
  <1> QED BY <1>1, MemoryAlways, PTL

\* A record of the table is at its index, which is no other place.
LEMMA RecordPlaces ==
  ASSUME NEW th \in ThreadStates, NEW j \in Allocated(th)
  PROVE  /\ j \in Places(th) /\ j \notin {0, -1}
         /\ BaseAt(th, j) = th.tab[j].base /\ SizeAt(th, j) = th.tab[j].size
         /\ AlignAt(th, j) = th.tab[j].alignment
  <1>1. th.i \in Nat \ {0} /\ th.n \in Nat
    BY Fields
  <1>2. Allocated(th) \in {1 .. th.i - 1, th.i .. th.n, 1 .. th.n, {}}
    BY DEF Allocated
  <1>3. j \notin {0, -1}
    BY <1>1, <1>2
  <1> QED BY <1>3 DEF Places, BaseAt, SizeAt, AlignAt

LEMMA OwnedAtPlaces ==
  ASSUME NEW th \in ThreadStates
  PROVE  Listed(th) \cup Kept(th) = {BaseAt(th, k) : k \in Places(th)}
  <1>1. \A k \in Allocated(th) : BaseAt(th, k) = th.tab[k].base
    BY RecordPlaces
  <1>2. BaseAt(th, 0) = th.ptr /\ BaseAt(th, -1) = th.handle
    BY DEF BaseAt
  <1>3. Listed(th) = {BaseAt(th, k) : k \in Allocated(th)}
    BY <1>1 DEF Listed
  <1>4. Kept(th) = {BaseAt(th, k) : k \in (IF HasBuffer(th) THEN {0} ELSE {})
                                       \cup (IF HasHandle(th) THEN {-1} ELSE {})}
    BY <1>2 DEF Kept
  <1> QED BY <1>3, <1>4 DEF Places

(***************************************************************************)
(* Nothing leaks and nothing is given back twice: the blocks in use are    *)
(* those that threads have to give back, also after an allocFxn or a       *)
(* getHandles that failed half-way (baseimage_ivahd_frwkconfig.c:153-158,  *)
(* iresman_tiledmemory.c:153-157).                                         *)
(***************************************************************************)
THEOREM BlocksHaveOwners == Spec => []BlocksOwned
  <1>1. MemoryInv => BlocksOwned
    <2> SUFFICES ASSUME MemoryInv PROVE BlocksOwned
      OBVIOUS
    <2>1. \A t \in Threads : Listed(thread[t]) \cup Kept(thread[t])
                             = {BaseAt(thread[t], k) : k \in Places(thread[t])}
      BY OwnedAtPlaces DEF MemoryInv, IresTypeOK
    <2>2. ASSUME NEW h \in header PROVE h.base \in Owned
      <3>1. PICK t \in Threads : \E k \in Places(thread[t]) : h.base = BaseAt(thread[t], k)
        BY DEF MemoryInv, Claims, Reachable
      <3>2. h.base \in Listed(thread[t]) \cup Kept(thread[t])
        BY <2>1, <3>1
      <3> QED BY <3>2 DEF Owned
    <2>3. ASSUME NEW b \in Owned PROVE \E h \in header : h.base = b
      <3>1. PICK t \in Threads : b \in Listed(thread[t]) \cup Kept(thread[t])
        BY DEF Owned
      <3>2. PICK k \in Places(thread[t]) : b = BaseAt(thread[t], k)
        BY <2>1, <3>1
      <3> QED BY <3>2 DEF MemoryInv, Claims, Live
    <2>4. {h.base : h \in header} = Owned
      BY <2>2, <2>3
    <2>5. heap = {[ptr |-> h.ptr, size |-> h.size] : h \in header}
      BY DEF MemoryInv, Blocks, Block
    <2>6. Cardinality(heap) = Cardinality(header)
      BY DEF MemoryInv, Blocks
    <2> QED BY <2>4, <2>5, <2>6 DEF BlocksOwned
  <1> QED BY <1>1, MemoryAlways, PTL

(***************************************************************************)
(* Any sizes, any power of two as alignment: allocFxn's pad leaves room    *)
(* for the header and keeps the base aligned, and no thread's record,      *)
(* buffer or handle is ever over a block made for something else           *)
(* (baseimage_ivahd_frwkconfig.c:139-165).                                 *)
(***************************************************************************)
THEOREM BlocksFit == Spec => []HeaderFits
  <1>1. MemoryInv => HeaderFits
    <2> SUFFICES ASSUME MemoryInv, NEW t \in Threads, NEW h \in header
                 PROVE  LET th == thread[t] IN
                        /\ \A j \in Allocated(th) : h.base = th.tab[j].base =>
                               Fits(h, th.tab[j].size, th.tab[j].alignment)
                        /\ HasBuffer(th) /\ h.base = th.ptr => Fits(h, BufferSize, 4)
                        /\ HasHandle(th) /\ h.base = th.handle => Fits(h, HandleSize, 4)
      BY DEF HeaderFits
    <2> DEFINE th == thread[t]
    <2>1. th \in ThreadStates
      BY DEF MemoryInv, IresTypeOK
    <2>2. \A k \in Places(th) : h.base = BaseAt(th, k) => Fits(h, SizeAt(th, k), AlignAt(th, k))
      BY DEF MemoryInv, Claims, Served
    <2> HIDE DEF th
    <2>3. \A j \in Allocated(th) : h.base = th.tab[j].base =>
              Fits(h, th.tab[j].size, th.tab[j].alignment)
      BY <2>1, <2>2, RecordPlaces
    <2>4. HasBuffer(th) /\ h.base = th.ptr => Fits(h, BufferSize, 4)
      <3>1. HasBuffer(th) => 0 \in Places(th)
        BY DEF Places
      <3>2. BaseAt(th, 0) = th.ptr /\ SizeAt(th, 0) = BufferSize /\ AlignAt(th, 0) = 4
        BY DEF BaseAt, SizeAt, AlignAt
      <3> QED BY <2>2, <3>1, <3>2
    <2>5. HasHandle(th) /\ h.base = th.handle => Fits(h, HandleSize, 4)
      <3>1. HasHandle(th) => -1 \in Places(th)
        BY DEF Places
      <3>2. BaseAt(th, -1) = th.handle /\ SizeAt(th, -1) = HandleSize /\ AlignAt(th, -1) = 4
        BY DEF BaseAt, SizeAt, AlignAt
      <3> QED BY <2>2, <3>1, <3>2
    <2> QED BY <2>3, <2>4, <2>5 DEF th
  <1> QED BY <1>1, MemoryAlways, PTL

\* The managers RMAN knows, and what is on or off.
FlagsOK ==
    /\ registered \subseteq {"HDVICP", "TILEDMEMORY"}
    /\ stands_by \in BOOLEAN /\ auto \in BOOLEAN
    /\ boot_code \in BOOLEAN /\ serving \in BOOLEAN /\ obituaries \in BOOLEAN

LEMMA FlagsStep == FlagsOK /\ [Next]_vars => FlagsOK'
  <1> SUFFICES ASSUME FlagsOK, [Next]_vars PROVE FlagsOK'
    OBVIOUS
  <1> USE DEF FlagsOK, hw_vars, rcm_vars
  <1>1. CASE rman_init \/ register_hdvicp \/ hdvicp_registered \/ register_tiledmemory
    BY <1>1 DEF rman_init, register_hdvicp, hdvicp_registered, register_tiledmemory
  <1>2. CASE HDVICP_Reset
    BY <1>2 DEF HDVICP_Reset, reset_auto, reset_standby, reset_disable, reset_disabled,
       reset_assert, reset_copy, reset_wake_up, reset_enable, reset_release, reset_enabled,
       Clkctrl, ResetStep
  <1>3. CASE ipc_start \/ ipc_attach \/ rcm_create
    BY <1>3 DEF ipc_start, ipc_attach, rcm_create
  <1>4. CASE setup_fxn \/ rcm_start \/ register_callback
    BY <1>4 DEF setup_fxn, rcm_start, register_callback
  <1>5. CASE Hardware
    BY <1>5 DEF Hardware, standby, settle, peer_ready
  <1>6. CASE Memory \/ (\E w \in Workers : Worker(w)) \/ UNCHANGED vars
    BY <1>6 DEF Memory, Worker, Rest, vars
  <1> QED BY <1>1, <1>2, <1>3, <1>4, <1>5, <1>6 DEF Next, Ducati_AppTask

(***************************************************************************)
(* Every variable of the firmware keeps to its range: the tables of the    *)
(* loops hold bases that allocFxn has set or nobody has, counts of peers   *)
(* and functions do not pass those there are (main.c:239-255).             *)
(***************************************************************************)
THEOREM FirmwareTypeCorrect == Spec => []TypeOK
  <1>1. Init => FlagsOK
    BY DEF Init, FlagsOK
  <1>2. MemoryInv /\ BootInv /\ FlagsOK => TypeOK
    BY DEF MemoryInv, BootInv, BootTypeOK, FlagsOK, TypeOK, Frwk, FromIpc, Dce, Icont
  <1> QED BY <1>1, <1>2, FlagsStep, MemoryAlways, BootAlways, PTL DEF Spec
=============================================================================
