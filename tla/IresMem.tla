------------------------------- MODULE IresMem -------------------------------
(***************************************************************************)
(* Memory for the resource managers of the codec framework: allocFxn and   *)
(* freeFxn, which put a header before each block of heap1                  *)
(* (baseimage_ivahd_frwkconfig.c), and the manager of tiled memory that    *)
(* takes a buffer and a handle from them for each codec                    *)
(* (iresman_tiledmemory.c).  The heap is bytes with addresses, so that     *)
(* headers, padding and alignment are as in the code.  The threads are the *)
(* server's workers, which create and delete codecs, and the boot task.    *)
(***************************************************************************)
EXTENDS Integers, Sequences, FiniteSets

CONSTANTS
    Workers,
    Boot,          \* the boot task, in which HDVICP's manager allocates
    HeapSize,      \* bytes of heap1, which begins at address HeapBase
    BufferSize,    \* sizeDim0 * sizeDim1 of the request of a codec
    HandleSize,    \* sizeof(*handle)
    ManagerTab     \* sizes and alignments in the memTab of HDVICP's manager

HeaderSize == 8    \* sizeof(MemHeader)
HeapBase == 16
NULL == 0
Garbage == 1       \* what a memTab field holds that nobody has set
Threads == Workers \cup {Boot}

ASSUME IresAssumption ==
    /\ Boot \notin Workers
    /\ HeapSize \in Nat /\ BufferSize \in Nat /\ HandleSize \in Nat
    /\ ManagerTab \in Seq([size : Nat, alignment : Nat])
    /\ \A r \in DOMAIN ManagerTab :    \* powers of two, as Memory_alloc takes them
          ManagerTab[r].alignment \in 1 .. HeaderSize =>
              HeaderSize % ManagerTab[r].alignment = 0

VARIABLES
    heap,          \* blocks of heap1 in use: [ptr, size]
    header,        \* what the headers of blocks in use say: [base, ptr, size]
    fxnsSet,       \* init has stored allocFxn and freeFxn
    thread,        \* [pc, op, tab, n, i, ptr, handle] of each thread
    undefined      \* memory not in use, or a pointer not set, was used

ires_vars == <<heap, header, fxnsSet, thread, undefined>>

Addresses == HeapBase .. HeapBase + HeapSize - 1
Bases == HeapBase .. HeapBase + HeapSize    \* a base may be the end of its block
MemRec == [size : Nat, alignment : Nat, base : Bases \cup {NULL, Garbage}]
IdleThread == [pc |-> "idle", op |-> "none", tab |-> <<>>, n |-> 0, i |-> 1,
               ptr |-> NULL, handle |-> NULL]

ThreadStates ==
    [pc : {"idle", "registering", "buffer", "handle", "undo", "held",
           "free_buffer", "free_handle"},
     op : {"none", "alloc", "undo", "free", "true", "false"},
     tab : Seq(MemRec), n : Nat, i : Nat \ {0},
     ptr : Bases \cup {NULL}, handle : Bases \cup {NULL}]

IresTypeOK ==
    /\ heap \subseteq [ptr : Addresses, size : Nat]
    /\ header \subseteq [base : Bases, ptr : Addresses, size : Nat]
    /\ fxnsSet \in BOOLEAN /\ undefined \in BOOLEAN
    /\ thread \in [Threads -> ThreadStates]

IresInit == /\ heap = {} /\ header = {}
            /\ fxnsSet = FALSE /\ undefined = FALSE
            /\ thread = [t \in Threads |-> IdleThread]

-----------------------------------------------------------------------------
\* Memory_alloc of SYS/BIOS: where a block can go; nowhere means NULL.
Larger(a, b) == IF a > b THEN a ELSE b
Room(size, alignment) ==
    {p \in Addresses :
        /\ p % Larger(alignment, 8) = 0
        /\ p + size <= HeapBase + HeapSize
        /\ \A b \in heap : p + size <= b.ptr \/ b.ptr + b.size <= p}

\* Bytes before the base of a block: the header and what alignment adds.
slip_Pad_header(alignment) == HeaderSize

Pad(alignment) == IF alignment > HeaderSize THEN alignment ELSE HeaderSize

\* Thread t enters allocFxn or freeFxn with a table of n records.
Enter(t, op, tab, n) ==
    [thread[t] EXCEPT !.op = op, !.tab = tab, !.n = n, !.i = 1]

\* One record in the loop of allocFxn.
alloc_record(t) ==
    LET th == thread[t]
        r == th.tab[th.i]
        size == r.size + Pad(r.alignment)
    IN  \E p \in Room(size, r.alignment) :
          LET base == p + Pad(r.alignment) IN
          /\ heap' = heap \cup {[ptr |-> p, size |-> size]}
          /\ header' = header \cup {[base |-> base, ptr |-> p, size |-> size]}
          /\ thread' = [thread EXCEPT ![t].tab[th.i].base = base,
                                      ![t].i = th.i + 1]
          /\ UNCHANGED <<fxnsSet, undefined>>

\* The record that failed is freed too.
slip_alloc_fails_frees_it(t) ==
    LET th == thread[t] r == th.tab[th.i] IN
    /\ Room(r.size + Pad(r.alignment), r.alignment) = {}
    /\ thread' = [thread EXCEPT ![t] = Enter(t, "undo", th.tab, th.i)]
    /\ UNCHANGED <<heap, header, fxnsSet, undefined>>

\* No room for record i: the ones before it are freed.
alloc_fails(t) ==
    LET th == thread[t] r == th.tab[th.i] IN
    /\ Room(r.size + Pad(r.alignment), r.alignment) = {}
    /\ thread' = [thread EXCEPT ![t] = Enter(t, "undo", th.tab, th.i - 1)]
    /\ UNCHANGED <<heap, header, fxnsSet, undefined>>

allocFxn(t) ==
    /\ thread[t].op = "alloc"
    /\ \/ thread[t].i <= thread[t].n /\ (alloc_record(t) \/ alloc_fails(t))
       \/ /\ thread[t].i > thread[t].n
          /\ thread' = [thread EXCEPT ![t].op = "true"]
          /\ UNCHANGED <<heap, header, fxnsSet, undefined>>

(***************************************************************************)
(* One record in the loop of freeFxn: what is before its base is taken for *)
(* a header.  If no block in use has one there, anything may follow.       *)
(***************************************************************************)
free_record(t) ==
    LET th == thread[t]
        base == th.tab[th.i].base
        there == {h \in header : h.base = base}
    IN  /\ heap' = heap \ {[ptr |-> h.ptr, size |-> h.size] : h \in there}
        /\ header' = header \ there
        /\ undefined' = (undefined \/ (base # NULL /\ there = {}))
        /\ thread' = [thread EXCEPT ![t].i = th.i + 1]
        /\ UNCHANGED fxnsSet

freeFxn(t) ==
    /\ thread[t].op \in {"free", "undo"}
    /\ \/ thread[t].i <= thread[t].n /\ free_record(t)
       \/ /\ thread[t].i > thread[t].n
          /\ thread' = [thread EXCEPT
                 ![t].op = IF thread[t].op = "free" THEN "true" ELSE "false"]
          /\ UNCHANGED <<heap, header, fxnsSet, undefined>>

-----------------------------------------------------------------------------
\* The manager of tiled memory.

\* The pointers of the framework's allocFxn and freeFxn are kept.
init == fxnsSet' = TRUE

\* allocRes and freeRes: a table of one record, through the stored pointers.
Rec(size, base) == <<[size |-> size, alignment |-> 4, base |-> base]>>
AllocRes(w, size) == Enter(w, "alloc", Rec(size, NULL), 1)
FreeRes(w, base, size) == Enter(w, "free", Rec(size, base), 1)
ThroughPointer == /\ undefined' = (undefined \/ ~fxnsSet)
                  /\ UNCHANGED <<heap, header, fxnsSet>>

At(w, pc, result) == thread[w].pc = pc /\ thread[w].op = result
Base(w) == thread[w].tab[1].base
InUse(base) == \E h \in header : h.base = base

\* getHandles: the buffer, then the handle, which keeps the buffer's address.
getHandles(w) ==
    /\ At(w, "idle", "none")
    /\ thread' = [thread EXCEPT ![w] = [AllocRes(w, BufferSize) EXCEPT !.pc = "buffer"]]
    /\ ThroughPointer

buffer_allocated(w) ==
    /\ At(w, "buffer", "true")
    /\ thread' = [thread EXCEPT ![w] =
           [AllocRes(w, HandleSize) EXCEPT !.pc = "handle", !.ptr = Base(w)]]
    /\ ThroughPointer

handle_allocated(w) ==
    /\ At(w, "handle", "true")
    /\ thread' = [thread EXCEPT ![w].pc = "held", ![w].op = "none",
                                ![w].handle = Base(w), ![w].tab = <<>>]
    /\ UNCHANGED <<heap, header, fxnsSet, undefined>>

slip_get_fails_keeps_buffer(w) ==
    /\ At(w, "buffer", "false") \/ At(w, "handle", "false")
    /\ thread' = [thread EXCEPT ![w] = IdleThread]
    /\ UNCHANGED <<heap, header, fxnsSet, undefined>>

\* fail: without a buffer there is nothing to release, without a handle the
\* buffer.
get_fails(w) ==
    \/ /\ At(w, "buffer", "false")
       /\ thread' = [thread EXCEPT ![w] = IdleThread]
       /\ UNCHANGED <<heap, header, fxnsSet, undefined>>
    \/ /\ At(w, "handle", "false")
       /\ thread' = [thread EXCEPT ![w] =
              [FreeRes(w, thread[w].ptr, BufferSize) EXCEPT !.pc = "undo"]]
       /\ ThroughPointer

\* freeHandles: the buffer whose address the handle has, then the handle.
freeHandles(w) ==
    /\ At(w, "held", "none")
    /\ thread' = [thread EXCEPT ![w] =
           [FreeRes(w, thread[w].ptr, BufferSize) EXCEPT !.pc = "free_buffer"]]
    /\ undefined' = (undefined \/ ~fxnsSet \/ ~InUse(thread[w].handle))
    /\ UNCHANGED <<heap, header, fxnsSet>>

buffer_freed(w) ==
    /\ At(w, "free_buffer", "true")
    /\ thread' = [thread EXCEPT ![w] =
           [FreeRes(w, thread[w].handle, HandleSize) EXCEPT !.pc = "free_handle"]]
    /\ ThroughPointer

freed(w) ==
    /\ At(w, "free_handle", "true") \/ At(w, "undo", "true")
    /\ thread' = [thread EXCEPT ![w] = IdleThread]
    /\ UNCHANGED <<heap, header, fxnsSet, undefined>>

Loop(t) == allocFxn(t) \/ freeFxn(t)
Resource(w) == \/ buffer_allocated(w) \/ handle_allocated(w) \/ get_fails(w)
               \/ freeHandles(w) \/ buffer_freed(w) \/ freed(w)

-----------------------------------------------------------------------------
(***************************************************************************)
(* What thread th has to give back some day: records of its current table, *)
(* its buffer and its handle.                                              *)
(***************************************************************************)
Allocated(th) ==
    CASE th.op = "alloc"            -> 1 .. th.i - 1
      [] th.op \in {"free", "undo"} -> th.i .. th.n
      [] th.op = "true" /\ th.pc \in {"buffer", "handle", "registering"} -> 1 .. th.n
      [] OTHER -> {}
HasBuffer(th) == th.pc \in {"handle", "held"}
HasHandle(th) == th.pc \in {"held", "free_buffer"}

\* The bases of these blocks.
Listed(th) == {th.tab[j].base : j \in Allocated(th)}
Kept(th) == (IF HasBuffer(th) THEN {th.ptr} ELSE {})
            \cup (IF HasHandle(th) THEN {th.handle} ELSE {})

\* A block whose header is h serves a record of that size and alignment.
Fits(h, size, alignment) ==
    /\ alignment > 0 => h.base % alignment = 0
    /\ h.ptr + HeaderSize <= h.base
    /\ h.base + size <= h.ptr + h.size
=============================================================================
