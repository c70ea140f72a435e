# A specification of libdce

libdce lets Linux processes on OMAP4 use the video decoders of the Codec Engine
that runs on the Ducati co-processor ("distributed codec engine").  `src/dce.c` is
compiled twice: without `SERVER` into the library that applications link, with it
into the firmware of the co-processor.  The two halves talk through RCM, a remote
call service.  These TLA+ modules model what the program does, TLC checks them on
small instances and TLAPS proves some of the results for all instances.

## 1. The system

| part | source | state | operations |
|---|---|---|---|
| client registry | `src/dce.c:195-323` | `clients[10]`: pid, refs, 10 engines, 10 codecs | `get_client`, `dce_register_engine`, `dce_unregister_engine`, `dce_register_codec`, `dce_unregister_codec` |
| RPC handlers | `src/dce.c:346-754` (server half) | none of their own | `rpc_Engine_open`, `rpc_Engine_close`, `rpc_VIDDEC3_create`, `_control`, `_process`, `_delete` |
| worker pool | `src/dce.c:844-848`, RCM | queue of messages, 3 workers | dispatch, reply (RCM, external) |
| obituary cleanup | `src/dce.c:796-834` | slot pointer and loop index | `dce_cleanup_cb` |
| IVA-HD use count | `main.c:169-210` | `ivahd_use_cnt`, the clock divider | `ivahd_acquire`, `ivahd_release`, `set_ivahd_opp` |
| client library | `src/dce.c:366-788` (client half), `916-966` | `count`, `mutex`, `handle`, `pid` | the six calls, `init`, `deinit` |
| shared buffers | `src/dce.c:112-181` | a header before each block; caches on both sides | `dce_alloc`, `dce_free`, `virt2ducati`, `dce_clean` |
| framework memory | `iresman_tiledmemory.c`, `baseimage_ivahd_frwkconfig.c` | blocks of `heap1` with their headers; the two stored function pointers | `init`, `getHandles`, `freeHandles`, `allocFxn`, `freeFxn` |
| start-up | `src/dce.c:837-892`, `main.c:224-303`, `init_IVAHDFrwk` | managers registered, peers attached, RCM server, callback registration | `Ducati_AppTask`, `platform_init`, `dce_init` |
| reset of the accelerator | `main.c:86-167` | clock and reset registers of IVA-HD and SL2, the boot code of its sequencers | `HDVICP_Reset` |
| dcetest | `src/test.c` | output buffers and their free list, argument blocks | `main` with the decode loop |

`main.c`, `iresman_tiledmemory.c` and `baseimage_ivahd_frwkconfig.c` are under
`src/ducati/platform/base_image/src/`.

**How they interact.**  A thread of an application calls, say, `VIDDEC3_process`; the
client library puts its arguments in a message and blocks in `RcmClient_exec`.  On the
co-processor one of the pool's workers runs the handler, which calls the Codec Engine
and may block there for as long as a frame takes.  Handlers that make or destroy a
handle also record it in the registry under the pid the message carries.  When a
process ends, SLPM calls `dce_cleanup_cb` with its pid, which runs the delete and
close handlers for whatever the registry lists.  Nothing but the pool orders handlers
of different clients, and nothing at all orders them and the callback: the source says
"TODO register/unregister should have critical section" (four times) and "TODO should
be synchronized, but re-entrant".

**What makes it hard.**
- Handlers and cleanup interleave at every Codec Engine call.
- A process can die while the server is working for it, and the server finishes
  that work later.
- The slot a cleanup walks through is freed by the cleanup itself.
- Reference counts stand for handles that may not be listed.
- The accelerator is shared by all clients, its clock follows a counter.
- The client library tears its connection down while others may be using it.
- Argument blocks are cached on one of the two processors that share them.
- Memory is taken from one heap by several workers in two requests each, of which the
  second may fail.
- The boot gives up on parts that fail and goes on with the rest.
- The decoder keeps output buffers across calls, shown or not, and says later which it
  needs no longer.

**What makes each part correct.**
- registry: one slot per process; a slot lists what the process owns and counts it.
- handlers and cleanup: a handle is live while it is worked on; a live client's handle
  is never closed by somebody else; codecs go before their engine; after the
  cleanup nothing of the process is left; every call is answered; cleanups end.
- IVA-HD: full clock exactly while somebody decodes.
- client library: connected while an engine is open, disconnected after the last; an
  error is reported as an error.
- shared buffers: what one side wrote is what the other reads, and nothing of a block
  stays behind in the cache.
- framework memory: every block in use has somebody who will give it back; an allocation
  that fails half-way gives everything back; header, alignment and block fit.
- start-up: whoever can send a request finds everything in place; every wait ends.
- reset: each register is written when the one before has taken effect.
- dcetest: a buffer the decoder has is not used for anything else; the codec is deleted
  before its engine is closed; the program ends.

## 2. The modules

| module | models | proofs |
|---|---|---|
| `DceRegistry` | the registry operations as action predicates over `clients` | |
| `Ivahd` | acquire and release over `ivahd_use_cnt`, `opp` | |
| `DceServer` | handlers, pool, cleanup, Codec Engine and applications; EXTENDS both | `DceServer_proofs`, `DceServer_ownership` |
| `Ownership` | the promise about handles, abstractly; instanced by `DceServer` as `Promise` | |
| `DceClient` | the client library in one process: `init`, `deinit`, the six calls, RCM failures | `DceClient_proofs`, `DceClient_session`, `DceClient_count` |
| `DceMem` | argument blocks: allocation, addresses, the co-processor's cache | |
| `DceTest` | dcetest, the handlers with their cleaning, a decoder; EXTENDS `DceMem` | `DceTest_proofs` |
| `BufferLoan` | the protocol about output buffers, abstractly; instanced by `DceTest` as `Loan` | |
| `IresMem` | `allocFxn`, `freeFxn` and the manager of tiled memory on a heap of bytes | |
| `Firmware` | the boot, the reset of the accelerator, then workers that create and delete codecs; EXTENDS `IresMem` | `Firmware_proofs`, `Firmware_memory` |
| `MCDceServer`, `MCDceClient`, `MCDceTest`, `MCFirmware` | symmetry sets and sequence-valued constants for TLC | |

**DceRegistry.**  `clients` is the array, slot by slot.  `Null` is both pid zero and
the null handle.  `get_client(pid, s)` says that the scan stops at slot `s`,
`no_client(pid)` that it returns NULL.  `ReplaceFirst` is the loop that finds the first
entry equal to something, overwrites it and breaks, used with NULL to add and with the
handle to remove.  Oddities of the code are kept: `refs` counts a handle that found no
room; an unregister of something unlisted drops a reference all the same; the last
reference frees the slot only in `dce_unregister_engine`; a new client overwrites
`engines[0]` and leaves the other entries as they are.

**DceServer.**  `rpc[t]` is the call of a client thread: idle, queued, or running on a worker.  Each handler
is two steps, `_begin` and `_end`, before and after the point where it may block: an engine or codec comes
into being in `_begin` and is registered in `_end`; it is unregistered in `_begin` and destroyed in `_end`;
`ivahd_acquire` is in `rpc_VIDDEC3_process_begin` and `ivahd_release` in `_end`.  `cb` is the callback: its
pid, its slot pointer, which loop it is in, the index (within the table of that loop, or one past it), and the
handle the Codec Engine is destroying for it.  `owner` and `engineOf` are the Codec Engine: to which pid
(`Task_setEnv`) a live handle belongs and to which engine a codec.  The Codec Engine is external; a new handle
is any that is not live, as an allocator would give it, and it may refuse.  `held` is what an application
believes it has.  Applications keep to the contract of `Engine.h` and `viddec3.h` (only handles they hold, one
thread per handle, and, with `CodecsFirst`, codecs deleted before their engine is closed): what goes wrong is
then not their doing.  `Crash` covers a normal exit without cleaning up.

Registry operations are single steps.  The pool's workers have one priority and
SYS/BIOS does not time-slice, and no operation blocks, so between workers this is
exact; of the task that runs the callback see section 6.

**Ownership.**  Six variables fewer: a process, the owner of a handle, what a client
holds.  A handle is destroyed for a living client only after the client gave it back,
and a pid is buried only when it owns nothing.  `OwnershipKept` checks that every
step of `DceServer` is a step of it or a stutter; the mapping is the identity on
`proc`, `owner` and `held`.

**DceClient.**  `call[t]` says where thread `t` is in which function, which connection its
message belongs to (`msg`) and what it will return.  `count`, `mutex` and `handle` are the
library's statics.  `init` and `deinit` are two steps each, with the mutex held in between:
from the lock to `Ipc_setup` and from `dce_init` to the unlock; from the lock to
`dce_deinit` and from `Ipc_destroy` to the unlock.  `Ipc_setup` and `Ipc_destroy`, whose
results the code ignores, and `RcmClient_delete`, whose error it logs, may fail like the
rest: IPC then stays as it was, the connection stays and is forgotten, and `undeleted` keeps
note of it.  Without IPC there is no connection to make.  The six functions share their body
(`alloc_message`, `exec_message`, `free_message`); `Engine_open` has `init` before it and
`Engine_close` `deinit` after it, failed or not.  Each of these operations may fail
(`RcmMayFail`), `RcmClient_exec` before or after the server has done its work.  The result
variable `VIDDEC3_create` leaves uninitialised is `Null` or `Garbage`, nondeterministically.
Kept as they are in the code: `count++` only when the count was at most zero, `count--` at
every close; a failed `dce_init` leaves the count at one and the handle null, and nobody
tries again.  The server is reduced to the set of engines and codecs that exist: `DceServer`
has its inside, and the two modules meet at the message.

**DceMem.**  The co-processor (M3) sees the blocks through a cache with write-back, the
application's side maps them uncached.  Contents are reduced to one question: are all
writes in?  A block's memory may lack one (`oldMemory`, after a write of the M3 that is still in
its cache) and so may the M3's lines (`oldLine`, after a write of the application).  A write is
part of a block, so it does not make up for another that is lacking.  The blocks in `Leftover`
may have lines in the cache, dirty ones too, from a former use of their memory when the session
begins: `dce_alloc` writes zeroes on the application's side and nothing on the M3 invalidates
its lines, as the comment at `src/dce.c:171-174` says.  `touch` is
what a codec does with its arguments, `evict` may happen at any time, `dce_clean` is
`Cache_wbInv` over the size in the header.

**DceTest.**  `pc` is where `main` is, `call` the call it is in: with the codec, being cleaned block by block
(`call.clean` is what is left), or returned.  What a handler hands to the codec (`create_hands`,
`control_hands`, `process_hands`) and what it cleans afterwards (`create_cleans` and so on) are translated
separately, so that a block could be handed over and not cleaned.  `head` is the free list, `buf` the buffer
of the current `VIDDEC3_process`, `outArgs` its lists of shown and freed buffers.  The decoder is external and
may do what `ividdec3.h` allows: keep up to `MaxHeld` buffers (`locked`), show each once, before or when it
frees it, complete a frame in two calls (`outBufsInUseFlag`) and then ignore the buffer it is offered, or
fail.  `loop_output` and `loop_leave` follow the code: buffers are released by `freeBufID` only,
`outBufsInUseFlag` changes nothing, an error of `VIDDEC3_process` leads to `shutdown`, one of
`VIDDEC3_control` to `out`, past the deletion.

**BufferLoan.**  Where each output buffer is: free, lent with the frame in hand, with the
codec, on the way back, or gone.  `LoanKept` checks that every step of `DceTest` is a step of it
or a stutter under the mapping `Place`, which reads the place of a buffer off `head`,
`locked`, `outArgs` and `buf`.

**IresMem.**  Addresses are numbers, so that padding and alignment are the code's.  `thread[t]` is a worker,
or the boot task, in `allocFxn` or `freeFxn` with a table of records and the index of the next; one record is
one step, so that workers interleave.  `Memory_alloc` may return any place that fits, and fails when there is
none.  `undefined` becomes true when a base is freed that no block in use has, or a handle is read after it
was freed (or, which the guard of `create_codec` excludes, when `allocFxn` is called through the pointer
before `init` has set it).  `Allocated`, `HasBuffer` and `HasHandle` say what a thread in a given state has to
give back; `HeaderFits` compares each such block with what was asked for, so that a block that was given away
under its owner and made again for something smaller would show.  Alignments are powers of two
(`IresAssumption`, for those below the size of the header), which `Memory_alloc` demands.

**Firmware.**  `pc` is where `Ducati_AppTask` is.  Every call that can fail may: a failing
`RMAN_init` or registration ends `init_IVAHDFrwk` but not the boot, a failing `Ipc_start` or
`Rcm_create` or `SETUP_FXN` leaves a firmware that sleeps without a server.  `HDVICP_Reset` is one
step per write of a register or wait, IVAHD and SL2 each with its own, against hardware (`standby`,
`settle`) that takes its time with each module and passes through a transition that is neither
functional nor off.  Only the copying of the boot code, a loop of writes, is one step.  The workers of `IresMem` run
once there is a server and the manager is registered.

Definitions whose name begins with `slip_` are variants with a mistake in them.  They
are not part of any specification: putting one in the place of the definition it
imitates must break the property named in `PROJECT.json`, which shows that the property
is able to fail.

## 3. The runs

| run | instance | shows |
|---|---|---|
| `server_clients` | 2 clients x 2 threads, 2 engines, 3 codecs, 3 workers for 4 threads, one engine per client at a time in a table of two, death between calls, pids reused | `OppMatchesUse`, `HeldAreLive`, `CallsOnLiveHandles`, `CloseFindsNoCodec`, `RegistryExact`, `DeadOwnNothing`, `DeadHaveNoSlot`, `OwnershipKept` hold |
| `server_engines` | 1 client x 2 threads, 3 engines, 2 codecs, 2 slots, room for 2 engines and 1 codec | `OneSlotPerPid`, `RegistryExact` hold with several engines per client and full tables |
| `server_crash` | 2 clients that may die in a call, 1 worker, 1 slot | `TypeOK` with all slots taken; `OppMatchesUse` when a client dies while decoding; `CallReturns`, `Reclaimed` under fairness |
| `client_one_engine` | 1 process x 3 threads, one engine open at a time, RCM and IPC may fail | `InFlightConnected`, `ConnectedWhileOpen`, `NoLeakedConnection` hold |
| `client_two_engines` | 1 process x 2 threads, two engines open at a time, RCM and IPC may fail | `TypeOK` (with the bounds of `count`), `IpcUnderConnection` hold; `AllCallsReturn` under fairness |
| `decode` | 3 output buffers of which the decoder keeps up to 2, 4 frames, one of them in two calls; `status`, `inArgs` in `Leftover` | `TypeOK`, `ArgumentsCurrent`, `ResultsCurrent`, `NothingCachedOutside`, `FreeListSound`, `EnoughBuffers`, `CodecGoneAtClose`, `LoanKept` hold; `Terminates` under fairness |
| `firmware` | 2 workers, 104 bytes of heap, a table of three records for the manager of HDVICP, 2 peers, 6 functions | `TypeOK`, `NothingUndefined`, `BlocksOwned`, `HeaderFits`, `ResetOrdered`, `ServesWhenReady` hold; `BootEnds` under fairness |
| `crash_leaks` | 1 client that may die in a call | **violated**: `DeadOwnNothing` |
| `crash_decoding` | 1 client that may die in a call | **violated**: `DecodesLiveCodec` |
| `slot_reuse` | 2 clients with two engines each, death between calls | **violated**: `HeldAreLive` |
| `slot_leak` | 1 client that closes its engine before its codec and dies between calls | **violated**: `DeadHaveNoSlot` |
| `client_disconnected` | 1 process x 2 threads, two engines open at a time | **violated**: `ConnectedWhileOpen` |

**Bounds.**  `server_clients` gives each client room for everything it can have, which `DeadOwnNothing` needs,
and an engine table with one entry more, so that the cleanup looks at an entry of the slot after it has freed
it.  Where room is short the others take over: in `server_engines` a third engine and a second codec find no
entry, in `server_crash` the second client finds no slot ("too many clients").  Two clients are enough for
everything that takes a victim and a culprit, three codecs for a table with a gap in its middle, three engines
for one being destroyed while two are in use.  In the client runs three threads let two be in calls while a
third waits, and two connections let one be lost while the next is in use; `MaxSessions` is the number of
engines that are open, being opened or being closed. `count` needs no bound: `TypeOK` shows that it stays
between `1 - MaxSessions` and 1.  There is no counter to bound: handles and threads limit everything.
`PidReuse` is off where a process may die in a call, because leaked references then add up from one life of a
pid to the next without end; for the same reason (all dead) deadlock is not checked there, and it is checked
in the other passing runs.  `server_engines` keeps `RegistryExact` in a form that holds for full tables too:
what is listed is owned, and `refs` counts what is owned, listed or not.

In `decode` two blocks are in `Leftover`, one the codec only reads and one it writes; the properties on caches
except what was in the cache before the session and are about what the calls and their cleaning do with all
the others.  One more buffer than the decoder keeps lets the list run empty exactly when a frame took two
calls (`MaxFields` bounds how often), four frames let a buffer come round twice and the input end before, in
and after that; a control or a process may fail at any time.  In `firmware` the heap has room for the
manager's table and one codec: the last record of the table fails when the first two are placed so that no gap
is left for it, and of two codecs one does not get its buffer, or its handle, which differs from the buffer in
size.  The alignments are one above the header's size, one below and zero.  Deadlock is not checked in the two
because program and boot task end.

**What `server_clients` leaves out on purpose.**  Three assumptions are named constants,
and each has a violation run that shows what happens without it: `IdleCrashOnly`
(`crash_leaks`, `crash_decoding`), one engine per client at a time
(`EnginesPerClient`, `slot_reuse`) and codecs deleted before their engine
(`CodecsFirst`, `slot_leak`; dcetest itself breaks that when a control call fails).
Under them the server keeps its promise:
TLC shows it for two clients, `DceServer_ownership` for any number (section 5).

**What `client_one_engine` leaves out on purpose.**  `MaxSessions = 1`: the library is
right for applications that have one engine at a time, and `client_disconnected` shows what
two do to it.  `client_two_engines` checks what remains true with two.

**Fairness** (`FairSpec` of `DceServer`, used by `server_crash`).  A handler whose Codec Engine call
returns runs on: weak fairness of `End(t)` and of the callback's loops.  The pool takes
messages in order, and obituaries are delivered in order: strong fairness of
`Begin(t)` and of `cleanup_start(p)`, since workers are busy in between.
Applications are never obliged to do anything, nor to die.

`FairSpec` of `DceClient`, used by `client_two_engines`: a thread inside the library runs on
(weak fairness of `Run(t)`; that RCM answers or fails in the end is `CallReturns` of the
server, and its own timeouts).  Taking the mutex is strongly fair: POSIX promises no order
among waiters, but an unlock wakes one, and losing the race for it for ever is ruled out.

`FairSpec` of `DceTest`: the program runs on and the decoder returns from each call (weak fairness
of both together; `viddec3.h` calls them blocking calls that return).  Evictions are never due.
`FairSpec` of `Firmware`: the boot task runs on, also inside `allocFxn`, and the accelerator and the
peers come up in the end, which is what the code's waits without a timeout rely on.  Workers
are never obliged to do anything.

## 4. What the violated runs show

- **crash_leaks.**  `rpc_Engine_open` registers the engine only after `Engine_open`
  returned (`src/dce.c:358`, and `:505` for codecs).  The obituary that arrives in
  between finds nothing; then the engine is registered for a dead process.  It
  stays open and its slot taken until that pid happens to be used and die again.
- **crash_decoding.**  `dce_cleanup_cb` deletes a codec (`src/dce.c:819`) while a worker is in
  `VIDDEC3_process` with it.  A process that is killed is most likely decoding.
- **slot_reuse.**  When the cleanup closes the last engine, `dce_unregister_engine` sets
  `c->pid` to 0 before the blocking `Engine_close`, and the loop goes on over the same
  slot afterwards.  A client that takes the slot meanwhile and opens two engines has
  its second one closed.  With one engine per client the new entry is at index 0,
  behind the loop's back, which is why the run `server_clients` passes.
- **slot_leak.**  Only `dce_unregister_engine` frees a slot (`src/dce.c:269-271`).  A client that has
  closed its engine and still has a codec when it dies loses its last reference in
  `dce_unregister_codec`: the slot has no reference and no handle, but it keeps the pid of
  a dead process.  Ten of these and there are "too many clients".  dcetest closes its engine that way
  (`src/test.c:383-386`, `:480`).
- **client_disconnected.**  `init` returns at once when `count > 0` and does not count
  (`src/dce.c:926`), `deinit` always counts down.  The first of two closes finds
  `count = 1` and disconnects; the engine still open cannot be used.  What else goes wrong
  then is in the same model: the count goes below zero, and an `Engine_open` that finds
  it there connects over a live handle, which is forgotten.

**Known, in the models, without a run of their own.**  These follow from a line or two of the code; the
models contain them, and the properties above are worded so as not to deny them.
- A close of an engine that found no slot ("too many clients") drops a reference all the same
  (`src/dce.c:267`).  A client whose next engine did find a slot loses the reference of that one, and the slot
  counts as unused with an engine in it that is in use and that no cleanup will find.
  `RegistryExact` is checked, and proved, where every process finds a slot.
- `VIDDEC3_create` returns a variable it never set when RCM fails (`src/dce.c:517`); `VIDDEC3_control` and
  `VIDDEC3_process` do the same with a status.  The application may then hold a codec that does not exist
  (`Garbage`).
- Nothing invalidates on the M3 what its cache has of the memory of a block that is being allocated
  (`src/dce.c:171-174` wonders how).  A codec may read lines of its former use, or they are written back over
  what the program has written: the blocks in `Leftover` are excepted from `ArgumentsCurrent` and `ResultsCurrent`.
- An error of `VIDDEC3_control` jumps to `out` (`src/test.c:377-387`), past `VIDDEC3_delete`, and closes the
  engine the codec is on, against `Engine.h:452-454`.  `CodecGoneAtClose` says that no other way through the
  program does; `slot_leak` shows what it does to the server.
- The waits under the comment "Ensure that IVAHD and SL2 are disabled" (`main.c:127`) end as soon as the status bits
  have left the functional state: the reset is asserted with modules still in transition.  `ResetOrdered` states
  what the waits do give.

## 5. Proofs

`DceServer_proofs` holds for any number of clients, threads, workers, handles, slots and
table entries, with processes dying at any moment.  It uses the assumptions
`RegistryAssumption` and `ServerAssumption` (positive sizes, `Null` is none of the
handles or pids, engines and codecs are different, finitely many pids).

- `TypeCorrect`: `Spec => []TypeOK`.  `TypeOK` is inductive; it says of the callback that its index stays
  in the table of its loop (or one past it, when the loop is over), and of a call which
  kind of handle it takes and returns, without which `rpc_VIDDEC3_create` could bind a
  codec to something that is not an engine.  The lemma behind the registry is
  `ReplaceFirstType`: the loop keeps the length and the type of a table.
- `OneSlot`: `Spec => []OneSlotPerPid`.  Inductive together with `TypeOK`; the argument is
  `OneSlotStep`: the pid an operation writes into a slot is the one it had, one that
  no slot had, or null.  `RegistrySteps` reduces every step of the server to one
  registry operation.
- `OppFollowsUse`: `Spec => []OppMatchesUse`.  Inductive together with `TypeOK`: a step
  adds one thread to `Decoding` and acquires, removes one and releases, or does neither.
  Cardinalities come from the library's theorems on finite sets.

`DceServer_ownership` proves the other properties of `server_clients`, for any number of clients, threads,
workers and handles, under `Limits`: processes die between calls only, have one engine at a time and delete
its codecs before it (the three named constants of section 3, each with a run that shows it is needed), there
are finitely many codecs and no more than a slot has entries, and no more processes than there are slots.

- `Owned`: `Spec => []OwnInv`, which is inductive together with `TypeOK` and `OneSlotPerPid`.  Its first half,
  `Contract`, is about calls and handles: what a call works on or has made is its client's and in no other call
  (`CallsOwn`, `CallsApart`); what a living client owns it holds, is giving back or is just being
  given (`Accounted`, `HeldOwn`); one engine at a time, which codecs refer to (`OneEngine`, `Bound`).  The second half
  is about the registry: a slot has its engine at index 0, its codecs once each, and counts them (`SlotShape`);
  a handle is listed exactly when it is live and not `Pending`, that is between its creation and its registration or
  between its removal and its destruction (`SlotContents`).  `Cleaning` says what the callback has done so far:
  the entries before its index are null, no codec is left when it comes to the engines, and after the one
  engine no slot is the process's, which is why its last look at the freed slot finds nothing of its own.
- Each operation of the registry has a lemma (`AddEngine`, `RemoveEngine`, `AddCodec`, `RemoveCodec`) that says what
  it does to `Listed`.  That a registration finds room is a count: a slot that has no free entry lists as many
  codecs as there are (`CodecRoom`), and if no slot is free every process has one (`UnusedSlot`).  Then one
  lemma per step (`CallingBooks` to `EndBooks`) shows that listed and pending change together.
- `HeldStayLive`, `CallsFindHandles`, `ClosesAfterCodecs`, `RegistryAgrees`, `NothingLeft`, `NoSlotLeft`
  (`DeadHaveNoSlot`) follow from `OwnInv`.
- `KeepsPromise`: `Spec => OwnershipKept`, the refinement of `Ownership`.  `End` and the callback need the
  invariant: a handle that is destroyed is either its living client's and given back, or a dead one's.

`DceClient_proofs` holds for any number of threads, engines, codecs and connections and any
failures of RCM, from `ClientAssumption` (`Null` is none of the handles or threads).

- `IpcStaysUnderConnection`: `Spec => []IpcUnderConnection`.  The property alone is not inductive:
  a thread about to call `Ipc_destroy` could have a connection above it.  `LockInv` adds
  that a thread between the halves of `init` or `deinit` has the mutex, that IPC is up for the
  one and the handle null for the other.  `OutsideStep` covers everything that happens
  outside the two, each half has a lemma of its own.

`DceClient_session` proves what holds with one engine at a time.

- `ConnectedInSession`, `OpenIsConnected` and `NoConnectionLost`: `MaxSessions = 1` implies that
  `InFlightConnected`, `ConnectedWhileOpen` and `NoLeakedConnection` always hold.  The last says that whichever
  operation of IPC or RCM fails, a connection outside the handle is one that `RcmClient_delete` was asked to
  delete and refused.  `SessionInv`, which they
  come from, has four parts besides types: a thread that
  opens or closes is alone and nothing is held (`Alone`); codecs and the calls on them are based
  on the one engine that is held (`Based`); what a call has at each place (`Phases`); `count`
  is zero or one and says whether there may be a connection (`Connection`).  The two lemmas that
  use the bound are `NothingOpen` (a cardinality below one leaves no engine and no open or close)
  and `LastEngine` (closing an engine without codecs leaves nothing held and nobody in a call).

`DceClient_count` proves how wrong the use count can go with several.

- `CountBounded`: `Spec => []TypeOK`.  That `count` is at least `1 - MaxSessions` is not inductive: `CountInv` adds
  that there is room for everybody who will count down, `count - ToCountDown >= 1 - MaxSessions`, where
  `ToCountDown` is the engines held and the threads past `init` that have not counted down.  Each way in which
  an engine or a thread moves between these sets has a lemma (`OneOpens` to `OneLeaves`), and each
  operation is one of those moves.

`DceTest_proofs` holds for any number of buffers, files and frames in two calls, for any
behaviour of the decoder the interface allows and for evictions at any time, from
`TestAssumption` and `MemAssumption`.

- `TypeCorrect` and `BuffersNotReused` (`FreeListSound`) come from the invariant `Inv`: types, `Shape` (which
  call goes with which place of `main`) and `Places` (a buffer is in at most one place).  Without `Shape`
  a result could be collected from a call that was not `VIDDEC3_process`.
- `LoansKept`: `Spec => LoanKept`, the refinement; each step of the decoder, of the loop and of the end
  is mapped to its step of `BufferLoan` under `Inv`.
- `CachesCoherent` (`ArgumentsCurrent`), `ResultsReachMain` (`ResultsCurrent`) and `NoLineStays`
  (`NothingCachedOutside`): `CacheInv` says that what is cached
  during a call is among the blocks still to be cleaned, and that no line is older than a write.  All of it
  is about blocks outside `Leftover`, which may be any set: what its lines held before the session may come back at
  any time, but `NoLineStays` still has the call that was handed such a block clean it.
- `CodecDeletedFirst` (`CodecGoneAtClose`): `CodecInv` says up to where a codec can exist.
- `OutOfBuffersOnlyWhen` (`EnoughBuffers`): `CountInv` counts: the buffers neither free nor with the decoder
  are no more than the frames that took two calls.  Cardinalities come from the library's theorems.

`Firmware_proofs` holds for any peers, functions, workers and heap, from `FirmwareAssumption` and
`IresAssumption`.

- `ResetInOrder` (`ResetOrdered`) and `ServerIsReady` (`ServesWhenReady`) come from `BootInv`: for each place of the
  boot task, what the registers, the attachments and the function table have been brought to.
  The hardware's steps need it too: a module that has been waited for stays as it is because
  nobody changes its part of `enabled`.  `ServesWhenReady` says of the accelerator that both modules are clocked,
  SL2 is out of reset and the two sequencers are in reset over their boot code: nothing in this
  program releases them.

`Firmware_memory` holds for a heap of any size, any sizes of buffer and handle, any table of HDVICP's manager
with alignments as `IresAssumption` has them, and any number of workers, whichever allocation fails.

- `NothingIsUndefined` (`NothingUndefined`), `BlocksHaveOwners` (`BlocksOwned`) and `BlocksFit` (`HeaderFits`)
  come from `MemoryInv`.  None of the three is inductive, nor are they together: that `freeFxn` finds a header
  before each base needs that no two threads, and no two records of one thread, have the same block to give
  back. `MemoryInv` names everything a thread has to give back by its *place*: a record of its table (its
  index), its buffer (0), its handle (-1).  `Claims` says that a block is at exactly one place (`Once`), that
  each place has its block (`Live`), that each block has its place (`Reachable`) and is what was asked for
  there (`Served`). `Blocks` says that blocks do not overlap and have their headers inside, `Shapes` what a
  thread's table and index can be at each point of its loop, `Pointers` that whoever calls through a pointer
  comes after `init`.
- A step does one of three things to places, each a lemma: it names them anew (`RenamedClaims`: a buffer that was
  record 1 becomes place 0), it adds one with a new block (`MoreClaims`) or takes one away with its block
  (`FewerClaims`).  The arithmetic of addresses is in `PaddedBase` (the base is aligned if the block is) and in
  `NewBlock` and `BlockFreed`.
- `FirmwareTypeCorrect`: `Spec => []TypeOK`, from `MemoryInv`, `BootInv` and the ranges of the flags.

**Model-checked only.**  Liveness (`CallReturns`, `Reclaimed`, `AllCallsReturn`, `Terminates`, `BootEnds`):
temporal proofs under fairness are out of the prover's reach.
`RegistryExact` with several engines per client and tables that are full (`server_engines`): the proof below
the limits does not extend to it, since a slot is then no longer one engine and its codecs.

## 6. Not modelled

- **The registry access by access** (`src/dce.c:218`, "TODO register/unregister should have
  critical section").  Whether the callback's task can preempt a worker inside an operation
  depends on its priority, which SLPM sets outside this repository.
- **Clients before `slpm_register_callback`** (`src/dce.c:876-883`).  The window is in `Firmware`;
  nothing says what is owed to a client that dies in it.
- **`dce_alloc` without memory** (`src/dce.c:140`) and **`dce_clean` of NULL** (`:502`): a store or a load through a
  null pointer has no next state to describe.  The error block `Memory_alloc` is given
  uninitialised (`baseimage_ivahd_frwkconfig.c:134`) is written by it before it is read.
- **`platform_deinit`, `exit_IVAHDFrwk`**: behind an endless loop (`main.c:292`), never run.
- **`HDVICP_Reset` called by the codec framework** (`dce_app_m3.cfg:368`): when it does that is not in
  the source; the sequence is the one of the boot.
- **The vendored headers** under `src/packages`, about three quarters of all lines: mostly
  types, constants and documentation of calls this program does not make.  Of what it uses,
  `DceServer`, `DceTest`, `BufferLoan` and `IresMem` model the contracts; the rest has no behaviour here,
  so the modelled share of all lines stays small while that of the program's own C code is most of it.
- **Files, command line, tiler geometry and picture layout of dcetest**, `platform_idle_processing`
  (one register write), build files, `dce_app_m3.cfg` and the firmware images: no state of
  their own that anything here depends on.
