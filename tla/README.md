# Verification of the UVA and Esperanto runtimes

The repository is a compiler framework (LLVM passes in `src/lib`) with runtime
libraries (`src/tools`) that let one program run on several devices: parts of
it are called on other devices (Esperanto), and all parts share one heap and
one set of global variables at the same virtual addresses (UVA, unified virtual
addressing). This directory models the runtime libraries in TLA+, checks the
models with TLC and proves the main results with TLAPS.

Paths below are relative to `src/tools` unless they begin with `src`.

## 1. Inventory

| Part | State | Operations | Talks to |
| --- | --- | --- | --- |
| **UVA home** `uva/server.cpp` | `pageMap`: page address to `accessS`, the set of clients believed to hold a current copy; its own memory; `isInitEnd`, `RuntimeClientConnTb` | one handler per tag of `uva_comm_enum.h`: NEWFACE, ACQUIRE, RELEASE, SYNC, HEAP_ALLOC, LOAD, STORE, MMAP, MEMSET, MEMCPY, MEMCPY_HLRC, HEAP_SEGFAULT, GLOBAL_SEGFAULT, GLOBAL_INIT_COMPLETE | called by the handler thread of `CommManager`; answers with tag BLOCKING |
| **UVA client, HLRC** `uva/uva_manager.cpp`, `uva/client.cpp` | `vecStoreLogs`, `sizeStoreLogs`, log of the critical section, page protections, page copies | `uva_store`, `uva_sync`, `uva_acquire`, `uva_release`, `uva_memset`, `uva_memcpy`, SIGSEGV handler | one request to the home, then a blocking read |
| **UVA client, strong consistency** same files | none of its own | `uva_load_sc`, `uva_store_sc`, `uva_memset_sc`, `uva_memcpy_sc`, `uva_sync_sc` | same |
| **Start-up** `client.cpp` 52-99, 345-373, `server.cpp` 127-153, 793-819 | `isInitEnd`, `RuntimeClientConnTb` | NEWFACE, `sendInitCompleteSignal`, `waiter` | one client initialises the globals, the others wait for permission |
| **Allocator** `uva/mm.cpp`, `uva/xmem_*` | bins of free chunks, slabs, `curAddr` | `allocate`, `free`, `reallocate`, `allocatePage`, `getMoreMemory` | HEAP_ALLOC and MMAP of the home |
| **Page bitmaps** `uva/pageset.cpp`, `uva/mmapset.cpp` | two levels of bit vectors, `minaddr`, `count` | `insert`, `erase`, `clear`, `contains`, `begin`, `next` | allocator |
| **CommManager** `comm/comm_manager.cpp` | sockets, a send queue for each peer and tag, a receive queue for each peer, `JobQueue` | `open`, `tryConnect`, `pushWord`, `pushRange`, `sendQue`, `receiveQue`, `takeWord`, `takeRange`, receiver thread, handler thread | TCP |
| **Esperanto runtime** `esperanto/esperanto_runtime.cpp`, `deviceRuntimeManager.cpp` | tables of jobs, arguments, answers, waiting calls; one mutex each | `generateJobId`, `pushArgument`, `produceFunctionArgs`, `consumeReturn`, `remotecall_callback`, `consumeFunctionArgs`, `produceReturn`, `return_value_callback` | gateway, by CommManager; `uva_sync` around calls |
| **Gateway** | number of its own for each call | forwards calls and answers | the one the runtime talks to is not in the repository; an earlier one is kept in `esperanto/backup_gateway` |
| **Small libraries** `Eevent`, `dataQ`, `networkUtils`, `objtrace`, `cpi`, `uva/qsocket.cpp` | queues, tables | | not used by the above, or output only |
| **Passes** `src/lib` | none at run time | place the calls of the runtimes in a program | LLVM |

**Threads.** A process has the thread of its program, a receiver thread that
reads every socket and a handler thread that runs call-backs; the two hand over
jobs in a ring without a lock. The home does all its work in its handler
thread, so its handlers exclude one another. On a client the program blocks in
`receiveQue` until its answer has come. Messages on one socket keep their order;
nothing orders messages of different clients.

**How they interact.** The program calls UVA and Esperanto; both send by
`CommManager` and wait, UVA on the blocking socket of the home, Esperanto by
polling the table the receiver thread fills. Esperanto calls `uva_sync` around
every call and in its callbacks, so the handler thread of a device is a second
user of the queues and of the blocking socket. The allocator asks the home for
pages and enters them in the page bitmap.

**What is hard.** The order in which requests of several clients reach the
home; pages a client holds that change at home; logs that are applied while
others fetch; the ring shared by two threads; calls and answers that overtake
one another; functions that call back; queues shared by two threads without a
lock; connections that are used while they are being set up; a heap that grows
while other clients take the pages in between. Nothing is persisted, and no part recovers from a crash or a lost
connection: TCP either delivers or the run is over.

**What must hold.** A client reads its own last store, or a value that was
current at its last synchronisation or later; no store is lost; every request is
answered; the ring loses, repeats and reorders nothing; each remote call gets
the result of that call, with the arguments of that call; every table forgets a
call that is over; what a called function reads is no older than what its caller
had read; blocks of the heap do not overlap.

`PROJECT.json` lists every component and every hazard with its line.

## 2. Modules

| Module | Models | Kind |
| --- | --- | --- |
| `StoreLogs` | what a log of stores means: which words it covers, the last store to a word, the memory after replaying it | operators |
| `LazyMemory` | the shared memory a program may rely on | abstract specification |
| `Hlrc` | the coherence protocol: heavy (HLRC) and light (strong consistency) clients, the home | state machine, refines `LazyMemory` |
| `HlrcBulk` | `Hlrc` with `memset` and `memcpy` | extends `Hlrc` |
| `UvaStart` | start-up of the devices, over `LazyMemory` | state machine |
| `ClientThreads` | two threads of one client at the home: `uva_sync` and the fault of a global variable, word by word | state machine |
| `Heap` | what a program expects of `malloc`, `realloc` and `free` | abstract specification |
| `XMemoryManager` | the allocator: chunks, bins, pages from the home | state machine, refines `Heap` |
| `PageSet` | the two-level bitmap of pages, `MmapSet` | operators, used by `XMemoryManager` |
| `BoundedFifo` | what the two threads of a `CommManager` expect of their queue | abstract specification |
| `JobQueue` | the lock-free ring, one memory access a step | state machine, refines `BoundedFifo` |
| `CommManager` | connections, requests and answers of a server and its clients, over the ring | extends `JobQueue` |
| `RemoteCall` | remote calls: program, handler and receiver thread of each device, the gateway, arguments and results | state machine |
| `RemoteMemory` | remote calls with the syncs around them, over `LazyMemory` | extends `RemoteCall` |
| `HlrcProofs`, `HlrcBulkProofs`, `CommManagerProofs`, `UvaStartProofs`, `XMemoryManagerProofs`, `RemoteCallProofs`, `RemoteAnswersProofs`, `RemoteMemoryProofs` | theorems | proofs |
| `MC...` | instances for TLC | |

`map` in `PROJECT.json` gives the lines each definition stands for. Definitions
that sit next to one another as `HandleSync` and `HandleSyncNoClear` are the
operation and the same operation with a plausible mistake; the specification
uses the first, and `mutants` lists which property each mistake breaks.

### `Hlrc` and the code

| State | In the code |
| --- | --- |
| `home`, `heapTop` | the heap of the server process; pages `1..heapTop` have a `pageInfo` in `pageMap` |
| `accessS[p]` | `pageInfo::accessS` |
| `valid[c]`, `copy[c]` | pages of client c that are mapped and not `PROT_NONE`; what they hold |
| `log[c]` | `vecStoreLogs`; an entry is the words and the value of one store |
| `req[c]`, `rep[c]` | the message under way between c and the home, either way |
| `stores` | none: every store writes a number of its own, so that a load tells which store it read |
| `seen`, `obs` | none: history, what the home has held since c last looked, and what the last step loaded |

| Action | In the code |
| --- | --- |
| `Store`, `Load` | `uva_store` and the store instruction after it; a load instruction |
| `Fault`, `FaultReturn` | SIGSEGV handler before and after `receiveQue` |
| `Sync`, `SyncReturn` | `syncHandler_hlrc` (`syncHandler_sc` for a light client) up to `sendQue`; from the answer on |
| `Malloc`, `MallocReturn` | `allocatePage` for the heap |
| `LoadSC`, `StoreSC` and their returns | `loadHandler_sc`, `storeHandler_sc` |
| `HandleSync`, `HandleFault`, `HandleMalloc`, `HandleLoad`, `HandleStore` | `syncHandler`, `heapSegfaultHandler`, `heapAllocHandler`, `loadHandler`, `storeHandler` |

A handler is one step because all handlers run to their end in the one handler
thread of the home. The grain on a client is the point where it blocks: what it
does between two messages is its own. Between its request and the answer the
other clients and the home do as they like, and the requests of different
clients reach the home in any order. A page of the model has two words and
stands for a page of 4096 bytes; a store covers a set of words, and the booking
of `syncHandler` (first page, and as many pages as the *length* fills) is kept as
it is, with `Marked`.

A light client asks for each word and copies it to its place in shared memory
(`loadHandler_sc`), where the load reads it; the first such access to a page, and
the store after `uva_store_sc`, fault, so the page is fetched and `accessS` lists the
light client. `LoadSCReturn` and `StoreSCReturn` leave that out: every later load asks
for its word again, and whether a light client is listed decides only what its own
syncs tell it to drop.

### The other modules

`HlrcBulk` adds `Memset` (the log takes whatever `memsetHandler_hlrc` copies
from the address of its parameter, the page takes the byte), `MemcpyFrom` for both
kinds of clients (fresh pages are mapped over the source first, then its words are asked
for), `MemsetSC`, `MemcpySC`, and the handlers. A source may straddle pages, and the two
sides count its pages differently: the client maps whole pages for the length and one
(`MappedFor`), the home lists the client for the pages the length fills from the start of
the first page on (`Marked`, as in `syncHandler`), which leaves a straddled last page
out. Where that page is not mapped either, `takeRange` faults on it
(`MemcpyFromFault`): the SIGSEGV handler asks the home for the page (`HandleLastPage`)
through the same receive queue and leaves the queue zeroed, so back in `takeRange` the
words `memcpy` had not yet read are zero. Which these are depends on the library's
`memcpy`; `LastPageReturn` takes any of them. `touched` is history: the copies one of
these may have put out of step, for a `memcpy` out of shared memory the pages mapped
anew, those the home lists and all pages of the source.

`UvaStart` has one step for each thing a device does in `UVAClientInitializer`,
`sendInitCompleteSignal` and `waiter`, and one for each of `newfaceHandler` and
`globalInitCompleteHandler`. `uva_sync` is `LazyMemory!Publish`: that the
protocol's synchronisation is as good as one step is what `Hlrc` shows. Each
device constructs one object and stores its address in one global.

`JobQueue` takes the ring apart into its single reads and writes: `InsertTest`,
`InsertStore`, `InsertAdvance` against `GetTest`, `GetClear`, `GetAdvance`. The
accesses of one thread take effect in program order, as they do on x86, where
the program is meant to run; `malloc` is taken to return zeroed memory for the
slots, which the constructor does not clear.

`CommManager` puts the ring between sockets. `open` is a sequence of steps, as
it works in a thread of its own while receiver and handler already run:
`Accept` (the client learns its number), `EnterSocket` (the receiver polls it
from here on), `EnterQueues`, `Listen`, `AcceptBlocking` (the handler can answer
it from here on). A request is its sender and a number; `ReceiveFrom`,
`InsertJob`, `GetJob` and `Callback` are the threads of the server, with the
steps of `JobQueue` inside. The result of `insertJob` is ignored, so a full ring
drops the request; a callback that answers before `blockingSocketMap` has its
entry writes to descriptor 0. `lost` remembers both.

`ClientThreads` goes below the grain of `Hlrc`: a thread has a stack of calls
(a fault may occur in the copying of another), and pushes, sends, reads the
size, reads the data and takes words one by one, through the send queues, the
receive queue and the blocking socket it shares with the other thread.

`XMemoryManager` has the variables of `mm.cpp` under their names in `heap`
(`freeList`, `freeSizeList`, `lastChunk`) with the chunk headers; the functions
of the file are operators on such a record, `allocate`, `Realloc`, `Free` and
`pageumap` the actions. Addresses and lengths are bytes, `PAGE_SIZE` and
`UNIT_SIZE` (the length of a header) constants of the module. `free` takes for the
header of a neighbour whatever its tags lead to; where that is no chunk, because it
lies inside one or in a page of another client, it may say anything, and `looksUsed`
is what it says. If it passes for a free chunk the code unlinks it from the list its
own words name and joins it; no assert need fail, and blocks may overlap from then
on (section 4). The model calls that astray (`Astray`) and **ends there**, as it does
at a failed assert (`Stop`): every property of the heap is one *until an assert fails
or free goes astray*, and says so in its definition. The model is of a client into
whose heap pages no other client stores: `mm.cpp` is not instrumented, so headers
are not logged, and a page another client has stored into is dropped at the next
`uva_sync` and fetched again without them. `PageSet` keeps each table as the set of
its bits, and `After` is `next` with its assert.

`RemoteCall` has the tables of `DeviceRuntimeManager` under their names
(`runningJobs`, `consumeTable`, `returnValueTable`, `jobIDMap`, `argsTable`,
`args_list`), the counter `jobID`, the send queue of each tag, the channels to
and from the gateway (`up`, `down`) and the job queue between receiver and
handler thread. A thread is where `pc` says; a step is a critical section, or a
push to the send queue, which has no lock. The gateway is external.

The gateway is also the home of the shared memory, and program and handler thread of
a device write to it on **one socket without a lock**, each message in two parts:
`sendQue` writes the header, then the data (`comm_manager.cpp:458-459`). `line` says
what a thread has under way there: it is between the two parts of a call or an answer
(`"message"`, from `WriteHeader` to `SendQue`, from `WriteReturnHeader` to
`ProduceReturn`), or it makes a request to the home, for `uva_sync`, a fault or
`malloc`: `AskHome` to `RequestSent` is filling the queue and sending it, until
`HomeAnswers` it waits, and any other thread that waits as well may take its answer.
When a thread comes between the parts of another's message, fills the queue another is
sending, or asks while another asks or waits, then `crossed` becomes true and the model
**ends**: the gateway may read data as headers from then on, and what every message
becomes would be a guess. `crossed` is set as soon as a thread *enters* where another
is, before the bytes are mixed, so it is true more often than anything goes wrong. Every
property of remote calls is one *until threads of a device cross on its socket*, and
says so in its definition. That they may cross at all is a fault of the program
(section 4). Arguments
and results are words of four bytes. How many of them there are is decided at
compile time, on the caller's side by `lib/Esperanto/RemoteCall.cpp` (`Packed`,
`Loaded`), on the callee's by `SwitchCase.cpp` (`Unpacked`, `Returned`), for
devices whose pointers have one or two words. Each word carries the call, the
argument and the position it was sent for, so that a mix-up shows.

`RemoteMemory` adds the memory of `LazyMemory` and the calls of `uva_sync`: before
and after a synchronous call (`SyncBefore`, `SyncAfter`), in the callback and
where the function ends (`Callback`, `SyncEnd`), none for asynchronous ones. Each is a
request to the home in steps: it begins, the queue is sent (`RequestSent`), the home
replays the log (`HomeReplays`, in `SyncHandled` or `EndHandled`, before the answer is
there), the answer is taken (`Synced`). `Fault` is any other request. Threads of a
device share its store log, again without a lock: a store takes two steps (`BeginStore`,
`EndStore`; `push_back` and the size, `uva_manager.cpp:582-583`), and if it meets
another store, or a request that has begun, `raced` becomes true and the model ends, as
it does with `crossed`. While a thread of a device waits for the home, its other threads
may read a page that is out of date or is being fetched; of what they read then nothing
is claimed (`Settled`). Each device stores growing numbers in a word of its own. Three variables are history only: `had`
is what a thread could read when it came to its `uva_sync` before a call, `sent` the
same for each call, `returned` what the memory was when a function ended. `had` is
taken at the sync and not at the call: another thread of the device may store
between the two, and that store is in no sync the callee waits for. With what the
device can read at the call itself in its place, `CalleeSees` is false as soon as a
device has a thread that stores while another calls; the proof found this, the run,
with its few threads, had not.

## 3. Runs

Every run takes at most a few minutes; state counts are of distinct states.

| Run | Instance | Checks | Shows |
| --- | --- | --- | --- |
| `hlrc_heavy` | two heavy clients, two pages of two words, three stores, a store of one word and one of a page and a half (192,940 states) | `TypeOK`, `Coherent`, `Fresh`, `PendingMapped`, `ImplementsLazyMemory` | a client left in `accessS` has a current copy; a client reads nothing older than its last synchronisation or fetch; a store not yet at the home is never fetched over; the protocol is the abstract memory |
| `hlrc_light` | a heavy and a light client, two pages allocated one by one (79,493) | `Inductive`, `ImplementsLazyMemory`, `AnswersArrive` | the invariant of the proofs; the same refinement with word accesses that go through; every request is answered |
| `bulk` | a heavy and a light client, two pages of three words, a source of two words that straddles them and one of one word, one store (87,654) | `Bystanders`, `BulkAnswersArrive` | what the bulk operations do wrong stays where it is; copies they do not concern are right; every request is answered, those of a fault within `takeRange` included |
| `comm` | three clients with two requests each, a ring of two slots (111,634) | `Ring`, `ImplementsBoundedFifo`, `QueuesThere`, `OwnAnswers`, `Served` | whatever accesses of the two threads interleave the ring is a bounded queue; no callback misses a queue although the socket is polled first; each client gets the answer to its own request; every request is answered but for the two cases in `lost` |
| `heap` | pages of 22 bytes, headers of 4, blocks of 3 and 10, three pages, one for another client, one `pageumap` (323,437) | `TypeOK`, `Tiled`, `Listed`, `Iterates`, `ImplementsHeap` | until an assert fails or `free` goes astray, every byte is in one chunk, bins and headers agree, blocks do not overlap; a loop over the bitmap visits mapped pages and ends, and visits all of them if nothing was erased |
| `remote_calls` | three devices, two call a third, which calls one back; pointers of one and two words, one asynchronous call (66,434) | `Matched`, `ArgsIntact`, `TablesTight`, `CallsReturn` | until threads of a device cross on its socket, each call gets its own result, whole, and is executed with its own arguments, each in its place; tables forget what is over; calls return |
| `remote_memory` | two devices, a call, a call back and an asynchronous call, two stores each (539,124) | `CalleeSees`, `CallerSees` | until threads of a device cross or race, and while none waits for the home, a function reads nothing older than its caller had at the sync before the call, over chains of calls; the caller then nothing older than the function |
| `start` | three devices, the second initialises (453,823) | `TypeOK`, `OneAnswer`, `Barrier`, `KeepsObjects`, `EveryoneRuns` | permission is given once and in time; initial values overwrite no object; nobody leaves `waiter` early; everyone leaves |
| `hlrc_straddle` | a store across a page boundary | `Fresh` violated | finding 1 |
| `remote_two_callers` | program and handler of a device call at once | `EightBytes` violated | finding 2 |
| `heap_tags` | one client alone | `NoAssertFails` violated | finding 3 |
| `client_threads` | two threads, two pages of globals | `NoWrongAck` violated | finding 4 |

**Why the bounds are enough.** The home treats pages alone, so two pages give
every case of a log: one page, both, and a page the client does not hold. Two
heavy clients give the writer and the stale reader; the third party of the
proofs is covered by the theorems. Three stores let each client overwrite the
other and one of them read the mixture. Three clients fill a ring of two slots
while a third request is read and `open` is busy with one of them, and two
requests each make the ring wrap. On a page of 22 bytes, no multiple of the
header's 4 (as 4096 is none of 24), the lengths 3 and 10 (8 and 16 with the header)
make a chunk that is used whole, one that is split and one whose rest is too short,
next to a page that is asked for and to one of another client; one slab and the residue are the two kinds of bins. Vectors of
two bits put the three pages into two of them, so `erase` finds another page in its
vector. Two of three calling devices make job numbers of different devices
coincide and answers cross at the gateway. Two globals besides one's own make
`waiter` pass some and wait for others.

**Bounds.** `NumPages`, `MaxStores`, `AllocSizes`, `Extent`, `LightExtent`,
`BulkExtent`, `SourceExtent` (`Hlrc`, `HlrcBulk`); `Size` (`JobQueue`), `Client`, `MaxAsk`
(`CommManager`); `PAGE_SIZE`, `UNIT_SIZE`, `Slabs`, `Lens`, `MaxPages`, `MaxOthers`, `MaxUnmaps`,
`Bits` (`XMemoryManager`); `NumPages` (`ClientThreads`); `Function`, whose depths
end chains of calls, `MaxJobs`, `MaxAsync` (`RemoteCall`; `FewJobs`, `ThreeJobs`, `TwoJobs`), `MaxStores`
(`RemoteMemory`); `NumDevices` (`UvaStart`). A behaviour of `Hlrc` that has used up
its stores goes on loading, faulting and synchronising; those of the other
modules may stop, by their bounds, because a fault has stopped the process or
because the request of a client is lost or two threads have crossed, and their configurations switch deadlock
checking off.

**Fairness.** `Hlrc`: the home's handler thread polls its queue and serves in
order of arrival, so each client's request is handled (`WF(Handle(c))`), and a
client blocked in `receiveQue` reads what has come (`WF(Return(c))`); no client
has to store or synchronise. `CommManager`: the threads in `open`, in the receiver
and in the handler run; the receiver polls each socket in turn, so each
`ReceiveFrom(id)` has fairness of its own; a client that is connecting or
waiting goes on. Nothing makes a program call `start`, connect or ask, which is
why `Served` speaks of a started server. `RemoteCall`: a thread that is not waiting
runs, messages arrive, the home answers; no program has to call or to ask the home. A
function returns in the end: between its steps it may ask the home any number of times,
and while it does it cannot return, so weak fairness would let it ask for ever; its end
(`Ends`) has strong fairness. All of it up to the step with which threads cross. `UvaStart`: devices
and the handler thread run. Fetching pages (`Fetch`) needs no fairness because a
sync of the waiter's loop brings the values too.

`remote_calls` keeps to what the runtime supports: one thread of a device calls at a
time (finding 2 is the other case), no two handlers wait for each other, and
a pointer is returned only to a device whose pointers are no longer.

## 4. Findings

1. **`hlrc_straddle`** (`server.cpp:339`). `syncHandler` works out the last page
   of a log entry from `pageAddr + size`, not from the address, and so books a
   store that crosses a boundary under its first page only. A client that holds
   the second page is not told. Stores of any length are concerned whose start
   within a page carries them over one more boundary than their length alone.
2. **`remote_two_callers`** (`esperanto_runtime.cpp:203`). Two threads fill one
   send queue, and the receiving side's assertion fails. The trace has no crossing on
   the socket: each message is written undisturbed, but the queue it is taken from has
   been sent between two pushes.
3. **`heap_tags`** (`mm.cpp:593`). `getMoreMemory` takes the last chunk out of the
   bin its length has now. Slabs are registered with the first `malloc` or `free`
   of a length, so a chunk put into the residue before that is looked for in the
   slab, and the assert of `removeFromFreeList` stops the program.
4. **`client_threads`** (`client.cpp:231`). The handler thread's `uva_sync` and a
   fault of the program share the blocking socket: one takes the answer of the
   other, and the assert on the acknowledgement fails.

**Seen while modelling, without a run of their own.**

- **Messages can mix on the socket.** `sendQue` writes a header and its data in two
  calls of `writeComplete` (`comm_manager.cpp:458-459`), and nothing keeps the handler
  thread's answer, or its `uva_sync`, from writing between those of the program. The
  gateway reads the stream as headers and data; one part out of place and it takes data
  for a header. In `RemoteCall` that is `crossed`, reached with one calling thread too.
- Stores of two threads of a device meet in `vecStoreLogs` and `sizeStoreLogs`
  (`uva_manager.cpp:582-583`, read and cleared in 369-394) without a lock: `raced` in
  `RemoteMemory`.

- `memcpyHandler_hlrc` (`uva_manager.cpp:838`) maps fresh pages over the source of
  a `memcpy`, so the client loses sight of its own stores (`MemcpyFrom`);
  `memsetHandler_hlrc` (664) logs the integer, not the byte; `memsetHandler`
  (`server.cpp:606`) leaves `accessS` alone, so holders of the page are not told;
  `uva_memcpy_sc` (`client.cpp:312`) only logs, so a light client does not read
  its own copy before its next sync. A source of `memcpy` that is short but crosses a
  page boundary is mapped for its first page only (838 adds up the length, not the
  address); the fault on the last page empties the receive queue `takeRange` is copying
  from, so words of the source arrive as zero (`LastPageReturn`).
  `memcpyHandlerForHLRC` (`server.cpp:697`) lists the client for pages it has a few
  words of and zeros around them, and, as `syncHandler`, not for a last page the
  source straddles. `Bystanders` shows that the damage of all
  these ends with the copies in `touched`.
- `mmapHandler` (`server.cpp:570`) registers the first page of a range only. Where
  the global variables take more, the sync of their initial values, which
  `src/lib/UVA/MemoryManager.cpp` places at the start, reaches `assert(0)` at
  `server.cpp:354`.
- In `client.cpp:232` a fault within the copying of the global range sends the
  same request again; its `receiveQue` replaces the words still to be copied, and
  the later pages stay zero (`CopyPage`). Between mapping and copying another
  thread reads zeros without a fault (line 197, `Fault`).
- The second assert of the allocator, "head and tail is not connected"
  (`mm.cpp:621`), can fail too (`fault` is `"tag"` in `XMemoryManager`).
- **Blocks can overlap with no assert failing** (`fault` is `"astray"`, the end of the
  model). Call `malloc(4032)` six times: `c1` to `c6` are whole pages, `lastChunk` is
  `c5`, the tag of `c6` is 4096. Free `c5`, `c1` and `c4`: the last joins `c5` to `c4`,
  and `c6`, beyond `lastChunk`, keeps its tag (`mm.cpp:626`). `free(c6)` walks back to
  the dead header of `c5`, free, with bin -1 and `c1` before it in its list. The assert
  of `removeFromFreeList` (713) compares its bin with itself, that of `coalesce` (621)
  holds since `c5` has 4096 bytes and `c6` follows; `c5` enters the residue while it
  lies inside the free chunk `c4`, and two calls of `malloc(8000)` return overlapping
  blocks. The header `free` reads behind a chunk may also lie in a page of another
  client, when that page is below `lastChunk`. `chunk.h:19` says of the tag "Size of
  previous chunk (if free)", which after line 626 it is not.
- `MmapSet::erase` (`mmapset.cpp:80`) clears the second-level bit of a vector in which
  other pages are still mapped: a loop with `begin` and `next` then **skips mapped
  pages**. `Iterates` asks that every mapped page be visited only while nothing has
  been erased (`unmaps = 0`); what it claims after an erase is that the loop visits
  mapped pages only, rises, ends and does not reach the assert of `next`.
- A page of the heap another client stores into loses the headers of its chunks at
  the owner's next `uva_sync` (they are not logged): they read zero, which `free`
  takes for a free chunk of bin 0.
- `consumeTable` keeps an entry for every call ever made: `deleteConsumeWait` is
  called nowhere.
- When main and handler thread of a device call from the same site at once, they
  collect their arguments in one list as well (`ArgsIntact` fails in the
  instance of `remote_two_callers`).
- A device has one handler thread. When the functions two devices execute for
  one another call each other once more, both handler threads are in
  `consumeReturn` and wait for ever.
- An argument that is a pointer travels as four bytes, a result as many as the
  callee's pointers have: from a 32-bit device to a 64-bit one the upper half of
  the result is read behind the buffer (`RemoteCall.cpp:682`, `SwitchCase.cpp:248`).
- `src/lib/UVA/FixedGlobalVariable.cpp` (`sizeTotal += 8`) gives each global variable
  eight bytes whatever its size, so larger ones overlap; the list of addresses that makes separately compiled programs agree
  (`gv_list.dat`, `FixedGlobal.cpp:157`) is read and written without a lock.

## 5. Proofs

All theorems are checked by TLAPS from the definitions the runs use, for every
value of the constants that meets the named assumptions.

**`HlrcProofs`.** Assumptions of `Hlrc`: heavy and light clients are different,
stores cover at least one word, allocations at least one page. `Aligned` is a
hypothesis of each theorem, not an assumption: a log entry is booked under all
its pages, and a light store stays in one. It is true of naturally aligned
scalars and of bulk stores from a page boundary on; finding 1 is what happens
otherwise.

The safety properties are not inductive: `Coherent` alone says nothing of a copy
that is on its way. `Inductive` adds to them

- `Exchange`: a client has a request or a reply under way, never both; while it
  synchronises its log is empty; light clients alone ask for words, and they log nothing;
- `WellLogged`: each word a pending log covers has a last store in it;
- `HomeSeen`: what the home holds now is among what every client may read;
- `Untouched`, `KnownPages`: beyond the top of the heap nothing is written, and
  pages that are mapped, on their way or stored to lie below it;
- `Absent`: a page a client has asked for, or that is on its way, is not mapped;
- `WordSeen`, `Arriving`: a word or page on its way is one the client may read,
  and while the directory lists the client it is what the home holds.

`Invariance` proves `Spec => []Inductive`, with a lemma for each action;
`TypeCorrect`, `DirectoryCoherent`, `CopiesFresh` and `StoresKept` are its
consequences. `Implementation` proves that every step of `Hlrc` is a step of
`LazyMemory` or leaves it unchanged: `HandleSync` is `Publish`, `HandleFault` and
`HandleLoad` are `Refresh`, `HandleStore` is `WriteThrough`, `Load` and
`LoadSCReturn` are `Load`. The log a request carries counts as pending until the
home has handled it. Its first section has the facts about logs: what appending
an entry does to the words covered and to the last store.

**`CommManagerProofs`.** The ring first, from `Size > 0` and `None \notin Job`:
`Invariance` (`Ring`: from `First` on the slots hold the queue and the rest are free,
whatever accesses the threads stand between) and `Implementation` (`BoundedFifo`).
`First` and `Last` look past an index that has not been advanced yet; without
that the invariant would not hold in the middle of a call.

Then the server, from the assumptions of `CommManager` as well (finitely many
clients). `RingOfServer`: every step of the server is one of the ring or leaves the
ring alone, hence `ServerRing` and `ServerFifo`. `CallbacksFindQueues` (`QueuesThere`) needs to know
where a request may be: its sender has its number, a number below `clntID` or
that of the client in `open` has its queues, and a client can only ask after
`Listen`, which comes after `EnterQueues`. That is why polling the socket
before its queues exist does no harm.

**`UvaStartProofs`.** From the assumption that the initialiser is one of the devices.
`Inductive` is `TypeOK` with

- `Phases`: which part of the start belongs to the initialiser, and that nobody
  else is past its permission before `isInitEnd`;
- `Requests`: a device has at most one request in the queue of the home, while it
  waits and before the home has put it on its list, so none is answered twice;
- `Permissions`: an answer is under way only to a device that waits for it, and
  only once the home knows that the globals are there;
- `Objects`: the memory has the object of a device exactly from the step on that
  makes it visible, and no copy is ahead of the memory;
- `Waited`: the globals `waiter` has passed, or has just read, are in the memory.

`Invariance` proves it, with a case for each action; `TypeCorrect`,
`AnsweredOnce`, `WaiterIsABarrier` and `ObjectsStay` follow. The run `start` checks
the same properties; `Inductive` itself was checked in the same instance.

**Answers to their own clients.** `ClientsGetTheirAnswers` in `CommManagerProofs`: `OwnAnswers` for any number of
clients, requests and slots. `OwnAnswers` is not inductive; three invariants make
it so. `Names`: the clients `open` has accepted have different numbers, smaller
than those not given out yet, and the socket kept under a number is that of the
client it was given to; so an answer sent to `blockingSocketMap[ret.src]` goes to
the client that asked. `Once`: a request is in the ring in one place, moving from
`job` to `queue` and on to `ret`. `Exchange`: a client waits for at most one
request, and that request is in exactly one of four places, on its way up, in the
ring, lost, or answered; no request in the ring is one that nobody waits for. The
step lemmas follow the requests along that path: `Ask` is the only action that
makes one, and `Names` is what keeps two clients from making the same.

**`XMemoryManagerProofs`.** From `UnitsAssumption` (a page is longer than two
headers), `SlabsAssumption` (there is a slab), `LensAssumption` (programs ask for positive lengths) and
`BitsAssumption`. `Good(h, U, L)` says of a heap `h` that its chunks tile the bytes
`U` of the client's pages (`Tiles`), that `lastChunk` is one of them, and that
headers and bins agree (`Bins`): a chunk is in the bin its header names, in a
slab only with the length of the slab, and free exactly if it is in a bin. An
operation of `mm.cpp` is a chain of functions, and between two of them a chunk is
marked free and is in no bin, or the other way round; those are the chunks `L`,
for which the last part is not asked. `useChunk`, `removeFromFreeList`,
`insertToFreeList`, splitting, joining and `getMoreMemory` each have a lemma that
says how they change `L`; `allocate`, `Realloc` and `Free` begin and end with `L`
empty, or with `fault` set, where the model ends and only `Typed` is claimed. `IInv` adds that
the blocks the program holds are chunks in use (`Backed`) and what is known of
the pages. `TypeCorrect`, `TiledHolds` and `ListedHolds` follow, and
`HeapImplemented`: each step is one of `Heap` or leaves what the program sees as
it was, or is the one with which an assert fails or `free` goes astray. None of the
theorems says anything of the program after that. `IInv` was checked by TLC in the instance of `heap` first.

**`RemoteCallProofs`.** From `FunctionAssumption` (each function has parameters and
a result of known type, each device pointers of one or two words) and
`NoneAssumption` (a null pointer is not an address). `TablesHold`: `TablesTight`
for any devices, programs and functions, until threads of a device cross on its socket;
two of them may call at once, so it holds also where finding 2 mixes messages up in the
send queue. The invariant itself is claimed of every state: the step that crosses is one
the two threads take whole, and after it there is none. `Inductive` has six
parts:

- `Types`, and `Phases`: what `pc` says of `call` and `serving`; callers of one
  device have different numbers, below `jobID`;
- `Tables`: `runningJobs` and `returnValueTable` have numbers of waiting callers
  only; `consumeTable` has every caller's from the step after the arguments are
  taken, and a number it announces is in `runningJobs` no more;
- `Executes`: `jobIDMap` and `argsTable` have the number of the call under execution;
- `Passing`: each number the gateway has given out and not had back is in one
  place: on its way down, in the job queue, under execution, or on its way up;
  two of them never stand for the same call;
- `Waiting`: each number of a caller that will be answered is in one place: first in
  the send queue, on its way up, with the callee (`Coming`, through the gateway's
  table), on its way down, or with the receiver in `return_value_callback`; and a
  thread that has begun to send waits for it, with no announcement yet.

`Waiting` is what makes the rest inductive: `return_value_callback` inserts under the
number it is given, and only because somebody waits for that number does the
entry not stay behind; only because it is answered once does no second answer come
after `consumeReturn`. The queues are families of sets of numbers (`Asks`,
`Calls`, `Answers`), and a step takes a number from one place to the next (`Moves`)
or makes it vanish (`Drops`). `Sending` is proved with `Inductive`: a thread whose
`line` is between header and data is at `sendQue`, or is the handler at the end of a
function. The invariant was checked by TLC with one and with two calling threads per
device before it was proved.

**`RemoteAnswersProofs`.** `MatchedHolds`: `Matched`, from two assumptions about the
program. `OneCaller`: what a device with a program of its own executes for others
calls nobody, so that one thread of a device calls at a time; without it finding 2
is a counterexample. `Fits`: a result has no more words where it is loaded than
where it was computed, which is false only of pointers; without it `consumeReturn`
loads words behind the answer. The instance of `remote_calls` satisfies both. One thread
that calls is not one thread that sends: the handler answers calls on the same socket, so
here too the claim ends where threads cross. With
`Inductive` three invariants make `Matched` inductive:

- `Quiet`: a call is on its way to, in the job queue of, and executed by the device
  its function is on, and one thread of each device never calls; from it follows
  `Alone`, that no two threads fill one send queue;
- `Contents`: a send queue is empty or begins with the number and the function of
  the call its thread makes (`Filled`); a message or an execution under a number of
  the gateway has the function the caller under that number waits for (`Wants`),
  and an answer has the result of that function for that call (`Gives`), wherever
  it is; what `consumeTable` announces is in `returnValueTable` (`Stored`);
- `Right`: `Matched` itself.

`Wants` is stable (`Grows`): a caller keeps its function from the step that writes the
number to the one that collects the answer, and the gateway never gives a number
out again. That is what lets every step be proved with its own message alone, the
others being as they were (`ContentsFrom`). `Filled` is the part two callers break,
and with it `EightBytes`; `EightBytesHold` is the other side of finding 2: with one
caller, no message without a number and a function is sent. `OneCallerContents` has
the three invariants together. `Contents` was checked by TLC in the instance of
`remote_calls` before it was proved.

**`RemoteMemoryProofs`.** `CalleeSeesHolds` and `CallerSeesHolds`: `CalleeSees` and
`CallerSees`, from `StoresAssumption` (the bound on the stores is a number) and the
assumptions of `RemoteCall`. Both threads of a device may call (`OneCaller` is not
needed), store and synchronise, until they cross or race; then the model has ended.
`CallsAsBefore`: every step is one of `RemoteCall` or
leaves it alone, so the tables and numbers are known from `Inductive`.
`MemoryAsPromised`: every step is one of `LazyMemory` or leaves the memory alone.
`MemInductive` adds to `Inductive` and `Sending`

- `MemoryTypes`, `Upward`: a device logs stores to its own word only, each larger
  than the one before, so nothing in the memory or in a view ever goes back;
- `Views`: what the histories hold was in the memory, so it is not newer than the
  memory is now, but for stores of its own a thread comes to a sync with, which the
  home replays in that sync;
- `Placed`: where a thread is with a store or a sync its program has come to the point
  for it, and its request is under way (`line`); `Called`: each number in use has been
  noted in `sent`;
- `Answering`: the answer to a call is on its way up, down, with the receiver, in
  `consumeTable` or loaded only once the function has noted its sync in `returned`;
- `SeesCaller`, `SeesCallee`: the two properties without `Settled`, from the step on with
  which the home has replayed the log.

A step of the memory is `Onward`: the words only grow, and a lower bound on what a
device can read stays one, if it is no more than the memory. `Views` provides the
latter, so the two properties survive every step of every other device. What is
left are the steps where a view begins to count: the sync of a callback (`SyncHandled`) is
replayed after the caller's was, with the number of the gateway leading back to that caller (`KeyOf`: a
number in use stands for a caller that waits and has no answer), and that of
`SyncAfter` after the answer, which `Answering` has followed from `EndHandled` and
`Produce`.
The invariant's parts were checked by TLC in the instance of `remote_memory` before they
were proved.

**`HlrcBulkProofs`.** `BystandersHold`: `Bystanders`, for any clients, pages, words,
stores and bulk operations, from `BulkAligned`: no store is booked under fewer pages
than it covers, stores of `memset` and `memcpy` included, which is `Aligned` (finding
1 is what happens without it). What `memcpy` reads may lie anywhere,
on pages mapped or not.
`Inductive` is of no use here: `Memset` writes one thing and logs another, `MemcpyFrom`
maps pages beyond the top of the heap and over stores still in the log, and the home
answers words and pages to clients it does not come to list. `BulkInductive` is what
is left:

- `BulkTypes`, `Untouched`: logs and messages of all operations; beyond the top of the
  heap the home has zeros and lists nobody;
- `Asked`: a client waits for one thing, and where it asks for words of a source, has
  them under way, asks for their last page, or asks for a `memset`, the pages concerned are
  in `touched` already. So `HandleMemcpyFrom`, `HandleLastPage` and `HandleMemset`, which neither invalidate nor bring whole
  pages, change nothing about any other copy;
- `Mapped`: only `memcpy` maps a page the home does not have, or one that is coming
  from `malloc`, and that page is in `touched`;
- `Right`: a copy the home lists, that is mapped or on its way and not in `touched`,
  is what the home holds with the client's own stores on top. This is the argument of
  `Coherent` for one page at a time: `HandleSync` takes all other clients off the list
  of each page it writes (this is where `BulkAligned` is needed), so whoever is still
  listed has seen every store to the page but its own;
- each word a client's stores under way cover has a last store among them (`Settled`),
  and a heavy client's lie on pages it has mapped.

TLC checked `BulkInductive` in the instance of `bulk` before it was proved.

**Model-checked only.** Liveness (`AnswersArrive`, `BulkAnswersArrive`, `Served`,
`CallsReturn`, `EveryoneRuns`), which is out of reach of the prover;
`Iterates` of `XMemoryManager` (`PageSet` is a recursive function and a fold); `ArgsIntact`
of `RemoteCall` (a fold over the types of the parameters). The models use
`FoldLeft` of the community modules in `XMemoryManager` and for the offsets of
arguments; what a fold computes for every input is beyond the prover.

## 6. Not modelled

- **Acquire and release.** What a release sends is undefined: the buffer of the
  critical section is filled in a loop bounded by the size of the other log
  (`uva_manager.cpp:225`), `RELEASE_REQ` is pushed before the size (243), and
  `releaseHandler` takes it for the size. No pass emits the calls. A model would
  have to allow anything after a release.
- **mmap through the home.** The pages of `Hlrc` come from `heapAllocHandler`; the
  pages of the global variables are one memory in `UvaStart`.
- **What happens to a message that is not read whole** (`comm_manager.cpp:102`), to a
  peer that closes, and the 256 KB limit of a message, which `pushRange` enforces
  by leaving the range out. Messages of the models arrive whole and fit.
- **Uninitialised slots of the ring**: `JobQueue` starts with zeroed memory.
- **The placing of globals by the passes** (`FixedGlobal.cpp`), described above, and
  the rest of the passes: transformations of one program text, run once.
- **QSocket, dataQ, Eevent, networkUtils, backups of earlier runtimes**: not used by
  the present runtime. **Profiling, logging, timers, vendored zlib, build files**: no
  behaviour the above depends on.

## 7. Plan

1. Done: the protocol, its refinement and proofs; bulk operations; start-up and its
   proofs; the ring and the connections with their proofs; the allocator and its
   bitmap; remote calls, their arguments and their memory; two threads of a client.
2. Done: proofs of every safety property the runs check but `Iterates` and
   `ArgsIntact` (section 5), the refinements included.
3. Then, in an instance of their own: `mmap` with the directory of the home, and the
   queues of the earlier transport (`QSocket`, `dataQ`), should they be used again.
4. With a prover that has induction over data: `Iterates` and `ArgsIntact`. The
   liveness properties stay with TLC.
