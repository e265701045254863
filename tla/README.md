# OpenTaker: TLA+ models, checks and proofs

OpenTaker captures network packets. Capture threads write packets into a ring
in memory they share (**PacketRing**), indexing modules read the
ring one behind the other, a "save to disk" module (S2D) reads it last and gives
the memory back (`CreateBlockMemory` keeps the memory in a map of the process, in both its
variants, so that the modules are threads of one process); **PacketRay** is one of the indexing modules, a tbb pipeline.
Below them lie **LiangZhu** (threads, pools, files, databases) and **ChangQian**
(decoding and sockets). S2D and the capture threads are not in the repository;
the class comment of `CProducerRing` (packet_ring_class.h:71-90) and the comments
of packet_ring.h say what they do.

Paths below are relative to `src/code`. `PROJECT.json` holds the same inventory
in a form a program can read: for every definition the lines it translates, for
every property a faulty variant that breaks it, and the list of hazards.

## 1. Inventory

| component | state | operations | hard behaviours | modelled in |
|---|---|---|---|---|
| PacketRing, meta blocks (`sln/PacketRing/src/packet_ring.cpp` 279-345, 447-530, 695-841, `packet_ring_class.cpp`) | tail, one position per module, the block records in the ring's memory; per capture the open block; per module the read-ahead list; the data block pools | claim, fill, publish, signal; get, move; free | lock-free claim by compare-and-swap on stale reads, publication by one store, positions modulo the ring, chain of modules, two orders of giving back | MetaBlkRing, ChainQueue, MetaBlkRingChain |
| PacketRing, packets (packet_ring.cpp 210-277, 665-695, 764-801) | tail, position per module, pktLen of every slot | GetNextMetaSpace, GetNextPacket (one, several), MoveToNextPacket | test of the limit apart from the increment; pktLen as the only announcement; positions modulo the ring | PacketRing |
| PacketRing, registry (62-196, 484-497, 576-633) | table of modules, offsets of their columns, the ready and stop flags | InitRing, RegMySelf, StartWork, StopRing, ResetTheRing | no lock in InitRing, a test outside the lock in RegMySelf, partial failure, a module that comes back | PacketRing (joining, registering, starting) |
| PacketRay (`sln/PacketRay/src`) | statics of the collect filter, the token pool, the filters | addTask, start, the filters | order of the return filter, pool against tbb tokens, stop signal, restart | Pipeline |
| LiangZhu thread pool (`thread_pool.cpp`) | a queue, semaphore and flag per thread | addTask, doTask, clear, stop | flag read outside the lock, early start of the thread, exceptions, stop against add | ThreadPool |
| LiangZhu pools (`object_buffer.hxx`, `fixsize_buffer.h`) | free lists and indices | getBlock, tryGetBlock, release, stop, resetMem | several getters, the list inside the blocks, stop while waiting, compare-and-swap before the mark | BufferPool, ObjectPool; CObjectPool in Pipeline |
| LiangZhu file pool and asynchronous I/O (`file_pool*`, `aio_.cpp`) | requests in flight, handler threads | read, write, attach, start, stop | completions out of order, stop against completions, endless handlers on a queue per thread, a full kernel queue | FilePool |
| LiangZhu files (`file.cpp`, `block_file.cpp`) | position, a block of data not yet written | read, write, saveData, flush, close | results ignored, a piece that has no room | BlockFile, FilePool |
| LiangZhu databases (`sqlite_.cpp`, `postgres_db.cpp`) | connection, transaction flag, compiled statements | open, doStmt, begin, commit, flush | failing steps inside a transaction | not modelled |
| LiangZhu small parts (`util.hxx`, `auto_ptr.hxx`, `thread.cpp`, `mutex.cpp`, `math_.cpp`, `time_.cpp`, `var.cpp`) | reference counts, singletons | | counts, early start of a thread | not modelled |
| ChangQian `decode_basic.cpp` | the meta of the packet, still that of an earlier one | ProcessPacketBasic | tags in any order, cut packets, lengths that wrap | Decode |
| PacketRay `app_base.h` | none | checkPacket, processBlock | | not modelled |
| LiangZhu text, paths, Lua, operating system; ChangQian sockets; the programs | | | pure I/O, formatting, stubs | not modelled |

How they interact: captures and modules share only the memory of the ring;
PacketRay calls `GetNextFullMetaBlk` and `Move2NextMetaBlk` of its `CPacketRing`
from two filters of its pipeline, and takes its tokens from a `CObjectPool`; the
captures take their data blocks from `CFixBufferPool`s and S2D puts them back; they decode
a packet into the meta the ring has given them; the file pool runs its handlers on a
`CThreadPool` and takes its requests from a `CObjectPool3`.

What makes each of them correct:

* **ring**: a block belongs to one thread from its claim to its publication, to
  the modules until the last one has moved past it, to S2D until it is given
  back, and nobody changes it in between; the data blocks behind the meta blocks
  are neither lost nor freed twice; nothing published is left lying;
* **pipeline**: the "next block" that is returned is the block of the token; the
  pool has a token whenever tbb asks; a stop signal ends the run with nothing
  left over;
* **thread pool**: a task is run or deleted, once; nothing runs after `stop()`;
* **packet ring**: a slot belongs to one producer until it is filled, every module reads
  every packet once and in order, S2D last, and the ring reads as empty only if it is;
* **registry**: modules that keep to the columns they first asked for share no byte of a meta;
* **pools**: an object has one owner, the free list holds exactly the blocks nobody has, a
  waiter is told to stop;
* **file pool**: a request has one holder, it comes back as long as a handler is left, `stop()` ends;
* **decoder**: the offsets it writes are those of the frame, and none is left from an
  earlier packet;
* **block file**: what is in the file is in the order it was saved, nothing twice.

## 2. Modules

| module | what it is |
|---|---|
| `MetaBlkRing` | the meta block ring: capture threads, indexing modules, S2D |
| `ChainQueue` | the abstract promise: a bounded queue which a chain of readers passes through |
| `MetaBlkRingChain` | the ring with its refinement mapping to `ChainQueue` |
| `MetaBlkRingProofs` | theorems about `MetaBlkRing`: types, and the order of the chain |
| `MetaBlkRingBlockProofs` | theorems about what is in the blocks, who has them, and the data blocks |
| `MetaBlkRingChainProofs` | theorem: the ring implements `ChainQueue` |
| `Pipeline`, `PipelineProofs` | PacketRay's filters, the token pool and CPipelineMgr |
| `ThreadPool`, `ThreadPoolProofs` | CThread and CThreadPool |
| `FilePool`, `FilePoolProofs` | CFilePool and CHFile's asynchronous reads and writes, on `ThreadPool` |
| `PacketRing`, `PacketRingProofs` | the ring packet by packet, and joining, registering and starting the ring |
| `BufferPool` | CFixBufferPool, the data blocks of a capture |
| `ObjectPool` | CObjectPool3, the requests of the file pool |
| `Decode` | ProcessPacketBasic, against a definition of where the layers of a frame are |
| `BlockFile` | CBlockFile |
| `Library` | the four modules above it in one specification, so that one run checks them: they do not interact, and a behaviour is one of a single part |
| `LibraryProofs` | theorems about those four |
| `MC...` | what TLC needs to instantiate the module of that name |

A definition whose name has an underscore (`RoundTrip_OneFree`) is not part of
the model: it is a plausible mistake in the definition that follows it, kept to
show that a property notices it.

### MetaBlkRing

Each shared access of the code is a step. `GetEmptyMetaBlk` is `ReadTail`,
`CheckLimit`, `CheckSize` and `CasTail` or `CasFail`: it reads the tail, tests the
distance to S2D (`RoundTrip`) and the size of the block, and then swaps the tail,
which is kept modulo the ring. `GetMeta4PktBlk` is `NextMeta` while the block has
room; otherwise `TurnOver` publishes the block and asks for another, and
`OpenMetaBlk` goes on with it. `FinalMetaBlk` is two stores, isFinal (`MarkFinal`)
and size. The signals are `SendSignal`, `FillSignal`, `PublishSignal`.
`GetNextMetaBlks` reads the limit once and the sizes one by one; as sizes in that
range only become non-zero in the meantime, the result is some prefix of what is
ready, which is what `Pickable` allows. S2D is `FreeIsFinal`, `FreeDataBlk`,
`FreeSize` (`FreeFullMetaBlk`, three stores), `FreeFullPktBlk`, and its move of the
pointer, before all of this or after it: the repository shows neither order, so
both are modelled. The stores of one function reach memory in program order:
gcc keeps the order of these stores at all its optimisation levels, x86 keeps it too.

Data is abstract: a data block is a pair (producer, number), the metas of a block
are how many have been written, the kind of a block is that of its meta 0.

### Pipeline

tbb is external: it calls the serial collect filter while fewer than
MAX_TOKEN_COUNT tokens are live, a serial filter with one token at a time in the
order of the input, a parallel one with any token, and ends `run()` when the
input filter has returned NULL and the tokens are through. The ring is external
here, too, reduced to what the pipeline sees of it: how many blocks are
published, picked and returned; `MetaBlkRing` shows that a module gets the blocks
in order and that its moves are not refused. A loop that polls is a step that
changes nothing, and is left out.

### ThreadPool

The owner's construction and `stop()`, the loop of every thread and the callers
of `addTask` (one per task) interleave; `m_enable` and the size of a queue are
read as steps of their own, outside the lock, and push and post, pop, and clear
are one step each, because they hold the lock. `boost::thread` is the base class
of CThread, so the thread runs before `m_enable` is set: `Garbage` is what the
memory of m_enable may hold till then. The model takes the queue and semaphore as
constructed from the start.

### FilePool

It extends `ThreadPool`: the tasks are the IoHandlers, and a handler runs while its
thread is at "run" there, step by step (`TestStop`, `Poll`, `PollTimeOut` or `PollError`,
`Callback` and `Release` for each event, `Return`). `start()` adds the handlers one after the other, and
`stop()` sets `m_isStop` before it stops the threads. The kernel is external: it takes
requests while it has room and finishes them in any order. `CObjectPool3` is reduced to
what it promises, an object nobody uses; `ObjectPool` checks that it keeps this promise. A refused write is told to its caller, who may try
again or give the object back; a refused read may be reported as success (`ReadRefused`);
the kernel may refuse although it has room. An error of `io_getevents` that is an interrupt
leads back to the test of `m_isStop`, like the time-out; any other error, at any time, ends
the handler although nobody has called `stop()`, and no other one takes its place. A thread
may also end before `start()`, when it reads `m_enable` before the constructor of CThread
has set it. So the pool may be left without a handler (`NoHandlers`): then nobody answers,
and the clients are not told; `RequestIsAnswered` is about a pool with at least one handler
left. That `getAioObject()` is 0 (file_pool_linux.hxx:74) cannot happen, as the constructor
throws when io_setup fails.

### PacketRing

Setup: `InitRing` is one step, as the modules join one after the other; a module that has
joined may join again, which puts it back to slot 0, and module 0 zeroes the memory.
`RegMySelf` is `RegTest`, before the lock, `RegLock`, a `RegColumn` for each column and
`RegReturn`, which may come early because of a column of an unknown type. Every call may ask
for other columns: `Requests` has them as their bytes, of which `good` lie in front of the
first invalid column. A module that has an offset is told that offset again, for whatever it
asks for now (`TellOffset`). `columns` records the bytes that each module was last told are
its own, `asked` all that it has asked for. The calls that change nothing, with too many columns or
without the arrays, are left out, and so are the returns of `InitRing` when it gets no memory.
A producer's `GetNextMetaSpace` is `ReadTail`, `TestLimit`,
`IncrementTail` and `WaitSlot`: the tail is read again by the increment, as in the code.
Any number of producers may be between the test and the increment. `stale` holds those whose
tail another has incremented since, and `overrun` says that one of them has taken the last
slot: from then on the ring may read as empty while it is full, and the properties of the ring
are about what happens before.
`GetNextPacket` stands for both functions of that name: the packets before the limit, up to
the first one with pktLen = 0. The tail is kept modulo the ring, which is what every
reader does with it: the real one wraps at 2^32, a multiple of the ring's size. Filling and
emptying a slot is external. The module is shown to implement `ChainQueue`, like the ring
of blocks.

### The library modules

`BufferPool` takes each access under the mutex as a step, so that the mutex has something
to do; the first word of a block is its link or, once its owner has written to it, data.
`ObjectPool` has the scan, the compare-and-swap and the mark as steps. `Decode` takes a frame
as its headers with their lengths, and reads a field as the field of the header at the
offset; the meta keeps old offsets unless they are written, and has 8 bits for each
(`Offset8`). `DecodeAssumption` says which frames there are: VLAN tags, at most one label or
PPPoE header, then the network header, with the lengths its fields can hold. The reference definition
(`IpAt`, `L4At`, `EndOf`, `HasTransport`) looks at the frame as a whole and never at the
steps. `BlockFile` numbers the bytes in the order they are saved; a write puts all of the
block into the file, or a part, or nothing.

## 3. Runs

| run | instance | shows |
|---|---|---|
| `ring_1p` | 4 blocks of 2 metas, 3 modules, 1 capture, a time-out signal | types; a module only holds complete blocks; no move is refused; the ring implements `ChainQueue`; every published block is given back; a capture that waits is served |
| `ring_2p` | 4 blocks, 2 modules, 2 captures, each overtaken by at most 3 claims inside its own | a claimed block is clean, an open one is the producer's own, data blocks are accounted for, "empty" means drained, the chain keeps its order, a held block is not changed |
| `ring_lapped` | 3 blocks, 2 captures, one may be overtaken by a whole lap | *violated*: an assert of the code, see Findings |
| `pipeline` | 8 blocks, 2 of them stop signals, 3 tokens, a serial and a parallel filter, 2 runs | blocks stay as long as they are read, tokens are accounted for, getBlock never spins, a run ends clean; it ends; blocks are returned |
| `pipeline_restart` | 2 runs, assert compiled in | *violated*: an assert of the code |
| `threadpool` | 2 threads, 3 tasks, one urgent, one throwing | the semaphore counts the queue, a task is in one place, queues keep their order, quiet after stop; stop ends, a queued task is handled |
| `threadpool_stranded` | 1 thread, 2 tasks | *violated*: a comment of the code |
| `filepool` | 2 handler threads which may read `m_enable` before it is set, a read and a write object, 3 requests, batches of up to 2, failing polls | a request is in one place; requests are answered while a handler is left, stop ends |
| `filepool_handlers` | 2 handler threads, no request | *violated*: a comment of the code |
| `packet_ring` | 4 slots, 3 modules that register 2 bytes of columns, all valid or not, 2 producers | types, steady modules share no byte; until the first overrun a claimed slot is the producer's, the ring implements `ChainQueue` and every packet is given back |
| `packet_ring_overrun` | the same without columns | *violated*: see Findings |
| `library` | 2 getters and a releaser on 3 blocks; 3 users of 4 objects; frames of up to two tags, whole and cut; blocks of 3 bytes, 6 bytes saved | the free list, one owner, the decoder against its definition, the order in the file; a waiter ends |

**Bounds.** Four blocks is the smallest ring in which, with the safe distance of
two, two blocks are in use at once; the last block has one meta instead of two, as
in every ring whose capacity does not divide the number of metas. Three modules give a first, a
middle and a last link of the chain. `MaxInHand` bounds the blocks a module keeps;
`MaxLag` bounds how often a capture is overtaken inside one claim: 3 in `ring_2p` is
one less than a lap, and `ring_lapped` shows that the bound is needed. In the
pipeline, fewer tokens than blocks in the ring make the token limit bite, and
two stop signals make the second run start in the middle of the ring. `PosMod`
stands for 2^32. Three tasks are the fewest with an urgent one between two
others; every add is a thread of its own. Two threads are the fewest with which a handler
may get no thread; two requests are the fewest for a batch (`MaxEvents` = 2), which a handler
takes from under the other's nose, and a third submission uses an object again. The kernel has
room for both, but may refuse at any time. `filepool_handlers` has threads that see `m_enable`
set, and `AllThreadsHandle` leaves handlers that have failed aside, so that it shows what
`addTask` alone does. `MaxSignals` bounds the signals that are in the ring at once.

`packet_ring`: four slots, of which three can be used, are enough for a wrap-around with two
packets in hand; the real rings are larger powers of two, and only the wrap-around depends on
the size. The run stops where the ring has overrun (`NotOverrun`,
a constraint): the properties of the ring say nothing of the states behind, registering columns
does not depend on the slots, and `packet_ring_overrun` shows what an overrun does. Columns are handed out until `MaxColumns`, which two modules and
the leftovers of a failed call exceed; modules that register again do so without a bound. `Late` lets
module 1 be inside RegMySelf when StartWork is called; one shows the race. `LateInits` is
FALSE: modules join before StartWork.

`library`: three data blocks for two captures are the fewest with one that waits while
another is in use. `ObjLag` bounds how many swaps of others a thread may miss between its
read of the index and its mark; with the threads together no more than the objects
(`ObjectPoolAssumption`) an object has one owner, and with one swap more TLC finds two. The
real pool has 1024 objects or more and few threads. The frames have every tag alone and
behind VLAN, headers with and without options, bodies below and above every test of a length
and captures cut in front of, in and behind each header. Six bytes fill the block twice.

**Deadlock** is checked in the runs of both rings that pass. The pipeline, the pools and the decoder
really stop, and the block file does when its bytes are used up.

**Fairness.** Ring: a thread inside a function of the ring is scheduled again; a
module asks for blocks in a loop (the collect loop of PacketRay does) and moves on;
nothing forces a capture to receive packets. Liveness is stated for one capture:
with two, the loser of the compare-and-swap may lose for ever, and a block that
another capture keeps open, for lack of packets, holds up everybody. Pipeline: tbb
runs a filter that has a token, and filters end. Thread pool: threads are
scheduled, tasks end, and nobody has to call `stop()`. File pool: the same, but its tasks
need not end before `stop()`; once `start()` has begun it goes on, and the kernel finishes what
it has taken; no client has to submit anything. Packet ring: a thread inside a call goes on,
a module that can get a packet or move on does one of them, S2D empties its slot too; nobody has to produce. Buffer pool: a thread that
asks for the mutex again and again gets it in the end (strong fairness), as a getter that
polls takes and gives it back for ever.

**Findings.** (a) `ring_lapped`: the tail is compared modulo the ring size, so a capture
that sleeps between its tests and its swap while the others claim a whole lap swaps on
stale tests; the tail passes S2D, two captures share a block and the assert at
packet_ring_class.cpp:325 fails. (b) `threadpool_stranded`: a task can be pushed after
the thread's `clear()`, and is neither run nor deleted. (c) `pipeline_restart`: the
collect filter resets `ringPos` for the next run, but the ring goes on. (d)
`filepool_handlers`: an endless handler can be queued behind another one, so that its thread
never handles requests. (e)
`packet_ring_overrun`: two producers test the same tail and both increment it; the tail
reaches S2D's slot, and the full ring reads as empty.

Met while modelling and not shown by a run (see the hazards in `PROJECT.json`): a module
that joins again after StartWork starts at slot 0; `InitRing` that fails for want of memory
leaves the module in the table but not counted, and the next new module gets the same entry; a module told -2 by `RegMySelf` is told success when it
calls again, with bytes that may be another module's, and so is one that asks for more columns
than before (packet_ring.h:114-117 warns of the latter); the first `RegMySelf` of a module does not
write `*_offset` (packet_ring.cpp:176-195), so that the module has to look into `GetModuleInfo()`; `CThread::addTask`
does not delete a task it refuses (`RefuseTask`), although the comment at thread_pool.cpp:158
says that a task is deleted "if no thread is available"; a handler of the file pool ends for good when
`io_getevents` fails; a refused asynchronous read may report
success, as `read` returns an errno that io_submit does not set; the requests the kernel has
at `stop()` are never collected; GTP-U frames are not recognised; the loop over MPLS labels
looks at a byte behind the label, and drops an IPv4 packet of odd length; a TCP header cut in
its options leaves the payload of an earlier packet in the meta; the offsets of the layers
have 8 bits (decode_basic.h:48), so that more than 255 bytes of headers, some fifty VLAN tags,
would wrap them; `StartWork` asserts on
`2 ^ 10`, which is 8; `WaitNextEmptyPktBlk` uses the block it did not get after `stop()`; a
formatted `saveData` longer than the room in the block makes the block's size grow past it.

## 4. Proofs

Every safety property the runs check, the action property and the two refinements are theorems,
for all values of the constants that satisfy the assumptions below.

| module | theorems | inductive invariant |
|---|---|---|
| `MetaBlkRingProofs` | `TypeCorrect`; `ChainOrderHolds` (L) | `TypeInv`, `ChainInv` |
| `MetaBlkRingBlockProofs` | (L) `HeldBlksAreComplete`, `MovesAreNeverRefused`, `ClaimedBlksAreClean`, `OpenBlksAreMine`, `CurBlksAreOfDataBlk`, `EmptyRingIsDrained`, `HeldBlksAreStable`, `DataBlksAreAccounted` | `RingInv`: the former and `BlockInv`; `DataInv` |
| `MetaBlkRingChainProofs` | (L) `RingImplementsChain` | `RingInv` |
| `PipelineProofs` | `TypeCorrect`, `BlksStayMine`, `TokensAreAccounted`, `GetBlockNeverWaits`, `EndsAreClean` | `PipeInv` |
| `ThreadPoolProofs` | `TypeCorrect`, `StoppedStaysQuiet`, `SemAlwaysCountsQueue`, `QueuesStayInOrder`, `TasksHeldOnce`, `FateIsSealed` | `TypeInv`, `StopInv`, `SemCountsQueue`, `OrderInv`, `OnceInv` |
| `FilePoolProofs` | `FileTypeCorrect`, `RequestsInOnePlace`, `FilePoolUsesThreadPool`, `HandlersAreKept` | `FileInv` |
| `PacketRingProofs` | `PacketTypeCorrect`, `ColumnsStayDisjoint`, (1) `OneProducerNeverOverruns`; (J) `SlotsAreMine`, `DrainedRingIsEmpty`, `RingImplementsChain`, (1) `OneProducerImplementsChain` | `SetupInv`, `UpToDate`; `PacketInv` |
| `LibraryProofs` | `FilesStayInOrder`, `ObjectsHaveOneOwner`, `FreeListsAreSound`, `DecoderAgrees` | `FileInv`, `ObjectInv`, `BufferInv`, `DecodeInv` |

**Assumptions.** Each module's `ASSUME` (what its constructor or InitRing sets up: sizes that
are not zero, finitely many tasks and users), and:

* (L) `MaxLag < N`: no producer is overtaken by a whole lap inside one claim. `ring_lapped` is the
  counterexample without it, and `CurBlksAreOfDataBlk` says that this is the only way to break the
  assert it breaks.
* (J) `~LateInits`: no module joins after StartWork. The number of producers is free; the three
  theorems speak of the ring until the first `overrun`. `packet_ring_overrun` is the counterexample to
  `DrainedIsEmpty` without this condition.
* (1) `OneProducer`: there is one producer at most. Then the ring never overruns, and the three hold for good.
* `ObjectPoolAssumption`: the users, with the swaps a sleeping one misses, are no more than the
  objects. With one swap more two users can have an object.
* `RingAssumption`: at least three blocks; with fewer the ring never gives one out.

**The order of the chain.** `ChainOrder` is not inductive. A producer swaps the tail on tests
that are some steps old; the invariant has to say what they still mean: `TailSeen` says that the
tail has moved on by at most `lag` blocks since it was read, so that an unchanged
value means an unchanged tail as long as `lag < N`; `RoomSeen` that a producer past
its test of the distance still has room if it can win the swap (S2D can only have moved away
from it); `Chained` that every module lies between S2D and the tail, with the order of the
chain for every pair of modules and not only for neighbours, as a step of one of them
needs its two neighbours and the tail at once.
All positions are modulo N, and so the lemmas about `Dist` and `Plus` (moving
one end of an arc) carry the arithmetic and the steps only cite them.

**The blocks.** S2D may move its pointer before it is done with the block, so everything is
measured from `S2DBlk`, the block it is at. `BlkInv` says that what lies beyond the tail is clean
and what is published is complete, until S2D takes it; `ReadInv` that what a module holds and has
read ahead are consecutive blocks from its pointer, all behind its limit; `ProdInv` that a producer
has its block to itself, and that the asserts it is about to meet hold; `ReleaseInv` which of the three
stores of a release are done. `DataInv` counts the places of a data block: the pool, one producer,
one release, or the meta blocks that name it, of which only the last one is marked final.

**The refinements.** `RingImplementsChain` maps the ring from S2D's block to the tail to the queue of
`ChainQueue`, and the modules' positions to how far they have passed. A claim is a new open entry,
the publishing store makes it ready, a move of a module passes it on, and the move of S2D
takes it out; every other step is a stutter. The packet ring has the same proof with slots.
`FilePoolUsesThreadPool` shows that a step of the file pool is one of the thread pool or a
stutter, and so the theorems of the thread pool hold for its handlers.

**The pipeline.** The return filter gives back the next block, not its token's. `OrderInv` says
that the tokens it has passed are a prefix of the run and how far inside of a token it is;
`PoolInv` that the live tokens hold the objects given out last, by age, so that the next one
in turn is free as long as fewer than `Tokens` are alive.

**The thread pool.** `StopInv` says, for each place of the owner, which threads are born and which
have ended; `OrderInv` that a queue is urgent tasks, then the others in the order of
`pushed`; `OnceInv` that a task has at most one spot, and exactly one while it is pending. The number
of places in `TaskHeldOnce` follows from this by a bijection. A task that is not pending has no
spot, so no step can run or delete it a second time: that is `FateIsSealed`, an action property,
which says of the whole history what `TaskHeldOnce` says of one state.

**The file pool.** A request is in one of the client's hands, the kernel, the finished list or one
handler's batch (`Somewhere`), and the sequences it may be in share no element and repeat none (`Apart`).

**The packet ring.** `ColumnInv`: whoever is past the lock is alone there, and the columns of a steady module lie
between its offset and `offset`, apart from those of every other one. `ClaimInv` says that the slots
claimed are apart and beyond what any module may read, and what a producer past the test still
knows: if nobody has incremented the tail since, there is room, and if somebody has, it is stale, so that taking
the last slot is an overrun.

**The library.** Block file: the file, the block and the bytes still to be saved are one increasing
sequence. Object pool: `PassInv` says which objects the index has gone over since a user read it: they all
were in somebody's hands at the time, so that there are fewer of them than users and swaps missed, and the index
cannot have come back to the object of a user that has swapped and not yet marked it. Buffer pool: `ListInv`, there is a number n and an injection of 0..n-1 that is the
list; that the recursive definition of `FreeListSound` finds the same list is an induction over
its length. Decoder: `DecodeInv` says that the offset is where the definition puts the header at the
front, and that only VLAN tags lie before it; then the lengths, whose subtraction wraps when the
card fills in the total length later, are compared with what was captured.

The library's induction theorems take an operator as a parameter, which the installed provers cannot
instantiate. Where a proof needs an induction (the lists of the buffer pool, where the headers of a
frame start) it takes the least counterexample instead (`NatMin`, from WFMin) and derives a smaller one.

**Only model-checked**: liveness. `PublishedIsReleased`, `ClaimIsServed`, `StopEnds`, `QueuedIsHandled`,
`StopEndsRun`, `BlksAreReturned`, `RequestIsAnswered`, `FilePoolStops`, `PublishedPacketIsReleased` and
`WaiterEnds` rest on fairness, and ENABLED is out of the prover's reach. The violations are
TLC's counterexamples.

## 5. Not modelled, and the plan

Not modelled, and why:

* memory ordering weaker than program order; a thread that dies while it is inside the
  ring (the code has no recovery for it: the ring stays as it is);
* StopRing, ResetTheRing, UninitRing, the names and the number of modules: flags and a
  table set at a moment when, by the comments, nobody else uses the ring;
* `CPipelineMgr::init` and `CCollectPacketTask::regWithAgent`: they make the tbb pipeline and join the
  ring before the first run;
* in the ring of blocks: a signal between two packets of an open block (`SendSignal` sends between
  blocks), and a data block that could not be had (`OpenMetaBlk`); a frame whose IPv4 length is not 0 but
  below that of its header (`Frames`); more swaps missed than `ObjLag` (`SwapIndex`), with one more of which TLC finds
  two owners of an object;
* `detach()` and the destructor of the thread pool; polling for requests without handlers,
  batched writes; CObjectPool2; the formatted `saveData`; `open` of a file; Windows variants;
* databases, Lua, sockets, system calls, threads and locks: wrappers that pass a call on and
  return its result, so that a model of them would be a model of the library behind them;
* reference counts: used by nothing but the singletons of the pipeline;
* checkPacket and processBlock, mathematics, time, variants, text and paths: functions
  without state or interleaving, which unit tests reach;
* vendored code: sqlite3.c, its headers and CStdString are 157000 of the 170000 lines, which is
  why the share of lines the map covers is small whatever is modelled.

Done: `MetaBlkRing` with `ChainQueue`, `Pipeline`, `ThreadPool`, `FilePool`, `PacketRing`,
`BufferPool`, `ObjectPool`, `Decode`, `BlockFile`, and theorems for every safety property of
theirs that the runs check.

What is left, most important first:

1. What is stranded in the thread pool after `stop()`: exactly what was pushed after the thread's
   `clear()`.
2. The lap of the ring under a weaker assumption: `MaxLag < N` bounds how often a producer is overtaken, and
   what the swap needs is only that the tail has not come round.
3. The decoder with stacks of labels.
