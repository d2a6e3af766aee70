# A verification development of rust-brotli

TLA+ modules of the parts of this crate whose difficulty is control (threads,
queues, interrupted and resumed calls, bits carried from one file to the next),
TLC configurations that check them on small instances, and TLAPS proofs of what
must hold for every instance. Paths are those of the repository, with `src/` in
front; `enc/` is short for `src/src/enc/`.

1. [Inventory](#inventory)
2. [Modules](#modules)
3. [Runs](#runs)
4. [Proofs](#proofs)
5. [Disagreements found](#disagreements-found)
6. [Not modelled](#not-modelled)
7. [Plan](#plan)

## Inventory

| component | state | operations | with whom | what is hard |
|---|---|---|---|---|
| `FixedQueue` (`enc/fixed_queue.rs`) | `data[MAX_THREADS]`, `size`, `start` (only grows) | `push`, `pop`, `remove(predicate)` | both queues of the pool | removal in the middle of a ring that has wrapped |
| `WorkerPool` (`enc/worker_pool.rs`) | `WorkQueue` (jobs, results, `num_in_progress`, `cur_work_id`, `immediate_shutdown`) under one mutex; one condition variable; an `Arc` around the input of each batch | `new`, `make_spawner`, `spawn`, `do_work` of each worker, `join`, `drop`, `OwnedRetriever::unwrap` | worker threads, callers; serves `CompressMulti` | interleavings, lost wakeups, poisoning, panicking jobs, who owns the last `Arc`, one capacity for three things |
| `CompressMulti` (`enc/threading/mod.rs`) | `alloc_per_thread` (slots `A`, `Join`, `SpawningOrJoining`), `pending_error`, `owned_input`, the `BroCatli` it writes with | one call in phases: spawn, hash, compress the last chunk, join in order, concatenate, unwrap the input | a spawner: pool, threads (`enc/multithreading.rs`), none (`enc/singlethreading.rs`) | one of many steps failing: everything spawned is joined, input and allocators come back |
| `CompressMultiScoped`, `CompressChunks` (same file) | result slots of scoped threads | the same with borrowed input | `std::thread::scope` | which error is reported, slots left empty |
| `BroCatli` (`src/src/concat/mod.rs`) | the last two bytes, the bit offset, the window size, a stream header half read or half written | `new_brotli_file`, `stream`, `finish`, (de)serialisation | `catbrotli`, `CompressMulti`, the C interface | an end marker at any bit, across bytes, files and calls; output buffers of one byte; a byte taken back out of the output |
| encoder stream machine (`enc/encode.rs`) | `stream_state_`, `input_pos_`, `last_processed_pos_`, `last_flush_pos_`, `last_bytes_`, `next_out_`/`available_out_`, `remaining_metadata_bytes_` | `compress_stream` (process, flush, finish, emit metadata), `set_parameter`, `set_custom_dictionary`, `take_output` | writer, reader, C interface, `CompressMulti`'s jobs | resumed calls with partial input and output, flush and metadata in the middle, three code paths by quality |
| encoder ring buffer (`enc/encode.rs`) | `data`, `pos_`, `mask_`, `tail_size_`, `cur_size_` | `RingBufferWrite`, `RingBufferInitBuffer` | the stream machine, the match finders | lazy growth, a mirrored tail, 32-bit positions that wrap |
| adapters (`enc/writer.rs`, `enc/reader.rs`) | `output_buffer`, `input_offset`/`len`/`eof`, `error_if_invalid_data` | `write`, `flush`, `into_inner`, `drop`; `read` | the encoder; an inner `Write`/`Read` that may fail or be short | inner errors in the middle, a second error, an empty read |
| commands (`enc/encode.rs`, `enc/backward_references/`, `enc/command.rs`) | `commands_`, `last_insert_len_`, `dist_cache_`, `saved_dist_cache_`, the nodes of the shortest-path search | `encode_data`, `extend_last_command`, `CreateBackwardReferences`, the two Zopfli searches, `WriteMetaBlockInternal` | the ring buffer, the block writers, every decoder | distances named by a ring the decoder must have too, across blocks, postponed and stored metablocks |
| match finding (`enc/backward_references/`) | hash tables, binary trees, the static dictionary | `FindLongestMatch`, `StoreRange` | the ring buffer | positions relative to a wrapped buffer |
| block splitting (`enc/metablock.rs`, `enc/block_splitter.rs`, `enc/cluster.rs`, `enc/histogram.rs`) and its storage (`enc/brotli_bit_stream.rs`) | blocks, types, histograms with remembered entropies, context maps; `BlockEncoder` | `AddSymbol`, `FinishBlock`, clustering, `store_symbol` | commands in, bits out | what is remembered of merged histograms; type codes relative to the last two types; a last block longer than what is left |
| entropy coding, fragment compressors, prior evaluation | code lengths, bits written | pure functions of the data | the encoder | bounded code lengths; float costs |
| C interface, other bindings, command line | wrappers | argument conversion | everything above | panics at the boundary |

What makes the main components correct:

* queue: it is a bounded first-in-first-out queue with removal in the middle;
* pool: each job runs once and its reply reaches the one joiner that has its
  handle; a push never fails under the lock; the input comes back after the
  joins; joins and drops end;
* CompressMulti: the output is the chunks in order, up to the first that failed;
  no thread and no reference outlives the call; the input and the allocators
  come back;
* BroCatli: whatever the sizes of reads and buffers, what leaves is the
  concatenation of what came in, and only files made for it are accepted;
* encoder: every byte of input is encoded once; a flush or finish emits all of
  it; no call makes no progress for ever;
* ring buffer: the last bytes of the input can be read, also as a run across the
  end, whatever the sizes of the writes; remembered positions give true distances;
* commands: a decoder that follows them gets the bytes they were made for;
* block splitting: each symbol is stored with a code made from a histogram that
  counted it, and a decoder knows which;
* adapters: what the inner writer received is what the encoder produced; what is
  lost, and what is refused, is told, and a call that succeeds has done all it says.

## Modules

The pool, from the bottom up:

* `QueueOps` - `FixedQueue::remove` on the sequence of queued items:
  `FirstMatch` is its search, `SwapRemove` moves the front item into the hole.
* `BoundedQueue` - what the queue promises, on a sequence.
* `FixedQueue` - the ring: `data`, `size`, `start`; one action per method.
  `start` is not reduced modulo the length by the code until it is used, so the
  model lets it run to `MaxStart`. Refines `BoundedQueue`.
* `JobService` - what the pool promises: a submitted job is started once, ends
  with its result or is lost to a panic, and is taken by its joiner.
* `WorkerPool` - the threads. A critical section is an action: the mutex is held
  from the first to the last line of it, and what a thread does between two of
  them (run the job, drop the job's `Arc`, deliver) is an action of its own.
  `pc[t]` names the place a thread is in; `waiting` is the set of threads inside
  `cvar.wait`; `notify_all` empties it, and `SpuriousWake` takes one out of it at
  any time. A panic under the lock sets `poisoned`; every later
  `lock().unwrap()` panics. A panic of the job itself happens outside the lock
  and kills its worker only. Refines `JobService`.
* `CompressMulti` - one caller; `where` it is is `pc`, each allocator slot is a
  variant name, a chunk's compressed bytes are its index, and the spawner is
  abstract: a job holds one reference to the input and ends with a result or,
  with `JobsPanic`, a panic. `ViewFails` is a spawner whose input cannot be
  viewed, as in `enc/threading/test.rs`.
* `PooledCompress` - `CompressMulti` on `WorkerPool`: the steps of both are
  conjoined wherever the first calls the second. Refines `CompressMulti`.
* `FixedQueueProofs`, `WorkerPoolProofs`, `CompressMultiProofs`,
  `PooledCompressProofs` - see [Proofs](#proofs).

Concatenation:

* `CatableFormat` - bits and bytes: the window header, the header of an
  uncompressed metablock, the end marker; what the encoder writes (`Stream`) and
  what the concatenation ought to be (`Concatenation`: `Joined`, which is one
  window header and the metablocks, and one end marker); and the two parsers of
  `concat/mod.rs`.
* `BroCatli` - `stream` and `finish` as functions on a record that holds the
  fields of the struct and the arguments of the call. The stages of `stream`
  (flush the previous stream, read the header, align it, write it, hold two
  bytes back, copy) are operators composed in the order of the code; a stage
  that returns early leaves its answer in `ret`. The actions are those of
  `bin/catbrotli.rs`: begin a file, read a chunk, call `stream` again with an
  empty buffer while it asks for room, and finish. `Unacceptable` is the set of
  lists of files the documentation says cannot be joined. `New` sets the two
  bytes as the code does, which for `-w16` is not the header of such a window.
* `BroCatliMC` - the files: bodies that end at each of the eight bits, window
  headers of 1, 4, 7 and 14 bits, empty files anywhere in the list, files that
  must be refused.

The encoder:

* `StreamBits` - where each block writer leaves the bit index it is given.
* `EncoderStream` - `compress_stream` for every operation, on lengths: the three
  positions in the input, the bits of the started byte (`lastBits`), pending
  output and the buffer it is in, the stream state. One action is one round of
  the loop a call is in; `pc` says whether that is `compress_stream` (`slow`),
  `compress_stream_fast` (`fast`) or `process_metadata` (`metadata`). A round
  that calls `encode_data` contains all of it: the blocks that open the stream,
  then a fragment, a metablock, or nothing because the metablock is put off. The
  length of a compressed metablock is free, except that one too long is replaced
  by a stored one, and so is the decision to put a metablock off where the code
  counts literals and commands. Refused calls change nothing and
  are left out. The ghosts add up bits written and not delivered (`owed`), input
  that no metablock covers (`backlog`), and how the stream ended.
* `EncoderStreamMC` - the flags: every combination for qualities 2 and up and
  for catable streams of qualities 0 and 1; the other streams of qualities 0
  and 1 look at none.
* `RingBuffer` - `data_mo` from `buffer_index` on as a function whose values name
  the position of the byte, so that a stale byte shows. `RingBufferWrite` is
  composed of its stages (first short write, growth, mirrored tail, the two
  pieces of a lap, the two bytes in front, `pos_`). `EncodeData` is here only what
  hashes positions and resets the tables. Refines `SlidingWindow`.
* `SlidingWindow` - what the encoder expects: the last `Size` bytes, in order.
* `RingBufferProofs` - see [Proofs](#proofs); the proofs about `EncoderStream` are
  in `StreamAdaptersProofs`, which needs all of them.

The adapters, on top of `EncoderStream`:

* `AdapterCalls` - the variables of an adapter and its call of `compress_stream`,
  whose rounds are the actions of `EncoderStream`.
* `CompressorWriter`, `CompressorReader`, `CompressCopy` - one each for
  `CompressorWriterCustomIo`, `CompressorReaderCustomIo` and
  `BrotliCompressCustomIoCustomDict`; the inner reader or writer may fail, give or
  take less than asked for, or take nothing, whenever it is called.
* `StreamAdapters` - the three under one next-state relation and what their
  callers may rely on; `StreamAdaptersMC` gives the streams.
* `StreamAdaptersProofs` - see [Proofs](#proofs).

Commands:

* `DistanceRing` - the codes of `ComputeDistanceCode`, the ring, and a decoder of
  commands. Output is a sequence of what bytes are made of: literals, copies from
  a distance, words of the static dictionary.
* `ZopfliNodes` - nodes, shortcuts, the ring rebuilt from them, and the commands
  that the ways through them are made into.
* `BackwardReferences` - one action per step of a matcher: a match or a literal of
  the greedy one with its lazy delay, the updates of nodes, the creation of
  commands, the second pass of quality 11; and the rest of `encode_data` around
  them. Which match is found and what it costs is free, so that any way through
  the nodes may be kept or overwritten. `emitted` holds what the last metablock
  was meant to be made of and what a decoder makes of it. Behind a catable stream
  the decoder's ring is `Unknown` and its window is already full.
* `BackwardReferencesProofs` - see [Proofs](#proofs).

Blocks:

* `ContextMaps` - move-to-front and run lengths of a context map, the map without
  contexts, and how a decoder reads either. Codes carry a symbol and the value of
  its extra bits; their Huffman trees are left out.
* `BlockSplits` - one stream of symbols. A histogram is the set of places it
  counted and a remembered entropy is the histogram it was computed from, so
  that a stale one shows; costs are free except where they are costs of equal
  things. `AddSymbol` and `FinishGreedy` are the greedy splitters (with and
  without contexts), `BuildMetaBlock` is the splitter of qualities 10 and 11 with
  any clustering of blocks and histograms, `StoreSymbol` stores one symbol with
  its block switch while a decoder reads along.
* `BlockSplitsProofs` - see [Proofs](#proofs).

## Runs

| run | instance | shows |
|---|---|---|
| `fixed_queue` | 3 slots, 3 items, `start` up to 7 | the ring refines the bounded queue |
| `worker_pool` | 2 workers, 2 callers, 2 slots, 4 jobs, callers that stay within the capacity or exceed it by up to two (and then wait in `spawn`), jobs that panic | `PushesFit`, `OccupancyIsExact`, `SoleOwnerAfterJoins`; refines `JobService`; `JoinReturns`, `SpawnReturns`, `DropReturns` |
| `pool_overcommit` | callers that exceed the capacity by one | a violation, see below |
| `compress_multi` | 3 chunks, 2 calls, panicking threads, failing views, failing concatenation | output is the ordered prefix, everything comes back, every call returns |
| `pooled_compress` | 3 chunks, 2 calls, 2 workers, capacity 3 | the pool is a correct spawner, each chunk gets its own reply, also on a used pool; calls return |
| `bro_catli` | 67 lists of none to four files, with each of seven windows, chunks of 1 to 5 bytes or everything, buffers of 1 to 4 bytes or everything, sizes chosen anew at each call | the output is the concatenation, but for the three cases listed [below](#disagreements-found), and what it is in these; errors are deserved, each call moves on |
| `encoder_stream` | up to 5 bytes of input (a dictionary included) in pieces of 1 and 3, blocks of 2, metablocks of at most 4, output rooms of 0, 3 and 600 bytes, metadata of 0, 3, 16 and 2^24 + 1 bytes (of which the encoder takes at most 2^24), whole and one-byte `take_output` | see below |
| `encoder_hang` | catable streams of qualities 0 and 1 | a violation, see below |
| `ring_buffer` | 16 bytes with a tail of 4, positions that go round at 16, writes of 1 to 4 bytes, five laps | the ring refines the sliding window and stays inside its allocation; runs are contiguous, distances real |
| `stream_adapters` | up to 4 bytes, adapter buffers of 2 and 600 bytes, blocks of 2; three kinds of stream; inner readers and writers that do anything | which losses have no error, which write is refused, success means all, the stream ends only at the end, the encoder accepts, calls return |
| `commands` | two blocks of up to 4 bytes, a window of 5, a dictionary of 4 or none, catable or not, each of the three matchers | commands decode as meant, the ring is the decoder's, no byte is dropped or doubled, the array suffices |
| `block_split` | up to 9 symbols for the greedy splitters with blocks of 2 and at most 4 types, 5 symbols for the other, 2 contexts | remembered entropies are current, switches are read, symbols have codes |

`encoder_stream` shows that no bit is lost between the block writers and the
client (`BitsAddUp`), that metablocks cover the input without gap or overlap
(`InputInOrder`), that a metablock put off never outgrows the longest one
(`UnflushedFits`), that the flush, finish and metadata protocol of
`c/brotli/encode.h` delivers what it says (`OperationsComplete`), that an accepted
call neither fails nor trips an assertion, but for one panic which
`AcceptedCallsSucceed` names (`SealRunsOff`), that the end of a stream is as the
flags promise, that a client who keeps asking to finish gets there whatever it
did before, and that calls return.

`worker_pool` covers the one wait nobody notifies: `join` frees room in silence.
`SpawnReturns` holds all the same, because whenever a join frees room some job is
still to be delivered and its delivery wakes the spawner (with more unjoined jobs
than that, the queue of results overflows first). With the test of `_push_job`
(`<` for `<=`) in `spawn` this would be lost; that is the property's mutant.

**Bounds.** The pool's interesting cases need two workers (a result delivered
while another job is running), two callers (a joiner that is woken by a reply
that is not its own) and a queue that fills: with capacity 2, three unjoined jobs
are one too many. Three chunks are the least with a first, a middle and a last
one; two calls show what the first leaves behind. `MaxWorkIds`, `MaxCalls` and
`MaxStart` cap counters that only grow. In concatenation nothing depends on the
bytes between a stream's header and its last two bytes, so bodies of two to
three bytes at all eight bit offsets, with chunks and buffers smaller and larger
than the five header bytes, meet every case of the code. The window given with `-w` is one of each form that
`New` distinguishes (above 24, 16, above 17, the smallest, 17), or none.

In `encoder_stream` two blocks make the longest metablock, so that a metablock is
put off, continued and forced out; a dictionary of 3 bytes is usable, of 1 byte
too short; output of 3 bytes is less than any block, 600 bytes hold one that is
compressed in place. `CompressedBits` is one length no multiple of 8 and short enough not to be
replaced by a stored block, while the other block writers lead to all of the
alignments. `MaxMetadata` is that of the code; metadata of 16 bytes fill
`tiny_buf_` to its end, and the smaller room of a client cuts them anywhere. The operations of the code do not depend on the size of
input beyond block and metablock boundaries, all of which 5 bytes cross.

In `ring_buffer` the tail is the input block, as in the code; the positions wrap
where the buffer ends, which is what a buffer of 2^30 bytes does with
`lgwin` 29, and smaller buffers wrap less often. `commands` needs a window shorter than
the input (a distance that was in reach and no longer is), a second block that
extends the last command of the first, and a word named just beyond the window.
In `block_split` nine symbols are four full blocks and one that is padded;
four types are the limit without and two with contexts, so that it is met;
`MaxRunPrefix` 1 makes runs of zeros that have to be cut.

**Deadlock** is checked for the queue, `ring_buffer`, `commands` and `block_split`; elsewhere the system ends (the pool
was dropped, the last file was finished, the callers make no more calls, the
encoder has panicked) and the liveness properties say what may not get stuck
before that.

**Fairness.** Weak fairness of each thread: the scheduler runs a thread that can
run, a job function ends, and a caller that made a call continues it. Making
calls, dropping the pool, panics and spurious wakeups are never fair. The mutex
needs no strong fairness because no thread is ever kept from it by one that holds
it for ever: an action is a whole critical section, and `cvar.wait` leaves the
lock. In `EncoderStream` a call that was made runs on (weak fairness of `Step`), and so
does a call of an adapter (`Work`); the inner writer of
`BrotliCompressCustomIo` must not take nothing for ever, as the loop of the code
has no other way out.
`FinishGoesThrough` is about a client that from some time on only asks to finish,
with room for output: strong fairness of `FinishAgain` says that it does ask
again, as it may only between calls.

Passing runs come with a variant of some definition (named `Definition_Variant`,
next to it) that a plausible mistake would give, and with which the property
fails.

## Proofs

Each theorem holds for every value of the constants the named assumptions of its
module allow; TLC evaluates these assumptions in the runs. The strengthened
invariants were checked by TLC on the instances of the runs before they were
proved. Wherever a theorem states a property a run checks, its entry in
`PROJECT.json` says so.

### The queue

`FixedQueueProofs`, for every capacity above 0:

* `TypeCorrect`, `WindowCorrect` - the slots from `start` on, `size` of them, are
  the full ones;
* `Implementation` - `Spec => ImplementsQueue`.

`TypeOK /\ WindowIsFull` is inductive because no two positions of a window that is
not longer than the array share a slot (`SlotInjective`). The refinement goes
method by method; the one for `remove` is that moving the front item into the
hole and stepping `start` is `SwapRemove` on the window.

### The pool

`WorkerPoolProofs`, for any finite sets of workers and callers, any capacity above
0 and any bounds:

* `TypeCorrect` - `num_in_progress`, a `usize`, never goes below zero;
* `OccupancyCorrect` - `Spec => []OccupancyIsExact`: the sum `spawn` compares
  with the capacity is the number of unjoined jobs, also after jobs panicked;
* `PushesNeverFail` - `Spec => []PushesFit`: while callers hold at most
  `MAX_THREADS` unjoined jobs, the `unwrap` of a push never panics;
* `Implementation` - `Spec => ImplementsJobService`;
* `SoleOwnership` - `Spec => []SoleOwnerAfterJoins`.

The argument has four layers. `Shape` is inductive by itself: types, which places
a worker or a caller can be in, what it carries there, and that handles are of
jobs already spawned (so that a new work id is new). `Counts` is inductive
relative to `Shape`: workers between pop and delivery are at most
`num_in_progress` (a panicked worker's count stays); unless the mutex is
poisoned, `jobs + in progress + results` is what the callers still have to join;
that number, with the spawn in flight, is within the callers' allowance; and with
an allowance of at most `MAX_THREADS` nobody has poisoned the mutex. `TypeOK`
alone is not inductive: that a delivery may subtract one needs the first
conjunct of `Counts`, and that its push finds room needs the others.

`Placed` says where jobs are: an id is in at most one of the queue, a worker, the
results and the joined ones, no place holds it twice, and every id still queued
is later than every one that was started. `Effects` is the lemma that sums up
what a step can do to the places; from it follow `Placed` and, as the status of a
job in `JobService` is its place, the refinement. `Owned` counts references: an
input has its spawner's, one for each of its queued jobs and one for each that
runs. A job between its run and its delivery has none, which is what the comment
in `do_work` is about; with `Expected` (a queued or held job is one somebody has
still to join) a caller with nothing to join is the only owner.

`NoneAssumption` (a job request is not `None`) is what `Option` gives the code.

### CompressMulti

`CompressMultiProofs`, for any number of chunks and calls, with or without panics
and failing views:

* `ComesBack` - `Spec => []EverythingComesBack`;
* `OrderedPrefix` - `Spec => []OutputIsOrderedPrefix`.

The invariant says which slots may hold an unjoined thread at each place of the
caller (those passed while it spawns, those to come while it joins), that the
references to the input are the caller's and one per running job, and, for the
first call, what is in each slot. `EverythingComesBack` speaks only of a caller
that is idle, so that nothing of it survives a step without them.

### CompressMulti on the pool

`PooledCompressProofs`, for any number of workers, chunks and calls on one pool,
and whether or not jobs panic, as long as a call has no more chunks than the pool
has slots (`CallerAssumption`):

* `Composition` - `SpecAll => ImplementsCompressMulti`: the pool is the spawner
  that `CompressMulti` counts on;
* `PooledComesBack`, `PooledOrderedPrefix` - hence the two results above hold on
  the pool; they are cited from `CompressMultiProofs` through the refinement
  mapping and not proved again.

Every step of the composition is a step of the pool or leaves it alone
(`PoolNext`), so the invariants of `WorkerPoolProofs` hold in it (`PoolInv`), and
only the seam is left. `Composed` is what holds there: a slot that says `Join` has
a handle of its own, of a job spawned in this call (`Slots`, `Tickets`), the
handles the pool thinks are out are among those of the slots (`InPool`), all jobs
are on the caller's input (`OnShared`), and nothing is poisoned, because the
handles are fewer than the slots of the queue (`FewUnjoined`). What the abstract
spawner calls the state of thread `i` is then the place of job `ticket[i]` in the
pool, and `Expected` says that no reply is lost. An abstract step changes that
state for one thread only: `PopsWell` and `EndsWell` show that the jobs of all
others stay where they are. `CallerAssumption` includes that `None` is no work id,
as `Option` gives the code.

### The encoder

`StreamAdaptersProofs` (its first part), for any flags, blocks, metablocks, inputs,
output rooms and metadata (assumed: a block fits a metablock, window headers have 1 to 14 bits,
flags are Booleans, the other sizes are natural numbers):

* `TypeCorrect` - `Spec => []TypeOK`;
* `BitsCorrect` - `Spec => []BitsAddUp`: what the block writers, the seals and
  the metadata header put into the output is what is pending plus what left;
* `MetablocksFit` - `Spec => []UnflushedFits`;
* `CallsSucceed` - `Spec => []AcceptedCallsSucceed`: nothing fails and nothing
  panics, but for `SealRunsOff`, see [below](#disagreements-found);
* `OrderCorrect` - `Spec => []InputInOrder`;
* `OperationsCorrect` - `Spec => []OperationsComplete`;
* `EndCorrect` - `Spec => []StreamEndsAsAsked`.

The invariant `IInv` has five parts. `PositionsOK`: the three positions are in
order, at most a block is unprocessed, and the processed part of a metablock put
off leaves room for one more block; the theorem about metablocks needs the last
two together, neither of which it states. `FirstBytesOK`: as long as a catable
stream without dictionary has not stored both of its first bytes, its position
says how many it has, which is what the assertion of `encode_data` asks.
`OutputOK`: a window header of 14 bits is still in the started byte only while
nothing was written, otherwise that byte holds at most 7 bits. `StateOK`:
metadata remain exactly in the two metadata states. `CallOK`: where the call
is. A lemma per action carries it; `EncodePreserves` is the one for
`encode_data`, which three loops call.

`CallsSucceed` rests on a second layer, `SealOK`, inductive relative to `IInv`:
except at qualities 0 and 1 without catable, no seal is due behind a piece of
metadata, because the encoder's own output goes to `storage_` between the two;
and the panic comes out of an action whose guard is the rest of `SealRunsOff`.

The last three of the list rest on another layer, `KInv`, inductive relative to
`IInv`. `OrderOK`: while a catable stream of qualities 0 and 1 awaits its first
bytes, `last_flush_pos_` and `last_processed_pos_` are the same, otherwise the
block that stores those bytes would begin at the wrong one of the two.
`CoveredOK`: in each state of the stream, how much of the input is covered and
whether the output is at a byte; this is what makes a repeated flush that finds
nothing to do complete. `LoopOK`: what a loop knows of its operation; a call that
found a flush pending, of which the property promises nothing, is told apart here.

### The ring buffer

`RingBufferProofs`, for every window, tail, slack, dictionary, hint and sequence of
writes, if `WindowFits`:

* `TypeCorrect` - no write runs past the allocation;
* `RunsCorrect` - `RunsAreContiguous`;
* `DistancesCorrect` - `DistancesAreReal`;
* `Implementation` - `ImplementsWindow`.

`WindowFits` is a hypothesis and no assumption of the module: `Size` divides
`WrapAt`, the 2^30 positions after which `pos_` goes round. Both are powers of two,
so it holds for every `lgwin` from 10 to 29. With 30 (which `large_window` allows)
the buffer has 2^31 bytes and the statements are false, see
[below](#disagreements-found).

The invariant follows the memory: `Kept` (the byte at the place of each position
of the window is that position's), `Mirrored` (the tail repeats the beginning of
the present lap, or of the last one where the present one has not come to it),
`Shape` (how much is allocated, by the number of bytes written) and `Hashed`
(remembered wrapped positions are those of one lap). `RunsAreContiguous` is not
inductive by itself: it says nothing of the tail before a run can reach it.
`LapBytes` is the lemma all writes share: what one lap leaves at each index of the
array; `MaskedFolds` the arithmetic of `pos_`, whose bit 30 is set for good after
the first round.

### The adapters

`StreamAdaptersProofs` (its second part), for buffers and inputs of any size and inner readers and writers that fail, are short or take nothing in
any order:

* `LossTold`, `Success`, `FinishesAtEnd`, `EncoderIsAccepting` - the four
  properties of the run.

The encoder's invariants `IInv` and `KInv` hold under an adapter, since their
lemmas are about calls with any lengths and an adapter's calls are such. `AInv`
adds what the adapter knows: `UseOK` (it writes no metadata, so that `tiny_buf_`
holds a seal or nothing, and leaves no flush half done with nothing pending),
`StageOK` and `AnswerOK` (where it is, which operation runs, which answer it can
get there), `MadeOK` and `InputOK` (the lengths at hand), `ErrorsOK` (which of the
errors prepared at construction were told, and what was dropped without one)
and `QuietOK` (a flush is left half done only after an error, one that succeeds
is done, and so is a close that dropped nothing). That a call after a failed
flush still completes needs `clean` in `UseOK`: a call that meets an older flush
does nothing but go on with it, so that none ends the stream behind it.

### The commands

`BackwardReferencesProofs`, for every window, input, cut of it into blocks,
dictionary, catable flag and each of the three matchers, whatever matches they
find and whatever these cost:

* `CommandsAreRead` - `Spec => []CommandsInv`, the inductive invariant;
* `SpecDecodesAsMeant`, `SpecRingIsTheDecoders`, `SpecCommandsCoverInput`,
  `SpecCommandsFit` - the four properties of the run.

None of the four is inductive: they speak of a metablock that is written or of the
state between two blocks, and say nothing while a matcher is at work.
`CommandsInv` says at each place what a decoder, which starts from the saved ring,
makes of the commands so far: the bytes meant, the encoder's ring and its position
(`Reads`). Of the last command it says more (`LastIsFirst`): if its distance has a
short code then it is the first of the ring, which is what
`extend_last_command` compares with when it lengthens the copy; a distance beyond
the window never has one. `Room` is what remains of the command array: a command
takes two bytes or more of the block, so that the estimate made before the block
still holds at its end. For the shortest path, `GraphInv` is about nodes: one that
was reached starts from a node no later than `at`, whose way is final (nodes up to
`at` are never overwritten with one that starts later), its short code resolves to
its distance in the ring which the way to that node leaves, and shortcuts point
backwards. From this, `NodeCacheIs` shows that following shortcuts finds the ring
of the whole way (the first four distances of commands that moved it), and
`PathIsRead` that the commands created from any way are read as meant.
`CodeIsResolved` is the lemma all matchers share: the code that
`ComputeDistanceCode` gives to a distance is resolved to it by any decoder with
the same ring.

What a decoder makes of a list of commands is a recursive function over the list,
and so are the ways through the graph and the trails of shortcuts. That they are
defined is shown by a least counterexample (`StatesExist`, `WaysExist`,
`TrailsExist`, from `LeastNumber`), and so are the two inductions over a list that
the argument needs. The assumptions are about sizes (natural numbers, a match has
two bytes or more, `Unknown` is no distance that occurs).

### The blocks of a metablock

`BlockSplitsProofs`, for streams of any length, any least block, any limit of
types and any number of contexts up to it, and every splitter (`SplitAssumption`:
blocks have a least length, the contexts that occur are among those of the map and
clustering may keep one histogram; `BitsAssumption`: a map has at least one bit of
context):

* `EntropiesCorrect` - `Spec => []EntropiesAreCurrent`;
* `SwitchesCorrect` - `Spec => []SwitchesAreRead`;
* `CodesCorrect` - `Spec => []SymbolsHaveCodes`.

For the greedy splitters the invariant says that the histogram being filled is
one of a type yet to come, that the last two types are different once there are
two, and that every block but the last paid for itself: `n` blocks took
`n * MinBlock` symbols, which is why the arrays have room for one more. With one
block, both remembered entropies are of type 0, so that the branch for the
second last type, whose index would be out of bounds, is not taken. While symbols
are stored, the decoder's record is the encoder's, the encoder's last two types
are those of the block it is in and the one before, and the symbols left in the
block are where the block ends less what was stored. That the blocks reach the
last symbol is said by a function of their ends rather than by a sum. For
`ClusterBlocks` it takes two facts about data: positions can be listed in order
(`InOrderLists`) and types are numbered from 0 without gaps (`FirstSeenNumbers`);
the first is proved by a least counterexample (`LeastNumber`), as the library's
induction theorems are of no use to the provers installed.

`SymbolsHaveCodes` has two halves. That the code a symbol is stored with counted
it is about histograms: `CountsOK` says that while a greedy splitter counts, each
symbol inside the ends of a block is in the histogram of that block's type, and
those behind the last block are in the current one. A histogram cleared for a new
type, two joined by a merge and the swap of the last two types keep this
(`BlockMoreCounts`, `LongerBlockCounts`), and so does clustering, which joins and
loses nothing. `CodesOK` carries it to the storing: the encoder's map leads from
the type of the block and the context of a symbol to a code that counted it, and
`StoreSymbolKeeps` says that the encoder is in the block the symbol is in. It asks
for blocks that are not empty (`Solid`), or an encoder that switches once per
symbol would stay behind. That the decoder finds the same code is the round trip of
the context map. For a map that is built (`MapIsRead`) the encoder's and the
decoder's lists agree before each value up to the largest entry of the map, though
the encoder's list ends there and the decoder's has an entry for each code; the
runs of zeros are cut into codes whose values join up to the transform
(`RunsAreRead`, from the last place down). For the map
`StoreTrivialContextMap` writes (`TrivialMapIsRead`) no transform is ever run: the
lemma follows the decoder's list over the contexts of each type and finds the next
type where its own number says. `Pow2`, the lists and the codes from a place on are
recursive functions, which the provers can unfold, and their existence is proved
before their equations are used.

### Only model-checked

* Liveness, which needs fairness and `ENABLED`: `JoinReturns`, `SpawnReturns`,
  `DropReturns`, `CallReturns`, `FinishGoesThrough`, `OtherCallsReturn` and
  `AdapterReturns`.
* `OutputIsConcatenation`, `ErrorsAreDeserved` and `EveryCallMovesOn` of `BroCatli`:
  statements about bits written byte by byte and parsed again. They would be
  inductions over the data on top of an invariant about six stages; TLC goes
  through all alignments.

## Disagreements found

* `pool_overcommit` - `spawn` admits a job while jobs, jobs in progress and
  results together are at most `MAX_THREADS` (`enc/worker_pool.rs:380`), that is
  up to `MAX_THREADS + 1` unjoined jobs, but a queue has `MAX_THREADS` slots.
  A caller with that many makes a push fail, whose `unwrap` panics under the
  lock. The sibling `_push_job` (line 174) compares with `<`. `CompressMulti`
  spawns fewer jobs than that, so only direct users of the spawner can meet it.
* Empty files at the end - an output that was ended, and is then opened again for
  a file that turns out to be empty, is ended in the wrong place when its end marker lies across two bytes, or
  in bits 6 and 7 of one (`offset` of `Expected` is 7 or 6): `flush_previous_stream`
  leaves `last_bytes_len` and the bit offset as if a whole byte followed
  (`concat/mod.rs:320-323`). In the first case `finish` writes its marker eight bits
  too far and the output has no end; in the second a stale byte follows the end. The
  test `test_append_then_empty_works` (`src/src/bin/test_broccoli.rs:187`) covers one ending
  out of eight, and `src/README.md:287` promises appending. The
  same happens with `-w` and nothing but empty files, where the previous stream is
  the one `try_new_with_window_size` makes up. `OutputIsConcatenation` says for
  these lists byte for byte what is put out, and `bro_catli` has them.
* `-w16` - the comment of `try_new_with_window_size` says that the bytes it sets up
  "perfectly mimic what would appear in an empty stream with the selected window
  size" (`concat/mod.rs:230-232`), a window header and two 1 bits. For 16 the header
  is one 0 bit, so the byte should be 6; it is 7 (`concat/mod.rs:244-246`), and the
  first bit of every output is 1, with which a header of four bits or more begins.
  `OutputIsConcatenation` has this bit as its other exception; the run has
  `-w16` in front of every list.
* Metadata before a flush -
  `inject_byte_padding_block` appends the seal of a flush behind
  the pending output at `next_out_` (`enc/encode.rs:1723`). A metadata block that
  the client took in pieces of 15 or 16 bytes, with no room of its own, leaves
  `next_out_` behind the last of them in `tiny_buf_`; nothing but a completed flush
  resets it. At quality 0 or 1 a flush whose data was compressed straight into the
  client's buffer then indexes past the end and panics, where
  `c/brotli/encode.h:347-348` says the call returns. The panic is reached in
  `encoder_stream`; `AcceptedCallsSucceed` says, and `CallsSucceed` proves for metadata
  of any length, that it comes in this case and in no other. `NeverPanics` of
  `EncoderStream`, which says that it does not come, is violated with the constants
  of the run.
* Losses without an error (`LossIsTold`) - a zero-byte write uses up one of the two
  error values of `CompressorWriter`; from the third on `write_all` answers `Ok` and
  the output is gone (`enc/writer.rs:232-239`), where `std::io::Write::write_all`
  returns `WriteZero`. The first two were told to the caller; a close tells nothing.
* A refused write (`EncoderAccepts`) - after a flush that failed with output left in
  the encoder, the next `write` is refused, uses up `error_if_invalid_data` and is
  told as that error; another one panics on `take().unwrap()`
  (`enc/writer.rs:313-315`, and the same lines in `write`). Both are reached in
  `stream_adapters`, and no call is refused in any other case.
* `encoder_hang` - `process_metadata` encodes until `input_pos_` is
  `last_flush_pos_` (`enc/encode.rs:2799`), and the branch of `encode_data` for
  qualities 0 and 1 moves only `last_processed_pos_`. A catable stream of those
  qualities that holds input never returns from `EMIT_METADATA`.
* One byte of metadata (`MetadataAsAnnounced` of `EncoderStream`, violated with
  `Metadata = {1}`) - the header of a one-byte metadata block has no length byte
  (`enc/encode.rs:2737`), which reads as an empty block; the byte follows all the
  same, against `c/brotli/encode.h:127-128`.

* `lgwin` 30 (`RunsAreContiguous` of `RingBuffer`, violated with `Size = 32`,
  `WrapAt = 16`, `Hints = {0}`, `Dicts = {14}`, `MaxInput = 40`) - `pos_` keeps 31
  bits and its bit 30 for good (`enc/encode.rs:825`); a buffer of 2^31 bytes, which
  `BROTLI_LARGE_MAX_WINDOW_BITS` of `c/brotli/encode.h:33` needs, is then written in
  its upper half only, while it is read everywhere.

`pool_overcommit` and `encoder_hang` are runs that end in a violation. The lists of
`BroCatli`, the panic behind metadata and what the adapters lose and refuse are part
of what the properties of passing runs state exactly. The other two are reproduced
by the constants given, the rest of them as in the `.cfg` of the module. Read in passing, without a model: at qualities 0 and 1 `byte_align` and
`bare_stream` are ignored where the last block is written
(`enc/compress_fragment.rs:1189`), against
`enc/backward_references/mod.rs:115-119` and `README.md:260-275`; and line 118
says a bare stream has no header "if not appendable", while `ensure_initialized`
leaves it out for bare streams that are catable. A `read` of `CompressorReader`
into an empty buffer does not return; `AdapterReturns` leaves such a buffer out. `ChooseContextMode` reads the ring from
its start, not from its buffer index, which changes its guess and nothing else.

## Not modelled

The numeric and heuristic parts of the encoder (which match is found, what it
costs, clustering, prior evaluation) change the size of the output, not its
meaning; where they decide between branches the model takes every branch. Huffman
codes, their storage and the two fragment compressors are not modelled yet: pure
algorithms on bits with no state between calls, except the command tables of
quality 0. Tables are generated: of the lines counted as implementation about
200 000 are constants (`static_dict_lut.rs`, `log_table_16.rs`, the dictionaries),
so that the mapped share stays small whatever is modelled. The decompressor is
another crate. The C interface, the bindings and the command line convert
arguments. In `BroCatli`, serialisation copies fields, and streams that are
neither catable nor appendable output of this encoder are left out, as are
callers that pass a full output buffer. In `EncoderStream` the bytes themselves
and the matcher's state are left out (`RingBuffer` and `BackwardReferences` have
them), and `storage_` always has room (`get_brotli_storage`); parameters are set
before the first call. In `BlockSplits` the three streams of a metablock are
independent and one is modelled; the choice of distance parameters is not. In
`BackwardReferences` `allocated` leaves out the slack of blocks that are not the
last, which is stricter. In `WorkerPool` the field `shutdown` is never set, and
`_push_job` and `_try_push_job` are never called. `PROJECT.json` lists every
component with its state of modelling.

## Plan

In this order.

1. Proofs: the stages of `BroCatli`.
2. Entropy coding over bounded inputs: code lengths within the limit and complete,
   the run-length coding of code lengths read back, copy- and insert-length codes.
3. `CompressMultiScoped` as another spawner of `CompressMulti`.
4. The one-pass fragment compressor: its blocks merged and extended while the
   header's length is patched behind it.
