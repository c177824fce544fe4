# RISC-V CPU and Tiny Transformer in TLA+

TLA+ models of the parts of this repository that have control logic worth the
name: the RISC-V core with its cache subsystem (`rtl/cpu`), the attention
accelerator (`rtl/transformer`), and the C programs the core is tested with
(`dv/cpu_sim/riscv_test`): the multi-threaded matrix and vector programs with
the barrier under them, and the allocator of the debug tests.  TLC checks every
module on small instances; TLAPS proves all the safety invariants and all the
refinements, for every size.

Paths are relative to `src/`.  `PROJECT.json` ties every definition that models
code to the lines it models, every property to a fault that breaks it, and every
hazard to the properties that watch it.

## How to read the models

The hardware is synchronous, so a step of its specifications is one clock edge.
A module of a component has

- its registers as VARIABLES,
- its combinational outputs as operators over those registers and its inputs,
- one operator `Clock(inputs)`, the conjunction or disjunction of what the
  registers do at the edge.

A composing module (`DataSide`, `InstrSide`, `Transformer`) instantiates its
components, computes the wires between them from the state before the edge, and
conjoins their clocks.  Interleaving comes from where the design has it:
independent state machines on the two bus channels, memory latencies, requests,
stalls, redirects and fetch misses that may come in any cycle.

The programs interleave: a step of `Spmd` is one core's access to shared memory
or the beginning or the end of one piece of its work, and a step of `TinyMalloc`
is one call.

Operators whose comment begins with `fault` take no part in any specification:
each is a plausible mistake in the definition next to it, and shows that a
property would notice.

Data is reduced to what the properties tell apart: addresses are records of tag,
set and word; a word is a function from byte lanes to a few byte values; an
instruction in the instruction cache is the address it is stored at; an entry of
a matrix of the accelerator is the name of that entry; a number in the test
programs is the set of terms it is the sum of.

## Inventory

### CPU and caches

| Component | State | Operations | What is hard | What makes it correct |
|---|---|---|---|---|
| Write buffer, `rtl/cpu/cache/write_buffer.sv` | ring of stores with valid bits, head and tail with one extra bit | push, drop the oldest when the arbiter is done, forward bytes to loads, answer a fence | push and drop in one cycle, at full, at every wrap | a FIFO; forwarding offers the youngest pending byte |
| Data cache, `dcache.sv` | two ways of lines, LRU bit, refill state machine, refill buffer with valid bits | load hit, store hit (write-through), miss, refill in wrapping order, answer from the refill buffer (critical word first), fill | the requester may move on in the middle of a refill; the hit way is decoded from way 1 alone | no line twice; a cached word is what a load must return |
| Bus arbiter, `bus_arbiter.sv` | a state machine for reads with an owner, one for writes with a latched store | grant (data cache first), route beats by owner, write a word and report it | the two channels know nothing of each other | a burst has the owner that waits for it; the store reported is the oldest |
| Memory, `dv/cpu_sim/direct_test/axi_slave_model.sv` | memory, read and write state machines, latency counters | wrapping bursts, strobed writes | latencies against everything else | part of the environment |
| Instruction cache, `icache.sv` | direct-mapped lines, refill state machine, abandon flag | hit, miss, refill, critical word first, abandon after a redirect | late beats of a refill nobody wants | lines are whole and right |
| Fetch unit, `core/fcu.sv`, `if_id_pipeline.sv` | program counter, ignore flag, critical-word filter, IF/ID | advance, redirect, filter, hand over | redirect, stall, critical word and end of refill in the same cycles | each instruction of the predicted path once |
| Pipeline, `riscv_core.sv`, `hdu.sv`, `fu.sv`, `bru.sv`, `rf.sv`, `wb.sv`, pipeline registers | ID/EX, EX/MEM, MEM/WB, registered redirect, register file | stall, flush, forward, resolve, write back | flush and stall at once; a redirect that comes a cycle late | one instruction at a time, as the instruction set says |
| Predictor, `dbp.sv` | 2-bit counters, target table | predict, train | trained once per stalled cycle | any prediction must be harmless |
| Decoder, immediates, ALU, `cu.sv`, `immgen.sv`, `alu.sv` | none | pure functions | nothing a model checker is better at than the instruction tests | |
| SoC wrapper, `riscv_soc.sv` | none | wires | | |

The fetch unit asks the instruction cache in every cycle in which it is not
stalled; the load-store unit (`lsu.sv`) presents the access in MEM to the data
cache until `dcache_valid`.  Both caches ask the arbiter for bursts; stores that
hit or miss go into the write buffer, which drains through the arbiter's write
channel.  The hazard unit turns `load-use` and `mem_req && !mem_valid` into
stalls, the branch unit a misprediction into a redirect one cycle later.

### Transformer

| Component | State | Operations | What is hard | What makes it correct |
|---|---|---|---|---|
| Controller, `rtl/transformer/Controller.sv` | stage, head | start a stage, wait for `stage_done`, next head | one done wire for eight stages | the order of attention, every head |
| Datapath, `Datapath.sv`, `VectorSRAM.sv` | six memories with read registers, word counter, relay | route reads and the one write per cycle, relay S through the transposer, count words | fifteen matrices in six memories; a stage is done when enough words came | every stage finds its operands |
| Matrix multiplier, `MatMul.sv`, `SA.sv`, `PE.sv`, `MAC.sv` | block counters, accumulators | feed, flush, emit rows while the next block is fed | reads arrive a cycle late; output overlaps input | each entry gets exactly its products |
| Transposer, `Transposer.sv` | two block buffers | rows in, columns out | overlap of blocks | no column from a mixture of blocks |
| Softmax, `Softmax.sv` | counters, two pairs of row buffers, maxima and sums | find the maximum, exponentiate, divide, three rows at a time | parity of buffers, the word that arrives last | each quotient from one whole row |
| DMA, `tiny_dma.sv` | AXI read and write state machines, beat counters | fill and dump the SRAM | read latency of the SRAM | every word once |
| ReLU, LayerNorm | files are empty | | | |

The controller raises a start pulse, the datapath runs the stage and counts
the words it writes, and at the expected count reports the stage done.

### Test programs

All under `dv/cpu_sim/riscv_test`.

| Component | State | Operations | What is hard | What makes it correct |
|---|---|---|---|---|
| Barrier, `benchmarks/common/util.h` | one counter and one sense for all barriers, a thread-local sense per core | arrive, clear the counter, flip the sense, spin | a released core may be at the next barrier while others still spin in this one | nobody leaves before all have come; everybody leaves |
| Matrix programs, `mt/*_matmul.c`, `benchmarks/mt-matmul` | the shared result, a shared copy of B in some | compute blocks of the result, copy, meet, verify | the work is divided by core number, with special cases for one core and for idle cores; barriers are the only synchronisation | no element has a term too few, too many or twice; no element is shared between barriers |
| Vector programs, `mt/vvadd*.c`, `benchmarks/mt-vvadd`, `benchmarks/mt-memcpy` | the shared sum or copy | add, verify, copy, add again; copy by blocks | unrolled loops, leftovers, a last block of another length | as above |
| Allocator, `debug/programs/tiny-malloc.c` | end of the heap, sorted free list | malloc, calloc, realloc, memalign, valloc, pvalloc, free, mallinfo | blocks are split, enlarged and merged; memalign leaves pieces on both sides | chunks share no word, no word is lost, null only for want of space |

A program of `mt/` is linked with one of the two mains: each core enters
`thread_entry` with its number and the number of cores, computes, meets the
others and verifies.  The allocator serves the debug tests and has one thread.

### Ascon

`rtl/ascon`: a state machine for initialisation, associated data, message and
tag around a round-based permutation, with a streaming interface.  Its core is
arithmetic on 320 bits.

## Modules

| Module | Models | Specification it meets |
|---|---|---|
| `CachePkg` | `cache_pkg.sv`: addresses, words, stores | |
| `StoreQueue` | abstract: a bounded FIFO of stores | |
| `WriteBuffer` | `write_buffer.sv` | `StoreQueue` |
| `DCache` | `dcache.sv` | |
| `BusArbiter` | `bus_arbiter.sv` | |
| `AxiMemory` | `axi_slave_model.sv` | |
| `WordMemory` | abstract: atomic loads and stores | |
| `DataSide` | `cache_subsystem.sv`, data side, with its requester | `WordMemory` |
| `ICache`, `FetchUnit` | `icache.sv`; `fcu.sv` and `if_id_pipeline.sv` | |
| `FetchStream` | abstract: the predicted path, each instruction once | |
| `InstrSide` | both, with the read channel of arbiter and memory | `FetchStream` |
| `Machine` | abstract: one instruction at a time | |
| `Pipeline` | the five stages behind a `FetchStream` | `Machine` |
| `Attention` | abstract: which products and quotients make which entry, and which matrix is made of which | |
| `Inference` | abstract: whole matrices from whole matrices, and the output at the end | |
| `Controller`, `MatMul`, `Softmax`, `Transposer` | the files of these names | |
| `Transformer` | `Datapath.sv`, `TinyTransformer.sv`, `VectorSRAM.sv` with all of them | `Inference`, over the entries of `Attention` |
| `Stopwatch` | `Transformer` with a count of its cycles | |
| `SenseBarrier` | `barrier()` of `util.h` | |
| `ProgramSteps`, `MatmulPrograms`, `TestPrograms` | what each core of each program does, at any size: the forty-five `matmul` functions, the five `vvadd` functions, their two mains, and `mt-memcpy` | |
| `Spmd` | cores running such programs on shared memory and the barrier | |
| `Heap` | abstract: chunks that share no word | |
| `TinyMalloc` | `tiny-malloc.c` | `Heap` |
| `MC...` | instances for TLC; `MCPrograms` has the programs, sizes and numbers of cores for `MCMatmul` | |
| `..._proofs` | theorems and their proofs | |

The abstract specifications chain: `InstrSide` implements `FetchStream`, and the
pipeline is composed with `FetchStream` in its place.  The pipeline in turn sees
memory as `WordMemory` promises it, with any number of wait cycles.  `Inference`
knows neither cycles nor memories: it has the set of matrices, or of a head's
columns of one, that are there (`Held` of `Transformer`: the stage that makes
it has passed in this inference, and every word of it is in its place).  `Spmd`
extends `SenseBarrier` and is given the programs as the constant `Code`, so what
is proved of it holds of any program of the same kind.

Correspondences worth knowing when reading against the code:

- **Pointers.** The ring's pointers are the code's: one bit more than a slot
  index.  Truncation is written as a conditional subtraction.  The code needs
  `WB_DEPTH` to be a power of two, as it is (4); the model holds for other
  depths, too, and coincides with the code on those.
- **Power-up.** Registers without reset hold an arbitrary but fixed value
  (`CHOOSE`); nothing may depend on it.  In `Transformer` they hold `Junk`.
- **Latencies.** The memory model's counters become "any number of cycles".
  The test benches use 5 and 5 (`cache_subsystem_tb.sv`) and 15 and 10
  (`riscv_soc_tb.sv`).
- **`DataSide.fetch` and `InstrSide.load`** are the other cache, reduced to
  when it asks for the bus.
- **Predictions** are the address they send the program counter to.  In
  `Pipeline`, `Mispredict` compares addresses where `bru.sv` compares direction
  and target; they agree because no program of the model branches to its own
  successor (`PipelineAssumption`).
- **History.** `DataSide.answer` is the only variable without a register: the
  load answered at the last edge, which `WordMemory` speaks of.
- **Multiplier skew.** The systolic array shifts operands by one cycle per
  element.  `MatMul` lets all elements take their operands when the words
  arrive, and keeps when rows come out.
- **Junk.** An arithmetic unit that is not fed exactly what an entry is made of
  yields `Junk`, as does an uninitialised word.  Shift amounts, saturation and
  the arithmetic of the exponential are left out.
- **Stage of the last head.** The host loads Wo into memory 4 when the last
  head's Z is done, as the test bench does; nothing in the accelerator says that
  the memory is free then.
- **`MatIsSquare`.** `MatMul.sv:128` addresses a row by `k * ARRAY_SIZE` where it
  has `MAT_SIZE / ARRAY_SIZE` words, so the design needs
  `MAT_SIZE = ARRAY_SIZE^2`, as 8 and 64 are.

Correspondences of the programs:

- **Tiles.** The work of a core between two of its barriers is a sequence of
  tiles: the elements of the result a stretch of the loop nest finishes, and the
  terms it adds to them.  `Start` makes the tile's loads and `Finish` its stores;
  other cores move in between.  Loads and stores inside a tile are not
  interleaved one by one.  That is enough because of `NoRace`: as long as no core
  stores what another's tile in progress loads or stores, the order of single
  accesses cannot be observed, and where it can be, the run says so.
- **Sums.** A number is the set of terms added up.  A term added twice, or a
  product of elements of A and B that is none of the sum's terms, makes it
  `Wrong`.  The copies of B that cores share are static arrays: a part nobody has
  filled yet is zero and adds nothing, a tile that finds its part filled by half
  is `Wrong`.
  Rounding has no place in it: the programs add integers.
- **Sizes.** `lda` is a parameter of every program of the model, and what is a
  literal in the code is a literal there.  `Tile` goes by subscripts: C is the flat
  array, and which term a product is follows from the subscripts of A and B, so a
  stride of 32 on rows of 16 gives what it gives in the code.  `mt/Makefile:114`
  links all programs with `DIM_SIZE` 16 (`mt-matmul/dataset.h:8`); 22 of the
  forty-five are right there.  Another 22 have 32, 16, 512 or 1024 as bounds,
  strides or array sizes and, with 16 rows, leave a wrong result on a single core;
  `MCMatmul` has TLC evaluate that (`Misfit`: an element that no tile stores, or
  none without a wrong term).  The run has them on the 32 rows they are written
  for, since on 16 no schedule makes them right and there is nothing to ask.
  `ce` is between the two: right with 16 rows on one core, with a race on two
  (finding 5).  `bc` and `dc` have a branch of their own for 32 rows on two cores,
  and are run on both sizes.
- **Behind the array.** Stores behind the end of the result are left out: what
  is there is up to the linker.
- **Tiles of several rows.** Where a program has no barrier between them, up to
  four rows or columns it does in turn are one tile.  A longer tile overlaps
  whatever its parts do, so no race is hidden.
- **Barrier.** The last core's two stores, the counter and then the sense, are
  two steps in the order of the program, which is the order the instruction set
  simulator makes them in.  There is no fence between them (`util.h:71-72`); a
  machine that lets other cores see them swapped is not modelled.
- **Exit.** A core that calls `exit` stops; the others go on.  In the simulator
  they would be stopped with it.
- **Compiled code.** The steps in `MatmulPrograms` and `TestPrograms` were
  compared with what the compiled C functions do to the shared arrays, and
  `TinyMalloc` with the compiled allocator over random sequences of calls.
- **Heap.** Addresses and sizes are counted in words of eight bytes.  A block is
  its size word and what follows it.  The heap grows upwards, the default of
  the file.

Four constants restrict the environment where the code needs it; each is there
because a run without it shows what goes wrong (see Findings):

| Constant | TRUE means | Without it |
|---|---|---|
| `DataSide!Handshake` | the requester waits for ready and valid, as the test bench does; the core waits for valid alone | `lost_store` |
| `DataSide!Drained` | no load misses in a line that has a pending store | `stale_refill` |
| `InstrSide!CalmRefill` | the core does not stall in the cycle a refill ends, after its critical word | `fetch_twice` |
| `Pipeline!Careful` | MEM does not wait in a cycle with a load-use hazard, a misprediction or a redirect | `stall_flush` |

## Runs

| Run | Instance | Shows |
|---|---|---|
| `evict` | depth 1, 3 lines of 1 word for 2 ways, fences, fetch misses, `Handshake`, `Drained`, `FairSpec` | the data side is one memory through evictions and refills; no line cached twice; every request answered, fetch not starved, stores drain, bursts keep their owner |
| `wrap` | depth 2, 1 line of 2 words, 2 lanes, fences, `Handshake`, `Drained` | beats land in place, byte strobes, the ring is a FIFO that forwards the youngest byte, the way of a store, fences, one memory |
| `fetch` | 2 lines of 2 words for one set, two predictions, redirects to every word, `CalmRefill` | the predicted path once, whole lines, fetching goes on |
| `pipeline` | 343 programs: an increment and three of seven instructions, in a circle; `Careful` | the pipeline implements the machine |
| `attention` | blocks of 4, matrices of 16, 2 heads, restarted without end, with the stopwatch | operands ready, quiet at start, whole matrices from whole matrices, completes, in the cycles that the sizes say |
| `matmul` | 16 rows, one core and two: the 22 multiplications that are right as linked; 32 rows: the 23 others, `ad`, `br`, `dr`, `bc`, `dc` on two cores only, `cf`, `cm` on one only; vectors of 24 on one core and two; `bs`, `vvadd4` and `memcpy` on four | cores meet, no race, every verification passes, every core comes to `exit` |
| `heap` | 12 words; sizes 0, 1, 2, 4, 5; alignments 0, 1, 3, 4; pages of 4 | blocks tile the heap, the free list is sorted and merged, null for want of space alone, alignment, `mallinfo`, disjoint chunks |
| `fetch_twice`, `stall_flush`, `stale_refill`, `lost_store` | as above, without the restriction | a finding each |
| `matmul_race` | `ce` with 16 rows on two cores | a finding |

Why the bounds are enough.

- *Ring*: with depth 2 the pointers count to 4 and wrap, and the ring is empty,
  half full and full at every position; depth 1 makes it full at every store.
  For the code's depth of 4, and any other, there are proofs.  Two byte values
  separate "older" from "younger"; two words of a line separate "same word" from
  "other word".
- *Caches*: sets never interact but through the refill, which holds one index.
  Three lines for two ways make every eviction; a line of two words gives both
  wrapping orders.  `evict` and `wrap` divide the question because together they
  would be a product: eviction with one-word lines, bursts and strobes with one
  line.  The theorems cover the combination, and longer bursts.
- *Fetch*: two lines that evict each other, critical word first or second in its
  line, predictions that stay in the line, leave it and jump into the middle.
- *Pipeline*: five stages, so a fourth instruction back is out of reach of
  forwarding; programs run in a circle, so every distance occurs.  The menu has
  each kind of producer and consumer, register 0 as target, a load whose second
  register field is unused but equal to an earlier load's target.
- *Attention*: 4 blocks each way have first, inner and last ones; two heads have
  a first and a last one, as in the repository's instance.  The run is one long
  loop with an arbitrary pause between inferences; the second one finds what the
  first left behind.  The stopwatch adds no state, for what is on it follows from
  the rest, and takes no step away (`WatchedOnly`); it stops a cycle after
  `InferenceCycles`, which the inference never reaches (`InTimeAlways`).
- *Matrices*: the sizes are the code's own, 16 of the data set and 32 of the
  literals.  Only the three programs that have a barrier after every few elements
  and need 32 rows (`ad`, `br`, `dr`) are left out on one core, for time.  The
  programs name core 0 and core 1, or divide by the number of cores; two cores
  separate these from a single one, and three that divide by the number of cores
  run on four, so that the barrier has cores that neither come first nor last.
  Vectors of 24 leave no remainder on one core or two and divide into pieces of
  eight unevenly; on four cores they have 12 elements.
- *Heap*: twelve words hold up to six blocks, so a block can be freed with free
  blocks on both sides and others in use beyond.  The sizes give equal blocks,
  blocks whose rest is too small to be one, and one that fits only after merging.
  The alignment 0, and 3 which is no power of two, are refused by the code.

Deadlock is checked in every run: the clock never stops, all cores having
exited is a step of its own (`Halted`), and there is always a call to make.

### Fairness

`DataSide!FairSpec` and `InstrSide!FairSpec` assume `WF(Tick)`, the clock runs,
and that the memory leaves its waiting state again and again: its latency
counters count to a constant (`axi_slave_model.sv:110`, `199`).  A request that
is presented stays presented until it is answered; that is in the specification,
not in the fairness.  No fairness is assumed of the arbiter: that a data cache
with priority does not starve fetching follows from the idle cycles between its
requests.  `Transformer!Spec` has `WF(Next)`, again only the clock.
`FetchGoesOn` has an antecedent: the core stops stalling and redirecting.

`Spmd!FairSpec` assumes that every core runs: `WF(CoreStep(c))` for each.  The
simulator executes its cores in turns.  Nothing is assumed of the order.

## Proofs

All are for every value of the constants, under the named ASSUMEs, which say that
sets are not empty and sizes positive, and that a program's requests and a
predictor's answers are of the right kind.  Where the code is wrong without one of
the four restrictions above, the theorem has `Handshake`, `Drained`, `CalmRefill`
or `Careful` as a hypothesis in its statement.  The theorems about a finding's own
property (`LoadsReadLastStore`, `AnsweredStoresArePushed`, `CriticalWordNotRepeated`,
`StallsLoseNothingAlways`) say the rest of it: with the restriction, the property
the finding's run refutes holds for every size, so nothing else is amiss there.

- **`WriteBuffer_proofs`**.  `RingCorrect`: TypeOK and RingInv are inductive
  together.  Count must be at most Depth, for otherwise the slot that a push
  writes could be one that is still valid; and the valid bits are proved equal
  to the slots in use, which the code keeps apart.  `RingImplementsQueue`: each
  edge is Accept, Retire, both, or a stutter of `StoreQueue`, through a lemma on
  what an edge does to the sequence of slots.  `ForwardingCorrect`: the scan
  from the tail meets the slots in use in the reverse order of the queue.
- **`DCache_proofs`**.  `LinesUnique`: NoDuplicateLine is not inductive alone;
  a refill in progress must be for a line that is not in the cache
  (RefillAbsent), which a miss establishes and nothing undoes before the fill,
  for lookups add no lines.  Inputs are arbitrary.
- **`DataSide_proofs`** puts the components together.
  *The buses.*  `BurstsOwned`: with the types of the read channel, the
  property is inductive.  `BeatsInPlace` adds that the memory streams exactly
  while the arbiter is in its data state, and that the memory's wrapped address
  is where the cache puts the next word, kept up by one addition on either
  side.  `OldestDrained`: the arbiter's latched store equals the head of
  the ring until its response; a push cannot reach the head slot because the
  pointers are at most Depth apart.
  *The parts in place.*  `LinesStayDistinct`, `RingStaysConsistent`,
  `ForwardingStaysNewest` and `BufferImplementsQueue` say of the composition what
  `WriteBuffer_proofs` and `DCache_proofs` say of a part under arbitrary inputs:
  every edge of the data side is an edge of the part, with the wires as inputs.
  *The path of a store*, for every program, with `Handshake` and `Drained` or
  without.  `StoresKeepOrder`: what a load must return, `Visible`, is memory with
  the ring over it from the oldest to the youngest, and an edge changes it by the
  accepted store alone.  The argument goes byte by byte: a byte of `Visible` is
  that of the youngest slot that writes it, or memory's.  A push appends a slot;
  a drop removes the oldest, which changes nothing because the byte is in memory
  already.  That needs `HandInHand`: arbiter and memory go through the states of
  the write channel in step, with the same store, and when the response is
  awaited the store has been made.  `FencesFlush` follows, for a fence is answered
  with the ring empty.
  *One memory.*  `DataRegistersTyped`, for every program, adds that a
  beat counter stays inside the line and that the bus is quiet when the cache
  expects no beat.  `CacheStaysCoherent` is proved with five parts around it.
  `WordsArrive`: every word sent so far is marked valid, so the line is whole when
  it is filled.  `LoadWaits`: while the cache refills, the request is the load that
  missed, so nothing is pushed, and its line has no pending store.  This part is
  where `Handshake` and `Drained` are used.  `BufferGood`: the words in the
  refill buffer are what a load must return, for memory holds just that.  A push
  updates the cached word in the same edge (a hit store is written through), and
  everything else leaves `Visible` alone by `StoresKeepOrder`.
  `DataSideImplementsMemory` reads the refinement off: an answered load returns
  the cached word, the buffered word or forwarded bytes, all of them `Visible`;
  `LoadsReadLastStore` is the same fact as a property of the data side.
  `AnsweredStoresArePushed` needs `Handshake` alone: a request that waits for ready
  is not a store while the cache refills.
- **`InstrSide_proofs`**.  `InstructionsIntact`: five parts, for a line is filled
  without looking at which words arrived: bursts are owned, beats are in step,
  every word sent so far is marked valid, so at the last beat all of them are
  (any Words consecutive wrapped indices are all the indices), and lines and
  buffer hold the right instructions.  Redirects, abandoned refills, stalls and
  the data cache's bursts are all in the step.  `RegistersTyped` adds the rest of
  the types.  `FetchImplementsStream` needs two more parts: when the filter says
  that the word at the program counter was handed over, a refill of that very
  line is under way, not abandoned, and does not end in a stall (`HandedOver`;
  the last clause is `CalmRefill`); and right after a redirect a refill is
  abandoned (`AbandonedInTime`).  `CriticalWordNotRepeated` follows from the same
  invariant.
- **`Pipeline_proofs`**.  `TypeAlways` needs no restriction.  The other theorems
  assume `Careful`.  `PathInvAlways` has three parts.  `OnePath`: the instruction in
  MEM leads to the one behind it, or to where the redirect under way goes, and
  before EX every instruction is at the address predicted for it.  `Computed`: the
  one in MEM carries the address or sum that the architectural registers, those
  of WB included, give it.  `Operands`: what EX read in ID is still right unless an
  older instruction in flight writes that register, and that one is no load in
  MEM, thanks to the load-use stall.  From the last, the forwarding paths deliver
  what an instruction behind MEM should see (`ForwardSees`), which keeps the other
  two up.  `ImplementsMachineAlways`: an edge at which an instruction enters WB is
  a step of `Machine`, any other is a stutter.
- **`TinyMalloc_proofs`**.  The argument is about words, not lists.  `HeapInv` says
  that every word of the heap lies in exactly one block, live or free (`Tiled`),
  that the free list is sorted with a gap between neighbours, and that each chunk
  is as large as asked for (`Served`).  A list operation is reduced to what it does to the
  set of blocks (lemmas on removing an entry, on inserting one between two
  neighbours, and on merging with either or both); then every call replaces one
  block by two, two or three by one, or one by another on the same words.  From
  it come `HeapTiledAlways`, `FreeListOrderedAlways`, `AlignedOrNullAlways`,
  `NullMeansFullAlways`, the types, and the refinement `ImplementsHeapAlways`.
  `InfoAgreesAlways` needs the fold of `mallinfo` over the free list: the
  sizes of blocks that lie apart add up to the number of their words (`SumOfApart`).
  That is an induction over finite sets of blocks, made without an induction
  theorem: were it wrong for some subsets, there would be a smallest one
  (`WFMin` on strict subsets, `SubsetInduction`), and taking out the block the fold
  picks gives a smaller one.  The words of the free and of the live
  blocks are the words of the heap by `Tiled`.
- **`Spmd_proofs`** begins with the barrier.  `BarrierIsRendezvous`: Rendezvous is not inductive.
  The counter equals the number of cores whose own sense differs from the shared
  one, until the last has come, and that one finds all of them waiting
  (`CountInv`); exactly these are inside (`PlaceInv`); and they have entered one
  barrier more than the others (`EnteredInv`), so that a core cannot be two
  barriers ahead.
  `CoresMeet` carries that over to programs.  `PhasesKeepApart`:
  the number of barriers a core has entered is the number of barrier steps it is
  past (`CountsInv`), so two cores at work are in the same phase of their
  programs, and if steps of one phase do not conflict there is no race.
  `SumsComeOutRight` goes on to the verdicts.  An element of the shared result
  holds exactly the terms of the tiles stored so far (`MemoryInv`), and a tile in
  progress holds what its elements will be (`HeldInv`).  The lemma
  between them is `StoredBefore`: the tiles that have stored what a core is
  about to load are, in every interleaving, those that come before its step on
  paper, its own earlier ones and those of earlier phases. So every sum is the
  one that can be read off the program, and a verification, which is a load as
  well, finds what is wanted. `ProgramTypes` holds with races, too.

  Their hypotheses are facts about a program text, without any interleaving:
  `PhasesDisjoint`, no step between two barriers stores what another core's loads
  or stores; `SumsRight`, the terms of the tiles that come before a verification
  add up to what it wants, none twice; `TermsWanted`, no tile adds a
  foreign term.  TLC evaluates them as assumptions of `MCMatmul` for all one
  hundred and one instances of a program, a size and a number of cores.  `ce` with
  16 rows on two cores fails `PhasesDisjoint`, as the fifth finding would have it,
  and so do `cf` and `cm` with 32 rows.
- **`Transformer_proofs`**.  `StagesDoNotOverlap`: QuietAtStart says nothing of the
  cycles of a stage, and all of them are needed.  `TimeInv` gives the state of each
  unit in each.  For a product that is a pair of numbers (`Multiplying`): the
  blocks fed and the cycle in the next.  From it follow the rows inside the
  array, for those of at most two blocks are on their way at a time, each with its
  age (`Ages`); the column that the transposer is at; and the words written so
  far (`Out`).  The last word is out in just one cycle (`LastOut`), and in that
  cycle nothing is left inside.  Softmax (`Normalizing`) and relay (`Relaying`) have
  such a description each.  That the number of heads divides the blocks is what
  makes the two word counts of `TargetWriteCount` come out (`Sizes`, `Task`).

  `OperandsAreReady`: OperandsReady speaks of the moments at which a stage starts;
  what is there then depends on every word written before.  `DataInv` says that
  the words written so far in a stage are the first of the matrix it makes
  (`SoFar`), that the memories hold what this stage and all later ones are
  going to read (`Holds`), and what each unit has inside in that cycle:
  the pairs in each accumulator and the entries of each row on its way out
  (`ProductData`), the maxima, exponentials and sums of three rows of the softmax
  unit (`SoftData`), the rows in the transposer, fed by the multiplier or by
  the relay (`Filled`, `RelayData`).  With that, the word on the write port is the
  next one of the goal (`RightWrite`).  Two facts about the addresses
  close the argument: the words of a stage go to different places that are all of
  its matrix, or all of its head (`SpotOnto`), and an accumulator that was fed the
  pairs of one entry, each once, has made that entry (`DotIs`; `QuotientIs` for
  softmax).  Z overwrites Q in memory 3 a head at a time, which is why `Holds` tells
  the columns of that memory apart by head.  `DataInv` is inductive together with
  `TimeInv` and `Types`.  `TypeAlways` follows but for the counters that
  no word count bounds (`Bounded`).

  `ImplementsInferenceAlways`: every clock edge is `Load`, `Work` or a stutter of
  `Inference`, although a matrix is held or not held in every cycle of every stage
  and not only when one starts.  A right word that is written belongs to no part
  that counts already: it bears the name of the part its stage makes, and that one
  does not count before the stage has passed (`Clash`).  So a part that counts and
  is in place after the edge was in place before it (`StaysInPlace`); a part begins
  to count when its stage passes, and only then (`CountsNext`); and what it is made
  of is in place at that moment, which is `Holds` again, read for one head
  (`OperandsHeld`).

  `InTimeAlways`: the registers of the unit at work tell how long it has been at it
  (`Along`): the pair of `Multiplying`, the row and word of the softmax unit, the
  counter of the relay and then its last column.  One cycle adds one to that number
  (`AlongStep`), it never exceeds what the stage is given (`AlongBound`), and the
  last word comes when that is used up; the stages before it add up to `Before`.
  So an inference takes `InferenceCycles`, and with the repository's sizes (8, 64
  and 2 heads) that is 27,437; `dv/tiny_sim/Transformer_MHA_tb.sv:139` waits five
  million of them.  The theorem is the part of Completes that needs no fairness: no
  behaviour of the model puts more clock edges between start and end.

Only model-checked:

- Liveness under fairness, everywhere, and with it ENABLED, which is beyond the
  prover.  For the accelerator the theorem about its cycles says more than
  liveness does, but for the ticking of the clock.

## Findings

Each is a run TLC ends with a trace, and concerns a line in the code that says
otherwise.

1. **A critical word is decoded twice** (`fetch_twice`, `core/fcu.sv:124`).  A
   stall in the last cycle of a refill keeps the program counter but clears the
   filter that says its instruction was handed over.
2. **A flush during a data wait loses an instruction** (`stall_flush`,
   `core/riscv_core.sv:145`).  Flush beats stall in the pipeline registers; a
   load-use bubble, or a redirect, that comes while MEM waits clears an
   instruction that the stall was to hold.
3. **A line is refilled under a pending store** (`stale_refill`,
   `cache/dcache.sv:253`).  The refill reads memory before the store drains.  The
   first load is saved by forwarding, later hits return the old byte.  Reachable
   with the latencies of `riscv_soc_tb.sv` when at least three stores are queued in
   front of the load.
4. **A store is answered but not made** (`lost_store`, `cache/dcache.sv:322`).
   The core stalls on valid alone, and during a refill valid does not look at the
   kind of request.
5. **A core adds to rows of the other** (`matmul_race`, `mt/ce_matmul.c:50`).
   `ce` divides the columns as if there were 32; "we already know the size", says
   the comment above, but the size it is linked with is 16
   (`mt-matmul/dataset.h:8`).  What it adds to the next row is zero, so on one core
   the result is right.  On the two cores `mt/Makefile:84` runs it on, core 0 loads
   and stores the first row of core 1, and a sum core 1 stores in between is lost:
   the program fails its own verification.

Seen while reading, without a run: `tiny_dma.sv` reads the SRAM as if its
answer came in the same cycle while its comments say it comes in the next
(`tiny_dma.sv:229`); the predictor is trained in every cycle a branch waits in
EX (`dbp.sv:83`); the integer part of the softmax exponent is kept in four bits
(`Softmax.sv:146`); with more than two heads the ranges of shift amounts overlap
(`Controller.sv:190`); 22 of the forty-five multiplications, linked with 16 rows as
the makefile does, overrun their arrays or compute another product and fail the
verification of `mt-matmul.c:54` on one core already (`ad`, `af`, `al`, `am`, `at`,
`av`, `ay`, `az`, `bf`, `bk`, `bo`, `br`, `cf`, `cl`, `cm`, `cv`, `cy`, `df`, `do`,
`dr`, `du`, `dv`), and six of them (`al`, `bf`, `cf`, `cl`, `cm`, `df`) also store
each other's elements on two cores, as columns 16 to 31 of a row are the next row
(`mt/al_matmul.c:70-120`); `cf` and `cm` divide the terms of the sums instead of the elements
(`mt/cf_matmul.c:47-48`, `mt/cm_matmul.c:44-45`), so with 32 rows, too, both cores add
to every element without a lock, from the two ends of the matrix, and may lose an
addition where they meet; `br` and `dr` are right on at most two cores, for
on four their blocks of sixteen columns overlap (`mt/br_matmul.c`) and a core adds
zeros to elements of another; `vvadd1` on two cores runs over the end of the
vector of 1000 by eight elements (`mt/vvadd1.c:9`), and is left out on two cores
for that reason.

## Not modelled

- `jalr`, `lui` and `auipc` in the pipeline: a different first operand or target
  on paths that are there.  The widths and signs of loads and stores (`lsu.sv`).
- The predictor's counters and table (`dbp.sv`).  Any prediction is allowed in
  their place, which covers every state they can be in.
- Decoder, immediates and ALU: pure functions of one instruction.  The SoC
  wrapper: wires.
- Error responses on the bus: the code ignores them and the memory never
  sends one.
- Arithmetic of the accelerator; the skew between elements of the array.
- DMA: its correctness rests on the timing of an SRAM that only its test bench
  has.  Ascon: what makes it correct is the standard's arithmetic.  ReLU and
  LayerNorm: empty files.
- In the allocator: `malloc_stats` only prints, `mallopt` does nothing, a heap
  that grows downwards, the overflow of `calloc`'s product, and `CAN_ALLOC_P` once
  the stack is within the gap (`tiny-malloc.c:115` is an unsigned difference).  The
  file says itself that a stack growing into the heap goes unnoticed.
- Under `dv/cpu_sim/riscv_test`: `isa` (instruction tests) and the single-core
  benchmarks are third-party programs for one core; `debug/programs` other than the allocator are targets for a debugger that is not
  in the repository.  `dv/cpu_sim/sw/main.c` is a straight sequence of loops on one
  core.

## Where to go next

1. `TinyDma`: the read and write state machines before an SRAM that answers at
   once or a cycle later; property: every word is transferred once, in order.
2. The systolic array element by element, refined to `MatMul`'s accumulators.
3. Lane selection of `lsu.sv` and the fixed-point steps of `Softmax.sv` as
   operators against reference definitions.
4. `AsconFsm`: blocks, padding, backpressure.
