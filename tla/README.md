# Verification of the GPU

This directory holds TLA+ models of the GPU in `src/rtl`, of the golden models in `src/sim` it
is compared with, the TLC configurations that check them on small instances, and TLAPS proofs
that hold for every value of the constants.

Run a check with `tlc -config X.cfg M`, a proof with `tlapm M.tla`. `PROJECT.json` lists the
runs, the definition-to-source map, the faults each property is known to catch, the hazards and
the theorems.

## 1. The system

A host loads programs, constants and memory, then launches grids of blocks or graphics draw
calls.

| part | state | operations | talks to |
|---|---|---|---|
| warp (`cu_core.sv`) | stack of frames (mask, pc, rpc, pend), exited lanes | pop, branch, SSY, SYNC, EXIT | scheduler, pipeline |
| compute unit (`cu_core.sv`) | per-warp bits (resident, finished, at_barrier, in_flight), pipeline registers, memory unit | launch, PICK, FETCH, READ, EXEC, memory walk, barrier release, completion | L1 by request and answer; dispatcher by `start` and the level `done` |
| warp scheduler (`warp_sched.sv`) | pointer | rotating scan | compute unit |
| golden simulator (`iss.hpp`) | the same stack, in software | one instruction at a time | co-simulation benches |
| L1 (`l1_dcache.sv`) | lines, latched request, flush walk | load, store through, atomic forwarded, invalidate all | compute unit; L2 by request and one-clock acknowledgement |
| L2 (`l2_cache.sv`) | lines with dirty bits, latched request, port pointer, flush walk | pick a port, look up, write back, fill, serve, flush | all L1s, global memory |
| GPU top (`gpu_top.sv`) | global memory | wiring, host write | everything above |
| dispatcher (`cta_dispatch.sv`) | next block, launched units, flush reports | launch, dispatch, drain, flush | compute units, caches, host |
| graphics sequencer (`gfx_seq.sv`) | state, descriptor, counters, one-clock outputs | vertex grid, triangle fetch, fragment DMA, fragment grid, output | dispatcher, memory, constants, rasterizer |
| rasterizer (`raster.sv`) | triangle, scan position, fragment buffer, framebuffer | clear, scan, emit, depth test and blend | sequencer or host (`gpu_gfx_top.sv`) |
| golden rasterizer (`gfx.hpp`) | framebuffer, texture pyramid | draw a triangle, sample | benches |
| lane (`decode.sv`, `alu.sv`, `fp_alu.sv`, `sfu.sv`; `isa.hpp`) | registers, predicates | every operation, and its encoding | compute unit; assembler |
| hosts (`sirion_device.hpp`, `rtl_driver.hpp`, `sirion_run.cpp`, `gpubin.hpp`) | program words, entries, the tick it is in | load, constants, memory words, launch and wait | the device's ports, one tick at a time |

The rest (register file, scoreboard, FIFO, counter, the unused `l1_cache`, the compiler, scenes,
viewers, tests, synthesis) is listed in `PROJECT.json` with the reason each is left out.

What is hard here is concurrency by the clock: all registers move at once, pulses last one
clock, levels are late by one, several warps and several units are between two steps of their
own at every moment. The properties that make each part correct:

- a warp: the lanes behave as independent threads, none is lost, the stack is deep enough;
- a compute unit: overlapped execution is equivalent to one instruction of a warp at a time,
  the barrier means what the kernel thinks it means, every block ends, no warp starves;
- the caches: one memory, stores of two units to one line both survive, an atomic happens once,
  the kernel boundary makes everything visible;
- the dispatcher: every block once, nothing reported early, every grid reported;
- graphics: the framebuffer gets exactly the golden model's writes in its order;
- hardware and golden simulator take the same decisions on every program, compute the same
  registers, and leave the same memory for programs whose result does not depend on the order of
  the warps;
- a lane: what the assembler encodes is what the decoder reads, and results stand against
  arithmetic on exact numbers;
- a host: a program it loads is the one that runs, with the arguments of its own dispatch, and
  what it reads back is what the golden model computes.

## 2. Modules

Each step of a hardware model is one clock: the next value of every register is computed from
the values before the edge. Names follow the source; a definition's name with a suffix
(`Diverge_NoJoin`) is a fault, a way the code could plausibly be wrong, used by no specification
and listed in `PROJECT.json` with the property that catches it.

| module | models | abstraction above it |
|---|---|---|
| `SimtFrames` | frames and what each instruction does to a stack, as operators | |
| `SimtStack` | one warp, one action per PICK outcome and EXEC | `LaneThreads`: a pc per lane, no stack, no mask |
| `IssWarp`, `SimtLockstep` | the golden simulator's warp, and it in lockstep with `SimtStack` | |
| `RoundRobin` | the rotating scan of warps and of L2 ports | |
| `CuCore` | the control of a compute unit, one clock per step | `SimtStack` per warp and `BlockBarrier` per block |
| `BlockMemory` | the data of the memory unit: coalescer, line assembly and scatter, shared-memory walk, atomics, for the warps of a block in any order | the golden simulator's block scheduler, `run_block` |
| `InsnCodec`, `IntegerUnit`, `FloatUnit`, `SpecialFunctions` | instruction words, and the arithmetic of a lane, as operators | |
| `LaneDatapath` | a lane executing one instruction, as the golden simulator does and as READ and EXEC do | |
| `Datapath`, `TextureSampling` | the units of a lane and the texture sampler at work | exact arithmetic, and the golden sampler |
| `MemoryWords`, `L1DCache`, `L2Cache` | words, strobes, atomics; each cache as a record and its next value given its inputs | |
| `MemSystem` | the L1s, the L2, memory and the kernel boundary wired as in `gpu_top` | `GlobalMemory`: one memory with late views |
| `CtaDispatch` | the dispatcher with units and caches as it sees them | `GridExecution` |
| `GpuBin`, `HostDevice` | the program file, and hosts at the ports of the device, composed with `CtaDispatch` | `GoldenSession`: each call in one step of the golden model |
| `TriangleMath` | edge functions, weights, depth, perspective-correct attributes | |
| `Raster`, `GfxDevice` | the rasterizer as a record and its next value; the sequencer composed with it, memory, constants and the host | `Rendering`: a command is a sequence of writes, given by `GoldenRaster` and made by the golden model's own output unit, `Put` |

`MC*` modules give the constants their values for TLC, `*Proofs` modules hold the proofs.

### From code to model

- **Warp.** `stack` is the stack of frames up to `sp`, `pend` what SSY leaves for the next
  divergence. `Finish`, `Pop` and `Exec` are `pick_fin`, `pick_pop` and an instruction's way
  from `pick_issue` to EXEC. Predicates are data: a guarded instruction finds its predicate true
  on any set of its lanes. `PcSpace` is 2^PCW and `DONE` its last value; branch targets wrap.
- **Compute unit.** The bit vectors are sets of warps, a pipeline register is a warp with a pc,
  `mu` is the memory unit with its pending lanes and its transaction. `Clock` is the whole
  `always_ff` block in the order that decides which assignment wins: the memory unit's first, a
  dispatch at EXEC over it. The coalescer's choice is any set of pending lanes with the leader
  (one lane for an atomic), and the L1 answers after any number of clocks. `Launch` keeps `mu`
  and the scheduler's pointer as the code does.
- **Memory unit.** `BlockMemory` has one straight program for all threads of a block; an
  instruction names the word each thread addresses. `m` is the memory unit: the
  instruction's pending lanes and the values read so far. `LineRequest` and `LineAnswer` are one
  line: the leader, the lanes whose address falls on its line (one lane for an atomic), the words
  assembled in lane order. `SharedStep` is one lane of the shared-memory walk. Any warp that is
  ready may be next, so all orders of the warps are taken. `run_block` is the golden model's loop,
  each warp to its barrier in turn. They are compared where a program has one meaning: it is
  `RaceFree` (warps that meet at a word between two barriers only read it) or `OnlySumsRace`, and
  `WellDefined`. `Stale` is what a block finds in registers and shared memory; the golden model
  starts them at 0, so a program that reads before it writes is not compared.
- **Lane.** A word is its upper nine bits and its lower 23, so that TLC's integers hold it.
  `Width`, `EW` and `MW` are the widths of a register, of an exponent and of a mantissa. A lane's
  context holds its registers, predicates, place and constants; `IssLane` and `RtlLane` give
  the context after an instruction. `fp_alu.sv` and `sfu.sv` are taken for the reference functions
  of `isa.hpp`, with which their benches compare them bit for bit; the integer unit is translated
  on both sides.
- **Caches.** `L1MemReq` is the combinational request that drops on the acknowledgement. The L2
  reads its ports' latched requests, `out` is what it drives with the acknowledgement, `WritesBack`
  the registered write enable that reaches memory a clock after the decision. `Run` raises any
  requests, `EndKernel` is the flush pulse, `Flush` the dispatcher's wait.
- **Dispatcher.** `running` are the units with a block, `cu_start` the pulse on the way, the
  done level is late as in `cu_core`. A unit takes any number of clocks for a block and the L2
  for its flush.
- **Host.** A call is a record, a session a sequence of them; `at` is how far the current call
  has come, and a step is one tick of the simulation, in which the dispatcher clocks as well. A
  unit's `Kernel` is abstract, but depends on all a host provides: it fetches from its entry to its
  EXIT and adds what it finds, a constant and the grid's size to the word of each of its threads.
  Stores stay in `dirty`, unseen by a host's read, until the L2's flush report. `GoldenSession`
  gives each call its answer in one step.
- **Graphics.** `seq` and `ras` are records of registers; `out` is the sequencer's registered
  one-clock outputs, so what it asks for arrives a clock later. `Rasterize` is the multiplexers
  of `gpu_gfx_top`. A grid is external: launched with a kernel, it ends after any number of
  clocks and then its stores are in memory (what `CtaDispatch` and `MemSystem` establish).
  Addresses are abstract: the buffers of a draw call do not overlap. The constants are the
  vertex shader's until the sequencer has written the three of the fragment shader.

## 3. Runs

| run | instance | shows |
|---|---|---|
| `simt` | 3 lanes, all programs of 3 of BRA/SSY/SYNC and a final EXIT, every guard, in lockstep with the golden warp | `DepthBound`, `FrameBudget`, `ResumePoint`, `NoLaneLost`, `BitExact`, `ThreadsSpec`, `Terminates` |
| `lockstep_call` | 2 lanes, ALU and CALL | violation, see 6 |
| `cu_core` | 2 warps of 2 lanes, blocks of 1, 3 and 4 threads, memory, barrier and exit around a divergent branch | `LiveInFlight`, `DecisionHolds`, `DoneIsFinal`, `WarpsAreSerial`, `BarrierSpec`, `Completes` |
| `cu_fair` | 5 warps of one lane looping for ever | `NoStarvation`, `InFlightOnce` with every pipeline stage full |
| `block_memory` | 3 threads in 2 warps, 34,436 programs of loads, stores, atomics and a barrier | `BlockAgrees` |
| `datapath` | 8-bit registers with 4 exponent and 3 mantissa bits; every operation, all pairs of numbers, whole mantissas of roots and steps of turns in wider formats at the exponents where the cases meet, textures of one to four levels | `LaneAgreement`, `RoundTrip`, `FloatsTruncate`, `OrderIsNumeric`, `IntegersAreExact`, `ApproximationsHold`, `SamplesStayInside` |
| `documented_accuracy` | pairs of numbers and roots of `datapath` | violation, see 6 |
| `mem_system` | 2 units, 2 lines of 2 words, caches of one line | `Handshake`, `CleanIsMemory`, `BoundaryEmpty`, `GlobalSpec` |
| `mem_fair` | 3 units that displace one another for ever | `Answered`, `FlushEnds` |
| `device_host` | 3 units; `sirion_run` and library hosts, whole and cut files, two programs side by side, grids of 0, 1, 2, 4 and 5 blocks one after another, hosts that wait and hosts that give up | `SessionAgrees`, `OwnGrid`, `GridSpec`, `Returns` |
| `gfx_draw` | 2 by 2 pixels, two commands, meshes of one or two triangles, 72 host triangles, two of them with weights of both signs | `GoldenSpec`, `DrawEnds` |
| `gfx_empty_draw` | a draw call without triangles | violation, see 6 |

A state machine's type invariant is checked in its run too; `BlockMemory` and `Datapath`, where a
wrong type is a wrong result, have none.

**Why the bounds are enough.** Three lanes are the least that diverge twice, and the depth bound
is met with equality at three lanes (five frames). Three free instructions allow a loop with a
branch inside, nested SSYs, a branch into a reconvergence point and out of it; the proofs below
remove the bound for what they cover. Two warps let one stall, park or exit while the other moves;
five are needed to fill PICK to EXEC and the memory unit at once. A block of three threads leaves
a lane of its second warp empty; its programs have two or three accesses in every combination of
own word, the other warp's word, one word for all and one for each warp, with a barrier between or
not, and an atomic or a store on words whose line is shared. One-line caches make every access to
the other line a conflict; two words make a line shared falsely. Three units are more than two so
the priority encoder and the arbiter have a middle. Five blocks on three units reuse each, and a
grid of one block after a larger one shows what is left over from the larger. A fragment buffer of
four records overflows with two triangles (one of four pixels, one of three), a block of two
threads makes a full and a partial last block, degenerate meshes give no fragment at all, and
depths below zero test what a fragment record does to them. Numbers of 4 exponent and 3 mantissa
bits overflow, underflow, cancel and carry on rounding in all the ways the wide ones do; the
special functions are checked with the device's 8 exponent bits, because their constants come from
that width, and with as many mantissa bits as TLC's 32-bit integers can multiply (7 for roots, 14
for turns).

`MaxCommands`, the counter of a graphics host's commands, is the only bound that stops a model, so
deadlock is not checked there; nor is it for warps, whose runs end.

The L2's and the L1's set counts are equal in the runs, see 6.

**Fairness.** In the hardware the clock never stops: weak fairness of the clock steps (`FairSpec`,
`LFairSpec`). Beyond that each component is given what the next one establishes: the L1 answers
(`CuCore`; shown by `Answered`), blocks end and caches report their flushes (`HostFairSpec`; shown
by `Completes` for the programs that end and by `FlushEnds`), a grid ends (`GfxDevice`; shown by
`Returns`, whose host waits until the dispatcher says so). A host goes on with its calls, as a
program that has not crashed does. In `Datapath` an answer is taken (`Retire`).
Nothing is assumed of the scheduler or the arbiter.

## 4. Proofs

Each proof module extends the module it is about. All rest only on the named assumptions of the
constants, which TLC evaluates in the runs:

- warps and lanes: lanes are finite and not none and numbered from 0, the instruction memory is
  not empty, programs and entries lie in it, `STACK_DEPTH >= 2 * lanes - 1` (64 for 32 lanes in
  the code), the simulator's program is not empty and fits the memory, and its pc has more bits
  (`LanesAssumption`, `ImemAssumption`, `ProgramsAssumption`, `StackDepthAssumption`,
  `CodeSizeAssumption`, `IssPcAssumption`, `CuAssumption`);
- caches: there are lines, words, sets and ports, and words have an even number of values
  (`MemoryAssumption`, `L1Assumption`, `L2Assumption`, `RequestsAssumption`);
- dispatcher and hosts: there is a unit, grids have a size, and a host dispatches a program it has
  loaded (`DispatchAssumption`, `SessionsAssumption`); files are the assembler's, whole or cut,
  programs end within their words and are placed apart, and constants, words and blocks are ones the
  device has (`ProperAssumption`: what lies outside is cut or wrapped by the device and not by the
  golden model, see 6);
- graphics: target, buffers and blocks are not empty, meshes and triangles are made of numbers and
  a mesh fits the index buffer; a depth cut to what a fragment record holds is no farther than a
  cleared one (`TargetAssumption`, `DeviceAssumption`, `CommandsAssumption`).

Three properties are proved for programs, meshes or triangles of a kind, as said with each: `Plain`,
`Contained`, and `MeshesDrawable` with `TrianglesBlendable`. The last two are the hypotheses of
`DeviceRenders`. A mesh has a triangle, its vertices fit the vertex buffer and its indices name one
of its vertices: without a triangle the property is false, see 6, and past the vertices or the buffer
the device fetches what an earlier draw call left. A triangle that the host submits with blending
has interpolated colours of 8 bits at the pixels it covers: otherwise the property is false, see 6.
`SeenBlendable` proves that of every triangle whose weights 1/w are not negative and whose corners
have such colours. `DrawMeshesAssumption` and `PlacedTrianglesAssumption` have TLC evaluate the
hypotheses for the run.

The theorems, with the invariants they need:

- `SimtFramesProofs`: what each stack operator returns. `ExecShape` and `PopShape` reduce every
  instruction to three shapes: move the top frame, split it in three, or pop it.
- `SimtStackProofs`
  - `TypeCorrect`: types.
  - `BudgetHolds`: `FrameBudget`, the invariant behind the depth. `DepthBound` alone is not
    inductive: that the next divergence fits depends on the lanes left in the top frame. A frame
    at height i has a lane and at most lanes such that i + 2 |mask| <= 2 |Lanes| + 1; a divergence
    puts two frames with fewer lanes each on top, so the sum never grows.
  - `DepthBounded` follows: a frame holds a lane, so its height is at most 2 |Lanes| - 1.
  - `ResumePointHolds`: every frame's lanes come back to a frame that waits at its rpc.
  - `NoLaneLostHolds`: a lane that has not exited is in some frame. This is not inductive: popping
    the top frame loses its lanes unless a frame below has them. `LaneInv` adds that of the frames
    a lane is in, the highest stands at an instruction (`Stands`), and that frames come back to
    instructions, or to `DONE` where no SSY gave them a point, the base frame always (`Points`).
  - `ThreadsImplemented`, the refinement of `LaneThreads`: reading a lane's pc from its highest
    frame, a pop moves no thread, and a divergence moves the threads of one pc, each to its own
    side.
  - `LockstepIsWarp`: beside the golden simulator the warp makes the steps of `SimtStack`, so all
    of the above holds there.
  - `BitExactHolds`: the hardware's and the simulator's frames are the same after every
    instruction. That does not follow from the frames being the same before: the simulator ends
    lanes that run past the code where the hardware fetches on, and a SYNC outside a divergent
    region ends its lanes in the simulator's record and not in the hardware's. `LockInv` adds that every frame stands at
    an instruction or is over (`FramesIn`), that under a frame that returns nowhere its lanes have
    nothing left to do (`Chained`), and that lanes only the simulator has ended are in frames that
    are over (`LostIn`). The hypothesis is `Contained`: no CALL, and every target and every
    instruction that is followed on lies inside the code. Both are necessary, see 6.
- `CuCoreProofs`: `PipelineInvariant` proves the conjunction of `TypeOK`, `InFlightOnce`,
  `LiveInFlight` and `DecisionHolds`. None is inductive alone: that PICK does not offer a warp in
  flight needs the in-flight bits to be right, that EXEC finds the frame PICK saw needs that no
  other instruction of the warp is anywhere, and the types of the stacks need that EXEC finds a
  frame. The step is split by clock and launch; in a clock the places of instructions
  move together (`PlacesNext`) and the warps that move are disjoint (`WhoMoves`, `OthersKeep`).
  `DoneIsFinalHolds` follows: a warp in flight is live, so when no resident warp is left the
  pipeline is empty.
  `WarpsImplemented` and `BarrierImplemented` are proved step by step: a clock steps a
  warp if it executes or is popped (`WarpClock`) and at most one of the two is its own; the
  barrier needs that the parked are resident (`ParkedResident`) and that the warps in flight are
  not parked (`LiveInFlight`).
- `CtaDispatchProofs`: `DispatcherTypes` and `GridImplemented` (each block once, the caches emptied
  once after the last, the grid reported once after that). The strengthening says what makes
  the dispatcher's late view of its parties safe: at most one start pulse is on the way, to a unit
  that is not running, and the done level of a running unit is down (`UnitsInv`); blocks are left
  only while they are handed out, and no unit works once the caches do (`PhaseInv`); caches walk
  only while the dispatcher waits, what is not walking any more is clean, and the L2 is the last
  (`CacheInv`).
- `GoldenSessionProofs`, hosts at the device.
  - `HostDrivesDispatcher`: each step of a host, whatever it calls and whether it waits, is a clock
    of the dispatcher or leaves it alone; a dispatch finds the entry of its load (`EntriesInv`). So
    `GridUnderHost` and `HostTypes` carry over what is proved of the dispatcher.
  - `OwnGridHolds` needs `OwnerInv`: while the dispatcher is not idle or its answer is on the way,
    the launch it took last is the current call's, or the first one the host gave up on.
  - `FileLoads`: a file of the assembler, cut anywhere, is loaded as it was written or refused.
  - `RunByThread`: the fold that `Iss::run` is over the threads of a grid, in closed form.
  - `SessionHolds`: whatever is read back is what the golden model computes. The invariant behind it
    relates every register the calls go through to the golden model's state after as many calls:
    what of a program is in the instruction memory (`LoadInv`), where each load's entry is
    (`EntryInv`), the constant bank with what a file brings (`BankInv`), the golden state itself
    (`GoldenInv`), the dispatcher at rest between calls (`RestInv`), the grid under way
    (`GridInv`: a word of memory, behind what its unit still holds back, has been through the kernel
    if and only if its block has ended), a refused file (`StopInv`) and where words go
    (`WordsInv`). That no two units have the same block is `BlocksApart`; without it a thread's word
    could go through the kernel twice. The hypothesis of `SessionAgrees` that the host has not given
    up on a grid is necessary, see 6.
- `MemSystemProofs`, the caches, for any number of units, sets, lines and words. First one cache at
  a time: `L1Inv` and `L2Inv` say which request is served in which state, where lines are, and what
  the flush's walk has left behind; `CleanInv` that a clean line is the line in memory, also on the
  clock of its write-back. `L2Step`, `MemKept` and `MemPerformed` are the facts about a clock:
  fills, write-backs and drops leave the memory that the L2 shows as it is, and only the request it
  performs changes it, in one word. Then the caches together:
  `IInv` joins the caches' invariants with `Handshake`, that an answer finds its L1 waiting and a
  fill's data is the memory (`AnswerInv`), who waits (`WaitInv`), and what each phase of the kernel
  boundary leaves empty (`PhaseInv`). `HandshakeHolds`, `CleanIsMemoryHolds` and
  `BoundaryEmptyHolds` follow. `MemoryImplemented` is the refinement of `GlobalMemory`: a clock
  performs at most one store or atomic, once, and a view
  of a word changes only to the memory's present one; at the boundary every L1 is empty, so every
  view is the memory.
- `GfxProofs`, the graphics device for any target, buffers, meshes and commands. `GfxInv` follows
  a draw call: what each state of the sequencer has sent (`Outputs`; its outputs are registered,
  so the state that sent them is past), that a grid runs only while it is waited for (`GridRuns`),
  for whom the rasterizer works (`RasterWorks`), and how many words of the records are in memory,
  raw and then shaded (`Records`). `DeviceTypes` is the type invariant: it includes that the
  fragment buffer stays within `FRAG_MAX` and that scan, clear and output unit stay on the target,
  which is not a matter of types (`BoxOnTarget`, `StepInBox`). `FragmentsHandedOver`: the output
  unit is handed the buffer's fragments in order, each shaded once, and a draw call ends when it
  has taken all of them. That needs a thread for every fragment (`ThreadsEnough`), that no grid
  or triangle of another state is still under way, and that the word on its way arrives before
  the next state reads it.
  `DeviceRenders` is the refinement of `Rendering` by the whole device; the two have different output
  units, the golden one blending before it cuts, and `WrittenIs` says where they agree: a step writes the next of
  the golden model's writes, begins a command, or leaves framebuffer and remaining writes alone
  (`Rendered`, one lemma per action, `HostClearRefines` to `DrawRefines`). Its invariant `Renders`
  adds to `GfxInv` what has been fetched (`Fetching`: indices in their buffer, vertices once the
  vertex grid has ended, the corners read so far), what has been drawn (`Drawing`: the records are
  the golden fragments of the triangles before this one, then of the pixels before the scan's, cut
  at the buffer's room), and that a host's scan is of a host's triangle (`HostScanning`). Two
  things carry it.
  `CoveredIs`: the golden model's box of the corners is cut to the target and can be empty; the
  device clamps both ends, so it scans a row or column even of a triangle off the target. They
  draw the same, because a pixel that passes the edge tests lies between the corners: its
  distances to them, weighted by the edge functions, add up to nothing, so they cannot all have
  one sign.
  `ScanPasses`: leaving the box at its right or bottom skips no pixel that is drawn, so the golden
  model's row-by-row list grows by what the scan adds.
- `RoundRobinProofs`: the scan selects a ready index if there is one (`SelectReady`), and a ready
  index that stays ready comes strictly closer to its turn each time another is selected
  (`RotationProgress`), the ranking argument under `NoStarvation` and `Answered`. `Induction` is
  induction as a fact about sets of naturals, from the well-foundedness of their order; the proofs
  about recursive functions (`RunByThread`, `FileLoads`) use it.

`NoLaneLost` and `ThreadsSpec` are stated for programs without SYNC whose control stays inside the
instruction memory (`Plain`): a SYNC outside a divergent region ends its lanes without an EXIT, in
the hardware and in the golden model alike, and so does a branch to the all-ones pc `DONE`.

**Only model-checked.**

- Liveness under fairness (`Terminates`, `NoStarvation`, `Completes`, `Answered`, `FlushEnds`,
  `Returns`, `DrawEnds`) is beyond the prover; `RotationProgress` is the part of it that is a state
  property.
- `BlockAgrees` and the properties of `Datapath`: their modules use bit operators and recursive
  operators, of which the prover knows nothing.

## 5. What is not modelled

- The parts no other part instantiates: `scoreboard`, `fifo`, `counter`, the write-back
  `l1_cache`. The register file is read and written by `LaneDatapath` as a function; that two
  instructions of a warp never meet in it is `InFlightOnce`.
- Text processing (the compiler's and the assembler's parsing, labels), scenes and matrices in the
  host's floating point, viewers, image and wave files, tests, synthesis scripts, the facade
  `gpu.hpp` that only forwards.
- Textures inside the scan: `TextureSampling` has the sampler and the level of detail as
  functions, `Raster` gives a triangle a colour. Colour channels and texture coordinates are one
  value each.
- Grids of two and three dimensions: the hardware has one. Performance counters, debug ports, reset
  in the middle of work.
- Buffers of a draw call that overlap: the addresses of `GfxDevice` are abstract.
- The three models of a compute unit (control, memory unit, lane) are joined by what each assumes
  of the others, as are dispatcher and memory: the flush a grid waits for is a party that reports
  in `CtaDispatch` and a walk in `MemSystem`.

## 6. What the checks found

- **CALL** (`lockstep_call`): `cu_core` has no case for it and falls through to the next
  instruction; the golden simulator branches.
- **A draw call without triangles** (`gfx_empty_draw`): the sequencer compares the triangle count
  after it has drawn one, so it draws whatever the index buffer held before.
- **Documented accuracy** (`documented_accuracy`), two disagreements. `AccuracyAsDocumented` is the
  disjunction of the two claims, each for a whole execution; its counterexample is one execution
  that breaks both, so neither holds.
  - Differences round away from zero: the smaller operand is cut before it is subtracted, so the
    difference comes out too large; `isa.hpp:147` and `ISA.md:136` promise rounding toward zero
    (`RoundTowardZero`). `FloatsTruncate` shows that products and sums of like signs do round so.
  - RCP is off by more than one unit of the last place: `isa.hpp:239` computes one bit less than the
    mantissa has and shifts it left, so the last bit is always 0. `ISA.md:143` and `sfu.sv:4` promise
    one unit (`ReciprocalWithinPlace`). `isa.hpp:230` says about two for RCP and RSQRT, `ISA.md:144`
    for RSQRT: `ApproximationsHold` shows that both do stay within two.

Other disagreements were met on the way. They are outside the runs' instances or part of what a
property states, as said:

- Past the last instruction `cu_core` fetches on, the golden simulator ends the lanes
  (`iss.hpp:216`). The programs of the runs end in EXIT. A warp that
  branches to the all-ones pc ends there.
- The dispatcher collects the L1s' flush reports but not the L2's one-clock report
  (`cta_dispatch.sv:123`). With fewer L2 sets than L1 sets, which `gpu_top`'s parameter allows, an
  empty L2's walk can end first, and the grid is never reported: `FlushEnds` fails with
  `L1Sets = 2` and `L2Sets = 1`. The defaults (64 and 256) are safe.
- The exponent of a product or sum that overflows wraps in its field (modelled so; `FloatsTruncate`
  is stated for results in range). The reciprocal of a number of exponent 253 or more is 0.
- The rasterizer cuts an interpolated colour to 8 bits and then blends it (`raster.sv:252`,
  `raster.sv:260`); the golden model, which `gfx.hpp:133` calls mirrored bit for bit, blends the 32-bit
  value and cuts the result (`gfx.hpp:196`, `gfx.hpp:202`). They differ where a colour leaves its
  range, which takes weights 1/w of both signs: with a blended triangle of weights 2, -1 and 1 and
  colours 0, 3 and 1 among the host's triangles, `GoldenSpec` fails. A triangle
  wholly in front of the camera has no such weights. The run and `DeviceRenders` are about triangles that are
  `Blendable`; opaque ones of any weights are in the run.
- Special registers 10 and 11 (`%nctaid.y`, `.z`) are 0 in `cu_core`, 1 in the golden simulator,
  which also takes the index from eight bits of the word where `cu_core` takes five. Opcodes
  without an instruction write 0 to `rd` in the golden simulator only. `LaneAgreement` leaves out
  the first and the instances the rest.
- `decode.sv` gives atomics no register write where `isa.hpp:325` does; the memory unit writes the
  old value either way.
- A constant's index wraps at the size of the bank in `cu_core`; the golden simulator reads 0
  beyond what was set. A shared-memory index wraps in `cu_core`; in the golden simulator it reads 0
  or is dropped. Instruction, constant and memory addresses of the host are cut to the size of
  what they address.
- `sirion_run` on the hardware never loads the constants of a file (`kconst`), the golden run does.
  A block with more threads than `NUM_WARPS * WARP_SIZE` runs without the rest of them.
- `SirionDevice::dispatch` gives no sign that it stopped waiting, the next launch is ignored while
  the grid runs, and its wait can end with the other's answer. `OwnGrid` says that this is the
  only way; `SessionAgrees` is stated for hosts that have not given up.
- `gfx.hpp`'s level offsets take a texture for square; the sampler in `raster.sv` accepts a level
  count of one with the pyramid enabled.

## 7. Plan

Done: warp, golden warp, compute unit with its memory unit and lane, memory, dispatcher, host,
graphics; proofs of the invariants and refinements of warp, compute unit, caches and memory,
dispatcher, host and graphics device, and of the lockstep with the golden warp.

Next, to prove: that a warp passed over by the scheduler gets its turn, as far as `RotationProgress`
and the pipeline's invariant give it without fairness; what the golden scheduler's loop does to
memory in `BlockMemory`, once its atomics no longer need the bit operators.

Next, to model: dispatcher and memory composed, without the free choice of the flush; textures in
the scan; the compiler's placement of SSY and branches run on `SimtStack`.
