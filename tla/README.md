# Radiance kernels: a TLA+ development

The repository holds the run-time library and the kernels of Radiance: SIMT
kernels for the Muon GPU (two cores per cluster, eight warps per core), the MX
GEMM library that drives the Gemmini tensor core, and the host programs that
launch them from a RISC-V processor on the same chip. The machine has no
coherent L0 data cache, no flush unit and no ordered ports between its engines,
so the software carries the burden: every hand-over of data between warps,
cores, engines and the host is a protocol in C, and most of the long comments
in the source are about such protocols going wrong. This development models
those protocols and the order in which the kernels use their scratchpads,
model-checks them with TLC and proves some of them with TLAPS.

Paths leave out the leading `src/` that modules and `PROJECT.json` write.

## 1. Inventory

### Parts that are modelled

| component | code | state it keeps | operations | what is hard | what makes it correct |
|---|---|---|---|---|---|
| launch protocol, host | `lib/include/rad_host.h`, `kernels/tapeout_template/host.cpp` | expected generation per core, the two polls, the reset line, buffers in GPU DRAM | hold GPU, write inputs, read generations, reset edge, wait for START, wait for DONE, stop | the postbox survives resets and reprograms; an older image may run; both waits are bounded; the generation wraps | success means *this* launch, on every core; inputs are not overwritten; the host always returns |
| launch protocol, GPU | `lib/include/rad_tapeout.h` | START, DONE, TRACE and STOP slots, warp positions, lines in store queues and caches | `rad_tapeout_begin`, `rad_tapeout_epilogue` | write-back by eviction alone, two cores draining one L1, warps that retire for good, stores that land late | DONE means durable and quiesced; no barrier waits for a retired warp |
| kernel scheduler | `lib/src/mu_schedule.cpp`, `main()` of the fused kernels | `schedule_context` in memory and in each L0d, spawned warps, barriers | write context, rendezvous, wspawn, read context, body, retire, next launch | non-coherent copies, evictions at any time, managers that do not wait for workers | a warp runs its own launch's context; elements are covered once; phases stay in order |
| scale refill by the host | `kernels/fa_mx_hostsf/` | mailbox in SMEM, four halves of the scale SRAM, scratchpad operands, tile counters | handshakes QK, V and pack, refill windows, config replay | host and two clusters of different speed, a port that must not be shared, bounded waits, an SMEM undefined at reset | the mesh reads its own tile; the port is exclusive; all tiles finish |
| MX GEMM pipeline | `lib/mxgemm/mxgemm_lib.hpp` | Gemmini queue, double buffers, scale halves, accumulator, C | move-in, matmul, scale stores, fences, barriers, move-out | three engines on parity-selected buffers; stores that land late; two unordered ports | each matmul on its tile; the copied product is whole |
| task spawning | `lib/src/vx_spawn.c` | arguments of the stubs on the stack of warp 0, awake warps | share of a core, spawn, stub of a warp, wait, remainder | offsets computed apart from each other in rounding divisions; a record that workers read while warp 0 goes on | each task once; no worker outlives the call |
| flash attention, streaming | `kernels/flash_attention_mx_gqa`, `flash_attention_mx_gemma`, `fa_mx_hostsf` | tiles Q, K, V, S, P, PV, row state (m, l, acc, corr) in the scratchpad, scales in the scale SRAM | move in, QK, softmax, requantise, pack scales, PV, rescale, finalize, per block and head | warps, DMA and mesh share buffers that hold one thing after the other; a barrier alone makes no store visible | nothing is read while it may be written; every stage works on its own tile; rows come out in order |
| flash attention bring-up | `kernels/fa_stable_fpga` under FULL_ATTN2 FA_SP | the same, with K and V resident, per build | the stages S0 to S6, OPV's A to E, SQ32's S1 to S6, chosen by some thirty switches | which stage overlaps which changes with every switch; BUSY rises late; banks must not be shared; a sweep of the scale memory cannot be restarted | the same, and the rules for banks, sweeps and NOOVL |
| Virgo and tensor-core kernels | `kernels/flash_attention_virgo`, `sgemm_tcore`, `sgemm_wg`, `sgemm_gemmini_dma` | tiles in two buffers each, by group or by parity | move in, products, softmax, rescale; two groups that alternate, or loops of the mesh two tiles behind | groups of warps with barriers of their own; `virgo_fence(n)` leaves n loops running | the same |
| SIMT and streaming products | `kernels/gemm_simt`, `softmax`, `gemm_mxgemmini_ws_restream` | operands in shared memory, reductions in one buffer | copies, reductions, products per block of rows | a buffer that is used again in the next step | the same |
| encoders | `requant_P_to_spad_tiled` and its two fast forms, `simt_quant` | none (a block of numbers) | number to e4m3 code, block to e8m0 scale | two numbers in one word; rounding across binades | the code and the scale stand for the number |
| scratchpad layout | `GemmConfig::SPAD_DEST`, `calculate_spad_addr` | none (compile-time) | choose a place for C | unsigned wrap-around, boundaries | C overlaps no operand, and is only rejected when it cannot be placed |

How they interact: the host releases the GPU from reset (`rad_host_run`);
`main()` on the GPU calls `rad_tapeout_begin`, then `mu_schedule`, which spawns
the warps of every core into a kernel body; the body may call `mxgemm`, and the
flash-attention kernels run their stages on the scratchpad and, in
`fa_mx_hostsf`, exchange sequence numbers with the host on every tile;
the body ends in `rad_tapeout_epilogue`, whose DONE the host polls for before it
resets the GPU. `Device` is the contract in the middle: `HostRun` composes it
with the host, `Epilogue` implements it.

### Not modelled

| part | code | why |
|---|---|---|
| startup, stacks, TLS | `lib/src/mu_start.S`, `vx_start.S` | the race of `main()` with the warps that set up their registers ends in a `wspawn` of a running warp, whose effect is documented nowhere: a model would show its own assumption |
| the bodies of `flash_attention_mx` and `flash_attention_mx_stable` | some 6290 lines each | copies of the body of `fa_stable_fpga` at other commits; FA_SP is modelled once |
| sequential body of `fa_stable_fpga` (`kernel.cpp:5743-5924`), FULL_ATTN and the warp-by-warp FA_STEADY of `fa_mx_hostsf` | | they have no barrier between softmax, requantisation and pack (FA_STEADY: none after finalize), so that their first property is false by inspection; see section 4 |
| WARPSPEC, WS_ and ISO_ builds of `fa_stable_fpga` | | experiments that the comments retire; they stop or measure instead of computing a result |
| `sgemm_gemmini` | `kernel.cpp` | in its fp16 build the even tile of B lies inside the even tile of A, and DBUF drops the barrier that keeps a warp from storing the operands of step k + 2 while the mesh reads those of step k; see section 4 |
| `sgemm_gemmini_duo`, `sgemm_muon` | | what the CISC opcodes and tensor instructions wait for is in the hardware |
| `sgemm_tcore/kernel.warpspecial_dma.cpp`, `kernel.activation.cpp`, `sgemm_tcore` without DMA | | a measurement that never writes C; a variant that activates the tile it is computing; a path without coordination besides that of `sgemm_wg` |
| `flash_attention`, `kernel.gemmini.warpspec.cpp` | | the first ends in "TODO: threadblock barrier here"; the second leaves flags of its hand-over uninitialised |
| other SIMT kernels | `vecadd`, `gemv`, `rmsnorm`, ... | grid-stride loops of independent threads over floating-point data; the partition they share is `WorkIsDivided` |
| tests and microbenchmarks, display demos | `kernels/ubench`, `bad_apple`, ... | straight-line programs without coordination |
| launcher for simulation, console, counters, device headers, golden models, scripts | see `PROJECT.json` | I/O, formatting, encodings, offline numerics, build infrastructure |

A large part of the repository's lines is no program of its own: operands and golden
results in headers, the vendored `half.hpp` (twice) and `gemmini.h`, three
copies of one flash-attention kernel and two of its libraries. That is why the
modelled lines are a small share of all lines.

Behind the modelled code stand parts that the repository uses but does not
contain: `vx_wspawn`, `mu_barrier`, fences, the caches, Gemmini's command queue.
Each is modelled from what the code and its comments rely on, and said to be so
in the module.

## 2. Modules

| module | models | composes |
|---|---|---|
| `Postbox` | slots of printBuf, `RAD_EPI_NEXT_GEN` | |
| `Device` | what a tapeout kernel promises the host, per core | `Postbox` |
| `HostRun` | `main()` of the template and `rad_host_run`, several launches | `Device` |
| `HostRunProofs` | six theorems about `HostRun` | |
| `Epilogue` | one launch warp by warp, down to store queues and caches; implements `Device` | `Postbox`, `Device` (refinement) |
| `EpilogueProofs` | six theorems about `Epilogue`, the refinement among them | `Device` |
| `MuSchedule` | `mu_schedule` under a `main()` of several launches | |
| `MuScheduleProofs` | six theorems about `MuSchedule` | |
| `ScaleRefill` | host, mailbox and clusters over the tiles of a flash attention | |
| `ScaleRefillProofs` | six theorems about `ScaleRefill` | |
| `MxGemm` | one `mxgemm()` call: thread 0, Gemmini, memory, all warps | |
| `MxGemmProofs` | five theorems about `MxGemm` | |
| `VxSpawn` | a call of one of the four spawn functions, on every core | |
| `VxSpawnProofs` | five theorems about `VxSpawn` | |
| `SpadLayout` | `SPAD_DEST` in wrapping arithmetic | |
| `Encoders` | the encoders of P and the quantiser | |
| `ArithmeticProofs` | two theorems about `SpadLayout`, two about `Encoders` | |
| `TileOps` | the operations that kernels are written in | |
| `TilePhases` | warps, DMA and mesh that execute a kernel's script on a scratchpad | `TileStream` (refinement) |
| `TileOrder` | conditions on a script under which `TilePhases` is safe, evaluated without running it | `TilePhases` |
| `TilePhasesProofs` | nine theorems about `TilePhases`, from those conditions | |
| `TileStream` | what a kernel that works through tiles promises | |
| `FlashPrograms` | scripts of the grouped-query and Gemma flash attention | `TileOps` |
| `HostsfPrograms` | scripts of `fa_mx_hostsf`: streaming, FULL_ATTN2, FULL_ATTN3, FA_PIPE | `FlashPrograms` |
| `StablePasses`, `StablePrograms`, `StableShifted` | passes of `fa_stable_fpga`, its unshifted body, its two shifted bodies | each the one before |
| `GemmPrograms`, `VirgoPrograms` | scripts of the products, of `softmax`, and of the Virgo kernels | each the one before |

`MC*` modules only supply values for CONSTANTS; `KernelPrograms` lists the kernels and their
builds, `MCTilePhases` runs them, and at the start of each has `MCTileOrder` compute a clock and
evaluate the conditions of `TileOrder`. `MCMxGemm` joins `MxGemm`, `SpadLayout` and `Encoders` in one
run: a behaviour is a run of the pipeline, one GemmConfig or one input of an encoder. Operators marked "Mutant" are
plausible faults of the definition that follows; nothing refers to them. They
say how each property can be broken.

### Postbox, Device, HostRun

A START slot is a generation: tag and 24-bit counter in the code, `<<tag, n>>`
with n below `GenMod` here. `expect[c]` is `RAD_EPI_NEXT_GEN` of what the slot
held, and the test is for equality. The host's loops over the cores are a step
per core (`at`), because the GPU runs between any two of its loads; a poll
counts from zero on each pass (`started`, `finished`), as the code does, and
gives up after `StartSpins` or `DoneSpins` passes. `StopGpu` is the write that
latches reset on every core. `Init` is SoC reset: any postbox, and the cores
already in whatever image DRAM holds, which is what
`tapeout_template/host.cpp:38-40` guards against and what `HoldFirst` stands
for. `NextProgram` is the next launch: by the same `main()`, or by another
program after a SoC reset. `startedNow` and `doneNow` are history: what the
core has posted since the host released it.

### Epilogue

A warp's output is one line that goes from its store queue to the L0d of its
core, the L1 and DRAM. `Land` and `Evict` happen at any time; a drain forces
eviction of one set after the other. `mu_fence` moves nothing (its comment at
`rad_tapeout.h:402-406`: it retires at the queue's head and does not wait for
the L0d). So the code's correctness rests on time: stores must have landed by the
end of one of its pauses. `LandBy` names that assumption; the run takes the
weaker one that suffices, "by the end of the settle time between the passes",
and it is there that the second drain pass is needed. `DevOf` and `OutOf` map a
state to `Device`: a core whose warp 0 is past its drains while a line of its
own is not in DRAM maps to "work", so that `KeepsPromise` fails whenever DONE can
precede the data.

### MuSchedule

A word of the context is the number of the launch that wrote it. Every core has
its own copy of the line with a state (invalid, clean, dirty); `Evict` writes a
dirty copy back whole. A core's warps can only evict the line when they access
other memory, which a manager does not do between its three stores and its
barrier. `vx_wspawn` on a warp that still runs is not documented: it may start
over or go on (`kept` in `Spawn`). A program is the list of launches of a
`main()`, each with its occupancy and whether its body ends in a barrier, with
whether the context's line can be evicted; a behaviour runs one of `Programs`.

### ScaleRefill

Builds FA_STEADY FA_NOSCALES FA_HOSTHS, with FA_HOSTCFG (the host replays the
configuration and move-in) or FA_HOSTPACK. `build`, chosen in `Init` among `Builds`,
says which, whether its waits may expire and what SMEM holds at reset. Data is the number of the tile it
belongs to. The host's bursts are a queue of single writes, so the clusters run
between any two of them. `waitsExpire` lets a bounded wait run out before its
condition holds; `expired` remembers it and the properties are conditional on
it, since the code offers nothing beyond the bound. `QkIssue` waits for the host
to have left "boot": the GPU was measured to reach its first prefetch long
after the host has cleared the mailbox (`host.cpp:97-100`), and the code has no
handshake for it.

### MxGemm

Thread 0 queues commands; Gemmini starts them in order but the DMA and the mesh
run side by side; scale stores and the mesh's result land later. A buffer that
is being filled holds `Nothing`, a product is the sequence of tiles added up.
`accToGmem` is chosen in `Init`: a behaviour is the run of one GemmConfig. The
extra scale load after the last tile is there. A block-wide barrier is "every
warp has arrived". The switches that are off by default
(`mxgemm_lib.hpp:165-175`) and the LUT are left out. `mu_fence_smem` does what
its comment says, order the SIMT stores and the mesh's result stores with the
loads and commands that follow.

### VxSpawn

A behaviour is one call, made by warp 0 of every core. `EqualShare` and
`ClusterShare` are the arithmetic of a core, `StubTasks` that of a thread in the
stub of each function, `Group` the way from a number to a work group, with
shifts where the code shifts. `args` is the record on the stack of warp 0:
`RunRest` moves its offset, as the code does, and a stub reads it only when its
warp runs. An execution remembers its thread, so that a task that runs twice is
two executions. Integers are unbounded; the products of the code are taken to
fit an `int`.

### SpadLayout

A behaviour is one GemmConfig: `a`, `b`, `c` are the rows of a tile of A, B and
C. `Minus` is `uint32_t` subtraction modulo `WordSpan`. `OperandsFit` (each operand
within its quarter) holds of every GemmConfig in the repository; `SPAD_DEST`
does not check it.

### TilePhases and its scripts

The kernels that keep tiles in a scratchpad have no data-dependent control: which
warp does what to which buffer, and when it fences and meets the others, follows
from the source and the build switches. A kernel is therefore a script, one
operation after the other in the order of its source, each with the warps that
execute it (`who`), the places it reads and writes, and the tag of what is meant
to be there: `<<"S", 2>>` is the scores of tile 2. The loops are unrolled by `Loop`, the
switches are members of a set of strings `b` and conditions on it (`When`). What
`TilePhases` adds is time. Each warp is at its own operation. A pass (`BeginPass`,
`EndPass`) takes time and its stores stay `unfenced` until `mu_fence_smem`. A command
joins `queue` and is completed by the matrix unit whenever it likes (in order only
where the code relies on it, `inOrder`), `busy` being what a poll can see of it.
A barrier releases those who wait at one identifier when the count is reached.
A place is cut into `Parts` so that "every nth row to a warp", "a row to a thread" and
"blocks of a row dealt out" are different partitions: a pass by rows after a
pass by threads needs a barrier, another by rows does not. Places whose bytes overlap
(`layout`) spoil each other, by the addresses in the source.

`NoDataRace` and `ReadsItsTile` are the two halves of the same question: may two
accesses touch one cell at once, and is the cell's contents the one the stage is
written for. `StreamsTiles` is the refinement of `TileStream`: rows are written
once, in the order of the tiles, and all of them in the end.

What the scripts assume:

- The harness gives every tile the same operands and the same rows of the result;
  the scripts number them, since otherwise a stale tile would not show.
- `lateBusy` is the behaviour that the comments of `fa_stable_fpga` report: a loop shows in
  BUSY only after a while, so BUSY alone is no fence. Its builds wait for the loop
  counter (`FA_SP_WCNT`, assumed in all overlapped builds). `fa_mx_hostsf`,
  the grouped-query, Gemma and Virgo kernels poll BUSY alone and are checked with a BUSY that
  rises at once.
- The loops of Virgo end in the order they began, and `virgo_fence` counts one loop per
  command.
- `fa_sp_wait` is bounded in the code (200000 polls) and waits without bound here.
- `fa_store_acc` is a loop of the matrix unit, counted as such.
- The two halves of a `SingleTile` for two groups, and the reductions inside one softmax, are
  one pass each; what lies between their barriers is private to a warp.
- Iteration t of `kernel.gemmini.cpp` means tile t of K. `MeshFlash(second)` is the kernel whose
  second move-in before the loop loads tile `second`: 0 in the branch that is built, 1 in the
  other branch and in the comments.
- The cooperative softmax and the row maxima of `fa_stable_fpga` reduce through the scratch of their
  warps (`redbuf`; `pb` with FA_SM_2P, `bb` with CBMAX): `Reduction` stands for the partial
  results that a pass stores there and reads back.

### Encoders

A number is its exponent and mantissa; the 32-bit words of `e4m3_pack4_swar` are a pair of
halves with the carry between them, and the masks are the masks of the code. `And16` and `Or16` take
a half apart bit by bit: a module that uses `Bitwise` could not be proved about.
A behaviour is one input: a block maximum and two neighbours for the
three encoders of P, a number and the maximum of its block for `simt_quant`.
The exponents of a block maximum lie on both sides of every boundary the encoders
have (0, 6, 7, 8, 126, 127, 254).

## 3. Runs

| run | question | bounds, and why they are enough |
|---|---|---|
| `host_run` | Is a success this launch's, whatever the postbox held, the GPU does and the bounds cut off? Does the host return? | 2 cores (the chip's number), generations modulo 3 (a stale, the current and the next are distinct, and it wraps), 2 passes per wait (once round, once expired), 2 launches (every interaction is between neighbours) |
| `epilogue` | Is the output in DRAM and the core quiet at DONE? Is `Device` implemented? Does every core get there? | 2 cores, 2 warps each (a worker on each core, a shared L1), 2 sets (a line may enter a set before or after the sweep); lines of different warps on one core conflict or not by `SetOf` |
| `scale_refill` | data and port stay apart, clusters in step, no mutual wait, in the FA_HOSTCFG and FA_HOSTPACK builds? | 2 clusters, 3 tiles (first tile without handshake, a steady one, a last one); FA_HOSTCFG with and without waits that expire, with zero or large words at reset; FA_HOSTPACK with waits without bound and a clean mailbox |
| `scale_refill_pack_stale` | FA_HOSTPACK with an undefined SMEM | **violated**, finding 1 |
| `mu_schedule` | right context, every element once, phase 2 after phase 1, comes to rest? | 2 cores, 3 warps, 8 elements on 6 warps (uneven division); one launch of occupancy 3 with evictions, and the 3 launches of rope_qkv_fused with occupancy 2, 2, 1 |
| `mu_schedule_prologue` | rmsnorm_qkv_fused: operand stored before the matmul? | **violated**, finding 2 |
| `mxgemm` | each matmul on its tile, whole product in every warp, both move-outs? is C placed whenever it can be and never over an operand? do code and scale stand for the number? | 5 tiles (each parity used at least twice, first and last distinct), 3 warps; quarter of 4 rows, tiles of 1..8 rows (all order types of the gap boundaries, those beyond a quarter included); 11 block exponents with neighbours down to 9 binades below, every 8-bit significand over 20 binades |
| `vx_spawn` | each task once, no worker left behind, every core returns? | 2 cores of 3 warps of 2 threads, one cluster; 0..27 tasks (none, less than a warp, a full device, more than two waves on the last core), 24 grids with and without the shifts |
| `vx_spawn_clusters` | the same on two clusters, the second partly filled | **violated**, finding 3 |
| `tile_phases` | no race, right tile, whole sweeps, banks apart, rows in order, in each of 33 kernels and builds? does each meet the conditions of the theorems about `TilePhases`? | 3 warps (warp 0 and two others, the least for "some worker is late"), 2 heads of 3 blocks, 3 tiles (each parity used again after its neighbour), 4 steps; about 150000 states |
| `softmax_race` | `softmax`: the maximum stays until it is read? | **violated**, finding 4 |
| `virgo_key_tile` | `flash_attention_virgo` with the mesh, as built: iteration t on tile t of K? | 3 warps, 3 blocks; **violated**, finding 5 |

CHECK_DEADLOCK is FALSE where the modelled system really ends: a parked GPU
(`HostRun` after its last launch, `Epilogue`) and the end of both loops in
`ScaleRefill` (or, there, a GPU that waits for a host that has gone). `MuSchedule`,
`MxGemm`, `VxSpawn` and `TilePhases` have an explicit final stutter, and deadlock is checked.

Some properties depend on a constant that states an assumption of the code. Turning the
constant shows that the assumption is needed:

- `StartProvesThisRun` fails with `HoldFirst = FALSE`: `rad_host_run` alone does
  not exclude that an older image, still running, advances a generation after the
  host has read it. The template's `main()` does.
- `DoneMeansQuiesced` fails with `PollExpires = TRUE` (the 2000000 polls for a
  STOP run out and DONE is posted anyway, `rad_tapeout.h:440-445`), and with
  `StopSlots` below the number of warps: `rad_tapeout_begin` clears 8 slots, and a
  block may have 16 warps, so that STOPs of an earlier run count.
- `PortExclusive` is stated for builds with `hostCfg`. Without that condition it fails for the
  others, where the GPU issues its own prefetch: the hang that
  `fa_mx_hostsf/host.cpp:513-517` reports.
- `ContextIsMine` fails for a program of two launches (`JustTwice` of `MCMuSchedule`):
  a line of launch 1, still dirty on one core and evicted late, hides launch 2's
  from a core whose copy was evicted too. The comment at
  `mu_schedule.cpp:108-110` ("without any coherency requirement") is about the
  first launch; whether the line ever stays that long depends on the body.
- `MoveOutSeesC` fails with `FenceC = FALSE`, the order of
  `mxgemm_lib_fused.hpp:754-761`, which copies C without the fence that
  `mxgemm_lib.hpp:815-819` has.
- `EveryTileDone` fails with `HostTiles < NumTiles`, the host's fallback to 4
  tiles for a count it does not know (`host.cpp:125-126`).

- `NoDataRace` fails for a build with LEANCFG and without QDRAIN (or HSF): scale words go to the
  matrix unit's port, which `mu_fence_smem` does not order
  (`fa_stable_fpga/kernel.cpp:4284-4300` says so of the prologue's), and LEANCFG has removed the
  fence between the pack of the scales of P and the PV matmul that sweeps them; those of the
  prologue still have one behind them. The LEANCFG builds here have QDRAIN or HSF, although the
  comment at 5312-5331 calls QDRAIN the record of a refuted hypothesis.
- `BanksApart` is not asked of the three OPV builds (`BankRuled`), which all break it. OPV alone reads
  and stores the scores in a bank of the mesh's operands; OPV with OPVQ and BANKA still
  reduces, in the softmax, in the bank out of which PV reads P8. The source says so: it
  measured that both stop at `Scratchpad.scala:220`, and gave OPV up
  (`fa_stable_fpga/kernel.cpp:1544-1565` and 1625). With `BankRuled` asked of every build TLC finds each
  of the three violated. So the comment at 1984-1988, "every concurrent pair in the FA_SP_OPV
  schedule is bank-disjoint ON THE READ PORT", is not what the code does; it counts the
  scores and leaves out the scratch. Every other build obeys the rule with its reductions
  counted. Not counted are m, l, lpart and the scales, one word for a row or an item: the
  source holds the scales harmless ("one word per item (~1 per 20 cycles)", 2032; also 1826), which are no rarer than
  the others, and calls the softmax's reductions "the one thing that cannot coexist with a mesh
  read" (1827).
- `ReadsItsTile` fails with `NumSteps = 3` for `sgemm_tcore`: the parity of the prefetched
  step must fit, the FIXME at `sgemm_impl.hpp:1265`.
- `NoDataRace` fails for the FULL_ATTN2 and FULL_ATTN3 scripts of `fa_mx_hostsf` without the
  barriers of FA_SYNCFIX.
- `NoDataRace` fails for the kernels that wait by BUSY alone if BUSY rises late (`lateBusy`),
  and so does `OneSweep` where they set the bounds of a sweep.

### Fairness

- `HostRun`: the host alone is fair; it is a running program. Nothing is assumed
  of the GPU, so `HostReturns` covers a GPU that hangs.
- `Epilogue`: each core's warp 0 and each warp (the core's scheduler issues every
  warp that is not at a barrier), and the landing of a store. Evictions are not
  fair: what is not drained may stay in a cache for ever.
- `MuSchedule`: each manager and each warp, for the same reason.
- `ScaleRefill`: the host and each cluster; the builds of the run include ones whose waits
  do not expire, where no tile can be "done" by giving up.
- `MxGemm`: Gemmini, the memory, thread 0 and every warp.
- `TilePhases`: some warp or the matrix unit goes on while one can. A script has no cycle,
  so a single weak fairness condition on all of them is enough, and the weakest.

All of it is weak fairness. The code has no lock that could be won by the wrong
party for ever, and a condition that is waited for, once true, stays true.

## 4. Findings

1. `scale_refill_pack_stale` (code): `fa_mx_hostsf/host.cpp:453-456` clears the
   mailbox because SMEM is undefined at reset, but not `MBOX_GPU_PACKREQ` and
   `MBOX_HOST_PACKED`. With a large value there neither side waits, and a PV
   matmul reads scales nobody packed.
2. `mu_schedule_prologue`: `rmsnorm_qkv_fused/kernel.cpp:153` drains the prologue's
   stores before the DMA reads them, but nothing waits for the workers of the
   prologue to have made them.
3. `vx_spawn_clusters` (code): `vx_spawn.c:246` multiplies the cluster's number by
   its own number of tasks. The last cluster, when partly filled, repeats tasks of
   the first ones, and the end of the grid never runs. With one cluster, the
   default configuration, the offset is 0 and right.
4. `softmax_race`: `softmax/kernel_impl.hpp:158` stores each thread's denominator in the buffer
   whose word 0 is the maximum of the row, and no barrier stands between the last
   read of the maximum (127) and the first denominator. The comment at line 55
   reserves a buffer for each.
5. `virgo_key_tile` (code): before its loop, `flash_attention_virgo/kernel.gemmini.cpp` moves K in twice,
   and iteration 0 therefore loads none (500: "commented out as we do two move-ins before the loop
   starts"). The second move-in is "for the second iteration" (291), but the branch that is built
   (293-297) passes `gmem_K_tile` unchanged, which is tile 0; the other branch sets it to
   `gmem_K + (B_COL * 1)` first (300). Iteration 1 multiplies Q by tile 0 of K once more, and tile 1
   is never multiplied. With tile 1 in that move-in the kernel has all the properties of `tile_phases`.

Observations made while modelling that no run shows, because the code in question
is not modelled or its outcome depends on hardware the repository does not contain:

- Barriers. `fa_mx_hostsf` without FA_SYNCFIX, and the sequential body of `fa_stable_fpga`,
  let a warp requantise rows that another has not written; FULL_ATTN has none
  between softmax and pack, FA_STEADY none after finalize. The comments at
  `flash_attention_mx.cpp:79-150` call BAR_PAD a timing mask and no fix.
- `rope_qkv_fused`: nothing waits for the workers of launch 2; a slow one may read the context
  of launch 3. The `main()`s that verify right after `mu_barrier(0, MU_NUM_CORES)`
  do not wait for workers either.
- `mu_schedule`: a worker leaves the barrier at the end of a body before it retires, and
  nothing keeps its manager from the next `vx_wspawn` meanwhile. If that passes over a
  running warp (`kept` in `Spawn`), launches <<2, TRUE>>, <<2, FALSE>> lose the worker's
  share and two launches that both end in a barrier wait for ever. Of the kernels in
  the repository `rope_qkv_fused` starts workers right after such a launch.
- `fa_stable_fpga/kernel.cpp:5888` calls the pack without the guard that the host-packing build
  has elsewhere.
- `vx_spawn_tasks_cluster` computes how many clusters the tasks need (`vx_spawn.c:204-208`) but never
  compares that with those the device has: tasks beyond them are never run. The other
  functions bound the number of cores (`vx_spawn.c:374-377`).
- `flash_attention_virgo/kernel.gemmini.cpp`: the second move-in before the loop passes tile 0 of K
  and iteration 0 loads none (291-298, 500-505), so tile 1 of K is never used; the
  loop runs two iterations more than there are tiles and moves in K beyond its end;
  `flash_impl.hpp:55` initialises maxima at `offset + i * ROWMAX_SETS`, with
  `FLT_MIN`, the smallest positive number.
- `sgemm_gemmini`: the addresses of the fp16 build put the even tile of B inside
  that of A.
- Encoders: the comment on `fa_clamp_K8` says it "only fires for an all-zero block"; it fires
  for exponents 1 to 6 too, harmlessly (`PackedIsExact` covers them). `simt_quant`
  clamps the scale of a block with a biased exponent below 8 to 0, while the power
  of two by which it multiplies overflows (`kernel.cpp:117`).

## 5. Proofs

The `*Proofs` modules are checked by TLAPS for every value of the constants that
satisfies the ASSUMEs of the modules. A hypothesis beyond these stands in the theorem, under
a name: `HoldFirst`, `StopsCount`, `SettleLands`, `FenceC`, `WordsClean`, and, about the
programs that are run, `Disciplined`, `NoLateSpawn` and `NoLateBarrier`; about the calls,
`Fits`; about the two sides of the refill, `HostTiles = NumTiles`. In each case the runs with the
constant turned (section 3) or the paragraph on the component show that the property
is false without it, and the code says whether it holds.

**The launch protocol.** Hypothesis: `HoldFirst`, the soft reset at the top of
`main()`; the theorems are of the form `HoldFirst => (Spec => []...)` because
they are false without it. Assumptions: at least one core, `GenMod >= 2`,
positive wait bounds. None of the properties is inductive. `IInv` adds:

- `Held`: from set-up to launch and after the final reset no core runs. This is
  where `HoldFirst` enters, and what makes reading the generations one by one safe.
- `Expecting`: the generation read remains the predecessor of the one expected
  until the core itself acknowledges. `NextGenMoves` (increment modulo `GenMod`
  never returns its argument) then makes equality of slot and expectation a proof
  that the core started, whatever the tag and the counter were.
- `Progress`: what each position of a core implies about its slots and output;
  from the order in `rad_tapeout_begin`, slots first and generation last.
- `Counted`: the host has counted only what this launch posted, although it reads
  the cores one after the other while they move on.

`GpuKeepsIInv` and `HostKeepsIInv` have a step per action; the theorems
`TypeCorrect`, `SuccessIsGenuine`, `StartIsGenuine`, `DoneIsFresh` and
`BuffersAreUndisturbed` follow. The run `host_run` checks the same properties on
its small instance first. `HostIsBounded` has no hypothesis at all, since it is about the host
alone (`HostInv`): whatever the GPU does, the bounds of the two waits bound the run.

**The epilogue.** Any number of cores, of warps per core and of cache sets, any map of lines to
sets, any generation modulus. The invariants grow by layers:

- `Base` is inductive for every choice of the constants: `Roles` (a worker is idle
  until warp 0 of its core spawns it, so that it cannot be beyond a barrier of an
  epilogue that its core has not reached), `Barriers` (who is beyond barrier A or B has
  seen every warp arrive there; warps retire, but never before), `Posted` (what TRACE
  and DONE say of the position of the core) and `WalksFromZero` (each of the two sweeps
  of a cache starts at set 0).
- `QuiescedInv` adds `StopsAreFresh` (a STOP seen after `rad_tapeout_begin` is of this run:
  the reset loop has cleared the slot) and `PolledSoFar` (the loop has seen the STOP
  of every worker before `polled`). Hypothesis `StopsCount`: the poll does not run out and every
  warp has a slot. `AwaitedCoversCore` shows that the loop over `NumCores * k + core`
  visits every warp of the core; it needs the division with remainder by hand.
- `DurableInv` adds `Written` (a warp that is past its body has stored its line) and
  `SecondPass` (how far the second sweep has brought the lines of the core: out of the L0d
  behind it, then out of the L1). It says nothing of the first sweep, which the
  argument does not need: what the second one finds has landed, and no store comes
  after barrier A. Hypothesis `SettleLands`: the settle loop outlasts a store in
  the queue, which is what it is there for.
- `EpilogueImplementsDevice` shows, from `DurableInv`, that the initial states are those of
  `Device` and that each step is an acknowledgement, a post or a stutter of
  the same core of `Device`. `HostRunProofs` takes the GPU as `Device` alone, so
  that the two together lead from the warps' stores to the host's success.

**The GEMM pipeline.** Any number of tiles and warps; no hypothesis for
`PipelineIsSafe`. `Round` is the tile whose matmul thread 0 has issued or will issue next.
The queue is the difficulty: commands of thread 0 are executed some
time later, while it goes on. `Queued` says that what is queued or under way belongs to
one round, each command once and in order (`InOrder`), and where thread 0 must
be; `OperandsAreThere`, `ToggleIsSet` and `ScalesAreThere` say of each item of a round that it is
in place, or queued, or on its way; `Accumulated` counts the matmuls. `Parity`
(neighbouring tiles have different halves) then keeps a move-in and a scale store away
from the buffers of the running matmul. The queue is a sequence of arbitrary length:
`InOrder` is kept by `Append` and `Tail` (lemmas of their own), and bounds it
without a recursive argument. `MoveOutIsWhole` adds `Copied` and has the hypothesis `FenceC`.

**The scale refill.** Any number of clusters and tiles. The invariant `Refill` has ten
parts. `Bursts`: the writes that the host has still to make in its phase, each once and
flags last (`Proper`); as long as a scale of a cluster is pending, so is the flag that
announces it. `GpuCounts` and `Flags` relate the mailbox to the positions of clusters and host;
`Refilled` relates the scale SRAM to the burst. `HeldBack` (no cluster is ahead of the
flags) and `Served` (the host is not ahead of the slowest cluster) are the two halves of the
handshake; they hold until a wait expires and carry `NoneRunsAhead`. `PackedScales` and `MovedIn` are
about the P scales and the operands of the two build options. Two theorems have the
hypothesis `WordsClean`, that a packing build finds the words of that handshake clear:
finding 1 is its violation, so that these theorems say what repairing the finding
would give. `NoneRunsAhead` and `TypeCorrect` need no hypothesis.

**The scheduler.** Any number of cores, warps and elements. A program is `Disciplined` if its
barrier-ended launches come first and the context's line can be evicted only when
there is a single launch; it has `NoLateSpawn` unless a launch of workers without a
final barrier follows launches that all have one. Kernels of one launch satisfy both, and so
do `rope_qkv_fused` (a product, then two launches without a barrier, the last for managers) and
the weight-streaming kernels, which run a product and then `verify_body` with
occupancy 1 (`gemv_batched_fp8_m64/kernel.cpp:37-42`), as long as the line stays in
the cache. (Of `rope_qkv_fused` `WorkIsDivided` says something of the first launch only: nothing
waits for the workers of the second.) `rmsnorm_qkv_fused` (a prologue without a barrier first) and
`flash_attention_mx_fp6` are not `Disciplined`. The invariant `Schedule` has eleven parts:

- `Contexts` says what a core sees of the context in terms of where its own manager is, and
  that a clean copy agrees with memory; `Met` that, in a single launch, no manager is
  beyond the barrier while another still writes. With these a refetch after an
  eviction brings back the same launch, although the copies are not coherent. `Registers`
  carries it to what a warp has read, word by word.
- `Spawned` bounds the launch a worker was born in by that of its manager.
- `Entries` (who has run a body is beyond it, at the right occupancy), `Ends` (who waits at
  the barrier that ends a body), `Earlier` (managers leave such a launch only when it is
  complete) are about the end of a launch. A warp counts itself in at the barrier by the occupancy
  it read, so they need `Registers`.
- `Managed` says that a manager beyond the body has run it, `Fresh` that a worker of the first
  launch is started and runs it; nothing waits for the workers of a later launch.

`BodyKeepsSchedule` is the step where they meet: the last arrival releases the
warps of this launch and of no other. `WorkIsShared` adds the arithmetic of
`mu_schedule.cpp:42-55`: `RankNames` (no two warps have the same rank) and `RanksCover`
(every residue of an element is the rank of a warp that takes part).

TLC shows that the hypotheses are needed. With a launch without a barrier before one with a
barrier and one after it, and with evictions under two launches, `ContextIsMine`
fails; with a late spawn of workers `WorkIsDivided` fails (section 4). `PhaseOrder` held in all
of these; its theorem shares the hypothesis because it rests on the same invariant.

`KernelIsBounded` needs none of this: by `NotStarted` a worker is started once per
launch, so that even a warp which a `vx_wspawn` starts over is further than before. `NobodyIsStuck` adds
`Meetings`, the counting argument of a barrier that is used again and again: `Arrivals` is
how many times a manager has come to barrier 0, and those that wait there have come once more than the
rest, who are never none. Its hypothesis `NoLateBarrier` (after the first launch no body of
several warps per core ends in a barrier) holds for `rope_qkv_fused` and the weight-streaming kernels; two
such launches can wait for ever (section 4).

**Task spawning.** Any number of cores, warps, threads and cores per cluster, and any call.
`RecordOutlivesWorkers` has no hypothesis. `NoWorkerOutlivesCall` alone is not
inductive: a worker may be awake only because warp 0 of its core still works beside it
or waits for it (`WorkersAwaited`). `ManagerMoves` covers the steps of warp 0, which
either stay with the workers or find them idle; `SpawnKeepsIInv` needs that a core which
spawns a worker spawns its own warp 0 too, hence `WarpsNumber`.

`TasksRunOnce` has two halves. The first is arithmetic, about no step at all. A place is a
thread of a warp in one of the two stubs, and `Holds(p, id)` says that place `p` computes
the number `id`. `OnePlace` shows that every number below `NumTasks` has exactly one place and
no place holds another one: over the cores (`EqualCores`; `EqualClusters`), over the rows of a core
(`BlocksOfRows` for consecutive warps, `StripedRows` for warps in turn), and over the threads of a
row, each time by the uniqueness of quotient and remainder (`QuotientUnique`). `TaskNumbers` shows
that a number has one work group of the grid and conversely. The second half is the
invariant `Inv`: `Prepared` (a core at work has its own record, and only the warps it
has spawned are awake) and `Recorded` (what has run is exactly what the finished places hold;
`Finished` tells it from the stages). When all cores have returned every place is
finished.

The one hypothesis, `Fits`, concerns `vx_spawn_tasks_cluster` only: the clusters in use
are on the device, and the last one is full or the only one. With a last cluster that is
partly filled the property is false (finding 3). The shifts of `Group` rest on
`LogsExact`: if `X * Y` is a power of two then `X` is one, and the logarithms of both are exact.
That is a statement about all powers of two. `Power` is therefore a recursive function, and
where an induction would be needed `LogsAreExact` argues from a least counterexample
(the order of the naturals is well-founded). TLC evaluates `LogsExact` for the grids of the runs too
(`LogsExactHere`).

`NobodyIsStuck` holds because warp 0 of a core waits for no other core, and for its workers
only while one of them is in its share; `CallIsBounded` because a worker, once it has
been spawned, is never spawned again in the call.

**The scratchpad layout.** A GemmConfig never changes, so `SizesStay` reduces both
theorems to arithmetic. `GapsDoNotWrap` shows that for operands within their
quarters no unsigned subtraction of `SPAD_DEST` wraps; `ApartIsFree` turns four
inequalities into disjointness from the four buffers; `PlacedApart` gives
`DestinationIsFree`. Conversely `FreeIsInAGap` shows that a free place lies in one
of the three gaps that are tried, which gives `NothingRejectedInVain`.

**The encoders.** A behaviour of `Encoders` is one input, so both theorems are about one state.
`EveryPairIsExact` covers each exponent from 0 to 254 and each pair of numbers of the block; the comment on
`e4m3_pack4_swar` (`flash_mx_impl.hpp:285`) argues its ranges only for K up to 960. `ClampFacts`: after the
clamp, the K that is subtracted and the scale that is stored belong to one exponent, in every case.
`And16Facts` says what an `and` with the masks of the code leaves, `TopBit` and `MaskedField` follow
one field through add, mask and add, and `SwarIsFields` puts the fields of the two numbers next to each other.
`EveryNumberIsNearest` covers every significand of 8 bits under every largest one, down to 19 binades below, where
every number becomes zero. `RoundShiftFacts` says what rounding to even means, `NearestByNeighbours` that it is
enough to be nearer than the two neighbouring codes, because codes and numbers are in the same order
(`ValueMonotone`); `QuantNormal` and `QuantSubnormal` are the two paths of `f32_to_e4m3`, the carry
into the exponent included. TLC has 11 of the exponents and 5 of the largest significands.

**The scratchpad kernels.** Any number of warps and any script. What is true of `TilePhases` is
true because of what stands in a script, and what stands there can be looked up without
running it. `TileOrder` says what to look up. A clock (`Clock`) says, for an operation and a warp
that comes to it, how far each other actor must have come. `Clocked` checks a clock
against the script, locally: an entry is 0, or it follows from the operation of the warp just before:
from what the warp knew there, from a barrier, or from an `await` and all the posts that can release it. From the
clock follow `PassedBefore`, `FencedBefore` and `DrainedBefore`: what is over, has its stores
visible, or has been seen to end by a poll, when a warp gets to an operation. Each theorem has a condition
made of these: `Apart` (conflicting accesses are ordered, with a fence in between) for `RaceFree`, `Fed`
(each cell that is read has a store of its tile that is over before, and every other store to it is
over before that one or comes later) for `TilesAreRead`, `SweepsApart`, `KeptAlone`, `Banked`, and
`Streamed` for `RowsAppearInOrder`. `Ordered` is `WellFormed`, what the machine takes for granted of a
script, and `Clocked`. `TypeCorrect` needs `WellFormed` only; the type invariant of `TilePhases` is
proved and not run.

The conditions are not assumed of the code: the invariant `ScriptIsOrdered` of the run `tile_phases` has TLC
compute a clock for each of the 33 kernels and builds of `KernelPrograms` and evaluate all
conditions. For `softmax` `Apart` and `Fed` are false, which is finding 4. The theorems turn this
evaluation of a finite object into a statement about all schedules, and the other properties of `tile_phases`,
which explores those schedules, agree.

The invariant is `Flow`, in seven parts. `Shape` is about the machine alone (where a warp can be in which
mode, what is in the queue and in BUSY, what a fence still waits for). `Together`: nobody is beyond a barrier
before all have come to it. The machine releases whoever waits at an identifier when their number is
reached; that these are the warps the operation is for (`AllArrive`) needs `WellFormed` (all uses of
an identifier have the same warps) and the order of the script. `Posted` and `Told`: a flag has the value of
a post that was made, and who is beyond an `await` knows that its poster is beyond the post. `Known` is what the clock says, and follows from `Told` by
`Clocked`. `Cleared` and `Drained`: beyond a fence the stores before it are visible, beyond a poll the
commands it waits for have ended; the count of `Occupancy` is the counting argument of `StepDrained`.
`Written` (what feeds an access that is not over stays in its place) carries `TilesAreRead`, and `Stands`
(a row of the result is there if and only if a store of it is over) carries `RowsAppearInOrder`.

`NobodyIsStuck` says that a script whose operations are all known (`Executable`) and where a post comes before
every `await` it lets through, with no smaller value posted to the flag after it (`Answered`), never
brings the threadblock to a stop: until the kernel is finished, some actor is at an operation whose guard is true, or
a command in the queue may end. `NeverStuck` spells the guards out, since ENABLED is out of the prover's reach.
The argument is about the actor that has come the least far when nobody else can go on. The queue has run empty by then, so that no poll holds it.
It does not wait at a barrier: by `Short` somebody the barrier is for does not wait there, who by `Together` is
not beyond it, and so would be behind, or able to go on. It does not wait for a flag: the post that answers it has been
made, and by `Latest` the flag has the value of that post or of one not older.

**Every run ends.** Six properties of the runs say that something happens in the end:
`HostReturns`, `EpilogueCompletes`, `Completes`, `CallReturns`, `ComesToRest` and
`EveryTileDone`. Each of these modules, and `TilePhases`, has two statements that
together are the safety half of it (`HostRun` needs the second only, since no step of the host waits
without a bound):

- `NeverStuck` (in `VxSpawn` `NoCoreIsStuck`): until the end that the liveness property
  names, some guard is true. The guards are spelled out (`...MayStep`), since ENABLED is out of the prover's
  reach; asked of every state of the six models of section 3, TLC finds each guard equivalent to ENABLED of its
  actions (no run of its own, and the deadlock check of four of the runs says the same).
- `EveryStepCounts` (in `HostRun` `EveryHostStepCounts`): every step brings some actor on and takes none back, in an order that
  is bounded (numbers, compared one after the other). No behaviour has infinitely many
  steps that change the state; in `HostRun`, no call of `rad_host_run` has infinitely many of the host.

So a behaviour that goes on while it can is finite and ends where it is meant to. From there to the `<>` of
the liveness property only fairness is missing. The theorems are

| module | bounded | never stuck | hypothesis of the latter |
|---|---|---|---|
| `HostRun` | `HostIsBounded` (the host only) | (a spin needs no condition) | |
| `Epilogue` | `LaunchIsBounded` | `LaunchIsNeverStuck` | |
| `MxGemm` | `RunIsBounded` | `NobodyIsStuck` | |
| `VxSpawn` | `CallIsBounded` | `NobodyIsStuck` | |
| `MuSchedule` | `KernelIsBounded` | `NobodyIsStuck` | `Disciplined`, `NoLateBarrier` |
| `ScaleRefill` | `RunIsBounded` | `NobodyIsStuck` | `WordsClean`, `HostTiles = NumTiles` |
| `TilePhases` | `KernelIsBounded` (`WellFormed`) | `NobodyIsStuck` | `WellFormed`, `Executable`, `Answered` |

- In `Epilogue` the theorem says more than the absence of a mutual wait: whatever `StopSlots` is and
  whether or not the poll can expire, each STOP that is polled for is posted or its warp can go on to
  post it (`StopPosted`), and nobody is at barrier A or B for a warp that has retired (`Barriers`).
- In `MxGemm` a fence waits for the queue to be empty, and the hardware can always go on while it
  is not (`Pipeline`).
- In `ScaleRefill` the argument follows the circle of waits. `Ending` says that the host leaves its loop only
  when it has had every tile; `Recorded` that both recordings that FA_HOSTCFG captures are there once PV of
  tile 0 has been issued. If nobody can step, the burst is empty and by `Flags` every flag is
  what the position of the host implies; by `Served` and `HeldBack` some cluster is where the host waits for
  it, or beyond. Loops of unequal length (`HostTiles # NumTiles`) leave one side
  alone; of a stale word (`WordsClean`) finding 1 shows what follows.

**Left to TLC.** The step from the theorems of the last paragraph to liveness
(`HostReturns`, `EpilogueCompletes`, `EveryTileDone`, `ComesToRest`, `Completes`, `CallReturns`, the
liveness in `StreamsTiles`), which goes through fairness and so through ENABLED; and that each script meets
the conditions of `TileOrder` (`ScriptIsOrdered`), an evaluation of a finite object.

## 6. Hazards

`PROJECT.json` lists each hazard at its line with the properties that cover it.
Two are without a property: operands beyond their quarters (`mxgemm_lib.hpp:93`), which no
GemmConfig of the repository has, and `main()` racing the start-up of the other
warps (`mu_start.S:71`), where the effect of `wspawn` on a running warp is unknown.

## 7. Plan

1. Done: launch protocol (`Postbox`, `Device`, `HostRun`, proofs), epilogue and its
   refinement, scale refill, scheduler, GEMM pipeline, task spawning (proofs), scratchpad
   layout (proofs), the scratchpad kernels (`TilePhases` and its scripts), the
   encoders.
2. Done: proofs of `Epilogue` (with the refinement of `Device`), `MxGemm`, `ScaleRefill`,
   `MuSchedule` and `VxSpawn` for every size, and of `TilePhases` for every script that meets the
   conditions of `TileOrder`; of the scratchpad layout and the encoders for every input; that every
   run is bounded and never stuck.
