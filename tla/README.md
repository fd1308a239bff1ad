# Verification of MominOS

MominOS is a single-CPU x86-64 kernel in C (`src/src`), a set of user programs
(`src/userspace`) and a Python project that trains the language model the system
is to run (`src/training`).  This directory holds TLA+ models of that code, TLC
configurations that check them on small instances, and theorems about them with
proofs for TLAPS.  `PROJECT.json` maps every definition to the lines it
translates and lists the runs, the hazards and the theorems.

Paths below are relative to `src/`.

## 1. The system

### Kernel: threads and processes

| Component | State | Operations | Interacts with |
|---|---|---|---|
| Scheduler `src/kernel/sched.c`, `switch.asm` | circular list of `struct thread`, `current_thread`, `next_thread_id`, `need_resched`; per thread `state`, `waiter`, `has_exited`, `pml4`, kernel stack | create, yield, tick, block, wake, exit, reap, find | everyone: `sched_yield` from the disk driver, `sched_tick` from the timer, `sched_wake` from the terminal, `sched_reap` frees through heap and vmm |
| System calls `src/kernel/syscall.c` | the caller's descriptor table and `cwd` | spawn, waitpid, exit, read, write, open, close, readdir, getdents, chdir, getcwd | scheduler, ELF loader, terminal, VFS |
| Interrupts `src/kernel/idt.c`, `isr.asm`, `src/drivers/timer.c`, `pic.c` | tick counter, handler table | `isr_handler`, `timer_irq`, fault dump | scheduler (`sched_tick`, `sched_after_irq`), diagnostics |
| CPU setup `src/kernel/arch.c` | GDT, TSS (`rsp0`), MSRs | `arch_set_kernel_stack`, `arch_syscall_init` | scheduler |
| Terminal `src/drivers/tty.c` | `ring`, `head`, `tail`, `committed`, `lines`, `edit`, `waiter` | `tty_feed` (interrupt), `tty_read` (system call) | keyboard and COM1 feed it, it blocks and wakes threads |
| Keyboard, serial `src/drivers/keyboard.c`, `serial.c` | shift state | one interrupt each, serial output | terminal |
| Boot `src/boot`, `src/kernel/kmain.c` | none | initialise in order, load `/bin/sh`, halt | all |

What is hard here: a system call runs with interrupts off and is atomic only up
to the point where it gives the CPU away, in the middle of a disk poll, in
`waitpid`, in `tty_read`, or for ever in exit; the timer takes the CPU from user
code at any instant; raw pointers to threads are held across those points; and
heap slots, thread slots and page tables are reused.  Correct means: one thread
has the CPU, with its own page table and kernel stack; no dangling pointer; no
lost wake; every READY thread runs; every wait ends.

### Kernel: memory

| Component | State | Operations |
|---|---|---|
| Frames `src/kernel/pmm.c`, `memmap.c` | bitmap, `total_pages`, `used_pages` | init from the memory map, alloc, free |
| Page tables `src/kernel/vmm.c` | four-level tables, the direct map | map, unmap, translate, create, switch and destroy an address space |
| Heap `src/kernel/kheap.c` | list of `heap_block_t`, `heap_brk` | `kmalloc`, `kzalloc`, `kfree`, growth by pages |
| ELF loader `src/kernel/elf.c` | none of its own | read a file, check it, map its segments, build the stack, create the thread |

What is hard: the heap must stay a tiling of its range with no two free
neighbours after any history; a growth, a mapping or a load that fails half way
must give back what it took; addresses and sizes wrap.

### Kernel: storage

| Component | State | Operations |
|---|---|---|
| ATA `src/drivers/ata.c` | the channel's registers, drive table | identify, read and write a sector by polling, yielding the CPU meanwhile |
| ext2 `src/fs/ext2.c` | superblock, group descriptors and everything on disk | inodes, block map, bitmaps, directories; read, write, truncate, create |
| VFS `src/fs/vfs.c` | open files: inode, offset, cached size | open, open for writing, read, write, close, stat |

What is hard: every disk access is a point where another thread runs, and no
operation of ext2 takes a lock; the order of the writes decides what a crash
leaves behind; a handle caches a size another handle changes.

### Kernel: diagnostics

`src/ai/diag/capture.c` keeps a ring of fault, system call and log events, and
`context.c` turns a snapshot of it into the text of a fault report.  The line
buffer of `diag_log_write` is shared by all writers with interrupts on.
`vga.c` is a cursor over a grid.

### User programs

`sh.c` reads a line, spawns, waits and loops; `init.c` does it once.  The others
(`cat`, `cp`, `grep`, `head`, `tail`, `wc`, `ls`, `touch`, ...) and the small libc
are sequential.  What matters to the kernel is their discipline: one `waitpid`
for each child, before the parent reads the terminal again.

### Training and evaluation

| Component | State | Operations | Interacts with |
|---|---|---|---|
| Data generators `training/data/generate_dataset.py`, `quality_filter.py`, `prepare_agent_data.py` | samples, sets of prompts seen, the JSONL files | template and API samples, fallback, augmentation, filter, conversion of conversations, split | datasets, benchmark |
| Datasets `training/training/dataset.py`, `byte_tokenizer.py` | loaded lines or token stream | tokenise, mask, cut, pad, chunk | the loops and their shifted losses |
| Loops `training/training/pretrain.py`, `sft_train.py`, `dpo_train.py` over `train_utils.py` | step, epoch, gradient, schedule, best loss; the checkpoint directory | batch, optimizer step, evaluate, save and clean up, export, resume | files only |
| Model `training/train_moe` | key-value caches, routing | forward, dispatch, generate | harness, benchmark |
| Converter `training/convert` | offset, descriptors, chunks; the `.mom` file and `model_config.h` | encode a tensor, write the file, export the header | an engine that is not in the repository |
| Checks `training/eval`, `training/data/agent_benchmark.py` | captured tensors, verdict; scores, context, results file | hooks, comparison; five benchmarks | model, test split |

What is hard: a run is killed at any point and started over or resumed from a
directory an earlier run left, whose files are pruned and found by their names; requests fail
and are replaced half way; offsets, masks and labels are computed twice by
different code; and a check can pass because it compared nothing, or score what it was
itself given.  Correct means: what was saved is what is restored, progress is kept, what
is written is clean, the loss looks at the answer, a position sees what came before it, a
file can be read by its descriptors, and a verdict rests on evidence.

## 2. What is modelled now

| Module | Models | Kind |
|---|---|---|
| `Sched` | `sched.c`, and spawn, exit and waitpid of `syscall.c` | detailed specification |
| `MCSched` | symmetry for the run that has no liveness property | TLC |
| `SchedProofs` | | theorems about `Sched` |
| `LineQueue` | what a terminal promises: a queue of lines and the line being edited | abstract specification |
| `Tty` | `tty.c`, byte for byte | implements `LineQueue` |
| `TtyProofs` | | theorems about `Tty` |
| `Console` | `Sched` composed with the wake and sleep sides of `tty.c` and with the discipline of `sh.c` and `init.c` | composition |
| `ConsoleProofs` | | theorems about `Console` |
| `Allocator` | what a heap promises: disjoint pieces, each as large as asked for | abstract specification |
| `KHeap` | `kheap.c`, and what it takes from `pmm.c` and `vmm.c` | implements `Allocator` |
| `KHeapProofs` | | theorems about `KHeap` |
| `Training`, `MCTraining` | the loops of `pretrain.py`, `sft_train.py`, `dpo_train.py` over the checkpoints of `train_utils.py` | detailed specification |
| `TrainingProofs` | | theorems about `Training` |
| `Loops` | what a loop over a sequence has collected: elements at some places, a running sum or product | operators |
| `Quality` | the filter of `quality_filter.py` | operators |
| `Generate` | `generate_dataset.py` with its API failures and kills | detailed specification |
| `Prepare` | `prepare_agent_data.py` | detailed specification |
| `Batches` | `dataset.py`, `byte_tokenizer.py` and the shifts of the losses | operators |
| `Corpus`, `MCCorpus` | the way of a sample through `Generate` or `Prepare` to an item of `Batches` | composition |
| `CorpusProofs` | | theorems about `Corpus` and its parts |
| `Inference`, `MCInference` | `MominoMoE.forward` and `generate`, attention with caches, expert dispatch | detailed specification |
| `Golden` | the hooks of `golden_harness.py` on `Inference`, and `compare_logits.py` | extends `Inference` |
| `Convert` | `convert_model.py`, the blocks of `quant.py`, `export_config.py` | detailed specification |
| `Benchmark` | `agent_benchmark.py` | detailed specification |
| `Deploy`, `MCDeploy` | `Golden`, `Convert` and `Benchmark`, what is done with a trained model | composition |
| `DeployProofs` | | theorems about `Deploy` and its parts |
| `CommonLemmas` | | induction, recursion and division over the naturals, and the loops of `Loops`, for the proofs |

### Sched

*State.*  The circular list is the sequence `ring` read along `next` from
`current_thread`, so `ring[1]` has the CPU and `schedule_locked` is a rotation.
The fields of `struct thread` are functions of the slot (a heap address).  `pc` is
where a thread stands: in user code, in a disk poll (`"disk"`), in the loop of
`waitpid` (`"wait"`) or of `thread_exit_code` (`"exit"`).  `child` is the local
variable of `waitpid` that lives across the block.  `cr3`, `kstack` and `spaces`
are the loaded page table, the stack in the TSS, and the page tables that exist.
`kids` is a ghost of the programs: the ids a process has spawned and not yet
waited for.  A freed struct keeps its bytes until the slot is used again, as in
the heap, so that a dangling pointer would be seen.

*Actions.*  `TimerIRQ`, `SysSpawn`, `SysWaitpid`, `SysExit`, `DiskYield`, `DiskDone`,
`BootSpawn`, `KmainHalts`, and `WaitResume` for the code after
`sched_block_locked` in `waitpid`.  Each is atomic from one point where the CPU can
change hands to the next: `FMASK` keeps interrupts off in system calls, so only
explicit calls of the scheduler divide one.  A disk yield may come anywhere in a
system call that touches the disk, and before a spawn, which reads its program
from the disk.  A timer tick may come whenever the current thread has interrupts
on.  `AnyWaiter` chooses what the programs do: `FALSE`, they wait once for each of
their own children, as those of `userspace` do; `TRUE`, for any id.

*Not in it.*  Registers and FXSAVE areas; exit codes; allocation failure in
spawn, which leaves the scheduler as it was; the kernel threads
`thread_a` and `thread_b`, which nothing starts.

### Tty and LineQueue

`Tty` has the seven variables of `tty.c` and two actions for each of its
entries: `Erase` and `Feed` for `tty_feed`, and `Read` and `Resume` for `tty_read` up to
and after `sched_block_locked`.  Of the scheduler it keeps whether a reader is BLOCKED.
`LineQueue` knows neither ring nor counters: a queue of bytes that ends in a
line end, a line being edited, and a read that takes the shortest prefix up to a line
end, the reader's size or the whole queue.  The refinement mapping reads the
committed and the edited bytes out of the ring.

### Console

`Console` extends `Sched` with `ttyWaiter` and `lines`.  `LineIRQ` is an interrupt that
completes lines, wakes the reader and, as `isr_handler` does through
`sched_after_irq`, switches to another thread before it returns.  `Foreground` is
the discipline of the shell: a process with a child it has not waited for does
nothing but wait for it.

### KHeap and Allocator

*State.*  `hdr` maps an address to the `heap_block_t` there, for the headers whose
magic is valid, so a header that a block overwrites or that leaves the list would show.
`brk` is `heap_brk`; `frames` the free frames of the pmm, `tables` the page
tables under the heap, `others` the frames the rest of the kernel has.  Addresses
count units of `KHEAP_ALIGN` from `KHEAP_BASE`; a header is one unit.

*Actions.*  `KmallocFits` and `Kfree` are the calls that find a block and give one back.
`KmallocGrows` is the call that maps pages first: all of them; or some, when a page finds no
frame and all mapped go back (their page tables stay); or some, when a page
table finds no frame, where `alloc_table` stops the kernel.  `OtherAlloc` and
`OtherFree` are the other users of frames.  All run with interrupts off and
are one step each.  A call that fails at `heap_limit` changes nothing.

*Not in it.*  Bytes, and so the fill of `kzalloc`; addresses near 2^64, where `align_up`
wraps; the page directories, one per GiB, which grow as the page tables do; calls of `kfree`
that the magic rejects, which stop the kernel.

`Allocator` has no list and no free blocks: a piece is taken anywhere it fits, apart from the
others by a header, and may exceed the request by a remainder too small to split.

### Training

*State.*  `disk` maps file names, a base and a step number, to the counters a checkpoint
stores and whether the file is `whole`; `sftBest` is `sft_best.pt`.  Of a process it keeps
`phase` (where the loop stands), the counters `epoch`, `gstep`, `sched`, `batch`, and `grad`, the number of
batches in the accumulated gradient.  `runs` and `strayed` are ghosts: how many processes there were,
whether one began afresh over old files or went on from another file than the newest complete checkpoint, and
(`bare`) whether one went on from weights alone.

*Actions.*  `Begin`, `Resume` and `ResumeExported` (all `Launch`), `DryRun`, `Accumulate`, `OptimizerStep`, `Evaluate`,
`Save`, `SaveFinal`, `Written` (the end of `torch.save` and the cleanup that follows in the same call),
`Export`, `NextBatch`, `EndEpoch`, `EndIteration`, and `Crash` from any phase.  `torch.save` is two steps, so
that a kill leaves a file that is cut.  File names sort as strings: `Precedes` compares the
digits as `sorted` does.

*What a process resumes from.*  `--resume` takes any path.  The model considers every file of the run's own directory: the
checkpoints, the best and the final ones, and `sft_best.pt`, which is a copy of a best file or, when there is none, weights and a
step only (`Weights`).  `Restored` skips what a file has not, as `load_checkpoint` does, so the scheduler can start at 0 under a
step counter that does not (below, case B).  A path that does not exist is a fresh run; a file that was cut makes `torch.load` raise
before anything happens.  Files of other directories, and a `--model-config` that cannot be read, are not considered.

*Progress and the exported model.*  `ProgressKept` says that a process that may still be killed has, behind it, a complete
checkpoint at most `saveEvery` steps old.  It is stated where that is so: no process strayed, steps have one digit, and DPO
does not iterate.  Each of the three is needed.  A process resumed from an older file writes over newer ones, and
kills inside those writes leave several cut files behind it; with two digits cleanup removes the newest file (finding 2);
DPO's iterations count steps anew.  `BestIsExported` is stated where the steps at which the loop evaluated have one width:
over two widths the file that sorts last is not the last written, and the cleanup of five can remove the best one.

*Assumption.*  As they stand `pretrain.py` and `dpo_train.py` raise before their loops: `pretrain.py:325` reads
`config.model_name`, which `MominoMoEConfig` has not, and `dpo_train.py:586` gives `DPODataset` a `max_seq_len` it does not take.
They would raise in their first batch too: `losses["moe_metrics"]` is a list whose `get` is called,
`compute_log_probs` gathers at the ignored index -100, and `dpo_collate` stacks sequences of different
lengths.  `Repaired` names the scripts in which all that is taken as mended; with `Repaired = {}`, as in the
run `training_saved`, the model is the code as it is.

*Not in it.*  Losses, gradients, optimizer numerics and the groups of parameters; `DistributedDataParallel`, where
rank 0 alone saves; a kill between two removals of one cleanup; metrics.

### Generate, Prepare, Batches and Corpus

*Generate* has a variable for the command line, the stages that are left, the samples of the current
one and the files.  Requests fail and fall back to a template, an answer of the API may be absent, `--augment` doubles
samples, and a kill may fall between any two steps or inside the write of a file, which is then `cut`.
`Quality` translates the thresholds of the filter: lengths in characters, and the number of strong and
weak phrases.  `expected_patterns` is never handed to the filter, so its coverage test is there and never fires.

*Prepare* converts one row at a time; a message list that does not parse, content that is null, a row
that cannot be read, a dataset that fails to load and one without rows are cases of their own.  The shares
90, 5 and 5 of 100 are constants, 50, 25 and 25 in the run, so that few samples fill all three files.

Loops that skip some of what they read, such as `filter_and_dedup` and the history of a conversation, are `Picked` of
module `Loops`: a recursive function of the places that are taken.  `SelectSeq` and `SetToSortSeq` say the same, but take an
operator or sort, which the provers cannot look into.  `--max-samples` and `--augment` are natural numbers; what a negative
one would do to a slice or a `range` is not modelled.

*Batches* is pure: a token is the part of the text its byte is of.  Bounds that stand for larger numbers: `MarkerLen`
3 for 15, `MaxSeqLen` 30 for at most 2048, where the tokenizer of the scripts cuts too.  Text is ASCII, a byte a character.  A side of a pair lacks its end marker where prompt
and response reach their limits, exactly or beyond; `MaxPromptLen` is 20 in the run so that one template's prompt has
exactly that length.

*Corpus* follows one generator and then loads any line of any of its files as an item.  `LossSkipsPrompts` says exactly which tokens
are targets: those after the prompt.  The assistant marker stands there too and is not of the response, which
`OnlyResponsesCount`, the docstring's sentence, forbids (finding 3).

### Inference, Golden, Convert, Benchmark and Deploy

*Inference* replaces a hidden state by the set of positions it depends on and a cache slot by the position whose
key it holds and what that key depends on, so that masks, offsets and slots are what the model is about.
One action each for attention, routing, one expert of the dispatch loop, the end of a layer, a sampled
token and the return.  A `top_k` larger than the vocabulary makes `torch.topk` raise (`TopKRaises`).  Routing is any choice of distinct experts; probabilities are hundredths.

*Golden* adds the hooks to those actions, and the comparison of what they captured with the files of a
directory: names tried in the order of the code, sizes, percentages, infinite elements and NaNs.  A dump of its tensor's
size with an infinite element has infinite errors and may still pass; with a NaN its errors are NaN, which is neither a divergence nor infinite, so it
may pass and be the only evidence (case D).  `PassNeedsEvidence` therefore speaks of errors that are not infinite,
and `PassComparesNumbers` of numbers.

*Convert* writes a file tensor by tensor; the converter's `main` always asks for the listing, whose format raises
at the first tensor, so only callers of the function get a file.  The offsets are a running sum of `Loops`.  The reader is
what the format's comments say the engine computes, that engine not being in the repository.  A descriptor holds four dimensions
(`FirstFour`): of a tensor with more, only the offset is claimed.  The name of an expert's tensor with five parts raises
(`NameRaises`).  `MacroName` is the name the exported header gives a tensor; `NamesMatch` compares it with the file's (case C).
No tensor of this model has more than two dimensions, so the cut of the shape is a limit of the format and not a fault.  A block has 4 lanes for 32.

*Benchmark* goes through the five parts of `run_benchmarks` scenario by scenario.  A text is a sequence of words.
The program decodes all that `generate` returns, prompt included, which the model keeps: what is scored
is the prompt, cut from the front of the window, followed by the output (finding 4).  `Spellings` are the words looked for
in a diagnosis, in their order, `memory_corruption` with its second spelling.  Results are written once, at the end, so every late failure loses all of them: a
test file with a line that is not JSON (`LineRaises`), one without a bash line, and an output path without a directory.

*Deploy* follows the model, the converter or the benchmarks; they share only files.

## 3. Runs

| Run | Bounds | What it shows |
|---|---|---|
| `sched` | boot, idle, 3 process slots, 3 page tables, 4 processes in all (`MaxId = 6`); 76 828 states | The invariants and the liveness of the scheduler for programs that wait for their own children |
| `any_waiter` | the same, any process waits for any | `NoLostWake` is violated (finding 1) |
| `tty` | buffer of 5 bytes, the line end, the zero byte and another, one reader, reads of 0 to 3 bytes; 49 974 states | The counters agree, no lost wake, `LineQueue` is implemented, the reader is released |
| `kheap` | requests of 1, 2, 3, 5 and 8 units, a page of 2, an initial heap of 4 and a limit of 18, 12 frames of which others take up to 6, 3 pages under a page table; 58 849 states | The list tiles the heap, no two free neighbours, frames are accounted for, `Allocator` is implemented |
| `console` | as `sched` with 3 processes (`MaxId = 5`), 2 lines typed ahead; 39 306 states | The CPU stays consistent, one foreground process, no reader sleeps over a line, every read returns |
| `training` | 10 command lines of the three scripts, 2 processes in one directory, 3 losses; 333 951 states | Counters and files agree, whole windows, oldest first, bounded growth, progress kept over kills, the best exported, the schedule's shape, a run ends |
| `training_saved` | one long fine-tuning | `SavedIsKept` is violated (finding 2) |
| `corpus` | 3 templates, 6 command lines, 4 answers, 2 launches, 10 conversations in 4 datasets; 112 922 states | What is written is clean, a prompt lacks its answer, splits partition, the targets are what follows the prompt |
| `corpus_loss` | the same | `OnlyResponsesCount` is violated (finding 3) |
| `deploy` | 2 rows, 2 layers, 3 experts of which 2 are taken, a context of 3, 9 requests, 3 state dicts, 9 directories of dumps, 5 test files, 4 outputs; 87 758 states | Caches, dispatch, ends, descriptors, distinct names, verdicts and reports |
| `benchmark_echo` | the same | `OutputIsScored` is violated (finding 4) |
| `inference_attention` | the requests with caches | `SeesItsPast` is violated (finding 5) |

*Why the bounds are enough.*  With three slots and four processes a slot, a page
table and a stack are reused while others live; a parent, its child and its
grandchild, all in different calls, exist together, and a READY thread
can be before, behind and between the ones that block, exit and are reaped.
A fourth slot adds no new pair of neighbours in the ring.  A ring of
five bytes holds two lines or one line and an edit, is filled, and
wraps at every offset.  Two lines typed ahead let a read find more than the line
that woke it.  A heap of 18 units holds nine blocks, enough to free one with a free or used neighbour on
either side; a request of 8 grows the heap by more than `KHEAP_INITIAL_SIZE`,
and with 12 frames every growth can succeed, fail at any page or stop at a page table.
The jobs of `training` have epochs that do and do not divide into windows, step numbers that stay below ten and that pass
it (`RemovesOldest` and `SavedIsKept` differ there), one and several files kept, up to six `checkpoint_best` files, so that the cleanup that keeps five removes one, and none at all, warm-ups of none and
of several steps, iterations of DPO; two processes are a crash and what follows it.
In `corpus` every threshold has a text on both sides and every early return of a conversion a row.
In `deploy` a prompt and its generation end before, at and beyond the context, rows of a tensor fill their
blocks and do not, a tensor has from no to five dimensions, dumps are of every size and hold infinities and NaNs, prompts are shorter and longer than the window, and the test file is missing, empty, not JSON, without bash
lines, and longer than the sample that is taken.
Deadlock is checked in `sched`, `any_waiter`, `tty` and `console`.  In `kheap` the
system stops in `alloc_table`; the programs of the other runs end.

*Fairness.*  `WF(TimerIRQ)`: the PIT fires for ever and interrupts are on in user
code and in the idle loop.  `WF(KernelStep)`: a thread in a system call that has the CPU
goes on, the poll loops being bounded by `ATA_POLL_LIMIT`, and after a block the call
resumes where it was.  In `Tty`, `WF(Resume)` is what `ReadyRuns` of `Sched`
establishes.  Nothing is assumed of user programs, of typing or of the disk's
yields: none of them has to happen.  In `Training`, `WF(Train)`: a process that is not killed goes on.
Nothing makes anyone start or resume one.

*Liveness under these.*  `ReadyRuns` (no starvation), `WaitReturns` (a parent whose
child has exited returns to user code), `ReaderReleased` and `ReadReturns` (a reader returns
once a line is there, the last with everything between the interrupt and the return), and
`RunEnds` (a training process ends).

### Findings

1. `waitpid` by two threads on one child.  `child->waiter` holds one thread
   (`src/kernel/syscall.c:323`); the second caller overwrites the first, whose wake
   is lost, against the comment at `src/kernel/syscall.c:325`.  No program of
   `userspace` does this.
2. Cleanup by name.  `_cleanup_old_checkpoints` sorts paths as strings
   (`training/training/train_utils.py:309`), so step 10 counts as older than step 9 and the file just saved can be
   the one removed, against the docstring at line 304.  Within step numbers of one width the docstring holds
   (`RemovesOldest`); the same order picks `sft_best.pt`, and `BestIsExported` holds there only.
3. Targets in the marker.  The labels of an item are masked for as many tokens as the prompt has
   (`training/training/dataset.py:225`), so the assistant marker is learned with the response, against the docstring at
   line 166.
4. Points for the prompt.  What is scored is prompt and output (`training/data/agent_benchmark.py:1085`), so keywords and fault names
   of the prompt count as the model's, against the comments at lines 1087 and 1226; the history of a
   dialogue records the beginning of the prompt as the model's answer.  Of the built-in fault logs four of the five of type `oom` show that word inside
   the window, so they are found whatever the model says; one of type `panic` shows its word, and is found unless the output
   holds "oom", which is looked for first.
5. The causal mask of cached passes.  `training/train_moe/attention.py:151` takes the mask's rows from 0, whatever
   `start_pos` is, so a generated token attends to slot 0 alone, against the comment at line 134.

### Other disagreements

A to D are stated in the modules too, each with a configuration by which TLC finds it violated
(`tlc -config X.cfg M`).  They are not among the runs of `PROJECT.json`, and no property of those runs rests on them.

* A. Two readers of the terminal (`Tty`, `TtyTwoReaders.cfg`, `SleeperIsAwaited`).  `waiter` holds one thread
  (`src/drivers/tty.c:96`); the second reader that blocks overwrites the first, for which no line end has a wake left.
  The shell's discipline gives one reader at a time, which `OneForeground` states and `ConsoleOneForeground` proves.
* B. A schedule that is not restored (`MCTraining`, `TrainingResumed.cfg`, `ScheduleIsRestored`).  `load_checkpoint` skips what a file has
  not (`training/training/train_utils.py:271`), and `sft_train.py:282` writes `sft_best.pt` without optimizer and scheduler when no
  best file exists.  Resumed from it, a process is at step *n* with its schedule at 0, against the docstring at `train_utils.py:249`.
  `CountersAgree` says what holds over such resumptions, too.
* C. Names the engine does not find (`MCDeploy`, `ConvertNames.cfg`, `NamesMatch`).  The norms of a layer have four parts and are not
  renamed, `TENSOR_NAME_MAP` is not used, and the experts' names do not fit 31 bytes (`training/convert/convert_model.py:79`, 266),
  against `export_config.py:180` and the comments at `convert_model.py:54` and 72.  `DescriptorsFindData` follows descriptors
  by their order and claims nothing of names.
* D. PASS over NaNs (`MCDeploy`, `GoldenNan.cfg`, `PassComparesNumbers`).  No comparison with a NaN is true
  (`training/eval/compare_logits.py:203`), so a dump of nothing else passes, against the purpose that `docs/AI_SUBSYSTEM.md:197` gives
  the comparison.  `PassNeedsEvidence` says what a PASS does mean.
* E. Two scripts do not reach their loops (above, under *Training*): `StartUpRaises` lists them.

## 4. Theorems

All for every set of slots and page tables, every `MaxId`, every number of lines typed ahead,
every size of the terminal's ring, alphabet and set of readers, every set of training command lines,
every number of processes started, every page size, heap limit and number of frames, all templates, answers, conversations,
texts and lengths, and every size of model, batch, context and vocabulary.

| Theorem | Statement | Assumes |
|---|---|---|
| `SchedTypes`, `SchedOneRunning`, `SchedAddressSpaces` | `Spec => []TypeOK`, `[]OneRunning`, `[]AddressSpacesIntact` | nothing of the programs |
| `SchedMovesUp` | `Spec => ReadyMovesUp` | nothing of the programs |
| `SchedNoLostWake`, `SchedNoDangling` | `Spec => []NoLostWake`, `[]NoDangling` | `AnyWaiter = FALSE` |
| `TtyTypes`, `TtyCounters`, `TtyImplementsLineQueue` | `Spec => []TypeOK`, `[]CountersAgree`, `ImplementsLineQueue` | nothing |
| `TtyNoLostWake` | `Spec => []SleeperIsAwaited` | at most one reader |
| `ConsoleCpu`, `ConsoleOneForeground`, `ConsoleNoLostWake` | `ConsoleSpec => []CpuConsistent`, `[]OneForeground`, `[]ReaderIsAwaited` | `AnyWaiter = FALSE` |
| `KHeapTypes`, `HeapChecks`, `FreeBlocksMerge`, `FramesAddUp` | `Spec => []TypeOK`, `[]ListTilesHeap`, `[]NoFreeNeighbours`, `[]FramesAccounted` | the geometry of `kheap_init` (`KHeapAssumption`) |
| `HeapIsAllocator` | `Spec => ImplementsAllocator` | the same |
| `TrainingCounters`, `TrainingWindows`, `TrainingSteps` | `Spec => []CountersAgree`, `WholeWindows`, `[]StepsBounded` | a well-formed command line (`JobsAssumption`) |
| `TrainingGrowth`, `TrainingRemovesOldest` | `Spec => []GrowthBounded`, `RemovesOldest` | the same |
| `TrainingBest`, `TrainingSchedule`, `TrainingProgress` | `Spec => []BestIsExported`, `WarmsUpThenDecays`, `[]ProgressKept` | the same |
| `FilesAreClean` | `Spec => []WrittenIsClean` | every template has an id, a prompt that is not empty and its texts; `--augment` and `--max-samples` are naturals |
| `PromptsLackAnswers`, `EverySampleOnce` | `Spec => []PromptLacksItsAnswer`, `[]SplitsPartition` | rows are conversations or do not parse; the shares add up to at most the whole |
| `LossIsAfterPrompts` | `Spec => []LossSkipsPrompts` | all of these, a marker and a sequence of more than one token, a prompt limit of at least one (`LengthsAssumption`) |
| `InferenceExperts`, `InferenceEnds`, `InferenceCaches` | `Spec => []EveryExpertHeard`, `[]NothingAfterEos`, `[]CacheHoldsTheSequence` | the checks of `__post_init__` (`ConfigAssumption`) |
| `DeployKeepsInference` | `DeploySpec => [](CacheHoldsTheSequence /\ EveryExpertHeard /\ NothingAfterEos)` | the same |
| `DescriptorsFind` | `DeploySpec => []DescriptorsFindData` | blocks are not empty; a tensor has a name and a shape of naturals (`BlockAssumption`) |
| `PassHasEvidence` | `DeploySpec => []PassNeedsEvidence` | `ConfigAssumption`, and a batch that is finite and not empty (`GoldenAssumption`) |
| `ReportIsOfAWholeRun` | `DeploySpec => []ReportAddsUp` | every scenario's texts are sequences of words, a dialogue has a turn and finitely many keywords, a fault's name is among those looked for, each once; the window and the memory are naturals (`WindowAssumption`, `ScenarioAssumption`) |

*The argument.*  `CpuInv` strengthens `OneRunning` and `AddressSpacesIntact`.  The
idle thread is in the ring and is always READY or RUNNING, so that the
`schedule_locked` of a thread that blocks or dies never finds nobody; this is
what makes those two calls safe, and nothing in `sched.c` checks it.  The page
tables of the processes are pairwise distinct and not the kernel's, so the test
`thread->pml4 != cur_cr3` in `sched_reap` protects the only table that could be
in use.

`SchedMovesUp` rests on the same invariant: the ring holds each thread once, so a thread has one place in it.
`pick_next` takes the nearest READY thread, hence every other READY thread stands behind the one taken and
comes forward by as many places as the ring turns (`RotateRing`); a new thread goes to the end (`AppendRing`), and a reap
moves those behind the corpse one forward (`WithoutRing`).  It bounds the wait of a READY thread by the length of the ring, in context
switches; that the switches come is `ReadyRuns`, which needs fairness.

`WaitInv` adds the protocol of `waitpid`: ids are not repeated, and an id is in the `kids` of at most one
process, an older one; the child of a waiting thread is in the ring, is one of its kids and names that
thread as its waiter; and a thread asleep in `waitpid` has a child that has not
exited.  The first conjunct is where `AnyWaiter = FALSE` is needed, and run
`any_waiter` shows that it is.

`ConsoleInv` adds to `CpuInv` that at most one process is not waiting for a child
(`OneForeground`); that a thread that has exited is in `thread_exit_code` and has no
child left to wait for; that a thread in `tty_read` is a process with no child left, hence
the foreground one; that there is no process before `kmain` loads the shell; and that `ttyWaiter`, when set,
is a live thread in `tty_read` and no line is complete.  A second reader would have
to be a second foreground process.

`TtyInv` is `CountersAgree` said of the function `Byte`, the ring read from `tail` on,
with the types and the fact that a reader inside `tty_read` asked for at least one
byte (else its copy loop could stop nowhere).  `PutFacts` and `CopyWindow`, the lemmas
about the window between `tail` and `head`, carry both the invariant and the
refinement: a byte put goes behind the window and leaves it alone, a copy moves it
forward by as many bytes as it took.  `RefineNext` maps each action: `Erase`, `Type` and
`Enter` to the action of the same name, a copy to the abstract `Read` with the
longest piece, a sleep to a stutter.

`HeapInv` states the list of `kheap.c` without walking it: a block ends where another begins or at the top, its links name
its neighbours by address, and no two blocks overlap; with it, that free blocks are apart, that the
heap is whole pages below its limit, and that frames add up.  The walks of `kmalloc`, from `heap_head` along `next`, are brought
back to it by induction: after *k* steps the walk is *k* blocks up the heap or at its end (`WalkClimbs`).  A split, a merge with the next block and with
the one before, and a growth each have a lemma over any heap that tiles.  A growth's cost in frames is its pages and the page
tables not yet there (`Cost`), so a roll-back that keeps the page tables keeps the sum.  The refinement maps `pieces` to the blocks that are
not free, each with its size, and merging and growing to stutters.

`StepInv` of `TrainingProofs` says of a file that it holds the step of its name, that its scheduler is
not ahead of it, and stands there if no process went on from weights alone (`bare`), unless DPO iterates, and that its step is at most `maxSteps + runs - 1`; and of a process that
in phase `batch` there is room for one step more below that bound.  A resumption adds one to `runs`, and this is the
room a finished run resumed at its limit needs.  Of `sft_best.pt` it says the same as far as the file has entries
(`ExportHoldsAStep`), since a process may go on from it too.  `WindowInv` says what the gradient holds: `batch % accum`
batches, or in `sft_train.py`, up to an epoch's first boundary, those and what the last epoch left over; an epoch
shorter than a window never completes one.  `RemainderUnique` and `RemainderStep` are the facts about
division it takes.

`DirInv` counts a directory: of one base there are at most the files kept and one for each process, of which the process
that runs has its own only while it writes it, since the cleanup that follows the write makes room.  Names are
totally ordered (`Precedes`, with its widths and powers of ten), so a cleanup of *n* files keeps exactly *keep*, and what it removes sorts
before what it keeps.  `BestInv` follows the best model of a first run: of the evaluated steps of one width the newest
`checkpoint_best` file is the one of the lowest loss, and no cleanup removes it.  `LadderInv` is why progress survives kills in
`torch.save`: the multiples of `save_every` are rungs, `Due` is the last one the process has passed, the file of `Due` is
complete and none complete lies beyond, and every cut file has a complete one at most a rung before it.  Proving it showed that the property
as first written was false: it was silent about which file a process resumes from.

`PrepInv` of `CorpusProofs` says that every sample, gathered or written, is the conversion of a row (`Converted`); the rest is about
the conversion of any conversation: the parts of a prompt come from the turns before the last of the agent
(`FlattenPlaces` says where an element of a flattened sequence comes from), or from the turns that are not the agent's (`PickedEmbeds`).
The split takes three slices of one permutation, and their lengths fit by the arithmetic of `SharesFit`.
`GenInv` says of the samples in hand that they have the shape of a line, and of what is to be written and of every file that
it is clean: `FilterKeeps` for the filter, `AugmentedIsClean` for the variants, `BeginningIsFiled` for a write that is cut.
`ItemInv` rests on both, as any line of any file may be loaded: `SftCovers`, `PairCovers` and `ChunksCover` compute, for any lengths,
the tokens, labels and targets of an item.  The proof found the boundary of the end marker: a prompt of exactly
`MaxPromptLen` bytes with a response at its limit loses it too, which the property as first written excluded.

`DispatchInv` of `DeployProofs` says that in the loop over experts a token holds the outputs of its experts below the
loop's; `RowsInv`, that no row holds an end token before `done`.  `CacheInv` relates the pass to the
caches: a pass starts where the last ended, at 0 or behind the prompt; a hidden state sees itself and nothing later, and
once a layer has attended, a prompt's sees all of the prompt before it; a slot the pass has reached holds its position.
The mask that starts at row 0 (finding 5) does not break this: it hides slots and shows no later one.

`DeployRunsInference` shows that a behaviour of `Deploy` is one of `Inference` with stutters, which carries these three over to
the composition: hooks and comparison leave the passes as they are.

`ConvertInv` says where the converter stands in its file: `current` is the sum of the sizes of the chunks so far, and every
descriptor written has a chunk of its tensor's name and size that starts at its aligned offset (`Describes`).  A chunk
appended later moves no earlier start (`StartsKept`, from `SumOfBeginning`).  That a quantised element comes back is arithmetic for any
shape and block size: the place of a row and a column in rows padded to whole blocks, divided by the block size, is
its block and the remainder its lane (`PlaceOf`, `LanesFindElements`).

`GoldenInv` follows the plain pass of the harness layer by layer: a layer that is through has its three outputs captured and,
of expert outputs, between *k* and *k* for each token (`RoutedCount`: a token's experts are *k* different ones); within the dispatch
loop, those of the experts below the loop's that some token was routed to; a layer not yet dispatched has none.
The verdict rests on it, because `max()` of no finite error raises before anything is printed.  Experts are counted from 1
in the routing and named by number in the keys, and the keys of two experts, layers or bases differ (`KeysApart`).

`BenchInv` has one conjunct for each thing scored, and each follows its part of `run_benchmarks` scenario by scenario: the points so far
and the scenarios still to run are together no more than the part has, of a tool call each stricter point is given with the looser one,
and a keyword is found at most once a turn, for which the turns over and those to come are counted (`AtMost`, `History`).  What is averaged
is fixed where its part begins: different bash lines of the test file (`SampledLines`), at least one, or the file's first lines.  A run that
raises, a line that is not JSON among the reasons, has written no report.

*Induction.*  The library's induction theorems take an operator and cannot be instantiated.  `CommonLemmas` restates what is
needed with sets and functions instead: a set that holds 0 and is closed under successor holds every natural
(`NatInductionOnSets`), and a step function has its sequence of iterates (`NatRecursion`).  With these recursive functions such as
`Pow10`, `PickedUpTo`, `SumUpTo`, `ProductUpTo` and the one inside `FlattenSeq` are reasoned about for every argument.

*Only model-checked.*  Liveness under fairness (`ReadyRuns`, `WaitReturns`, `ReaderReleased`, `ReadReturns`, `RunEnds`), which is out of the prover's
reach; and `NamesDiffer`, that the 31 bytes of a descriptor's name tell a file's tensors apart.  It is about the characters of a printed name
(`Dotted`, a fold over strings), of which the provers know nothing, and it depends on the state dict: names that share their first 31
characters would break it.  The other way round, the `TypeOK` of
`KHeap` is proved and no run lists it: what matters of it, that frames are never overdrawn, is in `FramesAccounted`.  Of the five properties that runs find violated only `NoLostWake` is a theorem, under the assumption that
run `any_waiter` drops.

## 5. Plan

Built, in this order: `Sched`, `Tty` over `LineQueue`, `Console`, the proofs of
these three, `KHeap` over `Allocator`, `Training`, `Corpus` with its parts, `Deploy` with its parts, and the
proofs of `Training`, `Inference`, `KHeap`, `Corpus` and `Deploy`.  What would come next are modules for the
kernel's lower layers: an `AddrSpace` of page tables and frames for `elf.c` and `vmm.c`, whose property is that frames are
accounted for when a load fails half way, and a `Disk` with one step for each access of `ext2.c`, whose property is that no
block has two owners.

## 6. Not modelled

* `pmm.c`, `vmm.c`, `elf.c`: what each failure of the loader leaves allocated; overlapping regions of the
  memory map; two segments in one page; the argument block against the bottom of its page.
* `ata.c`, `ext2.c`, `vfs.c`: two callers between the disk accesses of one operation, a crash between two writes,
  sizes cached in handles, truncation of a file when the descriptor table is full.
* `diag`: the shared line buffer with interrupts on, and the selection of events by tick.
* `align_up` at sizes near 2^64 in `kheap.c`; zombies nobody waits for, which keep their slots.
* Python: tensor arithmetic, optimizer numerics, `DistributedDataParallel`, collation, the reward monitor of
  `dpo_train.py` (statistics that only print), metrics and logging; `templates.py` and the
  `generate_*_data.py` scripts, which are data and straight-line loops over it; `full_train.py`,
  `lora_train.py`, `merge_v3.py`, which call libraries with fixed arguments and keep no state.
* Scan code tables, VGA output, the boot assembly, user programs and libc: sequential code without a protocol
  a model would add to.

Each component is listed with its reason in `PROJECT.json`.
