# Verification of the repository's concurrent and stateful code

The repository is a collection of course projects in C, one in Java, and some
scripts. What they share is that their difficulty lies in state that several
actors change: backends of a database server, balls that are threads, readers
and writers of a mapped file, a shell and its children, jobs of a cluster and
their driver. This directory holds
TLA+ models of those programs, the configurations TLC checks them with, and
proofs that the TLA+ proof system checks.

## 1. Inventory

| Component | Source | State | Operations | What makes it hard | Status |
|---|---|---|---|---|---|
| Buffer replacement | `cs3223_freelist-lru.c` | freelist (`firstFreeBuffer`, `lastFreeBuffer`, `freeNext`), LRU stack (`LRU_stack`, `LRU_top_buf_id`), rings, pins and usage counts of the buffers | `StrategyGetBuffer`, `StrategyFreeBuffer`, `StrategyUpdateAccessedBuffer`, `StrategyRejectBuffer`, `GetBufferFromRing`, `AddBufferToRing`, `GetAccessStrategy`, `FreeAccessStrategy` | the scan for a victim reads links without the lock under which others store them; three kinds of spinlocks; retries | modelled |
| Wakeup of the background writer | same file | `bgwprocno`, `numBufferAllocs`, the writer's latch | head of `StrategyGetBuffer`, `StrategyNotifyBgWriter`, `StrategySyncStart` | a registration that is read and reset without a lock | modelled |
| Clock hand | same file | `nextVictimBuffer`, `completePasses` | `ClockSweepTick`, `StrategySyncStart` | an atomic add that runs ahead of the wrap made under the lock | not modelled: since the LRU stack replaced the sweep nothing in the file calls `ClockSweepTick` |
| Packer of pairs | `cs2106 lab3/ex1/packer.c` | two slots and three semaphores of each colour | `pack_ball` | the order in which threads wake; answers written for another thread | modelled |
| Packer of packs of N | `cs2106 lab3/ex2/packer.c` | id of the first ball, a pointer into its array, a counter, three semaphores of each colour | `pack_ball`, `set_other_ids` | N-1 threads on one semaphore; memory of one caller used by all | modelled |
| Other packer of packs of N | `cs2106 lab3/ex2/packer3.c` | five semaphores | `pack_ball` | one post for N-1 waiting balls | not modelled: the Makefile does not build it, `packer.c` has replaced it |
| Packer of matching colours | `cs2106 lab3/ex3/packer.c` | a slot and three semaphores of each colour | `pack_ball` | a handshake of four posts while two mutexes are held | modelled |
| Drivers | `ex1.c`, `ex2.c`, `ex3.c` | threads, result arrays | reading commands, starting threads, collecting | `ex2.c` frees the arrays | only the freeing |
| Zero-copy file | `cs2106_lab4/zc_io.c` | `ptr`, `size`, `offset`, `num_readers`, two semaphores, the file on disk | open, close, read and write start and end, seek, copy | an offset that readers share; a mapping that moves; a failure half-way | modelled |
| Test runner | `cs2106_lab4/runner.c` | - | one test per exercise | - | not modelled: a test program |
| Shell | `cs2106_lab2/myshell.c` | process table | `info`, `wait`, `terminate`, programs in the foreground and background, quit; taking a line apart | the children end, stop and are reaped at any time; `fork` fails; a table that nobody checks; arrays that are not filled | modelled but for a failing `execv` and what follows a write past the table |
| Bonus shell | `cs2106_lab2/bonus/myshell.c` | process table, three flags | as above, `fg`, a signal handler | the handler interrupts the commands, and leaves flags for later ones | as the shell; its parsing is that of the other shell |
| Lists of Lab 1 | `cs2106_lab1/ex2`, `ex3` | linked nodes in memory from `malloc` | insert, delete, search, reverse, reset, show; in `ex3` also sum, length, map | a link nobody sets, memory nobody frees | modelled |
| Top-k common words | `CS4225 assignment 1 TopkCommonWords.java` | records of a job, intermediate and output directories | three jobs with mappers, combiners and reducers; the driver `main` | the combiner runs on any records any number of times; a job fails, the driver is killed and started again | modelled |
| Scripts, notes, notebook | `*.sh`, `*.docx`, `*.ipynb`, ... | - | - | - | not modelled: no state, or documents |

How they interact. The parts of `cs3223_freelist-lru.c` share one control
structure: `StrategyGetBuffer` first wakes the background writer and counts the
allocation, then tries the ring, the freelist and the scan; `StrategySyncStart`
reads the clock hand and collects the count. A packer is called by its driver
from one thread per ball. The shell and its children meet only in `fork`,
`kill` and `waitpid`. The other programs stand alone.

For each component, what makes it correct:

- *Buffer replacement*: a victim is not pinned by anybody; the victim of a scan
  is the least recently used of the buffers that are not pinned; every buffer can
  be found again; the links are, after each update, the order of last use; an
  error is raised only when there is nothing to take; a bulk reader's retries end.
- *Background writer*: a hibernating writer is woken by the next allocation; each
  allocation is reported once. 
- *Packers*: balls are told of each other in packs of the right size and colour,
  the balls of a pack agree, and a full pack never waits.
- *Zero-copy file*: a write excludes everything else; a chunk in use stays mapped;
  each operation begins where the one before it ended.
- *Shell*: the table says of a process what is true of it, no end of a child is
  lost, and quit signals every child that is alive; a line becomes the commands,
  arguments and files it names.
- *Lists*: after any instructions the links hold the sequence they should, no
  instruction leaves the memory of the program, and no memory is lost.
- *Top-k*: the output is the k most frequent words common to both files whatever
  the combiner does, and nothing of an earlier run stops a later one or gets into
  it.

## 2. Modules

`X.tla` is the model of a component with its properties, `MCX.tla` what only its
checking needs (values of constants, symmetry, reference results), `XProofs.tla` its
theorems. Three models are proved about in the module of a neighbour: `LruStack` and
`BgWriter` in `BufferStrategyProofs`, as parts of the same source file, and
`PairPacker` with `CrossPacker` in `PackerProofs`.

| Module | What it is |
|---|---|
| `BufferPool` | The numbering of the buffers, for the two modules below. |
| `LruStack` | `push`, `moveToTheTop` and `deleteBuffer` as single steps on `LRU_stack`, with the order of last use as a history variable. |
| `BufferStrategy` | The calls of several backends. Each critical section of `buffer_strategy_lock`, each look at a buffer header, each read of a link by the scan and each *store* of the stack operations is a step. The buffer manager around it (pin, unpin, fill, invalidate) is external: it is what the source says of its callers. It implements `LruStack` (`ImplementsStack`): an update takes effect, for the abstract stack, when it takes `stack_lock`, and `SettledNext`, `SettledTop`, ... are what the links will be once the pending stores are made. `below`, the order of last use, is a history variable of both. |
| `BgWriter` | The head of `StrategyGetBuffer`, step by step, with the background writer; the writer's loop is external. |
| `Packing` | What `packer.h` promises of any of the packers: `Pack` makes balls that may go together a pack, `Return` tells a packed ball of the others. |
| `PairPacker`, `CrossPacker`, `PackPacker` | The three `pack_ball`, one step from one semaphore operation to the next. Each implements `Packing` under a refinement mapping at the end of the module. |
| `ZcFile` | The zero-copy file; the start of a read is seven steps, since readers are let in together. While no thread uses the file it may be closed and opened again, or copied over (`zc_copyfile`). |
| `Shell` | The process table and the kernel's view of the children, with forks that fail. A command is one step unless it waits in `waitpid` or goes through the table (`info`, quit), which takes a step for each entry. |
| `CommandLine` | `parse_command`, `parse_redirection`, `extract_arguments` and what the child does with them, as functions of a line of tokens; `MCShell` compares them with what the exercises ask. The bonus shell has the same six functions, word for word. |
| `BonusShell` | The same for the bonus, with the handler: a command is a step from one system call or look at a flag to the next, so that the handler can run wherever that makes a difference. |
| `SeqList` | What `node.h` promises: a sequence, and what the driver prints of it. |
| `LinkedList` | The nodes of `ex2` and `ex3` in cells that `malloc` hands out again, one action for each instruction. It implements `SeqList`. |
| `TopkCommonWords` | The three jobs and the driver. The records of a word are counts at places, the combiner replaces those of any group of places by their sum at one of them, a job may fail, the driver may be killed and started again. |

State and actions keep the names of the source. Where a function is several
actions, `pc` says where its thread is, and the actions are named for what the
code does there. `PROJECT.json` has the lines of each definition.

Abstractions worth knowing:

- In `BufferStrategy` the holder of `stack_lock` is the only one who stores into
  the stack, so what it will store is fixed when it takes the lock: `pending`
  holds those stores and `StoreLink` makes one at a time. A spinlock of a buffer
  header that is taken and released within one step is not visible; one that is
  held across steps is (`hdr`).
- An index of -1 into an array sends the backend to `wild`, from where nothing is
  followed. `Rereads` is the choice the compiler has of reading a link once or
  again after the test.
- No property of `BufferStrategy` walks along links with a recursive operator:
  `FreelistIsChain` says that there is a sequence of buffers that the links spell
  out, and `StackIsComplete` that the marked nodes are the least set that has the
  top and is closed under `next`. So they can be proved as well as checked.
- In `PackPacker` the array the pack uses is the first ball's own, as in the
  code. The driver may free the array of a ball at any time after its `pack_ball`
  has returned, and a ball that copies a freed array gets the ids or what the memory
  holds now (`spoilt`). `leader` and `place` are histories: whose pack a ball
  joined, and where its id was put. An array that was freed and holds N other values
  would make the copy write one more than the destination has places for; this is
  not modelled.
- In `ZcFile` `offset += *size` of a reader is a load and a store; `size_t` wraps
  at `Word`.
- In `ZcFile` each of `mmap`, `mremap` and `ftruncate` may fail whenever it is called
  (`MayFail`), and `failures` is the history of those that did since the file was
  opened. `CopyOver` is `zc_copyfile` as its destination sees it: two calls of
  `ftruncate` of which any may fail, and a `copy_file_range` that copies as much as
  it likes.
- In `CommandLine` a place of an array that was never written is `JUNK` in one
  reading of the line and `NULL` in another; both are checked, and `Asked` says what
  comes of it.
- In `LinkedList` a program that reads a cell it has no memory for, or follows
  links round a circle, is `lost`, from where nothing is followed.
- In `TopkCommonWords` words are numbers in lexicographic order, and a text is the
  number of times it has each of them. `merged` and `failed` are histories that the
  properties use: the words whose two counts the combiner has added, and the
  counting jobs that failed.
- In `Shell` the kernel keeps for each process its state, how it ended and
  whether a SIGTERM is on its way. A `fork` that fails returns -1 (`NoPid`), which
  the shell enters as a process; `waitpid` and `kill` for that entry then mean any
  child and every process. `stolen` is the history of the children that such a
  `waitpid` reaped, and `NoPid` in `signalled` says that such a `kill` went to
  processes that are no children of the shell.
- Neither shell checks that its table has a place left. When it has none, the next
  program writes past it (`myshell.c:302`, `bonus/myshell.c:367`). Both models then go
  to the state `overrun` and stay there: what the program does after that is
  undefined.
- In `BonusShell` `signals` holds what each child has yet to act upon; a stopped child acts on
  nothing until it is continued. The children are in the shell's process group, so a key
  reaches all of them; they keep the default dispositions, and have executed their program when
  `fork` returns. Forks fail as in `Shell`; the children that a `waitpid` for such an entry
  reaps are among the `misled`. The handler takes a key as a whole. A key while the table is
  empty looks at what lies before the table: the flags and the counter, which is then 0, so the
  status it reads is not `RUNNING` and nothing changes. The loop of `my_quit` that kills is one
  step.

Definitions marked "a seeded fault" are the wrong variants a plausible slip
would have produced. Nothing uses them; putting one in the place of the
definition after it must make a property fail, which shows that the property
depends on the code.

## 3. Runs

| Run | Question | Bounds |
|---|---|---|
| `strategy_alone` | For one bulk reader with a ring: is replacement LRU, is the error honest, is the freelist a chain, do the stores implement `LruStack`, does every call end? | 3 buffers, a ring of one slot, a build that rereads links. With no one else running the error may be raised only with all buffers pinned (3 pins). |
| `strategy_shared` | With two backends, store by store: is a victim ever pinned by another, is a buffer lost, is the array left, is the stack complete? That several backends implement `LruStack` too is proved (section 5). | 3 buffers so that a node can move between two others under the scan; 2 pins each; no invalidation, one read of each link. |
| `scan_race` | Is the error "no unpinned buffers available" honest with two backends? No. | 2 buffers are enough. |
| `bg_writer` | Is a wakeup or an allocation lost? | 3 backends, so that a newer registration can be removed by an older reader; 4 allocations. |
| `pair_packer` | Is `Packing` implemented (pairs of one colour that know of each other), does every pair return? | 5 and 2 balls: two pairs and one left over of a colour, and another colour beside it. |
| `cross_packer` | The same, for matching colours. | 3, 2, 1 and 1 balls: a partner that leaves while the next arrives. |
| `pack_packer` | The same, for packs of three, with the driver freeing arrays. | 6 balls of one colour, for two packs that follow each other on the same semaphores; two balls with the same id; the arrays of two balls are freed at any time after their return. |
| `zc_file` | Do writers exclude all others, do chunks stay mapped, does the size follow the file, do chunks follow each other? | 2 readers, 2 writers, 2 seekers in three threads; offsets to 4, so that an offset can be before, at and past the end; words wrap at 16; a file that is empty or has 2 bytes, reopened and copied over; each of `mmap`, `mremap` and `ftruncate` may fail. |
| `shell` | Does the table follow the children? Is a line taken apart as it is meant? | 3 children, 3 entries, so that the table can be full; any fork may fail; one child may exit at once and lend its id, one may be stopped and killed. Lines of up to 5 tokens out of 7, with unwritten memory that reads as `NULL` and that does not: two commands, or two redirections with their files, or one and "&" fit in (three redirections do not; the proof has no bound). |
| `bonus_shell` | The same with keys that run the handler between any two steps. | 2 entries, each of a child in the foreground or the background or of a fork that failed: the handler looks at the last entry only, so one child is the last and the other is not; any number of keys and commands; exit codes 0 and 1. |
| `topk` | Is the output the k best common words, however the combiner runs? Does a run that was killed or failed stop the next one? Does every run end? | 4 words of which one is a stop word, k = 2, any two of five texts with ties, equal and missing words; 2 runs of the driver. |
| `lists` | Do the links implement the sequence and its answers, is the memory kept together? | 4 cells: a list of three nodes has a first, an inner and a last one, and one more cell comes back from `free`; numbers up to 2, one of them inserted and the others made by `map`. |

`CHECK_DEADLOCK FALSE` stands where the system may stop: all balls are packed, the shell has
quit or has overrun its table, the bound on allocations or on runs is reached, a program is
lost. Elsewhere deadlock is checked, and its absence is part of the result: `strategy_alone`,
`strategy_shared` and `zc_file` never get stuck.

Fairness. `FairSpec` of `BufferStrategy` and `BgFairSpec` of `BgWriter` let a backend *inside a
call* continue: it is a running process, and spinlocks are held for a few instructions. Whether
a backend starts a call, and whether the writer wakes by itself, is left open. In the packers
every ball is a thread that has been started, so its steps are weakly fair; `sem_wait` is
weakly fair only, which is enough since a colour's semaphores are not contended for ever by
finitely many balls. In `TopkCommonWords` Hadoop and `main` go on (`WF` of `Main`); combining,
failing and killing need not happen. `ZcFile`, `Shell` and `BonusShell` have no liveness
properties: a thread that never ends its read, or a child that never exits, stops them rightly.
`LinkedList` has none either: it waits for its input.

## 4. Disagreements

One is kept as a run: in `scan_race` the scan stands on a pinned node when another
backend moves that node to the top; the scan takes it for the end of the stack and
raises the error although an unpinned buffer was in the stack all the time
(`cs3223_freelist-lru.c:399` and `:406`).

Others were met while modelling. The model contains the behaviour, and the
properties say how far it goes, except it, or the constants of the checked
configurations leave it out, each named below.

- Buffers: a buffer invalidated while another backend allocates can be taken as a
  victim before `StrategyFreeBuffer` deletes it (`:362`, `:421`; `Invalidators`),
  and deleting a buffer that is not in the stack looks like deleting the only
  node (`:793`). A build that reads a link twice may read -1 the second time
  (`:377`; `Rereads`).
- Packers: a ball with the id -1 is taken for none (`ex1/packer.c:48`; `MinusOnes`), and
  in `ex2` for the mark of an empty pack (`NoMinusOne`; no ball of that run has this
  id). There are "no guarantees on ordering or uniqueness" of the ids
  (`ex2/packer.h:13-14`), but `set_other_ids` leaves out all ids that equal the own one,
  not the own entry (`ex2/packer.c:123`): of two balls with the same id after the first
  of a pack neither is told of the other, and each keeps in its array what `malloc`
  left there (`Heard`). The driver may free the array a ball of the pack still reads,
  since its sleep is no guarantee that the others have run (`ex2.c:193`; `spoilt`).
- Zero-copy file: two readers that start together may get the same bytes, since the offset is
  used and stored without a lock (`zc_io.c:86-92`; `raced`); `runner.c` does not try it, since
  barriers order the read starts of its threads (`:59`, `:500`); the offset is compared with
  the size before the lock is taken (`zc_io.c:73-74`), so a start disturbed there may hand out
  a chunk past the end (`raced`); an empty file is reported with the size 1 (`:44`), and a copy
  of it has one byte (`:187`); a failed `mremap` is told by NULL once, and the starts after it
  compute their chunks from `MAP_FAILED` (`:86`, `:127`), while the tests look for NULL
  (`runner.c:222`, `:253`); the result of `ftruncate` is ignored (`:118`), so that a write may
  go to a part of the mapping that the file does not have, where a test would find a "wrong
  length" (`runner.c:263`; both are what `failures` is for); `zc_open` does not test `mmap`
  (`:47`), and `zc_copyfile` tests nothing and returns 0 for a copy that is not complete
  (`:187-199`).
- Shell: a background child that is over at once is reaped where nobody looks at its status and
  shows as running for ever (`myshell.c:310`; `MayExitAtOnce`); a foreground child that is
  stopped shows as exited (`:320-323`; `MayStop`), one that is killed shows the code 0 (`:321`;
  `MayBeKilled`); an entry hides a later one of the same process id (`:55`; `MayComeBack`). A
  `fork` that fails returns -1, which is entered as a running process (`:236`, `:302`).
  `waitpid` for that entry reaps any child, whose end is then recorded there and nowhere else
  (`stolen`); `kill` for it, at quit too (`:566`), goes to every process of the user and not to
  "every process in the PCB" (`:555`), and the code of a child may then be that of the shell's
  own signal. A command that redirects, but not all three files, reads names that were never
  written: they are tested against `NULL` only (`:260`, `:276`, `:285`), so that an input by
  such a name ends the child and an output is created and redirected to, though the comment
  says that the files are stored "if present" (`:476`). An empty line, or one that ends in ";",
  leaves a command that was never written and is followed (`:434`, `:468`).
  `LinesAreTakenApart` says this of both (`Asked`, `PerformsWhatIsAsked`).
- Bonus shell: `fg` does not "wait for it" as its comment says (`bonus/myshell.c:258`)
  but returns and leaves `make_fg` set, so that the end of the next program in the
  foreground is reaped and not recorded (`:397-401`); a key at the prompt leaves
  `interrputed` or `stopped` set with the same effect; a key between `fork` and
  `create_PCBTable`, or between `waitpid` and the test of the flags, is taken for
  the wrong process or hides an end; of two keys in a row the table keeps the
  first. A `fork` that failed has the effects it has in the other shell. The
  history variable `misled` names the children to which one of these has happened,
  and the three properties except them. A background child that a
  key stopped while a later entry was the last shows as running, so quit sends it
  SIGTERM without SIGCONT (`:650`): the signal stays pending, which
  `QuitReachesAll` allows.
- Lists: the link of the first node of a list is never set (`ex2/node.c:35`): in
  memory that was freed before, it may lead to an old node, or round (`stray`).
  `delete_node_at` frees no head (`:67-70`), and nothing at all in `ex3`, so that
  "frees any allocated memory" of `reset_list` (`:123`) does not reach these nodes
  (`forgotten`). `search_list` returns -1, not the -2 of its comment (`:83`), for an
  empty list.
- Top-k: the combiner of the combined job adds the counts of the two files when it
  sees both, and the word then looks like one of a single file and is left out
  (`TopkCommonWords.java:295`; `merged`), though the comment has it deliver a list of
  counts (`:42-43`). `main` ignores how the two counting jobs end (`:274`, `:286`;
  `failed`): after a failure it may exit with 0 and an empty or partial list.

## 5. Proofs

TLC checks the instances above; the theorems hold for all values of the
constants. All are of the form `Spec => ...`.

- `BufferStrategyProofs` begins with `LruStack`, stated of the instance `Stack` that
  `BufferStrategy` implements: `StackTypeCorrect` and `RecencyCorrect`, for any number of
  buffers. `LinksFollowRecency`, with the types, is inductive: it gives for each position in
  the order of last use both links, the top, and the absence of every other node. The lemmas
  take the three operations one by one, and each says what becomes of the position of every
  other buffer. It ends with `BgWriter`, which it extends as well (the two share no name):
  `WriterNeverForgotten` and `EveryAllocReportedOnce`, for any finite set of backends. Both are
  inductive beside the types.
- Its main part is `BufferStrategy`, for any number of backends, buffers and ring
  slots. The theorems differ in what they assume of the constants:

  | Theorem | Property | Assumes |
  |---|---|---|
  | `VictimsAreUnpinned` | `VictimUnpinned` | nothing |
  | `FreelistCorrect` | `FreelistIsChain` | nothing |
  | `StackImplemented` | `ImplementsStack` | `Alone` |
  | `LinksCorrect` | `LinksFollowRecency` | `Alone` |
  | `StackCorrect` | `StackIsComplete` | `Alone` |
  | `NothingIsLost` | `NoBufferLost` | `Alone` |
  | `NothingWild` | `NoWildAccess` | no invalidation, one read of each link, no more backends than buffers |
  | `NothingWildAlone` | `NoWildAccess` | `Single` |
  | `ErrorsAreDue` | `ErrorOnlyWhenAllPinned` | `Single` |
  | `VictimCorrect` | `VictimIsLeastRecentlyUsed` | `Single` |

  `Alone`: nobody invalidates a buffer, or there is but one backend. Without it
  the four properties are false: between an invalidation and `StrategyFreeBuffer`
  (`:421`) another backend may take the buffer (section 4). `Single`: one backend.
  `scan_race` shows that `ErrorOnlyWhenAllPinned` needs it. `NothingWild` needs its
  three conditions: an invalidation is as above; a link read twice may have become
  -1; and if every buffer is popped and not yet pushed, which takes as many other
  backends as there are buffers, a scan starts from an empty stack (`:377`).

  The invariants come in layers. `Inv`: types, and a backend that waits with a
  victim holds the lock of its header, so nobody else pins it. `OrderInv`: the
  pending stores belong to the holder of `stack_lock`, each place is stored to
  once, and what the stack will be when they are made satisfies the invariant of
  `LruStack` (`StackInv`); one step of `BufferStrategy` is one step of
  `LruStack` where it takes the lock and none elsewhere, so that the invariance
  proved of `Stack` is cited, not proved again. The longest lemmas say that the
  list of stores of `push`, `moveToTheTop` and `deleteBuffer`, with the stores that
  overlap when neighbours coincide, amount to that one step. `KeptInv`: the
  freelist is a chain, and a buffer that is not stacked has not been used, so a
  backend that pops a used buffer and forgets it forgets one of the stack - that
  `NoBufferLost` is not inductive without this is why the code may discard what it
  popped. `FirstPush` and `ScanInv`: a scan begins when the freelist is empty and
  has a top to begin at. `UpInv`: what a scan without rivals has passed is pinned.
- `PackerProofs`, the pairs: `TypeCorrect`, `MutualCorrect`, `PackingImplemented`, for any
  number of balls and colours. `PairsAreMutual` speaks of balls that have returned
  only; the invariant ties the slots and semaphores of each colour to the balls
  inside (`SlotsInv`) and each ball to its slot (`BallsInv`). The theorems assume
  `MinusOnes = {}`: no ball has the id -1. The matching colours are the instance
  `Cross` of the same balls: `CrossTypeCorrect`, `CrossMutualCorrect`,
  `CrossPackingImplemented`, whose hypothesis is that the colours are its four.
  `CouplesInv` says which phase of the handshake the two balls inside are in and
  what the semaphores hold.
- `PackPackerProofs`, for packs of any N > 1, any balls, colours and ids, and a driver
  that frees any array at any time after the return: `TypeCorrect` and
  `PackingImplemented`. They assume `NoMinusOne`: no id is the mark of an empty pack,
  which the code cannot tell from one. A colour is open while its mutex is up, and
  then the invariant says who the first ball is and that the balls that have joined
  it have each a place of its array, with their id in it (`OpenInv`, `PackInv`); places
  and not ids tell the balls apart, so the ids may be equal. It is closed while the
  last ball of a pack has the mutex, and then the invariant counts (`LastInv`): the
  posts made are those still on the semaphore and the balls they woke, the balls
  that are back are those still on the other semaphore and those waited for. So when
  the last ball opens the colour again, every ball of the pack has copied the array
  and no post is left for the next pack. Of a ball that has returned, `BallInv` says
  that its group is a full pack and that it was told of the others, unless it copied
  a freed array, as far as its own id lets it (`Heard`). `OwnRemoved` says what
  `set_other_ids` leaves in an array: every id but the own one moves to a place of
  its own.
- `LinkedListProofs`, for any finite memory, any numbers and both programs: `NeverLost`
  (`StaysInMemory`), `MemoryIsAccountedFor` (`MemoryAccountedFor`) and
  `ListImplemented` (`ImplementsList`). The invariant has three parts. `Prefix`: the
  first `size` nodes along the links are allocated cells, each once, and unless the
  list was given an old link they end in NULL. `Reached`: what is allocated and was
  not forgotten can be reached from the head, said of every set that is closed under
  the links, so that no path need be exhibited. `NotForgotten`: no node of the list
  has been forgotten. Each instruction is then shown to keep it, to have done one
  thing to the walk and the numbers (`Done`), and to be that instruction of
  `SeqList`.
- `TopkCommonWordsProofs`, for any finite set of words, any texts and k, any number of
  runs: `CountsAreConserved`, `BestWordsWritten` (`TopKOfCommonWords`),
  `LeftoversAreHarmless` (`LeftoversDoNotStopIt`). `JobsInv` says what each counting
  job left, `Unmerged` that a word the combiner of the third job has not touched
  still has the records of both files, `OutcomeInv` what a run may report. A sum is
  shown to be the size of a set of tally marks, and an entry's place in the sorted
  list to be the number of entries before it and one.
- `ZcFileProofs`, for any finite set of readers and any writers and seekers: `WritersAlone`,
  whose invariant counts the readers inside, says that one who waits for `w_mutex` is alone
  with `r_mutex`, and that `w_mutex` is taken as long as anybody reads or writes; `SizeCorrect`
  (`SizeFollowsLength`), which needs only what each step does to size and file, whichever call
  fails in it; `ChunksFollow` (`NextChunkFollows`): who is not disturbed still finds the offset
  it read; and `ChunksCorrect` (`ChunksStayMapped`), whose exceptions are those of the property
  - a failure to map, a disturbed start - and which assumes `ReadsFit`: an offset and a size
  add up to less than `Word`. A file of nearly 2^64 bytes is beyond the machines the code runs
  on, and beyond that bound the sums of the code wrap around.
- `ShellProofs`, for any children, of which any may exit at once, stop, be killed or have their
  id come back, any forks that fail, and a table of any length: `EndsAreKept` (`NoEndIsLost`),
  `QuitIsHeard` (`QuitReachesAll`), `ExitedAreOver` (`ExitedIsOver`), `CodesAreReal`
  (`CodeIsReal`) and `StatusAdvances` (`StatusGoesForward`). None is inductive by itself. What
  they need of each other: all entries of a process but its first are never written
  (`TableInv`); the shell waits for no process it has told to terminate (`WaitInv`), so the
  code that `WEXITSTATUS` takes from such a wait is never that of the shell's own SIGTERM; what
  is shown as terminating has been signalled and what is shown as running has not
  (`SignalInv`); and what is shown as exited has been reaped (`OverInv`). All this is said of
  the entries of children. An entry of a `fork` that failed may reap or end any of them, so
  `NoEndIsLost` and the codes have the exceptions of section 4, but that quit reaches every
  child and that what is shown as exited is over hold with such entries too. The line:
  `EveryLineIsTakenApart`, for a line of any length and of any tokens, any existing files and
  both readings of unwritten memory, and `LinesCorrect` (`LinesAreTakenApart`) for the lines of
  the run. They assume that the pointers `NULL` and `JUNK` are two, and neither tokens nor
  commands (`Pointers`). `LoopInv` says that after n tokens the commands are the stretches
  between the ";" so far, and `AreParts` that these are the parts which the reference counts
  off by the ";" before them; `StoreInv` says that each file is what follows the last sign of
  its kind so far.
- `BonusShellProofs`, for any children, any forks that fail and any sequence of keys: `EndsAreKept`,
  `ExitedAreOver`, `QuitIsHeard`. `TableInv` says that each child has one entry, while
  failed forks may have many, `HandInv` that what a command learnt from a
  system call is still true when the handler has run and the command goes on, and
  `AwaitedInv` how the two flags and the entry of the child in the foreground go
  together: they are what the command decides by after `waitpid`, and the only
  thing it is not told by the kernel. Both except the `misled`.

Recursion. No induction theorem of the library can be used for a particular
definition here, so what a fold, a sum or a walk along links computes for every
input is proved by the smallest counterexample (`LeastNat`), once the recursion is
known to have a solution: `AtIsWalk`, `SumIsMarks`, `LoopEnd`, `StoreEnd`.

Only model-checked, and why: liveness (`AllPairsReturn`, `AllPacksReturn`, `CallsEnd`,
`AllocationWakesWriter`, `RunEnds`), which is out of the prover's reach, as is all
reasoning about ENABLED. Every safety property and every refinement that a
passing run checks is also a theorem.

The type invariants of the modules with proofs are proved there and not run: the
theorem says for every instance what a run would say for one.

## 6. Not modelled, and what is left

Not modelled: the clock hand, which is dead code; `packer3.c`, which is not built;
a child whose `execv` fails and which goes on as a second shell over the same
terminal - a second copy of the whole model; what a shell does after it has
written past its process table, which C does not define; the drivers but for the collection
loop of `ex2.c`, since they decide only in which order balls arrive; the test
runner, the scripts, the notes and the notebook, which have no state that several
steps share.

The plan, in the order of importance:

1. (done) The LRU stack and its proofs; the replacement strategy with several
   backends as its implementation; the background writer and its proofs.
2. (done) `Packing` and the three packers as its implementations, with the proofs
   for pairs and matching colours.
3. (done) The zero-copy file with copying and the proof that writers are alone;
   the shell and its command lines.
4. (done) The bonus shell: its signal handler may run between any two steps of a
   command.
5. (done) The lists of Lab 1, with a heap of nodes, as an implementation of
   sequences; the top-k words with combiners, failures and restarts.
6. (done) The proofs of the replacement strategy, of all of `ZcFile`, and of the
   safety properties of both shells.
7. (done) The proofs that `PackPacker` implements `Packing` and `LinkedList`
   implements `SeqList`, and of the properties of both the lists and the top-k words.
