# A TLA+ model of the Baga compiler's runtime and verifier

Baga is a small compiled language. Its repository holds a bootstrap compiler in
C (`src/`), a self-hosted one in Baga (`self/`), a standard library (`std/`), a
package manager (`sandak`) and a few services. A compiled program runs on a
runtime that exists twice: as C text that the C backend emits
(`src/codegen_api.c`), and for the LLVM backend as a shared library
(`src/baga_par_rt.c`, `src/baga_world_rt.c`) and as functions that the compiler
builds in IR. `baga --verify` decides what functions promise, with its own
arithmetic, and what tasks, channels and worlds may do.

Modelled are the parts with state or with an argument that a test hardly
reaches: the concurrent builtins, the memory of both backends, the containers
and their reference counts, worlds, the ownership code that the C backend emits,
and the verifier, whose answers are compared with what programs do.

## Inventory

| Part | State | Operations | What makes it correct |
|---|---|---|---|
| channels (`baga_Chan`) | ring buffer, `head`, `len`, `closed`, one mutex, two condition variables | `chan_new`, `send`, `recv`, `recv2`, `try_recv`, `recv_timeout`, `select2`, `select2_wait`, `select2_timeout`, `close`, `len` | every call is atomic on a bounded FIFO; no lost wakeup; a close ends every wait |
| join handles (`baga_JoinHandle`) | `detached` (0, 1, 2), `joined`, `result`, the pthread | `go`, `go_bg`, `join`, `detach`, the trampoline | freed exactly once, by the last user; a join returns the worker's result |
| mutex (`baga_Mutex`) | pthread mutex, atomics `owner` and `locked` | `mutex_new`, `lock`, `unlock`; a raised effect skips the unlock | exclusion although the re-lock test is made without the mutex; no self-deadlock after a leak |
| `pool_map` | two channels, a context, n workers | start, send jobs, close, collect, join | each job once, results in place, no worker outlives the context |
| signals | one slot `baga_sig_seen` | watch, check, clear, wait, the handler | a wait tells the signal that ended it, and a signal ends it |
| arena (C backend) | blocks, spare blocks and free lists per thread, marks, persist depth; process-wide byte counters | `baga_alloc`, `baga_free`, `mem_mark`, `mem_rewind`, `mem_persist_begin/end` | no live cell has two owners; what is older than a mark survives its rewind |
| allocation log (LLVM) | table of live addresses, vector in allocation order, counters, per thread | `baga_lm_malloc`, `realloc`, `free`, `mark`, `rewind`, `persist_begin/end` | a rewind frees what was allocated since the mark, once, and nothing else |
| Vec, Map with reference counts (`--rc`) | counted blocks, growable arrays, buckets with chains | push, set, slice, concat, map set, del, keys, drop; retain and release | a count is the number of references; contents and key order do not depend on the backend |
| worlds | a region with containers named by ids, a shared cache, links and `linked_by` | vectors, maps, records; compact, dump, load, freeze; cache set, add, del, clear; link, unlink, free | the region is invisible to its reader; a linked world is alive, and links close no circle |
| ownership under `--rc` (`codegen_move.c`, `codegen_stmt.c`, `codegen_expr.c`) | scopes of tracked locals, moved names, borrowed pairs | what each statement emits | no use of a freed block; every path releases what it holds |
| verifier: linear core, symbolic execution | facts of a path, remembered operations, obligations | read expressions, execute statements, eliminate, decide | what is proved holds in every run, what is refuted goes wrong in one |
| verifier: wait-for, worlds | counts per channel and handle; ghost states of handles, shares, axioms | judge a blocking statement; accept or accuse a use of a world | a claim is what happens; accepted programs use worlds safely |
| verifier: bits | circuits, a solver with learning | blast, solve, restart | what has no model really has none |
| lexer, parser, checker, sandak, std, apps | compile-time tables, files, connections | - | not modelled, see below |

How the parts meet: the code generator turns a builtin call into a call of the
runtime; `pool_map` is written over `go`, `join` and the channels; the wait-for
and world checks are a static approximation of what `Chan`, `JoinHandle` and the
world modules do at run time; worlds are handed to tasks through channels; the
linear core is asked by the symbolic execution, and the bit solver when the
linear core does not know.

The behaviours that are hard: interleavings of critical sections and of the
unlocked steps between them, wakeups that go to the wrong sleeper, timeouts that
race with a signal, memory that two threads may free, addresses and headers that
are used again after what they named has moved, tables without an empty slot,
retains and releases along paths that leave blocks early, facts that outlive the
values they were about, and arithmetic that overflows inside the prover.
`PROJECT.json` lists them at their lines under "hazards".

## Modules

| Module | Models | State | Step |
|---|---|---|---|
| `AbsChan` | what the channel API promises | `q[c]`, `closed[c]`, the call `req[t]` each thread is inside and its answer `out[t]` | a call, or its one atomic effect and answer |
| `Chan` | the monitor | the fields of `baga_Chan`; `notEmpty[c]`, `notFull[c]` the threads asleep on its condition variables; `pc`, and the locals of `chan_select2` in `loc` | one critical section, from lock to unlock or wait |
| `JoinHandle` | task handles | the block (`heap`, `detached`, `joined`, `result`), the task, the pthread, the callers | one access to the block or one pthread call |
| `Mutex` | the mutex of the C backend | `mu`, `owner`, `locked`, the regions each thread is in | one atomic access or one pthread call |
| `PoolMap` | `pool_map` | its two channels (those of `AbsChan`), caller, workers | one call of a channel builtin, or its answer |
| `Signals` | the slot for a pending signal | `seen`, `watched`, where each caller is, its naps | one access of the slot |
| `Arena` | the memory of the C backend | blocks with their fill, `arena`, `spare`, `fl` of each thread, `marks`, what the program holds, the counters and the counter operations still to make | one call, or one atomic operation on a counter |
| `LmLog` | the allocation log of the LLVM backend | `tab`, `v`, `live`, `peak`, `liveP`, `depth` of each log, libc's `heap`, what the program holds, `marks` | one call |
| `OpenTable` | open addressing with tombstones | - (operators on a table) | - |
| `WorldCache` | `wcache_*` | the table, the dictionary it stands for, payload copies, `stuck` | one call (they run under `wlock`) |
| `WorldRegion` | vectors, maps, records of a world; compact, dump, load, freeze | `region` (offsets to blocks), `store` (what it should hold), `frozen`, `lost` | one call |
| `WorldLinks` | `world_link`, `unlink`, `free` | `links`, `linked_by`, `owner`, what each call has still to do (`calls`), `raced` | the search of `world_link`, the store of the link, and each read and each write of `linked_by` |
| `RcHeap`, `CContainers`, `LlvmContainers` | containers under `--rc` in both backends | - (functions from heaps to heaps) | - |
| `Containers` | a program over them | both heaps, the locals, what vectors and the map should hold | one builtin, in both backends |
| `Ownership` | what the C backend emits for a function | the body, its code, the counted blocks at run time | a statement is written; then one emitted operation |
| `LinearCore` | rationals, forms, constraints, elimination | - (operators) | - |
| `FourierMotzkin` | `fm_sat` | asserted comparisons, the system, variables left | one variable is eliminated |
| `SymExpr` | reading an expression, the facts of `inject_prod_axioms` | - (operators) | - |
| `SymAxioms` | an author of expressions | the expression, its assumptions | the expression grows |
| `SymExec` | symbolic execution | - (operators on paths) | - |
| `Verifier` | `baga --verify` | specification, body, paths, verdict | a statement is written and executed, or the obligations are decided |
| `WaitFor` | `verify_waitfor.c` and the program | counts of the analysis, its claim, buffers, workers | the parent's next statement is judged and tried; a worker's step |
| `WorldProtocol` | ghost states of world handles and the worlds | handles of each body, axioms, shares, the channel, the worlds | one statement that the verifier accepts |
| `BvSat`, `BitBlast` | the solver; circuits of functions | `sat`; `goal` | one round of a loop of the solver |
| `ChanProofs`, `TaskProofs`, `ArenaProofs`, `LmLogProofs`, `WorldProofs`, `FmProofs`, `ProtocolProofs` | theorems (see "Proofs") | | |
| `FoldLemmas` | induction over finite sets and numbers, sums over sets | | |
| `MC*` | instances for TLC | | |

Composition: `Chan` is shown to implement `AbsChan` (`Linearizable`, checked and
proved), and `PoolMap` is built over `AbsChan`, so that what is shown of
`pool_map` holds over the real monitor. `WorldCache` and `WorldRegion` share
`OpenTable`; the two container modules share `RcHeap` and are run side by side.
`SymExec` is built over `SymExpr` over `LinearCore`, as in the code. `MCTasks`,
`MCMemory` and `MCSequential` choose one part in the initial state and leave the
others at rest, so that one run checks several modules.

### How the models correspond to the code

*Channels.* `pthread_mutex_lock` to `pthread_mutex_unlock` is one step, because
everything in between is done with the mutex held. `pthread_cond_wait` is two:
the step that goes to sleep adds the thread to the condition variable's set, and
a signal, a broadcast, the clock (`RecvExpires`, `SelExpires`) or a spurious
wakeup takes it out; then it competes for the mutex and tests its predicate
again, as the `while` loops do. `chan_recv_timeout` does not test again when
`pthread_cond_timedwait` answers `ETIMEDOUT`, and the model lets such a wait
expire although it has been signalled, which POSIX allows. `chan_select2` is
two snapshots under two locks (`Snap0`, `Snap1`), a decision and up to three
`try_recv` calls; the waiting forms loop around it and sleep on one channel at a
time, in the order of the addresses. A channel is a positive number (its
address); 0 is the NULL handle. A capacity below 1 is raised to 1. The payload
is a value of a set `Vals`; what `malloc` left in a slot is `Junk`, which no
receive may return.

*Handles.* An access to a freed block and a pthread call on a thread that is not
joinable are undefined behaviour; the model stops there with `status = "fault"`.
`exit` (a join of a detached handle) stops it with `status = "exit"`. The set
`Plan` says which calls a program makes on each handle. The `magic` field is left
out: a live block always has it, and reading it in a freed block is already the
fault.

*Mutex.* `depth[t]` counts the regions the program thinks it is in. `Raise` is an
effect that leaves a region without `mutex_unlock`. `MaxDepth = 1` are programs
that do not nest regions of one mutex. The LLVM twin has no owner test and is
the pthread mutex itself.

*pool_map.* The element type is that of `fn`; a `cell2` is a pair.

*Signals.* The handler stores the number; `signal_clear` is a read and a write;
`signal_wait` polls and reads the slot a second time for its answer. Naps of
50 ms are counted, not timed.

*Arena.* Everything but the counters is `__thread`, so a call is one step; the
atomic operations it makes on `baga_mt_live`, `baga_mt_spare` and `baga_mt_peak`
are queued in `todo` and interleave with those of other threads (the
compare-and-swap loop of the peak is an atomic maximum). Sizes are the rounded
class sizes, offsets count the header. A persist allocation is a `malloc` of its
own and has no place in a block. A program holds an object from its allocation
to its drop, or to the rewind of an older mark; it may rewind its marks in any
order, each once. The header's magic number and cached string length, the address
range of the arenas and the counter of persist bytes (a plain sum of atomic
additions) are left out.

*Allocation log.* The open-addressing table is the function it represents: its
fill counts tombstones and it is rehashed at 70 percent, so every probe ends. A
freed address stays in the vector, as in the code, and libc may give it out
again; `realloc` is external and either grows in place or moves, with
`MoveAnywhere` also to an address that some vector still names. Out of memory
and addresses that no log knows are left out.

*Worlds.* An offset counts words and `mem` maps the offset of every block to what
is in it, so a stale offset or header reads something else or nothing. Payloads
of strings are kept by value. A probe that meets neither its key nor an empty
slot does not end (`ProbeEnds`): the cache is then `stuck` with its lock held, and
the operation on a map of the region is no step. `wtbl_add` copies the old table
as a header says that the growth just before it may have freed. What such a read
finds is undefined, so each step that makes one has two outcomes: the header
still held what it held, or something else was copied, of which nothing is known
(`lost`; the behaviour ends there). An image of which a read like that was part
is `stale`.

No link is locked. `world_link` searches for a cycle, stores the link and counts
it in separate steps, and `linked_by` is read and written in two, so the calls of
all threads interleave in every way: two threads may update the counter of one
frozen world, and a thread may search through a table that another one changes
(its call is then `stale` and may have missed a link or seen one that is gone).
`raced` collects the worlds for which that went wrong or may have: a counter that
was read while another update of it was under way, and a world whose link closed
a circle. A world that is freed is in no `world_link` to it at that moment: the
program would use a handle that it gave up.

*Containers.* A heap counts the references to every string and byte block and the
cells allocated for structs, arrays, entries and boxes. Strings with equal bytes
are different blocks and one key. The two backends run the same program; where
they differ by design (the LLVM copies of boxed elements are not retained), the
C one runs alone (`Shared*`).

*Ownership.* A behaviour writes the body of a function, compiles it (`Compile`
follows the statement emitters, `rc_lu`, `rc_is_move`, `rc_be_ok` and the scope
stack) and runs the code with every choice at a branch. Types stand for the
kinds of the code: a string, a vector of strings, a struct that holds a vector,
an enum with a string. `mem_mark`, `mem_rewind` and `cell2` pairs are left out.

*Verifier.* Words are short (`IntMax`), so that overflow happens. Sets stand for
lists of constraints and branches; the order in which variables are eliminated
is left open. Functions have one input and perhaps one vector; a run is the
reference: trapping division, wrapping arithmetic, bounds checks, fuel for
recursion. Sorted axioms, slices and concatenations, struct fields and pairs are
left out.

*Wait-for.* The analysis and the program move together: the statement is judged
from what the analysis knows, then tried while workers interleave freely. Worker
bodies come from `Bodies`: sends, receives, loops with a counter, branches, early
returns, nested workers. The limit on the depth of the scan and alias names of
handles are left out.

*World protocol.* A body is verified on its own; the model runs several bodies and
takes a step only if the verifier makes no accusation there. Contracts (frozen,
mutable, owned), calls, `go`, `join`, `detach`, a channel with an axiom, shares
and their expiry, links, freeze and free are modelled; handles that the verifier
does not track and receives from a closed empty channel are not.

*Bits.* A word has `Width` bits (64 in the code); literals, gates and their
simplifications, the ripple adder, shifts by a constant and the barrel shifter
are those of the code, and so are variable numbers, since the solver decides the
lowest free one. The solver propagates over occurrence lists, resolves along the
trail down to the decision, jumps back, propagates the learned literal and, if
that fails at once, goes on propagating without analysing that conflict, as the
`continue` in `bv_sat_solve` does. The code's budget of variables and the branch
without learning are left out (the caller always sets `cdcl = 1`, although the
comment above it says that it stays 0). The witness of a satisfiable formula is
re-run by the code before it accuses, and needs no model.

## Runs

| Run | Shows | Instance |
|---|---|---|
| `MCChanCore` | `TypeOK`, `NoLostWakeup`, `Linearizable`, `RecvBlocksOnlyWhileEmpty`, `SendBlocksOnlyWhileFull` | three threads, one channel of capacity 2, two values; send, recv, recv2, try_recv, close, len, and NULL handles |
| `MCChanSelect` | `NobodySleepsOnClosed`, `NoLostSender`, `Linearizable`, `ClosedReleasesEveryCall` | one thread selects (three forms), one feeds and closes two channels of capacity 1, one takes values with recv2 and recv_timeout |
| `MCTasks` | mutex: `TypeOK`, `MutualExclusion`, `NoSelfDeadlock`, `MutexIsGranted`; handles: `OneOwnerFrees`, `JoinReadsResult`, `HandleIsFreed`; pool: `JobsAccounted`, `OrderPreserved`, `PoolReturns`; signals: `WaitTellsTheSignal`, `SignalEndsWait` | three threads with leaks; three handles with one call each, any a `go_bg`; vectors of 0 to 3 elements, worker counts 0, 2, 4; two callers, four signal numbers, two naps |
| `MCMemory` | `ArenaSound`, `Telemetry`, `LogSound`, `Accounting`, `LinksSound`, `SomeFreeable` | a worker that marks, rewinds and persists beside a server; two sizes (a small listed one, two of which share a block, and one that needs a block of its own), two blocks, two objects; the log with three addresses and two sizes, long or with nested marks; links of four worlds, two of each of two threads, a search budget of depth 1 and three steps, at most one counter raced for (`MaxRaces`) |
| `MCSequential` | `CacheSound`, `RegionFaithful`, `BlocksExact`, `BackendsAgree`, `NoDangling`, `Balanced`, `FmSound`, `SymbolicTrue`, `VerdictTrue`, `WaitForTrue`, `WorldsSafe`, `BitsTrue` | see below |
| `MCChanSteal` | violates `RecvBlocksOnlyWhileEmpty` | a `chan_select2_wait` beside a `chan_recv` |
| `MCHandleDetachUse` | violates `NoUseAfterFree` | one handle, one detach |
| `MCArenaShared` | violates `NoTwoOwners` | as `MCMemory`, and a thread may drop what another one allocated |
| `MCLmLogMove` | violates `HeldIsAllocated` | as `MCMemory` with `MoveAnywhere` |
| `MCCacheSpin` | violates `ProbesEnd` | four keys in a cache of four slots |
| `MCElision` | violates `NoDangling` | bodies in which a vector has a second name |
| `MCFalseProof` | violates `VerdictTrue` | functions with a loop |

`MCSequential` (1.11 million states), part by part: the cache with three keys, two of which
collide, over one growth; a region of at most 29 words with two vectors, maps over the same keys or
records of up to two fields, which moves, is compacted, dumped and loaded; two strings with the same bytes, two vectors and a map from strings to
boxed values or from integers to strings; bodies of up
to three statements; systems of up to three comparisons over two variables in a
word of four bits; expressions of two operators over a word of eight bits and
inputs at its edges; functions of three statements against six specifications in
a word of eleven bits; parents of four statements with two workers over two
channels; two or three bodies with one or two worlds; functions of two words of
four bits and every choice from nine clauses over four variables.

Why the bounds are enough: three threads are the least for a sleeper, a waker and
a thread that gets in between; capacity 2 is the least ring that is neither full
nor empty in between and that wraps at every offset; two values tell FIFO from
any other order; capacity 1 makes every send and receive an edge case, and two
channels are what a select has. Programs of the channel runs are not bounded: a
thread makes calls over and over. For the memory modules, two blocks are the
least for a rewind that gives one back and an allocation that takes it again;
three addresses let one be freed, reused and moved to while another is held.
Two containers in a region are the least for one to grow while the other is
read, and the table of ids starts with one place, so it moves too. A map starts
with two slots, two of its three keys collide, and 29 words are the least for one to
grow, so it meets collisions, tombstones and rehashing. Four worlds are the least for
two calls that each store one link and together close a circle, and a budget of
three steps ends searches among them. Two strings
with the same bytes are what a key that is already there needs. Three statements
are a binding, a use and a change in between, inside or outside a loop. Four
bits are the least word for a shift count of two bits and a sign. The words of
the verifier are such that sums and products of its inputs overflow.
`MCMemory` (1.41 million states) uses symmetry over the addresses, which no
definition tells apart.

What the violations say. (1) `chan_send` signals one sleeper of `not_empty`, and
`chan_select2_wait` sleeps there too. If the select is woken it looks at both
channels and may return with a value of the other one; the receiver next to it
keeps sleeping beside a value until the next send. (2) `detach` announces itself
with an atomic exchange and then reads `h->th`; a task that ends in between has
freed `h`. (3) `baga_free` puts a block into the free list of the thread that
drops it; when the owner then rewinds past the block, only the owner's lists are
cleared, and both threads are given the same cells. The comment at
`codegen_api.c` 161 calls the cross-thread drop safe. (4) A freed address stays
in the vector of the LLVM log; if `realloc` moves an older block there, a rewind
frees a value from before the mark. (5) The cache counts live entries when it
decides to grow, and a probe stops at an empty slot only: with every slot live or
deleted it goes round for ever, holding the world's lock. (6) An element that is
borrowed without a count from a vector is freed through another name of that
vector. (7) After a loop the verifier uses the guard over the values from before
the loop, so the path behind it looks unreachable and anything is proved of it.

Smaller disagreements that have no run: nested regions of one mutex (`MaxDepth = 2`
in `MCTasks` violates `MutualExclusion`: the re-lock branch does not count, so the
inner unlock opens the outer region); two threads that link to one frozen world
can lose a count of `linked_by`, after which `world_free` accepts a world that is
linked to (`TargetsAlive` instead of `LinksSound`), and two `world_link` calls at
once can close a circle of four worlds of which none can ever be freed
(`SomeFreeable` without `raced = {}`), while the comment at `codegen_api.c` 1547
and rules 1 to 3 of `docs/worlds-bg.md` 597 say that the counter prevents the one,
the search the other, and that neither needs a lock; `chan_select2` takes from the *fuller*
channel (`codegen_api.c` 2733), its comment says the emptier; a `detach` of a
finished task frees the handle without `pthread_detach`.

### Holes

The compiler and the verifier have shapes of programs for which their answer is
wrong. `MCElision` and `MCFalseProof` show two of them. So that the passing run
says something about all other programs, each known shape has a name, and an
instance contains it only if the constant `Holes` names it. With any one of them
TLC finds the violation.

* Ownership: `alias` (run `MCElision`); `ifexpr`, the value of an `if` is a name;
  `matchbind`, the payload of a match is assigned; `param`, a field of the
  parameter is assigned; and, leaks only, `branchmove`, `deadassign`, `lefttemp`.
* Verifier: `loops` (run `MCFalseProof`; a run that enters a loop is set apart);
  `opaque`, operations on values that are not linear leave no obligation;
  `elem`, the fact about an element is strict for `>=` and not for `>`
  (`axiom_instantiate`); `written`, refutations of functions that write to their
  vector. `FmSound` sets apart answers from a form whose coefficient overflowed:
  `fm_sat` tests the flag of what it is asked about, not of what it derives.
* Wait-for: `stolen`, another taker gets the value that a receive counts on;
  `rival`, another producer fills the slot; `hungry`, one item counts as enough
  for several receives; `mixed`, workers that send and receive; `closed`;
  `orphan`, a child that another worker leaves behind takes from the channel and
  the judgement on a join does not count it (`verify_waitfor.c` 592); and the worker shapes `early` (returns before it sends), `counter` (a loop whose
  counter does not start at 0), `closer`, and `stray`: a child that sends and that
  its worker detaches or never joins. The fold of such a child keeps what it
  receives and drops what it sends without calling the producers unknown
  (`wf_fold_leftover`, `verify_waitfor.c` 103), so a receive that the child would
  serve is refuted as a cycle.
* Worlds: `late`, a receive of a world after it was freed, since the closed channel
  still holds it (the comment at `verify_symexec.c` 405 rules it out); `dropped`,
  the axiom is dropped in the sending body only; `returned`, a mutable parameter
  returned as owned; `thawed`, a frozen world returned as owned; `given`, a
  mutable parameter passed to a body that owns; `linked`, an owner handed over
  while its target is still written; `capability`, links to borrowed targets;
  `carriers`, a carrier of a carrier is not joined.
* Bits: `overwritten`, a return at the end replaces the word of an earlier return
  in a branch, so a promise may be proved of a value that is not returned.

Other wrong answers of the verifier were met while reading and have no model:
loop invariants with `&&` or `==` and invariants about elements are taken as
proved; a return inside a loop is judged under the assumed invariant; the body
of a `while true` whose invariant fails is skipped, with its obligations; a `let`
in an inner block overwrites the outer name; the measure of a recursion is not
looked at inside loops.

### Fairness

`WF(Run(t))`: the kernel runs a thread that can take a step; `WF(Expires(t))`: a
timed wait ends. Nothing is assumed about the program (it need not make another
call), about who wins a mutex, or about spurious wakeups. For handles, workers
terminate and a started call runs on. For the mutex, a region that is entered is
left. For `pool_map`, `fn` terminates and a blocked channel call that becomes
possible is taken, which is what `RecvBlocksOnlyWhileEmpty`,
`SendBlocksOnlyWhileFull` and `ClosedReleasesEveryCall` show of the monitor for
the builtins it uses. For signals, a thread inside a call runs on.

Deadlock checking is off where the program really ends: handles, `pool_map`, a
refused rewind or persist bracket (which exits the process), a freed world, a
function that has returned, a verdict or an answer that has been given. In the
channel runs it is on, and TLC also shows that the threads never all stop.
`WaitForTrue` states what a stop means for the wait-for analysis.

## Proofs

The theorems hold for any number of threads, channels, handles, workers,
addresses, blocks, sizes and worlds, any capacities, any word size and any program. Their
assumptions are the `ASSUME`s of the modules (types of the constants, finitely
many threads) and, where the code is only right for some programs, a named
hypothesis that the theorem states. Each of these is needed, and a run or the
text below says what happens without it:

| Hypothesis | Theorems | Without it |
|---|---|---|
| `OneCallPerHandle`: a handle is joined or detached at most once | `TaskProofs` | a second call reads a freed block; the verifier refuses such programs (join after detach) |
| `NoDetach` | `JoinedHandlesAreSafe` | `MCHandleDetachUse` |
| `NoTimedWaits` | `NoWakeupIsLost` | `MCChanSteal` |
| `~MoveAnywhere`: realloc moves a block to no address that a log still names | `LogIsSound`, `LogCounts` | `MCLmLogMove` |
| `~CrossDrop`: a thread does not drop ephemeral memory of another one | `ArenaIsSound`, `ArenaCounts` | `MCArenaShared` |
| `WorldHoles = {}`: the program has none of the eight shapes that are wrongly accepted | `AcceptedProgramsAreSafe` | each of them breaks `WorldsSafe`, see "Holes" |

`LinksAssumption`, `CacheAssumption`, `RegionAssumption`, `FmAssumption` and
`ProtocolAssumption` are the types of the constants of their modules, stated as definitions because those
modules meet in one instance; `MCSequential` assumes them of its values. They
ask nothing of the hash function, of the word size or of the number of bodies and
worlds (only that the bodies are finitely many). The inductive invariants
whose quantifiers range over finite sets were checked by TLC on an instance of
their run before they were proved.

* `FoldLemmas`: the library's induction theorems take an operator as a parameter,
  which no installed prover can instantiate. `SetInduction` and `NumberInduction`
  say the same of sets (`{} \in T`, ... so `S \in T`) and are proved from the
  existence of minimal elements (`WFMin`). From them it follows that the fold of the
  community modules exists and is independent of the order (`SumRemove`), and so
  the laws of sums (`SumAdd`, `SumSplit`, `SumUpdate`, `SumLinear`, `SumShift`). The
  recursive functions of `LinearCore` (Euclid), `OpenTable` (`Rehash`) and
  `WorldRegion` (the loops of `world_compact`, `StepsExist`) are reasoned about in the same way: that there is a function with the defining
  equation is proved by induction on the argument.

* `TaskProofs`, mutex: `MutexExcludes`, `LeakIsFoundAgain`, `MutexTypes` (for regions that are
  not nested). The inductive invariant adds to exclusion what the two atomics
  say at each label: when `locked` is set and a thread reads `owner` as itself,
  it holds the mutex. It is needed because the decision is made from two reads
  with no lock held.
* `ChanProofs`: `ChanTypes` and `ClosedHasNoSleepers`. The invariant `Inv` has five parts: the
  rings are sound (`ChanOK`: indices in range, every occupied slot was written),
  the threads are typed (`ThreadOK`), a thread's label agrees with its call
  (`LocalInv`), a snapshot of `chan_select2` that saw a channel closed and empty
  is still true (`SnapInv`: it cannot be reopened, and nothing can be sent to
  it), and a thread sleeps only on a channel of its own call (`SleepInv`). The
  arithmetic of the ring (`SlotValue`, `FreshSlot`, `RingDequeue`) is done once,
  in lemmas without a modulus in their conclusions.
  `ChanIsAtomic` is the refinement `Linearizable`, i.e. `Spec => Abs!Spec`. The mapping reads the ring as a
  sequence; `QueueAppend` and `QueueTail` show that storing and taking a slot
  are `Append` and `Tail`. A critical section that returns is the abstract step,
  every other one a stutter. The delicate case is the answer "both closed" of
  `chan_select2`: it is decided from two snapshots taken at different moments,
  and is right because of `SnapInv`.

  `SendersAreWoken` and `NoWakeupIsLost` say that no wakeup is lost. The two
  invariants count: while a call sleeps on a channel it could use, at least as
  many threads are awake in such calls as there are free slots (or values).
  Every step is of one of five kinds (`StepKinds`: a value is taken, one is put, a
  sender or a receiver goes to sleep, or none of these), and `Headcount` says what
  each kind does to the number of awake threads. A timed wait may take a signal and
  then expire, so the count of receivers needs `NoTimedWaits`; senders never wait
  with a deadline, so theirs needs nothing.
* `TaskProofs`, handles and signals: `HandleHasOneOwner`, `JoinAnswersTheResult` and
  `JoinedHandlesAreSafe`. `HandleInv` says for each handle which of the few
  combinations of task, `detached`, thread and block are possible before a call
  (`BlockInv`), while one runs (`CallInv`) and that no other call is on the handle
  (`AloneInv`). The property alone is not inductive: that the second exchange of
  `detached` finds the block alive depends on what the first one stored.
  `WaitAnswersASignal` needs little more than itself: that only valid signal
  numbers are watched, so that a delivery never stores a zero in the slot.
* `TaskProofs`, pool_map: `PoolAccountsForJobs` and `PoolKeepsOrder`, over `AbsChan` (which
  `ChanIsAtomic` shows to be what the channels do). `PoolInv` says where the caller
  and each worker are (`CallerInv`, `WorkerInv`), that the jobs queue is the
  interval of the jobs sent and not taken, that a job is in one place and carries
  its element (`PlaceInv`), and that the jobs that have left every place are as
  many as the caller has collected, each at its index of the vector (`GoneInv`).
  When the caller has counted n of them, the pigeonhole principle gives that
  every place of the vector is filled. The count also bounds the results in
  flight, so that the results channel always has room.
* `ArenaProofs`: `ArenaIsSound`. `ArenaInv` says that a block is in one place of one
  chain (`ChainInv`: an arena or a spare list of one thread), that whatever is
  held or on a free list lies in its thread's chain, below the bump pointer and
  apart from everything else (`SpaceInv`), and that what a mark protects lies in
  a block deeper in the chain than the mark's, or in it below the mark
  (`MarkInv`). The last part is what a rewind needs: it cuts the chain at the
  mark's block whatever was pushed, reused or rewound since, and marks that were
  overtaken by a rewind of an older one must not find their block in another
  place of the chain.

  `ArenaCounts` is about the counters that all threads share. Its invariant
  `Told` balances the books while calls are half done: a counter and the changes
  that are still queued (`Due`, a sum over the threads of the sums of their
  queues) make up the sum of the capacities in the chains, and the peak is at
  least the live bytes or some thread has yet to raise it (`Witness`). When no
  call is under way nothing is due, and `Telemetry` follows.
* `LmLogProofs`: `LogIsSound`. `LogInv` says that a table names allocated addresses
  only, that what is held is in the table of its thread (`HeapInv`), and that
  nothing a mark protects is named by an entry above the mark (`MarkInv`), in
  spite of frees that leave entries behind and of addresses that malloc gives
  out again. An entry above the mark that named a protected address would be
  freed by the rewind.

  `LogCounts`: each counter is the sum of the sizes in the thread's table, the
  persisted ones apart (`Counted`). A rewind is a loop over entries of which some
  are stale, persist or named twice; the lemmas about it say by induction along
  the vector that the counter loses exactly what leaves the table.
* `WorldProofs`: `LinkedWorldsAlive` and `NoWorldsHoldEachOther` hold for every
  interleaving of the calls of any number of threads, with no hypothesis about
  who links to what. `LinksInv` says of each call what it may rely on (`CallsSound`:
  the owner of a pending link lives, the link is not there yet, a value that was
  read of a counter is still there unless the counter was raced for), that a
  counter that is not raced for is updated by one thread at a time
  (`OneUpdate`), that it is exact up to what the calls still have to add to it
  (`CountInv`, with `Due`), that links lead to living worlds unless the target was
  raced for (`LinksLive`), and that, until a race, there is no cycle (`Acyclic`:
  in every non-empty set of worlds there is one that no world of the set links to;
  taken of the living worlds, that one can be freed). A search of `world_link` that
  ends within its budget has seen a set closed under links (`SearchIsClosed`), so
  the link it lets in closes no cycle. A race for one world does not spread: the
  counters of all others stay exact, which is why `LinksSound` is about each world
  by itself.

  `CacheIsADictionary`: `CacheInv` says that the table stands for the dictionary
  that the program means (`Stores`) and that the payload copies are those of its
  live entries; `TableInv` that every live key is in one slot, that all slots on
  its probe sequence before that one are in use or deleted (`Reached`), and that the
  live count is exact. A probe sequence meets every slot (`SpotIs`). A tombstone keeps `Reached` true for the keys behind
  it and may be taken by an insertion only after the search for the key has ended.
  That `Rehash` keeps every entry is an induction over the old slots.

  `RegionIsFaithful`: blocks of a region are only ever added, and a container
  writes its own. `RegionInv` therefore asks for an owner of every block (`own`: a
  container, the table of ids, or nobody for the payload of a string, which never
  changes) under which the region is `Sound`: the table lies in blocks of its own, and
  each container has its header and its elements, slots or fields in blocks of its own
  (`VecKept`, `MapKept`, `RecKept`), whose words stand for the contents of the store
  (`Word`). `RegionFaithful` alone is not inductive, since two containers that shared
  a block would read correctly until one of them is written. Every operation is a
  chain of growth (`Grown`) and writes to blocks of one owner (`Changed`), and what
  other containers hold survives both (`KeptStays`). The loops of `world_compact` are
  inductions on the number of elements, fields, slots or containers copied so far
  (`VecPart`, `RecPart`, `MapPart`); that a slot is always left for the next key of a
  copied map follows from its capacity of at least twice the live entries
  (`HasVacant`). `RegionFaithful` follows because a sound region is read as its
  store and its images are sound. Nothing is assumed of the header that `wtbl_add`
  reads after a move: `RegionInv` is kept by the outcome that finds it as it was,
  and a behaviour ends with the other one.
* `FmProofs`: `UnsatIsRight`. A form is rational, so its value at integer
  arguments is `n/D` (`Value`), and each operation of the core says what it does
  to values as long as its result carries no overflow flag: reduction by the
  greatest common divisor, addition over the union of the variables, scaling,
  the bound on a variable that a constraint gives (`Bounds`), and the combination
  of a lower and an upper bound. `FmInv`: every integer solution of what was
  asserted meets each unflagged constraint of the system, whatever the order of
  elimination. A constraint without variables that is false and carries no flag
  therefore leaves no solution. It needs the flags of everything the constraint was
  derived from, since flags are passed on by every operation.
* `ProtocolProofs`: `AcceptedProgramsAreSafe`. What the verifier knows is local to a
  body, and `WorldsSafe` is about all bodies at once, so `ProtocolInv` says how the
  ghost states of different bodies depend on each other. The bodies form a tree in
  which parents outlive their calls and their carriers of the channel (`TaskInv`).
  A world has at most one owner (`OneOwner`). The holders of a mutable world are a
  chain of calls, of which only the last can take a step (`Chains`, `Passed`). Each
  handle that borrows a frozen world has a source: a caller that waits, an owner
  that counts it as a delegate that was not joined, an owner that counts more
  shares than delegates, or no owner that could thaw or free it (`Sources`,
  `Counted`). Links of handles and of worlds agree, and a linked world is owned by
  the body that linked it (`GhostLinks`, `Reality`). Bodies that hold an axiom on
  the channel hold the same one, and the worlds in the channel satisfy it
  (`Channel`). Three consequences carry the steps: who owns a mutable world and does
  not wait is its only holder (`SoleWriter`); when a world may be freed nobody else
  holds it (`FreeSole`), which is where the expiry of shares is needed: it may happen
  only when no carrier is left (`NoCarriers`); and who borrows a world from an owner
  has a nearest borrower that the owner counts (`Nearest`). There is a lemma for
  every kind of statement. The proof shows where each shape in `WorldHoles` is used:
  without that hypothesis the step of exactly that statement fails.

Only model-checked:

* the liveness properties, the two `BlocksOnlyWhile` properties among them, since
  fairness is out of the prover's reach;
* what is computed by `RECURSIVE` operators, which the prover does not handle:
  reading and executing expressions (`SymbolicTrue`, `VerdictTrue`), the wait-for
  analysis (`WaitForTrue`) and circuits (`BitsTrue`);
* what is computed by folds over nested data, with a state of the heap passed along:
  containers and their two backends (`BlocksExact`, `BackendsAgree`) and the code that
  is emitted (`NoDangling`, `Balanced`). The induction over data that they ask for is
  out of reach as one theorem about an arbitrary program;
* termination: that elimination, a probe or a search ends.

## Plan

1. Proofs: `BlocksExact`, with one lemma per heap function as for the region of a
   world.
2. The LLVM backend's own last-use analysis (`codegen_llvm_rc.c`,
   `codegen_llvm_drop.c`) beside `Ownership`, and epochs of counted values over
   `Arena`.
3. The checker's effect closure over the call graph and its world taint.
4. sandak's resolution and lock file; the TLS handshake; WOPI locks.

## Not modelled

See "components" in `PROJECT.json`: parts with status `not_modelled` carry the
reason, parts with status `partly` say what is missing. In short: text processing
and most of code emission have no state that survives a call; crypto is
arithmetic with test vectors; the self-hosted compiler repeats the C one; the
rest is on the plan above.
