# A TLA+ development of Arcueid

Arcueid is an interpreter for the Arc language written in C (`src/src/*.c`),
with a compiler and a library partly written in Arc (`src/arc/*.arc`). This
directory holds TLA+ models of its core, the TLC configurations that check them
on small instances, and theorems about them proved with TLAPS.

## 1. The system

### Components, their state and their operations

| Component | State | Operations | What makes it correct |
|---|---|---|---|
| **Dispatcher and threads** (`thread.c`, `ccode.c`, trampoline of `vmengine.c`) | the run queue `vmthreads`/`vmthrtail`, per thread `TSTATE`, `TRVCH`, `TACELL`, `TWAITFD`, `TWAKEUP`, the registers | `arc_thread_dispatch` (walk, reap, sleep, poll, give up), `spawn`, `sleep`, `join-thread`, `kill-thread`, `break-thread`, `dead`, `atomic-cell`, `__arc_affyield`, `__arc_affiowait` | every spawned thread is scheduled until it stops, once; stopped threads are reaped and their joiners woken; the dispatcher gives up only when nothing can ever happen |
| **Channels** (`chan.c`, `util.c`) | per channel a one-value slot, `CHAN_HASDATA`, the queues of receivers and senders | `arc_recv_channel`, `arc_send_channel`, `__arc_recv_rvchan`, `__arc_send_rvchan` | values are neither lost, duplicated nor invented; no wakeup is lost |
| **Atomic sections** (`arc.arc`, `thread.c`) | the shared channel `__achan__`, a cell per thread | `atomic-invoke`, `protect`, `__acell__` | mutual exclusion; the lock is always given back |
| **Hash tables** (`hash.c`) | slots, `HASH_BITS`, `HASH_NENTRIES`, `HASH_LLIMIT`, buckets with their index and a link to the table | lookup, insert, delete (by lookup or by stored index), expansion, iteration, weak and deleted bucket sweeping | the table is a map; every search ends |
| **Garbage collector** (`alloc.c`, `thread_marker`, the markers and sweepers of each type) | the allocation list with colours, `GCPTR`, `nprop`, the epoch, BiBOP pages and free lists | `alloc`, `gc` (one increment), `mark`, `__arc_wb`, `markroots`, `free_unused_bibop` | no reachable object is freed; garbage is freed within two epochs |
| **Virtual machine** (`vmengine.c`, `cont.c`, `env.c`, `clos.c`) | per thread the value, function, environment and continuation registers and the stack, with environments and continuations on the stack or on the heap | the instructions, `__arc_mkenv`, `__arc_menv`, `__arc_mkcont`, `arc_restorecont`, `__arc_env2heap`, `__arc_cont2heap`, `__arc_stackcheck` | moving an environment or a continuation to the heap, a tail call or a full stack never changes what the program sees |
| **Winding and errors** (`vmengine.c`, `err.c`) | `TCH`, `TBCH` (the winding tree), `TEXH` (the handlers) | `arc_callcc`, `arc_dynamic_wind`, `__arc_reroot`, `on-err`, `arc_err` | befores and afters alternate; an error runs the afters between it and its handler |
| **Symbol table** (`symbol.c`) | two weak tables, name to id and id to name | `arc_intern`, the sweep of their buckets | the tables stay inverse to each other |
| **Numbers** (`arith.c`, `mathfns.c`) | none (pure) | the numeric tower | fixnum operations that overflow become bignums |
| **Strings, UTF-8** (`string.c`, `utf.c`) | none (pure) | codec, string operations | decoding inverts encoding |
| **Ports** (`io.c`, `fileio.c`, `sio.c`, `net.c`) | per port a pushback slot, a UTF-8 buffer, the descriptor | `readb`, `readc`, `writec`, `peekc`, readiness and closing | bytes are read in order, once |
| **Reader, compiler, code generator** (`sread.c`, `ssyntax.c`, `compiler.c`, `codegen.c`) | a code generation context | reading, macro expansion, emission, back-patching | jumps land on instructions; environments line up |
| **Regular expressions** (`regcomp.c`, `rregexec.c`) | thread lists of the matcher | compile, match | leftmost match |
| **Everything else** | | REPL, option parsing, directories, disassembler, Arc library, news application, Nekoarc (a separate VM in Java) | |

### How they interact

Threads are green: the dispatcher runs in one C thread and calls the trampoline
of the next ready thread; the trampoline runs bytecode until the quantum is over
or a foreign function (an "AFF") suspends itself. A C function therefore runs to
its return or to its `AYIELD`/`AIOWAIT` without interference, and a blocked AFF
is entered again at its yield when its thread is dispatched. Everything that can
interleave does so at these points: between two operations of a thread, and
between the wakeup of a blocked operation and its re-entry. Channels put threads
to sleep and wake them by writing `TSTATE` directly; `kill-thread` and
`break-thread` write the same field of a thread that may sit in any queue. The
dispatcher reaps threads by sending on their return value channels. Between two
walks the dispatcher runs one increment of the garbage collector, which calls the
marker and sweeper of each object's type: the threads' stacks are its roots, and
the sweepers of hash buckets write into the tables. Errors and breaks travel
through the winding tree and may run Arc code on the way.

### Hard behaviours

* a wakeup, a kill, a break and a dispatch of the same thread in any order;
* operations entered again after somebody else took what they were woken for;
* the run queue modified while the dispatcher walks it;
* the incremental collector against a program that moves pointers between the
  (unbarriered) stack and the heap;
* tables changed by the program in the middle of an iteration or of the
  collector's sweep; tombstones;
* the stack moved to the heap in the middle of a call; non-local exits through
  `dynamic-wind`; an error in an after clause;
* timeouts computed from a clock that goes on during the walk;
* descriptors that become ready in any order while a character is half read or
  half written;
* a compiler that fixes places, shapes and jumps in code it has not emitted yet,
  for a machine that checks none of them.

`PROJECT.json` lists each hazard at its line with the properties that watch it.

## 2. Modules

| Module | Models | Kind |
|---|---|---|
| `Threads` | dispatcher, threads, channels, join, kill, break | detailed specification |
| `ChannelSlot` | what a channel promises: a one-value slot | abstract specification |
| `ChannelRefinement` | a channel of `Threads` as a `ChannelSlot` | refinement |
| `Atomic` | `atomic-invoke` over `Threads` | composition |
| `TableMap` | what a hash table promises: a map | abstract specification |
| `HashTable` | open addressing, deletion, expansion, sweeping | detailed specification, refines `TableMap` |
| `HashIteration` | iteration over a table that changes | composition |
| `Frames` | what the virtual machine promises compiled code: environments, frames and continuations that never move | abstract specification |
| `Stack` | environments and continuations on the stack and on the heap | detailed specification, refines `Frames` |
| `Collector` | the incremental collector and a program that moves references | detailed specification |
| `CollectorSnapshot` | `Collector` with a history of what an epoch must not free | composition |
| `Extents` | what `dynamic-wind` promises: extents left and entered in order | abstract specification |
| `Winding` | `dynamic-wind`, `ccc`, `on-err`, `err`, uncaught errors | detailed specification, refines `Extents` |
| `Utf` | the UTF-8 codec | operators |
| `Ports` | reading and writing text over string ports, sockets and pipes, with the dispatcher's waits and clock | detailed specification, uses `Utf` |
| `Regcomp` | the compiler of regular expressions | operators |
| `Regular` | what a regular expression means | reference definition |
| `Rregexec` | compiling token by token, then matching | detailed specification |
| `Numbers`, `Sexpr` | exact arithmetic; the data of Arc | operators |
| `Compiler` | the compiler and the code generator | operators |
| `Bytecode` | what the machine takes for granted of code | reference definition |
| `Meaning` | what a program means, by its expressions | reference definition |
| `Machine` | the virtual machine running compiled code | detailed specification |
| `Reader`, `Printer` | reading and writing of expressions | operators |
| `Spelling` | the other texts of an expression | reference definition |
| `Language` | `Machine` against `Meaning` and `Bytecode`, `Reader` against `Printer` and `Spelling` | composition |
| `ThreadsProofs`, `HashProofs`, `StackProofs`, `CollectorProofs`, `WindingProofs`, `PortsProofs` | theorems about the modules they are named after | proofs |
| `RregexecProofs`, `RegcompProofs` | theorems about `Rregexec`: what programs accept and the machine; the compiler | proofs |
| `MC*` | model values, small sets, symmetries | instances |

An operator named `Slip...` is a faulty variant of the definition next to it: what
a run would say of the code if it had that mistake. No specification uses one.

### `Threads`

| Variable | Code |
|---|---|
| `state[t]` | `TSTATE(thr)`; `"unborn"` means that the thread does not exist yet. `Talt` and `Tcritical` are never assigned in the code and are not modelled |
| `call[t]` | the AFF a suspended thread will re-enter: its `TFUNR`, arguments and `aff_line` |
| `acell[t]` | `TACELL` |
| `valr[t]` | the value register of a thread that stopped |
| `rv[t]`, `joinq[t]` | `TRVCH`: while it is the return value channel, `rv = NoVal` and `joinq` is its receivers' queue; once the thread is reaped `rv` is the value |
| `hasdata`, `data`, `rq`, `sq` | the fields of a channel |
| `vmthreads`, `pos` | the cells that can be reached from `vmthreads`, and the one the walk has reached (`vmqueue`) |
| `vmthrtail`, `prev` | the two pointers into the run queue, by the thread of the cell they are at; `Nil` is `CNIL` |
| `phase` | `"visit"`: the walk looks at the cell at `pos`; `"run"`: it is inside `__arc_thr_trampoline`; `"returned"`: `arc_thread_dispatch` returned |
| `idle` | so far, `blockedthreads == nthreads` |
| `iowaitdata` | the list handed to `process_iowait` |

A step is a maximal piece of C code without a suspension: one operation of the
running thread (`Recv`, `Send`, `Join`, `Spawn`, `Sleep`, `Iowait`, `Kill`,
`Break`, ...), the re-entry of a blocked one (`Resume*`), one iteration of the
dispatcher's loop (`Visit*`, `Reap`, `WakeSleeper`), or the end of a walk. What a
program does is left free: the running thread may do any operation next, and its
quantum may end between any two (`Preempt`). Wakeup times and descriptors are
abstracted: a sleeper may be found due or not due at each visit, and any subset
of the waited descriptors may be ready. `kill`, `break` and the atomic cell are
enabled by the constant `Uses`, so that the properties that hold only without
them are stated of the programs that do not use them.

A cell of the run queue is named by its thread: no thread is queued twice
(`RunQueueSound`). `Enqueue` appends at the cell `vmthrtail` is at, wherever that is in
the queue, and starts the queue anew if it is `Nil`; `Relink` and `Unlink` have the two
branches on `prev` and the one on `vmthrtail`. A tail pointer that is left at a cell
no longer in the queue loses what is appended, and `RunQueueSound` says so.

The receive in `arc_kill_thread` on behalf of the target is a call of the
killer's own; when it blocks, the killer waits.

### `Atomic`

`pc[t]` is the thread's place in `atomic-invoke`; each step of it is an action of
`Threads` conjoined with the move of `pc`. The channel, the queues, the cells and
the dispatcher are those of `Threads`.

### `HashTable`, `HashIteration`

`slot` is `HASH_TABLE` with `Unbound`, `Undef` or a bucket in each place. No
operation of `hash.c` yields, so each is one step; `arc_hash` is any function
from keys to `HashVal`, chosen once. `doomed` holds the index and the table link
of the last deleted bucket until the collector sweeps it. `Diverge` is a lookup
that probes for ever. `HashIteration` adds the cursor of `arc_xhash_iter` and two
ghosts, the keys that stayed throughout and whether the table was expanded.

### `Stack`, `Frames`

| Variable | Code |
|---|---|
| `stk` | the used part of `TSTACK`, oldest slot first: slot `i` is at `TSTOP - i + 1`, so `Len(stk)` is `TSTOP - TSP` and a stack reference is the offset the code keeps in a fixnum |
| `fn` | `TSTOP - TSFN` |
| `envr`, `conr` | `TENVR`, `TCONR`: `CNIL`, a stack offset or a heap object |
| `henv`, `hcont` | vectors made by `heap_env`, continuations made by `heap_cont` |
| `clos`, `caught` | environments of closures made by `icls`; continuations captured by `ccc` |
| `store` | ghost: the environments as the program sees them, for the refinement |

A continuation's six slots are one slot of the model, and so are the count and
the parent of an environment; the variables have a slot each. The order of the
slots, and which of them `__arc_menv` overwrites, `arc_restorecont` cuts off and
`heap_cont` saves, are the code's. The actions are the instructions: `Push`,
`Drop`, `Load`, `Assign`, `Suspend` (`icont`), `Call` (`iapply` and `ienv`),
`TailCall` (`imenv`, `iapply`, `ienv`), `Return`, `Close` (`icls`), `Capture`
(`ccc`) and `Throw` (a call of the captured continuation; `contwrapper`, the
closure `ccc` hands out, comes to this when nothing has been wound).

`StackCheck` is `__arc_stackcheck`. It is outside `Next` and belongs to
`OverflowSpec` only: the main specification takes no push that does not fit.

`Frames` says what compiled code relies on: temporaries that are there again
when a call returns, environments shared by all who captured them. The mapping
reads the environment's number, the temporaries and the chain of frames off the
registers, wherever they are; `ImplementsFrames` says that moving to the heap, the
overwriting of a tail call and a non-local exit are invisible.

### `Collector`

| Variable | Code |
|---|---|
| `list` | the blocks from `ALLOCHEAD` on |
| `colour[b]` | `BCOLOUR`, named for its role in the current epoch: the code rotates the roles over three numbers, the model rotates the colours |
| `field[b]` | the reference in a cons (its other half is a number) and in the one global variable |
| `valr`, `stk` | the value register and the stack of the one thread |
| `gcptr`, `gcpptr`, `nprop`, `visit` | `GCPTR`, `GCPPTR`, `nprop`, `VISIT` |
| `phase` | whether the dispatcher runs threads or is inside `gc` |

A slice of `gc` is `Begin`, one `Visit...` per block and `End`; no program step
happens during it. `Mark` is the whole recursive `mark`, as a recursive function
over depth, block and what the marking changes (colours, `nprop`, `visit`): a child
is marked after what its elder sibling led to. The budget of a slice is any number
up to `MaxQuantum`, since the code computes it from statistics. The program's
operations are `inil`, `ildg`, `icar`, `istg`, `ipush`, `ipop`, `iscar` and
`icons`, each with the barrier where the code has it, on the overwritten
reference, and none on pushes and pops.

Compiled code keeps references on the stack alone, and the collector does not keep all
of what they refer to (section 5). What it gives every program is `NothingOwedIsFreed`, of
`CollectorSnapshot`: its one variable, `owed`, records the conses which the global and the
value register led to at the last end of an epoch by way of conses that were owed till
then (`Kept`), and those allocated since. A program that can get at a freed cons all the
same, by way of its stack, has no defined behaviour: `Operate` follows it no further,
while the collector goes on. `UsedStackIsMarked` is what the comment of `thread_marker`
says of the stack.

### `Winding`, `Extents`

| Variable | Code |
|---|---|
| `car`, `cdr`, `tch` | the conses of the winding tree, which `__arc_reroot` turns round, and its root `TCH`; cell 0 is `TBCH` |
| `konts` | captured continuations: the frames and the `TCH` of the time |
| `exh`, `old` | `TEXH`, and the variable in which each `on-err` keeps the handler it found |
| `conr` | the continuation register, as the sequence of the C and Arc functions that wait |
| `ctl` | what runs now: program code, a thunk, a return, or `__arc_reroot` on its way to a cell |
| `fuel` | how often program code may still act |

`arc_dynamic_wind`, `__arc_reroot` and `arc_err` are functions that suspend for each
thunk they call and are entered again at that point; a frame of `conr` says where.
What program code does, thunks included, is free: `Wind`, `Capture`, `Throw`,
`OnErr`, `Raise` or return. `Extents` knows nothing of cells: a transfer of control
leaves and enters extents in order, and the mapping reads the extents in force off
the tree and the goal of the transfer off `ctl` and `conr`. `ExtentsAt` reads the extents
of a cell off the links: the edge between two cells belongs to the inner of them, whose
thunks it has, and `Outer` finds the other end whichever way the links point now. A
cell is younger than the one outside of it, on which `ExtentsAt` recurs. Continuations
handed from one thread to another (`vmengine.c:660-668`) are not modelled.

### `Ports`, `Utf`

Three threads share the dispatcher. `writer` copies a string port to a socket
(`arc_peekc`, `arc_readc`, `arc_writec`), `reader` copies a socket or a pipe to a
string port, `sleeper` sleeps. A peer at the other end takes the bytes and sends the
whole text back.

| Variable | Code |
|---|---|
| `out`, `in`, `peer`, `back` | the bytes in the system's buffers and at the peer |
| `idx`, `unget`, `stdio`, `str` | the position in the string read, the rune put back by `arc_ungetc_rune`, the buffer of a `FILE`, the string written |
| `wbuf`, `rbuf` | the bytes of the character under way in `arc_writec` and `arc_readc` |
| `state`, `pc`, `vmthreads`, `turn` | thread states, the `AFF` lines, the run queue and the place of the walk in it |
| `iowait`, `nsleep`, `nthreads`, `minsleep` | what one pass of `arc_thread_dispatch` counts |
| `epoll`, `eptimeout` | the events registered for each descriptor, the timeout handed to `epoll_wait` |
| `now`, `wakeup`, `naps` | the clock in ticks, `TWAKEUP`, the sleeps left |
| `kind`, `gcstatus` | what the reader reads from; what the last step of the collector returned, which decides between polling and waiting |

Differences of times are taken modulo `Word` and read as signed where the code makes
an `int` of them. With `Drift` the clock goes on at any step, as it does in the code;
without, it stands still during a pass. With `SharedFd` the reader and the writer wait
on one descriptor, as the two ports of a connection do; without, each has its own. The
run has the clock of the code and descriptors of their own: with a shared one the copy
may never end, and what the comments of `thread.c` say of the waits is refuted by the
clock (section 5). `TextArrives` and `WaitsForeverOnlyForOthers` are proved for either.
`AllIsCopied` speaks of the reader and the writer: the sleeper, when it is left alone
and its time has come during the pass, is not woken. Left out: closing (the two ports of a connection share a descriptor), `readb` after a
character was put back, `seek` and `tell`, directories and the set-up of connections.

### `Regcomp`, `Regular`, `Rregexec`

A state of the parser is a record with its two stacks, as in the code (`andstack`,
`atorstack`), and the instructions emitted; each function of `regcomp.c` is an
operator between such records, and `rcerror` sets `err`, `"none"` before, after which
nothing happens any more. `optimize` is folded into the instructions, which have no
addresses to relocate. A pattern is what `lex` returns, token by token: where the text has more
than `NCCRUNE / 2` spans between two brackets, `bldcclass` ends the class and lexes the
rest as tokens of its own, so that no token of a pattern has more. `Rregexec` reads the pattern one token a step. Then it takes the
text one character a step, and for each executes one instruction of one thread a step:

| Variable | Code |
|---|---|
| `exstr`, `exstrptr`, `re` | the pattern, the tokens read of it, the parser and then the program |
| `tl`, `tlp`, `inst` | the list of the threads at the character, the one that runs and the instruction it has reached |
| `nl` | the list for the next character, filled by `_renewthread` in its order, with the saved submatches of each thread |
| `mp`, `matchstart` | the best match with its submatches, the variable of `Reljunk` |
| `phase` | where `regcomp1` and `rregexec1` are; `"overrun"` when a list outgrows `ListSize` |

`Regular` has the grammar without a parser, and the meaning without a machine, as a set
of facts: that the tokens from one to another are a piece, a branch or a tree, and for
which spans of the text they stand. The facts about `n` tokens follow from those about
fewer.

### `Language`: `Compiler`, `Machine`, `Meaning`, `Reader`

A compilation context is `[code, lits, err]`; the functions of `compiler.c` and
`codegen.c` are operators from a context to the next, and jumps are patched where the
code patches them. Code is a sequence of words, so offsets are the code's.
`Machine` has the registers of a thread:

| Variable | Code |
|---|---|
| `fn`, `ip` | `TFUNR`, `TIPP` |
| `val`, `argc`, `stack` | `TVALR`, `TARGC`, the operands above the environment |
| `env`, `envs` | `TENVR`, and the environments made so far, each with its parent |
| `conts` | the continuations from `TCONR` on |
| `globals` | the global symbol table |

One instruction is one step. An environment is a place of its own here: that this is
a true picture of what moves on the stack is what `Stack` shows. `Meaning` evaluates
the same expressions in environments of names, left to right, with no places, jumps
or frames. `Bytecode` states what the machine never checks: every address has one
shape of stack, whichever way it is reached, and every operand, jump and literal is
within bounds. Programs are expressions after macro expansion (`quasiquote`, which the
compiler handles itself, excepted) and after the expansion of special syntax.

`Reader` is a state `[text, at, line, lines, v]` and an operator for each function of
`sread.c`. `Spelling` gives an expression other texts
than `write` does, and `Rewritten` in `Language` the expression that all of them are
to be read as.

## 3. Runs

| Run | Instance | Shows |
|---|---|---|
| `threads_coop` | 3 threads, 1 channel, 2 values, 1 of which threads return, with fairness; no kill or break | queues and states agree, no wakeup is lost, no stopped thread is woken, the dispatcher gives up only on a deadlock; joins are live and give the right value; the channel implements `ChannelSlot`, its liveness included |
| `threads_disrupt` | 3 threads, 1 channel, 1 value, with kill, break and the atomic cell; a thread may return a channel; the two spawned threads are symmetric | what survives kill and break: the run queue with its tail pointer, and the queues of joiners |
| `atomic` | 3 threads, with fairness | atomic sections exclude each other, the cells match the lock, no deadlock, and the lock goes round |
| `hash_table` | 3 keys with hash values from {0, 3}, 2 values, 2 slots growing to 4; the table is ordinary or weak; keys and values are symmetric | the table is a map through deletion, expansion and sweeping; every key is reachable; an iteration returns every key that stayed unless the table was expanded |
| `hash_full` | 4 keys, hash values 0 to 3, 4 slots | violation (section 5) |
| `stack` | 5 slots, 1 value, 2 environments, 2 heap continuations | the stack implements `Frames`; heap objects do not refer to the stack |
| `collector` | 2 conses, 2 stack slots, depth 1, budgets 1 and 2, any program, with fairness | what the global and the value register led to at every end of an epoch is not freed, whatever is overwritten meanwhile; garbage is; the cursor and the propagators are accounted for |
| `winding` | 6 acts of program code, 3 winds, 2 captures | code runs inside the extents and under the handler that its continuation says, an unhandled error is unwound, and every transfer implements `Extents` |
| `ports` | runes 127, 2048 and 128, buffers of 2 bytes, one sleep of 2 ticks, clock to 4 and at any step, word 8, a descriptor for each thread, with fairness | what has arrived is a beginning of the text, and in the end all of it has; a wait without an end leaves out nobody but a sleeper whose time came during the pass |
| `regexp` | all patterns of up to 4 tokens (5 over fewer tokens) and some longer ones, stacks of 6, 3 subexpressions, 2 classes, lists of 20 | the parser accepts the grammar, the machine finds the leftmost longest match, captures belong to their groups |
| `language` | 7072 programs, largest fixnum 31, texts of up to 36 characters | compiled code is well formed and gives what the program means; texts are read back, lines are right; a text that is cut short within a list, and that quotation marks may stand before, reads as an error or as the end of the text, with a quote around it for each mark |
| `language_rest` | calls with a parameter taken apart and a rest | violation (section 5) |

### Bounds

The models of threads have no counters: the state spaces are finite for a given
set of threads, channels and values, and are explored completely. Three threads
are the least with which a thread acts on a second while a third is in between
(a receiver that steals from one that was woken, a killer that frees somebody
else's lock). Threads are not reused after their reap, so the number of threads
bounds the length of a program's history; every property is about at most two
threads and a channel.

`InitBits = 1` stands for the code's 6: a table of 2 slots that has to grow for
its second or third key. Of three keys with hash values 0 or 3 two always collide
at their first probe, and a key with the other value meets them later in its
probe sequence; `Init` chooses the hash of every key, so that all patterns occur.
`MaxBits` bounds the growth: an insert that would go past it is not taken. Two
values tell an overwritten entry from a kept one.

A stack of 5 slots holds a frame with an environment of one variable, a
continuation and a frame on top of it with an environment and a temporary, the
smallest situation in which a capture moves two environments and a continuation
between them; `MaxEnvs = 2` and `MaxConts = 2` bound how many a behaviour makes, and
with them its length. A parent two levels up needs a third environment and is not
reached.

Two conses are the least with which one holds the other behind or ahead of the
cursor; `MaxDepth = 1` (the code has 16) makes marking stop at a child, and a
budget of 1 or 2 (the code has 64 to 4096) makes slices end before, between and
after the thread, the global and a cons. With two slots a value can be in the oldest
one, which is not marked, in the other, or in both.

In `winding`, three winds give a tree with a branch, so that a throw leaves two
extents and enters one; two continuations let one be thrown to from inside a thunk
that the other's throw runs; six acts are the fuel those take with a raise on top.

The three runes of `ports` stand at the boundaries of their forms (the last of one
byte, the first of three and of two), and buffers of 2 bytes make every longer
character come in pieces. `Word` is the modulus of the clock's arithmetic; `Horizon`
stops the clock below it, as the code's 64 bits do for longer than the program runs.
A sleep of 2 ticks can end during a pass, between two, and while `epoll_wait` waits.

In `regexp` up to five tokens cover every way in which two operators can meet
between letters and brackets; the longer patterns are groups inside repetitions.
Stacks and lists are deep enough never to fill, but for the patterns left out (section
5). In `language` 31 for the largest fixnum puts sums, products and quotients
of small literals on either side of it; the programs are generated (`MCLanguage`):
every kind of first and second parameter with every number of arguments around the
right one, nested calls in and out of tail position, templates of depth one,
arithmetic, strings and characters.

### Fairness

`FairSpec` of `Threads` assumes only what the dispatcher's loop does: it never stops
walking (`WF` of the walk), a quantum is finite (`WF` of `Preempt`: the decrement of
`TQUANTA` at every instruction), a suspended function is entered again when its
thread runs, and the clock passes every wakeup time (`SF` of `WakeSleeper`).
Nothing is assumed about descriptors, nor that a thread ever does anything useful.
`AFairSpec` adds that a thread that is dispatched again and again gets on with
`atomic-invoke`. `FairSSpec` of `CollectorSnapshot` assumes that slices go on (`WF` of
`Collect`): the dispatcher runs one after every walk, and a walk ends because
quanta do. Nothing is assumed about the program, which may shade and allocate
between any two slices. `FairSpec` of `Ports` assumes that the process runs
(`WF` of `Dispatch`), that the peer takes what is sent and answers in the end (`WF` of
each), and that time goes on (`SF` of `Tick`: it may be held up by a step of the
process at any moment, but not for ever).

## 4. Proofs

All proofs are for any value of the constants, from the named assumptions of the
modules (`RetValAssumption`, `HashAssumption`, `PortsAssumption` and the like) and what
is said here.

* `ThreadsProofs`: **TypeCorrect**; the interesting part is that the walk's position
  stays inside the run queue while cells are unlinked and appended.
  **RunQueueCorrect** and **NoJoinerIsLeft**, also when programs kill and break. The
  first includes the two pointers: `vmthrtail` is at the last cell (`Nil` if there is none), else an
  appended thread would be lost, and `prev` is at the cell before the walk's, else
  unlinking would cut others off. Types and the run queue are proved together
  (`RunAlways`), since each needs the other: that `Unlink` relinks around one cell and
  `Enqueue` appends holds only where the pointers are right (`UnlinkRemoves`,
  `EnqueueAppends`). The
  invariant is inductive only together with what ties the running thread, the reaped
  ones and the pending calls to the run queue: `RunInv` says that nothing refers to a
  thread that does not exist yet. **QueuesHoldSleepers** and **NoWakeupIsLost** for
  cooperative programs (`Cooperative`: no kill, no break, and threads return no
  channels; the atomic cell is allowed). `CoopInv` adds `Undisturbed`: which states go
  with which pending calls. The key step is that a wakeup can be consumed only by the
  thread that was woken or by one that leaves the channel in the other state, after
  which the obligation is on the other queue, whose head it has just woken.
* `ThreadsProofs`, on channels: **ChannelImplementsSlot**, every step of `Threads` is a step of
  `ChannelSlot` or none, without break-thread. It needs `SlotsFilled` (what is in a
  channel is a value) and the type invariant, nothing about queues: a blocked operation
  looks at the slot again, whoever woke it.
* `ThreadsProofs`, on the dispatcher: **StoppedAreNotWoken** and **GivingUpIsDeadlock**
  for cooperative programs. `GiveUpInv` says that while the walk has met blocked threads only, it has
  run none, so all it passed are blocked still; `NoWakeupIsLost` then makes the wait of
  each a wait for what no thread will do.
* `ThreadsProofs`, on atomic sections: **AtomicImplementsThreads** (a behaviour of `Atomic` is one of
  `Threads`), and from it and the theorems above **SectionsExclude**, **LockIsKnown**
  and **SectionsEnd**. `LockInv` ties the place of each thread to its cell, its pending
  call and the slot of the shared channel.
* `HashProofs`: **SearchesFindBuckets**, **IndexesAreRight**, **LoadIsCounted**,
  **TableIsAMap** (the refinement of `TableMap`), **IterationIsComplete** and
  **TypesHold**, for any keys, hash function and sizes, through any number of
  expansions. `HInv` adds to the reachability of buckets that each knows its slot,
  without which the sweep of a deleted bucket could not be shown to leave others alone.
  An expansion needs three things. The loop of `hashtable_expand` ends in a table of
  the same bindings where every search ends at its bucket: `Carried` says it of the table
  after each slot of the old one, for `SoundTable`, which is about any table and not
  only the one in the state. Each bucket it carries finds a slot: triangular probing
  visits all slots when their number is a power of two (`ProbesVisitAll`; if the numbers
  i(i+1)/2 below S meet every residue of S, those below 2S meet every residue of 2S, by
  i or by its mirror 2S - 1 - i), and there are fewer buckets than slots
  (`LimitLeavesRoom`). And the limit grows by at least one, so that one expansion is
  enough for an insert. `WalkInv` says that a bucket behind the cursor was returned if its
  key is one that stayed, as long as the table was not expanded under the iteration.
* `PortsProofs`: **NobodyIsForgotten**, however the clock advances and whether descriptors
  are shared or not, if no sleep is as long as half the range of an `int`
  (`ShortNaps`): a negative timeout leaves out nobody but waiters for descriptors and
  sleepers whose time came during the pass. `WaitInv` has to know what a pass has counted
  so far, and that each sleeper it counted was to wake no earlier than `minsleep`; that
  the second kind exists is the finding about `thread.c:454`.
  **TextAlwaysArrives**: what the string port holds is a beginning of the text, for any
  text of runes up to 65534 that has no surrogates (`PlainText`), any kinds of port, any
  buffers, queue and clock. The bound is the code's: `runetochar` compares with `<`, so
  that 65535 gets a fourth byte, and marks four bytes as three (the finding about
  `utf.c:221`). `TextInv` names places in the bytes of the text: what the peer has, what
  is on the way to it and what the writer has in hand follow one another and end where
  a rune ends, what the reader has in hand begins where a rune begins and is less than
  that rune, and the buffer of the `FILE` and the bytes on the way back follow it. The
  rest is UTF-8: `fullrune` finds the last byte of a rune and no earlier one
  (`FullWhenComplete`), so `chartorune` is only asked about whole runes, and gives them
  back whatever the stack holds behind them (`DecodesCode`).
* `WindingProofs`: **ExtentsAlwaysMatch**, **HandlerAlwaysMatches**,
  **BrokenIsAlwaysUnwound** and **WindingImplementsExtents**, for any number of winds,
  captures and calls, with exceptions returned as values too, in every run in which
  each captured continuation has a frame (`KontsReturn`). **KontsAlwaysReturn** shows
  that this holds of programs that capture nothing in tail position, and
  **WindingCorrect** puts the two together; without it the properties are false (the
  finding about `vmengine.c:675`). None of them is inductive: they speak of code between
  two transfers, and what they say of the tree changes with every move. `IInv` says
  that there is a tree `T` which never turns (`Family`: the cell each wind was begun
  in, its extents, its handler), of which `car` and `cdr` are one orientation (`Links`:
  each edge has its thunks at the end away from `TCH`, swapped if that is the outer
  one), that `TEXH` and the variables of `on-err` are what `T` says at `TCH` and behind
  it (`Handlers`), and that the frames, of the continuation register and of every
  captured continuation, are a chain of functions each of which brings `TCH` from where
  the next one expects it to where it was called (`Chain`, `Leads`). For the refinement
  the chain also says that the moves of one transfer each bring `TCH` nearer to where
  the outermost of them goes (`Directed`): out of extents that the goal is not in, then
  into those that it is in. `T` grows by winds and captures (`Extends`), so the chains
  of old continuations stay good. TLC checked `IInv` with its witness read off the state
  before it was proved.

* `CollectorProofs`: **CursorIsSound**, **PropagatorsAreNoticed** and **OwedIsKept**
  (`NothingOwedIsFreed`), for any program, heap, stack, depth of the recursion and
  budgets of the slices, with **TypeCorrect**. `CursorInv` says where in the list the
  cursor and its predecessor are, that a slice which begins at the head goes on from it
  before it ends (else a cons put there between two slices would be lost), that the
  roots stay dark, and which propagators are ahead. `OwedInv` is the snapshot argument:
  no member of `owed` is a sweeper, and each white one is reached over white members
  from a propagator (`Protected`, said with sets: a path would need induction). The
  barrier keeps that although it shades the reference that is overwritten and never the
  one that is stored. When an epoch ends no propagator is left, so nothing in `owed` is
  white; what is kept of it turns white, and hangs on the roots (`KeptIsClosed`), which
  are shaded. Nothing is said of the stack: what it alone refers to drops out of `owed`
  at the end of an epoch, and need not survive the next. What `mark` does is the
  relation `Goes`, for each depth that is left: colours only rise, and what turns black
  has its child dark.

* `StackProofs`: **HeapAlwaysAvoidsStack**, **ReferencesAlwaysHold** (the types) and
  **StackImplementsFrames**, for any values, stack size and bounds, and any number of
  temporaries, arguments and variables. The one assumption is that a value is not
  mistaken for a frame (`ValuesAreNotFrames`; the code tells them apart by where they
  are). `IInv` says that there are places `P` of suspended frames, the innermost first,
  and that the stack is made of them: each continuation is linked to the next, was put
  on top of what its function had, and has an environment that is on the heap or ends
  where that function's part of the stack begins (`Suspended`, `StackEnv`, `Nested`).
  That is why a tail call may overwrite its environment: no frame that is left refers
  to it, and all continuations are below it (`MenvIs`). The rest of what the program
  holds, closures, captured continuations and the parents of environments, is on the
  heap (`Sound`), and a chain there is closed and finite (`HeapChain`), so that a later
  move cannot change it. For the refinement each environment that may still be used has
  a number of its own and is what the program takes it for (`Represents`). `ccc` moves
  several continuations and environments in one step: `ContsMoved` is what holds after
  the first `i` of them, with the others still on the stack, for each `i` up to `Depth`.

* `RregexecProofs`, `RegcompProofs`: **FindsTheLeftmostLongest**, for any patterns, texts and limits.
  `RegexpInv` has a part for the parser and one for the machine, which meet in
  `Accepted`: the spans of the text that lead from the start of the program to its end.
  For the parser, a fragment of the program (`Fragment`, `Through`) stands for the spans
  of an operand: one lemma for each operator of `evaluntil` shows that the fragment it
  makes stands for what the grammar says of the operator (`Closure` is the least set that
  a loop leads to, so paths are never counted). `Parsed` ties the stacks to the tokens
  read: the operands and the operators between them are what the grammar makes of these
  tokens, in the order of the precedences, or operands are missing, and then they are
  missing for good, so that `Close` cannot accept (`Lacks`). `optimize` skips chains of
  `NOP`, which end (`PassingExists`), and puts `END` where the last operand was linked
  to. A class is read, sorted and merged to the ranges that `InClass` describes
  (`ClassesAreLegible`). For the machine, `NothingLost` says that whatever the program
  could still accept from a dropped thread is covered by one that waits and began no
  later: a thread at the same instruction that began earlier has all the other's future
  (`Covered`), one that has had its turn has passed its future on (`Complete`), and where
  the start rune is not ahead no match begins (`StartRune`). `BestIsAccepted` is the
  other direction. **CompilesExactlyTheGrammar** (`CompilesTheGrammar`) also needs that no
  expression is refused, unless a stack or a table is full: `Formed` says of the tokens
  of an expression how deep each is in groups and which may follow which, and `Exact` that
  after each token the parser has then just the operands it wants (`SyntaxInv`), so that
  no reduction fails.

Each of these modules begins with the facts about `Tail`, `Append`, `RemoveAt`, `ToSet`
and `IsInjective`, about prefixes, about least numbers and about where the parts of a
flattened sequence are that its proofs use. A recursive function over numbers has the values its definition gives it by
`RecursionExists` and `RecursionIsUnique`, which need a set that the values are in, and
properties of its values follow with `UpTo`; all three are proved with the smallest
number for which they would fail.

Model-checked only: liveness, which is out of the prover's reach;
`CapturesBelongToGroups` of `Rregexec`; and the modules with recursive operators,
`Numbers` to `Language`, where what matters is induction over data. `StackCheck` is
outside `Next` (a finding), and outside the theorems about `Stack`.

## 5. Findings

With a run that TLC ends with the violation:

* tombstones are not counted against the load limit, so a table can lose its last
  unused slot and the next search for an absent key does not end (`hash_full`,
  `hash.c:540`, `hash.c:601`);
* a function that takes a parameter apart and has a rest parameter gets the two in
  each other's places (`language_rest`, `compiler.c:439`, `vmengine.c:389`).

Without a run of their own; each is seen by changing one thing in a configuration:

| Code | What the code does | How the model shows it |
|---|---|---|
| `thread.c:553` | `kill-thread` leaves its target in the channel queues, and a later send or receive spends its wakeup on it, or brings it back to life (comment at `chan.c:134-135`) | `threads_coop` with `Uses <- Kills`: `OnlyTheLivingAreWoken` |
| `thread.c:579` | `break-thread` breaks a receiver that was woken and has not run yet, though its comment says that channel operations are spared (`thread.c:572-573`) | `threads_coop` with `Uses <- Breaks` and `BreakSparesChannelOps` |
| `thread.c:559` | `kill-thread` of a thread that waits for the atomic lock takes the lock away from its holder | `atomic` with `AKillSpec` and `Uses <- Kills`: `KillReleasesItsTarget` |
| `thread.c:599` | `join-thread` takes a channel that a thread returned for its return value channel, and waits on it | `threads_coop` with `RetVal <- ValOrChan`: `JoinersGetTheValue` |
| `thread.c:454` | the clock is read again after the pass: when a sleeper's time came meanwhile, the timeout is negative, and `epoll_wait` waits for a descriptor, for ever if need be, where the comment says "at most the time until the first sleep expires" (`thread.c:452-453`); with sleepers alone, `thread.c:468` sleeps for the range of the clock | `ports` with `WaitsAtMostForTheFirstSleep` |
| `thread.c:228` | of two threads that wait on one descriptor, as the two ports of a connection have it (`net.c:366-369`), for different events, only the first is registered: `EPOLL_CTL_ADD` fails for the second | `ports` with `SharedFd = TRUE`: `AllIsCopied` |
| `utf.c:221` | a rune of four bytes is written with the mark of three, against the comment at `utf.c:219`, and comes back as another | `ports` with `Text <- Astral`: `TextArrives` |
| `thread.c:85` | the marking of a thread's stack stops before the oldest slot in use: what only that slot refers to is freed two epochs later, though the comment says that the used portion is marked (`thread.c:81-83`) | `collector` with `UsedStackIsMarked` |
| `thread.c:681` | a full stack loses the first temporary of the running frame: `__arc_stackcheck` moves `TSP .. TSFN-1` where the frame is `TSP+1 .. TSFN` | `stack` with `OverflowSpec`: `OverflowKeepsFrame` |
| `vmengine.c:675` | a `ccc` that is the last thing a program does captures an empty continuation, which is `nil`: a throw to it winds to its extents and then goes on where it was called, inside others | `winding` with `TailCaptures = TRUE`: `ExtentsMatchStack` |
| `err.c:126` | `on-err` calls its handler for an exception that was returned, not raised | `winding` with `LooseErrors = TRUE`: `HandlersAnswerRaises` |
| `rregexec.c:221` | the size of a thread list is taken from a pointer: a loop over nothing, `(a*\|b)*`, runs past the end | `regexp` with `Patterns <- Looping`: `ListsStayInBounds` |

In `Collector`, also with the oldest slot marked, a value popped from a stack that was
not scanned yet into a new cons can be freed when the marking that comes across that
cons, which has the mutator's colour already, is out of budget or at its greatest depth.

Modelled as the code has it, or excluded from the instances:

* reader and printer: `1a` reads as 20 and `10r` as 0 (`arith.c:1408`); `'(a` reads as a
  quoted end of file; the end of a text inside a list gives the end of the text, not
  an error; `write` leaves quotes and backslashes in strings as they are, writes control
  characters with four digits where the reader takes five, a whole flonum as `4`, and
  two spaces before the dot of an improper list; a newline after a regular expression
  or in `#\<newline>` is not counted; `#;`, bad character names and `'(a . b c)` end the
  interpreter;
* compiler: names that shadow inlined operators are inlined; defaults that refer to
  names taken apart; a function without parameters accepts any arguments;
  `ismacro` (`compiler.c:38`) keeps a pointer in an `int`;
* arithmetic: `(/ a b)` of fixnums can be inexact (`arith.c:911`, against its comment at
  952-956); `idiv` truncates fixnums and floors bignums, and tests its first argument
  twice (`arith.c:1115`); coercing negative rationals and flonums to `int`;
* regular expressions: the flags `m` and `i` are ignored; a leading `-` in `[^-a]`
  stretches the span of the newline; `matchstart` is set by the first end reached only.

## 6. What could come next

* A break inside an atomic section (`Atomic` over `Winding`): between the send that
  takes the lock and the `dynamic-wind` that would free it.
* BiBOP pages and their free lists, and the two weak tables of the symbol table
  against the collector's sweep.
* Closing of ports that share a descriptor; `readb` after a character was put back.
* Macro expansion in the compiler, special syntax, complex numbers.

## 7. Not modelled

The REPL, option parsing, directories, the disassembler, the select and poll
variants of the dispatcher's wait, random numbers, the transcendental functions, the
rounding of flonums and the build without GMP: they talk to the operating system or
a library, or compute what the properties do not tell apart. `ssyntax.c` works on the
characters of a symbol. Continuation marks, vectors, comparison and type descriptors
keep no state that the other parts depend on. The Arc library, but for
`atomic-invoke` and `protect`, and the news application are programs of the language
and not part of the interpreter; Nekoarc is another implementation of the bytecode.
`PROJECT.json` has the components with what is left out of each.
