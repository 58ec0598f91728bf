# A specification of clox in TLA+

clox is an interpreter of the Lox language with extensions: a compiler to
bytecode, a stack machine, threads over a global VM lock, a generational garbage
collector, signal traps, maps, arrays, regular expressions, files and sockets.
This directory models the parts of it in which the order of events decides
whether the program is right (the VM lock, threads, signals, memory, maps) and the
whole way of a program from its text to what it prints (scanner, parser, compiler,
optimizer, machine), model-checks them with TLC on small instances, and proves
theorems about the lock, the threads, the signals, the maps and the memory for all
instances, and about the machine's frames for all programs, with TLAPS.

Contents

1. The system: an inventory
2. The modules, and how they correspond to the code
3. What each run checks
4. Bounds
5. Fairness
6. Where the code and what is said about it differ
7. What is proved, and how
8. What is only model-checked, and what is not modelled
9. Plan

How to run it: `tlc -config GVLock.cfg MCGVL.tla` for a run (the table of
section 3 gives the configuration and the module of each), `tlapm GVLProofs.tla`
for the proofs of a module. With two workers the longest run, `Language`, takes a
minute and a half, the others less.

## 1. The system: an inventory

For each component: the state it keeps, its operations, whom it works with, what
is hard about it, and what makes it correct.

**Global VM lock** (`vm.c`: `acquireGVL`, `releaseGVL`, the count of operations in
`vm_run`; fields of `vm.h`). State: `GVLockStatus`, `GVLOwner`, `vm.curThread`,
`GVLWaiters`, each thread's `mutexCounter` and `opsRemaining`. Every native that
blocks (sleep, join, file and socket calls) releases the lock around the call.
Hard: the three variables that say who has the lock are written one by one, and
read by code that is not told who calls it; the signal comes after the unlock; a
thread that holds a lox mutex silently keeps the lock. Correct if one thread at
most is in the VM, the recorded owner is the one inside, no waiter is forgotten
and a thread that never blocks is preempted.

**Threads** (`thread.c`; `stopVM`, `terminateThreads`, `freeVM` in `vm.c`;
`threadSleep` in `runtime.c`; the removal of finished threads in
`collectGarbage`). State: `vm.threads`, `numLivingThreads`,
`numDetachedThreads`, and per thread the status, the interrupt flags, the error
another thread left, the joined and detached flags. Operations: creation, start,
join, detach, sleep, `Thread#throw`, `Thread.schedule`, end of a thread, exit of
the main thread. Hard: counters updated outside the lock, the status written by
three different paths, an exit loop that waits for all of them, a thread started
while the VM exits. Correct if a finished thread never runs again, the main
thread's exit ends, and it frees the VM only when nobody can enter it.

**Lox mutexes** (`thread.c`: `lockMutex`, `unlockMutex`, forced unlocking). State:
the owner, the queue of waiters, a condition variable, the thread's list
`lockedMutexes`. Hard: the wait has no predicate; the list that says what to
unlock when a thread ends is emptied before it is read. Correct if one thread
holds a mutex, waiters get it in turn, and the mutexes of a thread that ended
are free.

**Signals** (`signal.c`, `Process.signal`, `threadInterrupt` and
`threadExecuteInterrupts` in `thread.c`). State: `sigbuf` (a count per signal and
a total), the list of handlers, the TRAP interrupt of the main thread, its lock.
A C handler runs on top of any thread, counts the signal, and sets the interrupt;
the main thread drains the buffer at its next jump or acquisition of the VM lock.
Hard: handlers interrupt one another, the drain, and the code that holds the lock
they take. Correct if every trapped signal is handled and no handler blocks.

**Memory manager** (`memory.c`, `memory.h`, `allocateObject` and
`setObjectFinalizer` in `object.c`, the GC class in `runtime.c`). State: the heaps
of slots, the free list, the young stack, the remembered set, each object's
generation and mark, the hidden objects, the number of finalizers. Operations:
allocation with up to two collections, write barrier, young collection, full mark
and sweep, finalizers, the end of the VM. Every other component is its client.
Hard: what a young collection may free depends on every store since the last one;
finalizers are lox code in the middle of a collection. Correct if nothing the
program can reach is freed, no slot is handed out twice, and each finalizer is
called once, before its object goes.

**Hash table** (`table.c`, `table.h`). State: count, capacity and an array of
entries, open addressing, linear probing, deletion that moves entries up. Used for
maps, globals, fields, methods, constants and interned strings. **Map class**
(`map.c`; `Iterator` in `runtime.c`; `mapEquals` in `object.c`). Hard: deletion
round the end of the array, growth while iterating, keys that change in place,
blocks that change the map they are called for. Correct if a map is a partial
function and an iteration over an unchanged map meets every key.

**VM: frames, errors, non-local exits** (`vm.c`, `vm.h`, `block.c`). State: value
and frame stacks per thread, the catch table of each chunk, the chain of
`errInfo` and `v_blockStack` records with their jump buffers, `v_thisStack` and
`v_crefStack` (the receivers and the classes of the active methods), the running and
the last error. Operations: call, return, throw, catch, ensure, a block's break,
continue and return, `vm_protect`. Hard: lox frames and C frames alternate, and
an error or a block's exit leaves through `longjmp` across both. Correct if after
every exit the stacks are those of the frame that goes on and no jump buffer of a
frame that is gone is used.

**VM: closures and upvalues** (`captureUpvalue`, `closeUpvalues`). State: each
thread's open upvalues. A captured variable stands in its stack slot, in the frame's
`localsTable` and behind the upvalue. Correct if two closures over one variable
share it before and after it leaves the stack, however it leaves.

**VM: calls and instructions** (`callCallable`, `vm_run`). Argument binding with
default, keyword, splat and block parameters; expressions, variables, jumps. Correct
if a call takes exactly its arguments off the caller's stack.

**Object model** (`object.c`, `runtime.c`, `vm.c`): classes, modules, singleton
classes, methods, getters, setters, class methods, constants under classes, `this`
and `super`. Hard: four lookups (instance, getter, class method, super), each with
its own loop over its own chain; which class a constant is looked up from depends on
who is called, not on where the function is written. Correct if a method, a field or
a constant means what the program's text says, also after an error left a method.

**Compiler** (`compiler.c`, `chunk.c`): scopes, locals and upvalues, jump patching,
catch tables, and an optimizer that folds constants and removes instructions under
jumps already patched. Hard: every jump counts words, and every removal changes the
count. Correct if a jump ends at an instruction, folding keeps the value, a name
resolves to the variable of the innermost scope, and scopes pop what they pushed.

**Parser, scanner, tree** (`parser.c`, `scanner.c`, `nodes.c`): recursive descent with
a buffer of peeked tokens; sequential. Hard: constructs told apart by several tokens
of lookahead; strings with interpolated expressions. Correct if the tree of a text
is the one the text was written from. **Regular expressions** (`regex_lib.c`,
`regex.c`): a compiler of patterns to a tree and a backtracking matcher; correct if
it finds what a reference matcher finds.

**Arrays and strings** (`array.c`, `string.c`, `object.c`): index arithmetic,
negative indexes, shared and frozen strings. **Files, directories, IO, sockets,
processes** (`file.c`, `dir.c`, `io.c`, `socket.c`, `process.c`): system calls with
the VM lock released. **Runtime natives** (`runtime.c`): iterators, loading of
scripts, eval, sleep, GC class. **Blocks and bindings** (`block.c`, `binding.c`).
**Options, command line, REPL**, **debugger and disassembler**, **values, time,
random numbers, errors**, the **lox library** under `lib/`, and **vendored code**
(`vendor/`, of which `vec_splice_` matters).

How they interact. The VM runs with the global lock held; natives release it
around blocking calls, and thread switches happen only there, at the preemption in
`vm_run` and in `acquireGVL`. Errors thrown by another thread, exit interrupts and
signals all take effect in `acquireGVL` or at a jump. Allocation may collect, a
collection may call finalizers (lox code) and removes finished threads. Map and
table operations call lox code only through `hashKey` and `==` of instance keys,
and through blocks.

## 2. The modules, and how they correspond to the code

| module | models | state | actions |
|---|---|---|---|
| `VMLock` | what the lock promises | `holders` | `Enter`, `Leave` |
| `GVL` | the lock as it is coded | the C variables by name, a control state per thread | both early returns, wait, signal, spurious wakeup, preemption, thread start and exit, the count of held lox mutexes |
| `GVLProofs` | theorems about `GVL` | | |
| `Threads` | the life of a thread, over the abstract lock | `vm.threads`, the counters, the fields of `LxThread`, `terminateThreads`' locals | one per native, per half of a native that blocks, and per unlocked read and write of a counter |
| `ThreadsProofs` | theorems about `Threads` | | |
| `Signals` | traps and the queue | `sigbuf`, the handlers, the flag and its lock, a stack of C frames per thread | `Trap`, `ProcessSignal`, `SignalArrives`, load and store of each counter, the interrupt lock, the drain |
| `SignalsProofs` | theorems about `Signals` | | |
| `HashTable` | the algorithms of `table.c` as operators and, for its loops, recursive functions | | |
| `LoxMap` | the Map class, iterators and `Map#each` over `HashTable` | the tables, frozen maps, characters of keys, a loop per map | one per method, one per step of a loop |
| `AbstractMap` | what a map promises | a function per map | one per method |
| `TableProofs`, `MapProofs` | theorems about `HashTable`, and about `LoxMap` | | |
| `NatLemmas` | least numbers, induction and recursion over intervals, for the proofs | | |
| `GC` | the collector | heaps, free list, young stack, remembered set, generations, references, marks, finalizers, the locals of `getNewObject` | allocation step by step, collections split at finalizers, the program's loads, stores and drops |
| `ObjectGraph` | what memory management promises | roots and edges | `New`, `Roots`, `Edges`, `SetFinalizer`, `Finalize` |
| `GCProofs` | theorems about `GC`, and that it implements `ObjectGraph` | | |
| `Rationals` | the doubles of a program, as the fractions they are exact for | | |
| `Bytecode` | instruction sequences, removal and lengthening of instructions, constant folding | | |
| `Optimizer` | `optimizeIseq` | | |
| `Compiler` | `compiler.c`, from a tree to chunks | | |
| `Scanner`, `Parser` | `scanner.c`, `parser.c`, from a text to a tree | | |
| `Frontend` | text to chunks | | |
| `Classes` | classes, lookups, constants, the stacks of receivers | | |
| `Machine` | `vm_run` with frames, upvalues, errors, blocks, calls | `m`, a record with the stack's memory, frames, upvalues, landings, catch rows, classes, output | `Load`, one action per group of instructions |
| `Syntax`, `Source` | trees, and how a tree is written as a text | | |
| `Semantics` | what a tree means, with cells and scopes and no stack | | |
| `Language` | the machine held to the meaning | `expected` | `LanguageLoad`, `LanguageStep` |
| `MachineProofs` | theorems about the frames and landings of `Machine` | | |
| `MCGVL`, `MCThreads`, `MCSignals`, `MCLoxMap`, `MCGC`, `MCLanguage` | instances for TLC; the last has the programs | | |

*Atomicity.* What happens between two points at which the VM lock can change hands
is one action: the lock is held. Where the code works without it (the counters of
living threads, a thread's status after an interrupt, the signal handler, the
timed wait of a sleep) the model has a step for each access. In `Machine` one
instruction is one step, with the C functions it calls; a native function that
calls a block, and an instruction that calls a method, go on in the step in which
the callee returns.

*Composition.* `GVL` implements `VMLock` (property `ImplementsVMLock`, theorem
`Refinement`); `Threads` and `Signals` stand on the abstract lock: there the
variable `gvl` is the thread that has the VM. `LoxMap` extends `HashTable` and
implements `AbstractMap`; `GC` implements `ObjectGraph`. `Optimizer` extends `Bytecode`
and `Compiler` the optimizer; `Machine` extends `Bytecode` and `Classes`. What compiles a
program, and what it means, are the constants `Compile` of `Machine` and `Meaning` of
`Language`: `MCLanguage` binds them to `CompileSource` (the tree is written down by
`Source`, scanned, parsed, compiled) and to `Reference` of `Semantics`. So the theorems
about the machine hold whatever the compiler does.

*Choices worth knowing.*

- `GVL`: everything under the pthread mutex is one action; the signal after it is
  a separate one. A contended lox mutex is not modelled, its count is.
- `Threads`: a thread that holds a lox mutex is left out (it keeps the lock).
  Thread ids are not reused. `Natives` selects which natives a run's program
  calls. A collection takes the finished threads off `vm.threads` one step at a
  time, at the positions it noted before (`zombies`); a position past the end is a
  `memmove` of a negative length, which ends the process (`SpliceWild`).
- `Signals`: a frame is a place in the code with a signal and a loaded value;
  `Torn` splits each `++` and `--` into load and store. `Process.signal` to itself
  enqueues directly, as the code does. The lox handler that `execSignal` calls is a frame
  of lox code on top of the drain: it can do what lox code does (send signals, give up
  the VM, come to a jump and drain in turn), and ends by returning to its drain or by an
  error. The error is caught by the program or by a lox handler further down
  (`HandlerThrows`), past the loops of `threadExecuteInterrupts` in between, which do not
  go on. `abandoned` records that the last way out of a drain was such an error, or a
  signal without a handler, and that no interrupt was set since.
- `HashTable`: string hashes are taken as collision free in comparisons (the code
  compares the 32-bit hashes where it has them); the index they are masked to is
  not, and the mask is `%` over the capacity, a power of two. `GROW_CAPACITY`'s 8
  is the constant `MinCapacity`. A key is an object whose characters may change.
  Keys are strings and numbers, so no operation calls lox code. A loop over the
  slots is a function from the number of turns to the table it has made by then
  (`ResizeSteps`, `ShiftSteps`, `AddSteps`), which is the form the proofs can unroll.
- `GC`: a slot and its object are one number. `roots` stands for all that both
  collections mark from (stacks of all threads, objects of running C calls,
  frames, globals, constants, handlers). The marking loop of the young collection
  counts the gray stack on its own and passes over elements, so the model lets it
  mark any set between the young roots and everything young they lead to. `Misuse`
  lists what the code lets a program do that the collector does not allow for: a
  closed upvalue set without the write barrier, an object stored by a running
  finalizer, an error that leaves a finalizer. Such an error leaves the marks of the
  collection behind: `Mark` passes over what is already dark and follows only what is
  not, as `grayObject` does, and the young collection clears them.
- `Scanner`: a text is a sequence of units; a word, a number or the inside of a
  string is one unit, a punctuation mark is one, so that a mark of two characters
  is still put together by the scanner.
- `Compiler`: the C functions change static variables and the compiler of the current
  function; the operators take that state and return it. An instruction is named by
  its pointer, and the sequence remembers freed ones, because the code follows
  `next` of an instruction it has freed.
- `Machine`: what was popped stays in memory (`lastValue` points to it). The C stack is
  not a variable of its own: each activation of `vm_run` and each native that waits
  is a frame. The landing of an error is an index of such a frame. Strings, arrays
  and errors are values, since nothing here changes them in place; instances are
  numbered, and never freed. The statuses "abort", "assert", "wild", "trap" and "unmodelled" stand
  for a C abort, a failed assertion, a pointer followed into nothing, a SIGFPE, and
  what the model leaves out; `OutputAgrees` excludes all of them.
- `Machine`, continued. What follows a chain (frames that are left one by one, landings
  given up one by one, upvalues captured one by one) is a function from the number of
  turns to the machine after them, as in `HashTable`; a turn that has nothing to do
  changes nothing. A call of a C function that finds the frames full runs without a
  frame of its own and pops its caller's when it returns (`vm.c:1420`, which only prints
  and returns); so does a value called as a method that is no C function the classes of
  the model have. Both end the run in "unmodelled".
- `Machine`, comparisons and globals. `<` and its kin compare numbers, call `opCmp` of an
  instance and cut what it returns to an int, or throw; the order of two unequal strings is not
  told ("unmodelled"). A global that no program may redefine throws a NameError when it is
  defined or assigned, though not in an unpacking assignment; the read-only globals and the
  native functions exist, but what they are is not told.
- `Classes`: a class is named by its path; the tables of a class are functions, the
  singleton class is made when it is needed and has " (meta)" in its name.
- `Semantics` is written from what the constructs of the language mean, not from the
  machine: lexical scopes, structured exits, `this` and the enclosing class of the
  place where a function is written.

Definitions in a module that are not used by its specification, and are marked as
wrong variants or mutants, are what a slip in the C code would make of the
definition after them; each property fails when its variant is put in.

## 3. What each run checks

| configuration | module | question |
|---|---|---|
| `GVLock` | `MCGVL` | Three threads, turns of two operations, up to two mutexes. One thread at most in the VM (`MutualExclusion`), the owner is the one inside (`OwnerIsInVM`), a mutex holder keeps the lock (`MutexHolderKeepsGVL`), no lost wakeup (`WakeupPending`), the count of waiters (`WaitersCounted`), refinement of the abstract lock (`ImplementsVMLock`); a free VM is taken (`IdleVMTaken`), a looping thread yields (`HolderYields`) |
| `ThreadsSafety` | `MCThreads` | Three threads under join, sleep, detach, collection, exit. A finished thread never comes back (`ZombieStaysOut`); the count by which `freeVM` decides to destroy the lock is never too low (`DetachedNotUndercounted`) |
| `ThreadsExit` | `MCThreads` | The main thread's exit against one other thread under every native but join. The VM is freed alone (`FreeVMAlone`), the exit interrupt is final (`InterruptIsFinal`), the exit ends (`MainExits`) |
| `SignalsQueue` | `MCSignals` | Signals sent by the program and from outside, to two threads, with splittable counter updates. Lox handlers send signals, are interrupted, drain in turn, return and throw. When all is quiet the flag announces what the queue counts, unless the drain was left early and no signal came since (`NoStrandedSignal`); each trapped signal is handled, with the same exception, or unless a C handler blocked itself or a lost update made the queue look empty (`SignalHandled`) |
| `MapTable` | `MCLoxMap` | Two maps whose keys collide and wrap. Entries are found where they lie (`ProbesReach`), counts are exact (`CountExact`), copies equal (`CopyEqual`), each map is a partial function (`ImplementsAbstractMap`) |
| `MapLoops` | `MCLoxMap` | Loops, with a key that changes in place. An empty slot is always left (`RoomLeft`), iterators are complete (`IterationComplete`), rehash repairs (`RehashRepairs`) |
| `MapEach` | `MCLoxMap` | Violated: `Map#each` misses entries (`EachComplete`) |
| `GCHeap` | `MCGC` | A program that allocates, stores, drops and finalizes, and keeps the write barrier. Nothing reachable is freed (`NoDangling`), finalizers are counted (`FinalizersCounted`) and called first (`FinalizerFirst`), the collector implements the object graph (`ImplementsObjectGraph`) |
| `GCMisuse` | `MCGC` | The same with every misuse, hidden objects and a smaller young stack. An allocation needs at most one collection of each kind (`FewTries`, the assertion `tries < 3`), also when the full collection frees enough to add no heap; no slot is given twice (`FreeListSound`), also when an error left the collection |
| `GCUpvalues` | `MCGC` | Violated: a value set in a closed upvalue is freed (`NoDangling`) |
| `Language` | `MCLanguage` | 1009 programs, each with and without the optimizer. They print what they mean and fail when they should (`OutputAgrees`); a program that ends leaves nothing on any stack (`Balanced`); no error lands in a C frame that is gone (`LandingsAlive`); open upvalues point to live locals (`OpenUpvaluesOnStack`); every jump and handler reaches an instruction (`JumpsLand`); no call, return, break or error disturbs the operands of a caller (`CallersKeepTheirStack`); every program ends (`Terminates`) |
| `BlockReturns` | `MCLanguage` | Violated: a function that returns inside an active block ends the block (`OutputAgrees`) |

Deadlock is checked in `GVLock` and `MapTable`. In the others the program may end
(threads dead, VM freed, program run) or the bounds may leave nothing to do, so it is
off.

The programs of `Language` print nothing by chance: those of the class families, and
samples of the others, were also run by the interpreter itself, with and without
`--disable-bopt`, and print what the model says.

## 4. Bounds

- `GVLock`: three threads are the first number at which a woken thread races both
  a newcomer and the thread that releases; two operations a turn give a turn with
  and without a remainder; two mutexes a nested one. The theorems hold for any.
- `ThreadsSafety`: three threads give a join that races another join, and two
  detached threads. `ThreadsExit` has two: with three, the lost update of
  `numLivingThreads` (section 6) can make `terminateThreads` stop too early, so
  `FreeVMAlone` is a statement about programs with one other thread; so is
  `MainExits`, which a third thread that starts late makes false (section 6).
  `MaxCollections` 1: a second collection finds what the first left.
- `SignalsQueue`: three signals from two sources interrupt one another in every
  nesting (a signal is blocked only in its own handler); two threads give the
  interrupted main thread and another. Signal 9 is one `sigaction` refuses.
- `MapTable`: three keys of which two share the last home and one the first, so
  probe paths and deletions wrap; `MinCapacity` 2 scales the growth 0, 2, 4, 8 into
  reach. No counter is bounded but the capacity, which three keys do not exceed.
  `MapLoops` changes a key to equal another, the one way two entries become equal.
- `GCHeap`: heaps of one slot, three of them, so that every allocation beyond the
  third meets a full heap; a young stack of two; two generations; one reference each,
  which makes chains, cycles and sharing. `HeapSlots`, `FreeMin` and `YoungMax` stand for
  10000, 500 and 5000; the theorems hold for all values. An allocation that would need a
  heap beyond `MaxHeaps` is not taken.
- `GCMisuse`: the same heaps, but a young stack of one, so that it is full as soon as
  a young object was allocated, while the free list is not empty. A slot that is freed
  counts twice (section 6): two unmarked slots make four, which is not less than `FreeMin`
  3, so that a full collection adds a heap when one slot or none is unmarked (`FewFreed`),
  and none otherwise. Two
  constraints keep the states few: one object can be hidden, while the collector is on and
  no object has a finalizer (`HiddenAlone`; `hidden` is one more set of roots), and there is
  one reference at a time between objects (`OneEdge`): neither property follows references,
  and what is found through more of them is the question of `GCHeap`. One is enough for an
  object that is stored in what an interrupted collection left dark.
- `Language`: a state is a point in the run of one program, so the programs are the
  bound. `MCLanguage` makes them by families, every combination of a family's
  choices: loops of each kind in one another with break or continue at each level and
  with locals or without; try bodies by handlers by surroundings; closures by what is
  captured and how the variable leaves; calls by parameter list by arguments given;
  blocks by who calls them by how they end; expressions to fold; known tests;
  errors that leave blocks and functions; method, getter, setter and super lookup
  over three classes by which of them define the name and how it is asked for;
  errors of the program's own classes by where they are thrown and who catches them;
  and 21 single programs of classes, among them `opCmp` and globals that cannot be
  assigned. Loops run three times at most, numbers are
  fractions of one digit or two. `FRAMES_MAX` 64 is above what any program reaches, `MaxArgs`
  8 is the compiler's. What a family leaves out (the operators whose names end in
  `Conforms`) goes wrong in the program, and is listed in section 6. So the properties
  of `Language` do not look for these known faults once more; they say that there is none
  among the other combinations, and would show a new one there.

## 5. Fairness

Fairness is stated in `GVL`, `Threads` and `Signals`. A thread inside a pthread call
or in C code goes on (weak fairness of its own steps). Nothing is assumed about
who wins the race for the pthread mutex of the lock: `IdleVMTaken` holds although
a newcomer may overtake the woken thread for ever, and no run claims that each
waiter gets the lock. In `Threads` a thread that wants the lock gets it if it is
free again and again (strong fairness): `terminateThreads` and `threadSchedule` yield
the processor for that purpose, and without it an exit could starve the threads
it waits for. A lox program is assumed to leave the VM or end (`Stop`), nothing
else: no native is fair. In `Signals` the main thread reaches a jump again and
again, a lox handler comes to its end, by a return or an error, and the VM is passed on;
signals themselves are never required to come.
In `Language` the loop of `vm_run` goes on while the thread runs. `Fairness` says so as
"the status is not run infinitely often, or a step is taken infinitely often":
that is the weak fairness of `LanguageStep`, which is enabled exactly while the status is
run, written out because finding out whether a step is enabled would evaluate it twice.

## 6. Where the code and what is said about it differ

Shown by a run:

- `MapEach`. `Map#each` compares its slot cursor with the number of entries when the
  block comes back (`map.c:350`), and so ends before the last entries.
- `GCUpvalues`. `SET_UPVALUE` stores into a heap object without the write barrier
  (`vm.c:2787`); `memory.c:224` says the remembered set holds what old objects point
  to.
- `BlockReturns`. `OP_RETURN` ends a block whenever `v_blockStack` is not empty, although
  the block may merely be active further down (`vm.c:3167`; the comment above it
  speaks of being in the block): `fun g() { return 3; } [1,2].each() -> (x) { print g(); };`
  prints nothing.

Steps the models take, without a run that isolates them:

- `collectGarbage` notes the positions of all finished threads, then removes them in
  ascending order; each removal shifts the positions after it, so the second removes
  a live thread (`memory.c:1268`). `Threads` defines `LiveThreadsListed`, which four
  threads violate.
- The C handler of a signal takes `interruptLock`, a plain mutex, which
  `threadInterrupt` or another handler on the same thread may hold (`signal.c:59`).
  `Signals` defines `NoSelfDeadlock`, which is false.
- `Thread#throw` to a thread that is about to sleep signals before the wait begins
  (`thread.c:387` takes no `sleepMutex`), and the error comes after the sleep.
- A thread that starts while the VM exits leaves with the status READY, for which
  `terminateThreads` waits for ever (`thread.c:266`, `vm.c:3948`; `releaseGVL` ignores
  the status it is given). It takes two other threads: the VM must pass to the
  new one while the main thread interrupts the other. `ThreadsExit` with three
  threads in all finds it as a violation of `MainExits`, although
  `examples/thread_no_join.lox.io:11` says "script should exit immediately".
- `numLivingThreads++` and `--` run without the lock (`thread.c:83`, `thread.c:252`): an
  update can be lost.
- A thread in `pthread_join` cannot be interrupted, so an exit waits for it.
- The counters of `sigbuf` can lose an update to a handler (`signal.c:20`), and a
  total that is too low hides a signal; a signal without a handler ends the drain
  (`thread.c:66`), and so does an error out of a lox handler (`signal.c:47`), which is
  longjmped past the loops of `thread.c:63-69` after the flag was cleared: the signals
  behind it wait for the next one; trapping a signal that `sigaction` refuses, as the first one,
  follows a NULL pointer (`signal.c:106`).
- `resize` counts an entry twice when a changed key made two entries equal
  (`table.c:108`), after which `Iterator#next` reaches its "shouldn't reach here"
  (`runtime.c:1264`); `table.c:13` says of two keys with one hash that the second
  overrides the first, the code keeps both.
- `Map#each` reads through a table pointer that a rehash in its block freed
  (`map.c:329`).
- A full collection forgets the slots that were free before it (the free list is
  rebuilt from what it frees, and empty slots are skipped), and counts each
  freed object twice when it decides whether to add a heap.

Behaviour of the compiler and the machine that differs from what the program's text
says. All of it is in the model and was seen on the built interpreter; the programs
of `Language` avoid it, program by program, so that what they do show is exact.

- Optimizer (`compiler.c:498-687`): removing an instruction patches neither the
  operand of `OP_BREAK` nor the catch table. `while (true) { break; 3; } print "end";` lands
  on `OP_PRINT` with an empty stack. Turning `JUMP_IF_FALSE` into `POP` (line 554) and
  merging pops across a label are not patched either.
- `continue` in a `for` skips the increment; in a `while` it leaves the body's locals
  on the stack; in a `foreach` with a local of the body it fails an assertion
  (`compiler.c:966`, `compiler.c:922` when nested).
- `GET_LOCAL` reads the frame's copy of a local while `SET_UPVALUE` writes the stack slot
  (`vm.c:2765`, `vm.c:2786`).
- An error takes the landing of a native frame before the catch rows of the frames above
  it (`vm.c:2130`): a `try` inside a block never catches. The range of an ensure row is
  not looked at, and a return or break out of a `try` skips its ensure.
- Locals of a block, and operands of an expression that an error leaves, stay on the
  stack until the frame ends. So do the debris of a call with a wrong number of
  arguments.
- A block's upvalues are captured in the frame that yields, not where the block is
  written (`runtime.c:368`); the closure that `Block#yield` makes has none, and reading one
  crashes. `this` and constants inside such a block are those of the native's
  receiver.
- A call with a block and more than eight arguments follows a NULL pointer; a keyword
  parameter can be filled by position; a parameter after a default that is not needed fails
  an assertion (`vm.c:1852`); a named function inside a function is a global.
- `a % b` with `b` between -1 and 1 but not 0 divides by zero (`vm.c:2388` tests the double, the
  division is of ints), also while compiling. `%`, `|`, `&` and `^` with an instance on
  the left follow a NULL name (`vm.c:2401`).
- `super.foo` in a class method finds the superclass's instance method; in a block or an
  anonymous function it fails an assertion (`vm.c:3128`); when a singleton class overrides the
  method it finds the same method again for ever (`vm.c:1053`). `super.s = v` fails an
  assertion of the parser.
- `in (x) {}` never pops `this`; an error out of a class body leaves `v_crefStack` and
  `v_thisStack` (`vm.c:3223`). A class body inside a plain function called from a method pops the
  method's receiver.
- A constant in an inherited method is looked up from the receiver's class (`vm.c:1563`, with a
  TODO that says so), so a subclass's constant replaces the superclass's.
- A catch class of three parts `A::B::E` is compiled to the name `B::EA::B`
  (`compiler.c:2461`) and never catches. A superclass that is a constant of the enclosing
  module is not found, because it is read as a global.
- Scanner and parser: `_` is scanned as the name of a line number (`scanner.c:242`); a heredoc
  may end early; an interpolation without its brace follows a NULL pointer
  (`parser.c:1501`); in the REPL `match` reports a token it has not taken (`parser.c:168`).

## 7. What is proved, and how

Every theorem below is for all values of the constants of its module, under the
assumptions the module states about them (finite sets, positive sizes) and the
hypotheses named here. Each invariant was model-checked before it was proved.

**`GVLProofs`**: any finite set of threads, any length of a turn, any number of
mutexes. `TypeCorrect`, `Exclusion`, `OwnerRecorded`, `MutexKeeps`, `NoLostWakeup`,
`WaitersExact` and `Refinement` (every step of the lock is a step of `VMLock` or leaves
the holder alone). `MutualExclusion` is not inductive: `releaseGVL` tests
`vm.curThread` and `GVLOwner`, so one must know that these are about the caller. The
invariant `IInv` adds `OwnerInv` (the flag, the owner and `vm.curThread` agree; whoever
is in the VM or holds a mutex is the owner; the owner is in the VM or in a blocking
call it kept the lock through) and `WakeupPending`. `WaitersExact` counts: each step
adds or removes one thread from a finite set.

**`ThreadsProofs`**: any number of threads and collections, any natives.
`TypeCorrect`, `FinishedStaysOut` (`ZombieStaysOut`), `InterruptsEndThreads`
(`InterruptIsFinal`), `DetachedAreCounted` (`DetachedNotUndercounted`); and, with one thread
besides the main one, `VMIsFreedAlone` (`FreeVMAlone`). A thread's status
is written by others than the thread: by `lxNewThread`, by whoever ends its sleep, and
by itself without the lock. So `IInv` says where each thread can be while another
one acts on it: a thread under construction has one creator and has not started
(`Creating`), a status of ZOMBIE belongs to a thread past its last lox code, and a thread
that does not exist is new or failed (`Finished`); `Scanning` keeps the index of
`terminateThreads` inside `vm.threads`, whatever a collection has removed.
`VMIsFreedAlone` rests on what the exit loop may trust: `Inside` (one thread in the VM; the
main thread is never interrupted) and, about the other thread, `Counted` (where it is
determines `numLivingThreads`, which nobody else changes), `Listed` (it is on `vm.threads`
unless it is new or was collected), `Born` (it has a tid before the loop looks) and
`Met` (what `found` and `ready` have learnt of it). Its hypothesis is the most the code
allows: with two others, their updates of the count can overwrite one another.

**`SignalsProofs`**: any number of threads, signals and interruptions, with counters
updated in one piece or torn, and any lox handlers. `TypeCorrect`, and
`SignalsAreAnnounced` (`NoStrandedSignal`), for every program. `NoStrandedSignal` is about
quiet states; `Announced` carries it from one to the next: while no frame is between the
count and the flag and the program is not in a drain, an unset flag means that
`getSignal` would find nothing, or that the drain was abandoned. While a lox handler
runs, the program is in a drain, and `Nested` says which: below each of the handlers
there is one frame, a drain that waits for it. So the first frame of the stack tells
whether the queue is looked after. When a handler returns, its drain goes on, and whatever
came meanwhile is found by it or announced by the flag; when it throws to the program, all
drains are gone, and the flag or `abandoned` must say so. With these go `Stacked` (what C
handlers can be in) and `Counting` (a counter that is updated exists). The exception in `NoStrandedSignal` is
needed: without `abandoned` it is false (section 6).

**`TableProofs` and `MapProofs`**: any sets of keys, characters, values and maps, any
hash function and any smallest capacity of two or more.

- With keys that change in place: `TypeCorrect`, `RoomIsLeft` (a quarter of a table is
  empty, so a probe ends), `RehashDoesRepair` and `IterationIsComplete`. The invariant
  is `Loose`: a table's count is at least its entries, and at most three
  quarters of its slots. An iterator is followed by `IterInv`: what it has met is what
  lies before its cursor.
- For keys nobody changes (`MutableKeys = {}`): `ProbesFind`, `CountIsExact`,
  `CopiesAreEqual` and `MapRefines` (every operation of the Map class is a step of
  `AbstractMap`). The invariant is `Tight`: `Loose`, an exact count, and each entry
  the first stop of its own probe. Deletion is the hard case (`TableDeleteTight`):
  while `tableDelete` moves entries up, there is a gap, and entries behind it are
  not found; `Shifting` says that the gap is the only stop on their way. That a
  copied or merged table has the entries it should is `AddAll` over `Missing`: the
  entries of the target that the source does not override, and those of the source.
  `DictFrom` reads the partial function off a table; `StandsFor` makes it unique.
- `NatLemmas` has what an argument about a loop needs in a form the provers accept:
  not an induction rule over predicates but over sets (`InductiveSet`, `LeastMember`,
  `CountingUp`), and that a function over an interval with given first value and step
  exists (`Recursion`), which turns `f == CHOOSE ...` into its equations. They say nothing
  of the code and are lemmas only.

`MutableKeys = {}` matters: run `MapLoops` has keys that change, and without the
hypothesis `ProbesReach` is false there.

**`GCProofs`**: any sizes of heaps, stacks and generations.

- `TypeCorrect` and `FreeListIsSound`, with no restriction on the program: whatever
  it stores, and even when finalizers throw, a slot is linked once and only while
  it is free. The invariant is `SlotsKept`: the same of the young stack, from which
  the young collection frees (an object twice on it would be freed twice), and
  that all used slots lie in heaps that exist, without which a new heap's slots
  could be linked already.
- `NothingDangles`, `FinalizersAreCounted` and `FinalizersAreCalled`, under `Misuse = {}`.
  `NoDangling` speaks of reachability, collections of marks, generations and the
  remembered set. What links them: `RefsKept` (references stay inside used slots, and
  a young object on the young stack that any used object refers to is remembered),
  `MarksKept` (between mark and sweep the marked objects contain the roots and are
  closed under references), `PhaseKept` (what the locals of a collection are in each
  phase; without errors that leave finalizers nothing is dark outside of one)
  and `FinalizersKept` (an object with a finalizer is used, promoted, and
  counted). Reachability is "in every set that contains the roots and is
  closed", so the proofs exhibit a closed set instead of doing induction over
  paths.
- `TriesAreFew` (the assertion `tries < 3`), for every program, if a full collection that
  frees nothing adds a heap (`FreeMin > 0`): `TriesKept` relates the count of tries to
  the flags of `getNewObject`.

- `CollectorImplementsGraph`, under `Misuse = {}`: a program that stores with the write
  barrier sees an object graph in which memory never runs out. What it sees is
  `Trimmed`, the references cut down to what can be reached. So the lemmas say when two
  relations lead to the same objects (when they agree on the objects one of them leads
  to), and each action of `GC` is a step of `ObjectGraph` or changes references of lost
  objects only.

`Misuse = {}` is not a technicality: run `GCUpvalues` shows `NoDangling` false with
"upvalue", and the model is false with "store" too.

**`MachineProofs`**: any programs, compiled into any code at all, and any `FRAMES_MAX`
of one or more; nothing is assumed of the words of a chunk, of its catch table, of the
values on the stack or of the classes.

- `LandingsStayAlive` (`LandingsAlive`): each place to which an error can jump out of a
  block belongs to a C function that still waits, the places are in the order of the
  calls, and the block entries are as many.
- `NoCallerWithoutLanding` (`OneLandingEach`), the converse: a C function that has called
  lox code has exactly one such place and lox frames on both sides.
- `LoopRunsLoxCode` (`InstructionsOfLoxCode`): no call, return, block exit or error hands
  the loop of `vm_run` a C function's frame, which it would run as if it were its caller.
- `FramesStayWithinLimit` (`FramesWithinLimit`), for calls of lox code; that a C function
  called with the frames full is left out is said in section 2.

All four follow from `AlwaysReady`, the invariant between two instructions. `LandingsAlive`
alone is not inductive, for two reasons. `OP_RETURN` returns from the frame on top
whenever no block is active, and if the frame below were a C function's with no landing, the
loop would go on in it and push tags for it twice. So `Waiting` says that whoever has lox
code above has a tag, and `Alternate` that C functions are called by lox code only. And
an error with no landing left searches the catch tables outward and drops frames by
their number: `TagsIn` and the equality of `blocks` with the number of tags tell that no
tag belongs to one of them by then. During an instruction the invariant is broken and
mended: `InC` and `Tagged` are its form inside a C function before and after
`SETUP_BLOCK`, `Outside` what holds when all landings are given up. Most of the work is in
knowing what does not matter: an operation is `Quiet` if it leaves frames, tags and entries
as they are (pushes, pops, bindings of arguments, writes of fields and constants, the
lookups), and what is quiet needs no further argument. The proofs then follow the C
functions: `UnwindErrInfo`, `PopFrame`, `LandInNative`, `FindThrowJumpLoc`, `ThrowError`,
`CallClosure`, `CallNative`, `CallMethod`, `Invoke`, and each group of instructions. TLC
checked the invariant on every state of `Language` before it was proved.

## 8. What is only model-checked, and what is not modelled

Only model-checked, and why:

- The other properties of `Language`. `OutputAgrees` compares two recursive
  definitions, the compiler and the meaning of a tree. `Balanced`, `JumpsLand`,
  `OpenUpvaluesOnStack` and `CallersKeepTheirStack` are false of arbitrary code (a `POP` too
  many breaks each but `JumpsLand`): they say something of what the compiler, the parser
  and the optimizer make, which are recursive over trees, and an argument about
  every tree is an induction over data.
- Liveness (`IdleVMTaken`, `HolderYields`, `MainExits`, `SignalHandled`, `Terminates`):
  fairness and what is enabled are outside the prover.
- What the runs of section 6 show violated.

Not modelled, by component, with the reason:

- lox mutexes but for their count: planned, see section 9;
- in the machine: map literals and indexing, assignment to an index, regular
  expressions, `eval`, `require` and autoload, `vm_protect` around a loaded file, more
  than one execution context, `Binding`; a program that needs them ends in
  "unmodelled"; so does one that uses the value of a read-only global or of a native function
  other than `yield`, or the order of two unequal strings;
- in the object model: modules mixed in by `include` and `extend`, the reflective natives
  (`send`, `respondsTo`, `defineMethod`...), an error class with an `init` of its own,
  subclasses of Array, String and Class, instances as garbage;
- in the compiler: the inlining that is switched off at compile time, compilation of a
  single line in the REPL;
- in the parser: the REPL's lines, error messages, the printing of trees;
- regular expressions, strings and arrays changed in place, descriptors: planned;
- in the memory manager: the objects' kinds one by one (what each refers to is
  data: `refs`), interned strings, statistics, heaps given back, and a `GC.collect`
  inside a finalizer;
- in threads: thread-local data, names, and the reuse of ids;
- tables keyed by instances, whose hashing calls lox code;
- the debugger, the REPL, options, time, random numbers, printing: input and output
  without shared state; the lox library and vendored code: clients and
  third-party.

## 9. Plan

Order of work, the most important behaviour first. Done:

1. `VMLock`, `GVL`, `GVLProofs`.
2. `Threads`, `Signals` over the abstract lock, `ThreadsProofs`, `SignalsProofs`.
3. `HashTable`, `AbstractMap`, `LoxMap`, `TableProofs`, `MapProofs`.
4. `ObjectGraph`, `GC`, `GCProofs`.
5. `Bytecode`, `Optimizer`, `Compiler`: jump patching, folding, scopes.
6. `Machine`: frames, unwinding, upvalues, calls, against `Semantics`; `MachineProofs`.
7. `Scanner`, `Parser`, `Source`: a program is read from its text.
8. `Classes`: lookup, constants, receivers, errors of the program's classes.

Next:

9. `Mutex`: lox mutexes over `GVL`'s lock, with the forced unlocking at thread exit.
10. Maps in the machine, over `HashTable`; modules mixed into classes.
11. `Regex`: the matcher against a reference; arrays and strings changed in place.
12. `Descriptors`: open and close of files and sockets around the released lock.

Proved: every invariant and action property of the runs outside the language, what
holds of the machine whatever it runs (`LandingsAlive` and its companions), and the three
refinements (`VMLock`, `AbstractMap`, `ObjectGraph`).

Theorems worth proving next: the same for what is modelled next; facts about
`Rationals` and `Bytecode` (removing an instruction moves the ones after it by its
length), for which their recursive operators must first become functions.
