# A verification project for the hseos samples

TLA+ modules of the programs in this repository, TLC configurations that check
them, and proofs that TLAPS checks. `PROJECT.json` holds the same inventory for
tools: components, runs, mutants, the map from definitions to source lines,
hazards, theorems and findings.

## The system

The repository accompanies a course on operating systems. It is no single
program: `src/src` holds some fifty small C, C++ and assembly programs, each
about one interface (atomics, threads, signals, eventfds, pipes, sockets,
files, mmap, dynamic loading). A component here is one program, or one
reusable header. What a component interacts with is the kernel and the other
threads or processes of its own program; no two programs talk to each other,
except the echo server and its client. There are no tests; the only texts that
say what a program should do are `src/src/fork/sync.md`, `src/src/fork/exec.md`,
the comments of `src/src/sockets/example/types.h` and a comment in
`src/src/mmap/sample4/main.c`.

The hard behaviour is therefore in the small: a step of another thread or
process, a signal, a short read, a failing fork, a full pipe, at a place where
nobody expects it.

### Inventory

| component | state | operations | what is hard | what makes it correct |
|---|---|---|---|---|
| one-to-one queue (`atomic/one-to-one-queue.h`) | two offsets, cells | init, try_enqueue, try_dequeue | two threads without a lock, wrap-around | a FIFO of bytes; concurrent copies never meet; full is not empty |
| lock-free list (`atomic/list`) | head and links | atomic_push | a weak CAS in a loop | a stack; no push lost, no cycle |
| C++ threads (`cppthread/thread`) | counter, mutex, condition variable; a spin lock | acquire, release, run_mutex, run_atomic | lost wake-ups; a lock released by another thread | every permit is taken, none twice; no try gets a held lock |
| shared counters (`pthread/race`, `race-mutex`) | a counter; the Container's value | increment by two threads; container_acquire, container_release | data races; a woken thread overtaken | exact with a lock, bounded without; one user of the value, no forgotten sleeper |
| thread local counter (`pthread/thread_local`) | counters of the threads, their sum | create, pin, count, add, join | a sum and a CPU number without a lock | the sum of both threads or of one |
| signal sequence print (`signal/sequence_print`) | `received`, shared integer | wait_signal, master's and children's loops | a signal between a test and `pause()` | numbers in order; ends unless a signal is missed |
| signal ping-pong (`signal/ping-pong`) | one pipe, signalfds | main, two children | two readers of one pipe, merged signals | numbers in order, nobody reads the other's |
| SIGTERM printers (`signal/sigterm_print`, `sigterm_print_naive`) | flag, mask | handler, wait, reset, print | a signal between a test, a wait and a reset | every signal is followed by a line |
| signal reader (`signal/sigreader`) | flag, last signal, mask | init, acquire, read, release | handlers between any two steps | no sleep on an unread signal, no death while acquired |
| eventfd ring (`fork/evfd-sync`) | one eventfd per child | fork, read, print, write, wait | failing forks | one holder, numbers in order |
| parallel divisors (`fork/divisors`) | eventfds, shared slots | request, shares, answer | children of one request racing | the answer has all divisors, once |
| run and capture (`fork/run`) | pipe, growing buffer | run | short reads, exec failing in the child | the whole output, in order |
| pipe to sort (`fork/pipe-send`) | pipe, descriptors | copying loops of two processes | ends of a pipe left open, short writes | all input copied, both end |
| recursive fork (`fork/recursive-fork`) | chain of processes, stdio buffers | print, flush, fork, wait | buffers copied by fork | each number once and in order |
| fork per line (`fork/map`) | stdin's buffer and shared offset | getline, fork, exec, wait | a failed child moves the offset back | the command runs once with each line, in order |
| timer of processes (`fork/timer`) | counter, children | sleep, fork, exec, wait | failed forks, any child's end, children nobody can wait for | each step its number and its own report |
| shared memory sample (`mmap/sample3-fork`) | one word | scan, poll, print | the word changes between test and print | a number that stays is shown |
| expression graph (`nn`) | operations, cached values | make, derive, compute, reset | caches of graphs that share nodes | the derivative; no stale value |
| echo server and client (`sockets/example`) | connections, children, byte streams | accept, fork, recv, send; connect, write, read | streams cut anywhere, nothing given back | echo in order; who waits is answered |
| socket addresses (`sockets/example/types.c`) | an address, a text | parse, parse with port, format, size | uninitialised and narrow variables | what is parsed is what was written |
| descriptor primitives (`sockets/primitives`) | eventfd, timer, pipe, epoll, descriptors | loops of six functions | edges reported once, blocking reads | nothing left unreported, no count lost |
| LEB128 reader (`mmap/sample4`) | parser, block | put_char, map, read | shifts at the width, blocks | every number printed as what it means |
| read_all (`readall`) | descriptor, memory | open, measure, read, give back | a file that changes meanwhile | all or nothing, no overrun, no leak |
| buffered reader (`bufread`) | buffer, offsets | nextchar | short reads, 0xff | nothing lost, no character taken for the end |
| file merge and seek (`files`) | two files, two streams | generate, merge, seek | old tails, streams that end or fail, seeks that fail | every number that is read, in order; no failure hidden |
| containers (`sample2`, `sample4`, `sample5`) | vectors, a tree of relative links | reserve, push_back, clear_vector; get_left, concat_left | growth, a freed pointer, a pointer by value | what is stored has memory; no link breaks |
| assembly (`asm/segments.S`, `strcmp.S`) | registers | step, mystrcmp | comparisons with and without sign | the common length; the order of two strings |
| module reloading (`dl_rt`) | handle, time, function | update, call | a builder between any two steps; use counts | calls what is mapped and not older than seen |

What is not modelled is listed at the end, with the reasons.

## Modules

Each component has a module with the variables of the program (names of the
source where they exist), one action per step that other actors can see, and
the properties at its end. A comment before an action says what is not plain
from the code. Operators whose comment begins with *Mutation* are plausible
bugs: `PROJECT.json` says which definition each of them stands in for and which
property then fails; no specification uses them. An `MC...` module gives the
constants their small values and adds nothing to the behaviour.

The larger components have a run of their own. The small programs share four: `MCForkPrograms`, `MCSignalPrograms`,
`MCConcurrentPrograms` and `MCSequentialPrograms` have a variable `program` that
says which program a behaviour runs. They INSTANCE (or extend) the programs'
modules, start the chosen one from its own `Init`, take its own `Next` with its
own fairness, and leave the variables of the others as they are (`Only(p)`), so
a run is the union of the separate state spaces and nothing else. The
assumptions on the constants of the instanced modules stand in the `MC`
module. Their properties are those of the programs, joined where several
programs share one question: the definition lists the parts.

| module | models | how state and actions correspond |
|---|---|---|
| `BoundedFifo` | what the queue promises | puts and gets that begin, succeed or are refused on a sequence |
| `AtomicQueue` | `one-to-one-queue.h` | a step is the load of the other side's offset, one memcpy, or the release store; refines `BoundedFifo` by `ImplementsFifo` |
| `PushOnlyStack`, `AtomicList` | `atomic/list/main.c` | a step is one access to memory; refines the stack by `ImplementsStack` |
| `Semaphore` | class `Semaphore` and `run_semaphore` | locking, waiting, relocking, posting and unlocking of every thread's program of calls |
| `SharedCounter` | `run_mutex`, `race-mutex`, `race` | `locking` says which of the three programs runs; load and store are separate steps |
| `SpinLock` | class `SpinLock` and `run_atomic` | lock, try_lock and release of main, and the release of the thread it starts; a weak CAS may fail |
| `Container` | `race-mutex`'s `Container` | mutex, condition variable and value between any number of users |
| `ThreadLocal` | `pthread/thread_local/main.c` | creating, pinning, counting, and load and store of the sum |
| `SequencePrint` | `signal/sequence_print/main.c` | pending, delivered and received are separate; the test and the pause are separate steps |
| `PingPong` | `signal/ping-pong/main.c` | the records of the one pipe and the pending signal of each process |
| `SigReader` | `sigreader.h` and its main | mask, actions and flag; delivery between any two steps that allow it |
| `SigtermPrint` | `sigterm_print`, `sigterm_print_naive` | `naive` says which loop runs; kill, pending, handler and each call of the loop |
| `Primitives` | `sockets/primitives/main.c` | `loop` says which function runs; one action per system call of it |
| `EvfdSync` | `fork/evfd-sync/main.c` | counters of the eventfds, children, wait |
| `Divisors` | `fork/divisors/main.c` | the shares of the candidates, fetch-and-add on the slots, the answer |
| `PipeCapture` | `run` in `fork/run/main.c` | pipe contents, open ends, buffer and capacity |
| `PipeSend` | `fork/pipe-send/main.c` | the copying loop of both processes, open ends, stdio buffers |
| `RecursiveFork` | `fork/recursive-fork/main.c` | one process per number, its copy of stdout's buffer, its wait |
| `MapLines` | `fork/map/main.c` | the shared offset, the buffer of stdin, and a child that executes or leaves the loop |
| `ForkTimer` | `fork/timer/main.c` | fork, exec and the loop of waitpid, with SIGCHLD ignored too |
| `SharedWord` | `mmap/sample3-fork/main.c` | the child's scans, and the look, compare and print of the parent |
| `OpGraph` | `src/src/nn` | operations by number, their cached values, derivation, computation and reset as recursive functions |
| `EchoServer` | `server.c` and `client.c` | server, children and clients, each client's bytes on the way up, in `buf` and down |
| `AddrParse` | `types.c` | one `eo_addr_t` and one text that calls in any order use |
| `Leb128` | `mmap/sample4/main.c` | `put_char` as a function on parsers; measuring, mapping and reading as actions |
| `ReadAll` | `readall/main.c` | steps of `read_all` between writes by others |
| `BufRead` | `bufread/main.c` | one action per path through `nextchar` |
| `FilesMerge` | `files/main.c` | writes, merge steps and seeks, one int each, and their failures |
| `DataSamples` | vectors of `sample2`, `sample4`, tree of `sample5` | one vector and the calls of its functions; links as functions on trees |
| `AsmSamples` | `asm/segments.S`, `asm/strcmp.S` | `step` as a function on words; one step of `mystrcmp` per byte |
| `ModuleReload` | `dl_rt/main.c` | stat, close, open and call between builds by others |

### Abstractions

* Bytes are model values or the number of their place in the stream, as far as
  a property tells them apart. Widths are kept where they matter, scaled down:
  numbers and groups of `Leb128`, the two bytes of a port in `AddrParse`, the
  four bytes of an int in `FilesMerge`, whose order `ntohl` turns round, the
  signedness of a `char` in `BufRead`. The offsets of `AtomicQueue` stay below
  its memory size by `TypeOK`, so their 64 bits do not.
* A number of `Leb128` is the set of the bits that are one in its two's
  complement: `|` is the union, a shift moves the bits and drops those beyond the
  width, and the cast from `uint32_t` to `int32_t` changes none.
* The floats of `OpGraph` are numbers modulo a prime, in which derivatives are
  what they are over the reals; rounding is not modelled. The flags of its fresh
  nodes are what malloc left: any pattern that repeats after `Period` nodes.
* Acquire and release of `AtomicQueue` are modelled by interleaving. An acquire
  load that returns an old offset is a behaviour in which that load came
  earlier, and what was stored before the release is seen because a memcpy
  never meets the other side's (`NoOverlap`).
* Undefined behaviour is a choice of what the build can do: the uninitialised
  `err` of `AddrParse` is NULL or not; the uninitialised `tmp` of `FilesMerge`
  (`test_seek`, when its read fails) has what the stack or the round before left
  (`Leftover`); an increment without a lock is any
  interleaving of its load and store; a read beyond a mapping in `Leb128`, and a
  call of `DataSamples` on freed memory, lead to a state of which nothing more
  is said. A number with more than 32 pairs of divisors is written behind
  `responses`, into the rest of its page: `Divisors` has both sizes,
  `MAX_RESPONSES` and `PAGE_RESPONSES`, and its answers are complete in between.
* `SequencePrint`, `EvfdSync`, `PingPong`, `Divisors`, `RecursiveFork`,
  `MapLines` and `ForkTimer` let forks fail as the code does: a missing child is
  a process that never runs, and what its parent does with -1 follows
  (`SequencePrint`'s `ForkMayFail` switches this off where a run is about
  another question; `NoPid` in `PingPong` is the number that 2^64-1 stands for).
* `main` of `sockets/primitives` calls `run_epoll` only; the other functions of
  `Primitives` are checked as if it called each. A pipe of three numbers stands
  for the write that fails; the kernel's always takes the four.
* `pipe`, `eventfd`, `mmap` and small allocations are taken to succeed where
  the program does not look at the result and the failure is not one of the
  hazards; `fork`, `exec`, `dup2`, `realloc` and `accept` fail where the code
  has a path for it, or a consequence that matters.

## Runs and bounds

Every run is exhaustive for its constants. The names of the bounds are in the
modules' CONSTANTS, marked *bound*.

| run | shows | bounds, and why they are enough |
|---|---|---|
| `queue` | copies do not meet, full is not empty, refinement of the FIFO | three cells, requests of up to four bytes of two values: copies that fit, wrap, fill and do not fit, and every split of a copy; two values tell positions apart |
| `list` | inductive invariant: no push lost; links stand, refinement of the stack, `EveryPushLands` | four pushes: a CAS loses to one and to several others |
| `sequence_print` | one right to print, order, stuck only by a missed signal or a failed fork | four children, five numbers: turns wrap around |
| `sequence_print_finishes` | *violation*: the protocol can sleep for ever | two children |
| `fork_programs` | `Safety`, `AnswerComplete` of `Divisors`: shares, quiet between requests, complete answers also past the array | three children; 1, a prime, squares, numbers with one pair and two in an array of one too few; two requests |
| | `CaptureSafety`: whole output, in order, inside the buffer | nine bytes through four: the pipe fills twice, reads come short, and the first buffer of three doubles twice |
| | `CopySafety`: input copied in order, whole at the end | five bytes through two: blocked writers, short reads |
| | `CommandsSafety`: the chain prints in order and its first process ends last; `map` runs with each line once; each step of the timer has its number and report | six numbers; five lines read three at a time; four steps |
| | `RingSafety`: one child of the eventfd ring has the number, output in order | four children, six numbers, any forks failing: once and a half around |
| | `ProgramsEnd`: each of these ends, unless a child is missing or turns `map` back | the same; three numbers of two values in the shared word |
| `signal_programs` | `Safety`, `FoundIsKept`, `SafeWhileAcquired`, `ReadReturns` of `SigReader`: no missed wake-up, no signal reported twice, no death while acquired | two signals, as in its main: one can overwrite the other; any number of acquisitions and signals |
| | `TurnsSafety`: ping-pong's order, the right reader of each record | numbers to six: both roles several times, child 2 last |
| | `ReportsKept`: no signal slept over, no edge or count without a report | four signals: one in its handler, one pending, one lost, one for the end; the values of the code in `Primitives`, timers to fifteen, limits of four and seven descriptors for six |
| | `SignalsEnd`: ping-pong ends unless a child is missing, each signal gets a line, the loops take all they were given and rest there | the same |
| `echo` | echo in order, answers, nothing is given back, the server ends and those who wait are refused | three clients, two descriptors, three processes: one more than there are; words of up to three bytes through a buffer of two: words cut and joined. `Sends` bounds the bytes of each client: one sends three, one sends one, one only comes and goes |
| `concurrent_programs` | `NothingLost`, `RaceLosesNotAll`: counters exact with a lock, at least two without | four rounds each: a store can undo several increments |
| | `NoLostWakeup`: no thread sleeps beside a permit nobody is on the way to | `run_semaphore`'s threads and two more: several sleepers, a notified one overtaken by a newcomer |
| | `HandOverSafety`: the sum of one or both threads, no try gets a held spin lock, one user of the Container's value and no free value beside a sleeper nobody wakes | two rounds; `run_atomic` as it is, with weak and strong tries; three users: one has the value, one wakes, one comes in |
| | `ReadSafety`: no overrun, all or nothing, no leak | three bytes, three changes of any kind: longer, shorter, other |
| | `ReloadKeepsOld`: calls what is mapped, not older than seen; a second use is for ever | three builds, three seconds, four updates: two builds in a second, two updates between builds |
| | `AllEnd`: each of these programs but `dl_rt`, which loops, goes on to its end, and every permit of the semaphore is taken | the same |
| `sequential_programs` | `DerivativeIsRight` | every graph of two operations over two inputs, all values modulo three |
| | `CachesAreRight`: which resets make cached values right | graphs of two operations over one input and their derivatives, products, changes, resets and computations in any order, modulo three; every other node as fresh memory has it: without the forced resets `initialized` asks for, TLC finds a stale value |
| | `NumbersPrinted` as what they mean | every file of up to four bytes, five-bit numbers in groups of two: as with 32 and 7 the last group does not fit whole |
| | `AddressesKept`: parsed as written, failure keeps, round trip | one IPv4 and one IPv6 name, all brackets, junk behind them (which is not looked at behind a name of 44 characters), every number for a two-bit port and one past each limit |
| | `FilesRead`: merge prints what it reads of the first file, twice and in order, as far as its reads go; 0 is returned only for all even positions with their bytes turned round; no character lost, 0xff is no end | three numbers over up to five old ones in any order, negative ones too, bytes of two values; any call may fail, so that a seek fails before one that does not, which needs five numbers; inputs of up to five through a buffer of two |
| | `SamplesRight`: vectors have memory for what they hold, links of a tree stand, `step` and `mystrcmp` are right | five calls from three capacities: fill, grow, clear and two more; trees of three nodes; all segments of four-bit words of one sign; strings of up to three of two characters |
| `addr_valid` | *violation*: a valid text is refused | one name of each family, the same ports |

`CHECK_DEADLOCK FALSE` stands in the runs of programs that end, or that wait
for ever where the model's counters are at their bound.

### Fairness

Safety runs assume none. Liveness uses weak fairness of each thread or process
as a whole: the kernel runs what can run. Beyond that:

* `AtomicList` adds strong fairness of a successful weak CAS: a CAS that finds
  what it expects again and again does not fail spuriously for ever. Only
  `EveryPushLands` needs it.
* `Semaphore` assumes that spurious wake-ups stop; mutex and condition variable
  need no fairness among threads because the programs are finite.
* `SequencePrint`, `SigReader` and `SigtermPrint` deliver a pending signal that
  is not blocked. Whether the user of `SigReader` calls again, and whether more
  signals are sent, is left open; so is whether a user of `Container` calls
  again. The condition variable's spurious wake-ups need no bound there: the
  woken thread looks again, and sleeps.
* `PipeCapture` assumes that the command goes on while it can write, and
  `PipeSend` that the input ends. Nothing promises that of a command, but
  without it `run` is meant to wait.
* `SharedCounter`, `ThreadLocal`, `SpinLock`, `PingPong`, `Divisors`, `EvfdSync`,
  `RecursiveFork`, `MapLines`, `SharedWord`, `Primitives`: weak fairness of each
  process or thread, and nothing more; the kernel grants a free lock to
  somebody. The timer need not expire and the child of `SharedWord` need not
  scan.
* `EchoServer` runs the server and its children, and a client that waits reads
  what comes or the error; no client need ever send, or hang up.
* `ReadAll` assumes that a signal does not interrupt every read: an interrupted
  one is no step of the model.

### Findings

Two runs end in a counterexample that contradicts what the repository says.

* `sequence_print_finishes`: between `wait_signal`'s test of `received` and
  `pause()` the signal can be delivered, and everybody sleeps for ever, though
  `src/src/fork/sync.md` has the master finish.
* `addr_valid`: `eo_parse_addr_port` tests a variable nothing sets and refuses
  ports from 32768 on, though `types.h` says it returns 0 on success.

Other runs pass with properties that describe behaviour a reader may not
expect, because no text of the repository contradicts it: a failed fork that
leaves the others of `SequencePrint`, `EvfdSync` or `PingPong` waiting for ever,
a failed child that turns `map` back to lines it has run, `run_semaphore` of
`Primitives` and `open_many_fd`, which wait or try for ever, the calls that break
a vector of `DataSamples`, the clients of the echo server that write in front of
`data` when the server has ended, `AlwaysBehind` (in
`Safety`) and `ServedAndGone` of the echo server, `SecondUseIsForEver` of
module reloading, `MergeKeepsNumbers` of the merge, which prints its first file twice, `EveryPermitTaken` (in
`AllEnd`) of the semaphore (`run_semaphore` waits for ever at its fourth acquire),
`ReadsAllOrStrays` of the LEB128 reader. In `PipeSend`, `CheckDup2` has what
`fork/pipe-send/main.c:50` does: `dup2(...) - 1` is taken for success, so the
error message comes after a success, into the pipe, and not after a failure.

## Proofs

TLAPS proves the following for every value of the constants, from the ASSUMEs
of the modules (each of which TLC evaluates in a passing run). Every proof is
that of an inductive invariant with one lemma or step per action. The invariants
stand in the modules (`IInv` and its parts) or at the head of the proof module;
TLC has checked each on the constants of its run, and the run of the list
checks `IInv` itself.

* `AtomicQueue_proofs`: types, race freedom (`NoOverlap`), `OneCellFree` and
  the refinement of `BoundedFifo`. `TypeOK` alone is not inductive: the
  invariant says what a call between its steps knows, that the free space a
  producer has judged has only grown since (and the data a consumer has judged),
  which part of a request is in the cells already, and that the abstract queue
  is what lies between the offsets.
* `AtomicList_proofs`: the list is exactly the completed pushes, newest first,
  and published links stand. The invariant ties the links to the history of
  successful CASes, and says that a node whose CAS has not succeeded is in
  nobody's list, whatever its plain store wrote. `Refinement`: walked from its
  head, the list is the stack of `PushOnlyStack`, so it grows at a CAS by one
  node in front and at no other step. `List` walks with a recursive function;
  that there is one is shown by giving it (the k-th node of the history, then
  NULL), and that it is the only one by the least place where another would
  differ (`LeastNat`).
* `SequencePrint_proofs` (`ChildrenTakeTurns`): one process has the right to go
  on and the numbers come out in turn, for any number of children, any limit,
  any failed forks. `OneToken` alone says nothing of the step at which a signal
  is handled: the invariant says where the right to go on is (pending as a
  signal, received, or with a process at work), and whose turn `mem` and
  `index` make it.
* `SignalPrograms_proofs`: the signal reader misses and doubles nothing, changes
  nothing it has found, and is not killed while acquired (`ReaderSafety`,
  `ReaderKeepsFound`, `ReaderIsSafe`), for every `target_set`; each reader of
  ping-pong's pipe takes only its own record (`PingPongInOrder`), for every limit
  and any two distinct pids; the printers of SIGTERM and the loops of
  `sockets/primitives` leave nothing unreported (`ReportsReach`). A reader of the
  pipe is safe only because of what the pipe can hold: the invariant says, for
  each step of a turn, which record is in it and whose signal is pending.
* `ConcurrentPrograms_proofs`: counters with a lock are exact, and without one
  between two and twice the rounds (`LockedCountIsExact`, `RaceBounds`): for the
  second the invariant says that a thread's second store builds on something.
  `WakeupsReach`: while a thread sleeps at the semaphore there are no more permits
  than threads awake to take them, for any threads and programs of calls;
  counting needs lemmas about cardinalities of the sets of awake threads.
  `HandsOver` covers the spin lock, the thread local sums and the `Container`,
  for any number of users: one has the value, and a free value beside a sleeper
  means that somebody woken or about to come is on the way. `ReadsAll`: memory,
  descriptor and result of `read_all`, for any file length and any changes of
  it. `ReloadKeepsFirst`: what `update` calls is mapped and not older than what
  was seen; the invariant relates handle, use counts and the time of each build.
* `ForkPrograms_proofs`: the chain of processes, `map` and the timer
  (`CommandsInOrder`), `run` (`CapturesAll`) and `pipe-send` (`CopiesAll`), for
  every input, pipe and buffer size: the streams before, in and behind each
  buffer always join to what was written. `DivisorsShared` and `AnswersAll` are
  about the parallel divisors, for any number of children and any request whose
  answer fits the page it is written in: the invariant says for each child whose
  turn it is, and that an injection leads from the slots taken so far onto the
  pairs of divisors given so far, so two racing fetch-and-adds neither lose nor double one. That
  the shares cover each candidate up to the root once, and that a pair is
  counted from its smaller half, are lemmas of arithmetic on shares, roots and
  quotients, for all numbers. `RingInOrder`: the number of the eventfd ring is in
  one place and the output in order, for any number of children and any failing
  forks; the invariant says where the number can be and what it is worth there.
* `EchoServer_proofs` (`EchoesInOrder`): each client reads the greeting and then
  its own bytes, once and in order, for any clients, words, buffer, descriptors
  and processes. The invariant says that what is on the way down, in `buf` and
  on the way up is one run of numbers, the next after what the client has, that
  the bytes of a client not served yet are all on the way up, that a child ends
  only after its client has closed, and that a connection is handed to one child
  and a refused one to none.
* `SequentialPrograms_proofs`: the small programs without concurrency.
  `SamplesAreRight`: the vectors of the samples stay in their memory for any
  elements, capacities and calls; `step` measures segments in words of any width;
  `mystrcmp` orders strings of any length, because what it has passed over is
  common to both. `LinksStay` is about `concat_left` on trees of any size (the
  property asks it of small ones, which TLC can enumerate). `AddressesAreKept`:
  what is parsed is what was written, for any names, numbers and order of calls; the
  invariant says what a formatted text is worth, which the round trip needs two
  calls later. `FilesAreRead`: the merge relates how often each number is in its
  output to how often it is in what its streams have read (`Conserved`), a
  function on values whose growth by one is a lemma about cardinalities, so it
  does not matter which stream ends or fails first. Of `test_seek` the invariant
  (`SeekIInv`) says where its stream stands, exactly while `res` holds and at most
  there after a failure; `BytesTurned` is about the bytes of what `ntohl` makes of
  an int. `nextchar` joins what
  it has returned, has in its buffer and is still to come to the input.
  `CachedValuesAreRight`: what `compute_graph` believes is right, for any number
  of inputs and operations, any variables, any prime and any flags in fresh
  memory (a graph has finitely many nodes, so some `Period` fits). That a
  root is right after a reset is not inductive: the invariant says that whatever is
  computed below a root whose flags are initialized is below a computed root
  through computed nodes, so that a reset without force, which stops at a node
  that is not computed, misses nothing. The walks are recursive functions, shown
  to exist as the least set closed under what they do; the values and the
  derivatives, by the least node at which there would be none.
  `DerivativesAreRight`: the graph `derivative` makes stands for the derivative
  wherever its root has a value, both for the graphs the run builds and for those
  in use, of any size. The invariant (`SlopeIInv`) says so of the two roots; a
  lemma (`DerivedMeans`) says it of the whole graph that `derivative` appends, by
  the least node for which it would be wrong. Each case is a rule of
  differentiation in arithmetic modulo a prime (`ProductRule`, `QuotientRule`: a
  quotient is what the divisor times it gives back, and what can be divided by
  can be cancelled), and what is made for a node stays what it is when more is
  appended, because an operation refers only to those before it.
  `NumbersAreRead`: a number no longer than the width needs is printed as what its
  bytes stand for, for files, groups, numbers and pages of any size. The invariant
  (`LebIInv`) says where the number `put_char` is in the middle of begins, that its
  shift is that of its bytes and, while they fit, its result their bits
  (`LowGrows`, `SignGrows`); and where `main` is, how much of the file is mapped.

Programs that share a run start with `program` at any of their names, and most
theorems about them are of that specification, `AnySpec`. Those about the signal
reader and the counters, and about nothing else, are of the program's own
`Spec`; `EachProgramRuns` says that a run of `AnySpec` is a run of it. The
assumptions are the modules' own: pids are distinct and positive, no file's
content is the value that stands for none, no name or text of an address stands
for a missing one, the nodes of the list are finitely many, `run` reads no more
at a time than its first buffer has, numbers asked of the divisors fit the page
they are answered in, the modulus of `OpGraph` is prime in that what can be
divided has a quotient.

Every safety property that a passing run checks is stated by a theorem. Liveness
stays with TLC, because what happens under fairness is out of the prover's reach
(`EveryPushLands`, `FinishesOrMisses`, `ProgramsEnd`, `ReadReturns`,
`SignalsEnd`, `Answered`, `ServedAndGone`, `AllEnd`), and so do the two runs that
expect a violation. What recursive definitions compute for every input, such as
the derivative of `OpGraph`, needs induction over data, and the library's
induction theorems are out of the prover's reach as well; where a proof needs
one, it takes the set of the numbers at which the claim would fail, and its least
member.

## Plan

The order was: first what runs concurrently without locks (`AtomicQueue`,
`AtomicList`), then threads and processes that synchronise (`Semaphore`,
`EvfdSync`, `SequencePrint`, `PingPong`, `Divisors`), then pipes and signals
(`PipeCapture`, `PipeSend`, `SigReader`), data (`OpGraph`, `Leb128`), sockets
and files, and then the smaller programs beside them; and the proofs in the same
order. Nothing of the plan is left.

## Not modelled

* `fork/nonblocking`: the child's test, `res == -1 || ENOBUFS`, is always true,
  so it never gets to its numbers; both processes only poll.
* `fork/simple`, `fork/fcntl`, `fork/fd_save`, `fork/recursive-fork2`,
  `pthread/simple`, `pthread/sched-yield`, `cppthread/broken`: one call each and
  its result printed. `recursive-fork2` never gets past its exec.
* `mmap/sample1`, `mmap/sample2`, `dl` and its modules, `sockets/example/main.c`:
  straight lines of input and output around calls that are modelled elsewhere
  (`AddrParse`, `ModuleReload`) or belong to the kernel.
* The other assembly files print, add or take a square root without a choice;
  `nostd/echo.S` compares with an immediate as second operand, which the
  assembler does not take.
* `signal/sigint_handler`, and `run_timer_signal` and `run_async`, which keep
  nothing between their calls.
* `1201`, `1205`, `sample1`, `sample3`, `strftime`, `inj`, `bash`, `c-template`:
  formatting, exercises and the template of a project.
