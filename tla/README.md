# A TLA+ model of the xternal runtime

xternal is a source tree of third-party libraries with one author's own code
around them. This directory holds TLA+ models of that own code: the header-only
C runtime under `src/Include/c+` first of all. The modules are checked with
TLC on small instances; what matters most is proved with TLAPS for every value
of the constants.

## 1. Inventory

Everything under `openssl`, `sqlite3`, `expat`, `zlib`, `Include/wx`,
`Include/curl`, `Env/python36` and the other `lib*` archives is vendored and left
aside. The program's own logic is this:

| part | files (`Include/c+` unless said otherwise) | state it keeps | operations | what is hard |
|---|---|---|---|---|
| task queue | `system/tasque.hc` | three task lists, list of processor frames, two counters, alerts | `Tasque_Queue`, `Tasque_Alert`, `Tasque_Perform_Update`, `Tasque_Stop`, `Tasque_Terminate`, the processor thread | threads against the main loop, unlocked reads, thread hand-over, forced termination |
| threads and monitors | `system/threads.hc` | critical section, event, both created on first use | `Thread_Run`, `Thread_Join`, `Mutex_Init_*`, `Mutex_Wait`, `Mutex_Notify` | creation races, lost notifications, time-outs |
| lists | `slist.hc` | a head pointer | push at the tail, pop the head, remove | order |
| errors and pool | `csup/csupport.hc` | per-thread pool of temporaries, stack of jump buffers, seven lock slots each | `__Auto_Release`, `__Try`, `__Raise`, `__Xchg_Interlock`, `__Refe`, `__Unrefe` | what a raise must unwind: locks, objects, nested raises in clean-up |
| objects and memory pool | `csup/object.hc` | reference counts, free lists per size, block list, method tables | `__Object`, `__Refe`, `__Unrefe`, pool extension | atomic counts, spin locks, concurrent extension |
| thread-local storage | `csup/tls.hc` | a key created on first use | `Tls_Set`, `Tls_Get` | creation race |
| asynchronous TCP | `net/tcpip.hc` | socket, `C_TCPSOK`, tasks in flight | connect, read, write, accept: a work half on a processor, an update half on the main thread | the socket closed between the two halves, error mapping |
| HTTP server | `net/httpd.hc` | connection state, buffers | accept, request, post data, perform, response, send | callbacks in every order, failures half way |
| web host and CGI | `net/webhost.hc`, `net/cgi.hc` | routes, running CGI processes | route, start a process, poll it by alerts | polling, time-outs, failed spawns |
| document database | `db/xddb*.hc` | documents with revisions in SQLite or MySQL | get, store (overwrite, update, strict), delete | concurrent clients, lost updates |
| document tree | `xdata.hc` | pages of nodes and values, names | node and value by index | index arithmetic |
| dictionary, arrays, buffers | `dicto.hc`, `array.hc`, `buffer.hc` | tables, sorted vectors, byte buffers | put, take, rehash, sorted insert, grow | bounds |
| text, crypto, pictures, files, program start, log, inspector | the rest of `Include/c+` | none or one file handle | pure conversions and system calls | - |
| libstr, libc0, libconf, libhash, libpe, libpict, libsynfo | `libstr/src` ... | as above | earlier sequential editions of the same code | - |
| foobar | `Include/foobar` | C++ reference counts | `RccPtr`, `Refcounted` | atomic counts |

How they interact: HTTP connections are driven by asynchronous TCP, which queues
a task for every operation (`tcpip.hc:449,520,603,671,825`); the web host polls CGI
processes with alerts (`webhost.hc:427,544,602`). The work half of a task runs on
a processor thread of the task queue, the update half in the thread that
calls `Tasque_Perform_Update`, and every callback may queue more tasks. All of them
allocate objects (`object.hc`) and raise errors (`csupport.hc`), which release the
locks the thread holds and the temporaries it made.

## 2. The modules

| module | what it is |
|---|---|
| `TaskService` | what the queue promises: started in order, body before update, one update per task |
| `Tasque` | the task queue with its threads, from `system/tasque.hc`, the notifications of `system/threads.hc` and the lists of `slist.hc`; refines `TaskService` |
| `TasqueProofs` | the theorems about `Tasque` |
| `MCTasque` | instances for TLC |
| `ObjectLife` | what objects promise: fresh memory, one destruction, after the last reference |
| `Mempool` | reference counts and the memory pool, from `csup/object.hc`; refines `ObjectLife` |
| `MempoolProofs` | the theorems about `Mempool` |
| `MCMempool` | instances for TLC |
| `Csup` | scopes, raises, interlocked sections and the pool of temporaries, from `csup/csupport.hc` and `C+.hc` |
| `CsupProofs`, `CsupRefsProofs` | the theorems about `Csup` |
| `MCCsup` | its instance for TLC |
| `WaitMonitor` | what a mutex with an event promises: one thread inside, a notification kept until a wait consumes it |
| `Monitor` | that mutex as `system/threads.hc` builds it on first use; refines `WaitMonitor` |
| `MonitorProofs` | the theorems about `Monitor` |
| `Tls`, `TlsProofs` | thread-local storage with a key allocated on first use, from `csup/tls.hc`, and its theorems |
| `AioAnswers` | the answers that a callback of `net/tcpip.hc` can get |
| `AioContract` | what an asynchronous call promises: one answer, of a size that was asked for |
| `TcpAio` | the asynchronous calls on top of `TaskService`, from `net/tcpip.hc`; refines `AioContract` |
| `TcpAioProofs` | the theorems about `TcpAio` |
| `MCTcpAio` | instances for TLC, a server and a client |
| `HttpExchange` | the order of the statuses that the program behind the HTTP server is told |
| `Httpd` | the HTTP server from `net/httpd.hc`, on the answers of `AioAnswers`; refines `HttpExchange` |
| `HttpdProofs` | the theorems about `Httpd` |
| `MCHttpd` | instances for TLC |

How they are composed: `Tasque` is shown to implement `TaskService`; `TcpAio` uses
`TaskService` for its tasks and is shown to implement `AioContract`; `Httpd` takes
`AioAnswers`, the answers `AioContract` allows, as all it knows of a call, and is
shown to implement `HttpExchange`. `Tasque` relies on the notifications that
`Monitor` is shown to implement (`WaitMonitor`).

### Tasque

State. The three lists `in`, `care`, `out` and the back pointer
`processor[t]`; the counters `oncare` and `count`; the pointers `next` and `prev` of
the frames, with the head of the list at the address `List`;
and, for each identity of a processor thread, its place `pc`, its local `cur` and
whether its handle is stored (`thr`); the main thread's place `mpc`, and the
stage on whose behalf it finishes lists or fires alerts; pending signals of the
two monitors. `ran`, `outcome` and `late` are history.

Grain. One action is one section under `Tasque_Lock`, because nothing in such a
section blocks. Reads and writes outside the lock are actions of their own:
`ONCARE` and `COUNT` (`Perform_Update`, `CheckCount`), the head of `Task_Out`
(`CheckOut`, `EndBatch`, `Again`), `Task_In` and `Task_Care` under the wrong mutex
(`CheckIn`, `CheckCare`), the store of the handle (`StoreHandle`), every notification.
`Tasque_Stop` and `Tasque_Terminate` call update callbacks while they hold the lock:
`locked` says so and stops the processors, not the callbacks, which run in the
thread that owns the lock. Any thread may queue a task (`MayQueue`): while the lock is held
across callbacks, only the thread that holds it can.

Reads that race. `CheckIn` and `CheckCare` read two lists one after the other while a
processor moves a task from one to the other with plain stores.
`InLooksEmpty` and `CareLooksEmpty` add the states in which a list that is not empty can look so.

Waiting. A time-out may end a wait at any moment when there is one (`Timed`), and
never otherwise. `AutoReset` selects the semantics of the monitor: a Windows
auto-reset event keeps a signal until a wait consumes it, a condition variable
forgets it when nobody waits; `threads.hc` has both.

Bounds. `Tasks` and `Alerts` are finite supplies, each used once; `Procs` are
thread identities that are reused after a thread ends. Two tasks make them
overtake each other, three make a second batch; three processors of four
identities let one in the middle of the frame list retire while another starts; `MAX0` of 2 or 3 makes the bound
bite; `BATCH` of one or two instead of ten lets the inner loop end by its
count. Everything else is unbounded in the code and in the model.

### Mempool

State. `spin`, `head` and `blocks` are the globals `__Mempool_Spinlock`,
`__Mempool_Slots` and `__Mempool_Blocks`. A piece of a block has a first word,
`word`: the link to the next free piece, or the signature, which says the slot of
the object that is there; and a reference count `rc`. `home` is history: the slot a
block was cut up for. Each thread has its place `pc` and the locals `plidx`
(`slot`), `Q` (`q`) and `R` with the list it has read (`r`). A reference is a token, held
by no thread in particular: tasks carry objects from the program to a processor
and back.

Grain. Between taking a spin lock and releasing it, the read of the head and the
write of it are separate actions (`ReadHead`, `Pop`; `Chain`, `Put`), and so are the
read of the list of blocks and the write of it (`Extend`, `AddBlock`), which no lock
of its own protects. The atomic increment and decrement are one action each.
Clearing a new object and filling its header is one action, since nobody else
has the piece; so is cutting up a new block under the lock of its slot.
`malloc` may fail at any time; `C_Fatal` then aborts the program.

Bounds. `Blocks` bounds the memory, `Refs` the references that exist at the same
time. Two blocks of two pieces and three references let three threads empty and
extend both slots, reuse every piece, and share an object between three
references; two slots let two extensions overlap. `RCWRAP` stands for the 2^23
values that `__Unrefe` looks at; the references are fewer.

### Csup

State. `stack` is the C stack of each thread, reduced to the blocks and calls that
have something to undo: `__Try`, `__Auto_Release`, an interlocked section, a
release or a truncation that is running a destructor. `jb`, `pool` and `unwinding`
are the fields of `C_SUPPORT_INFO`; `lock` says how often each thread has entered a
lock (a mutex, or the word a section spins on); `refs` the
counts of objects, `own` the references held outside the pools. The slots of a jump buffer that
hold the same lock are told apart by the place of their section in the stack (`Slot`); in the code they are alike.

Grain. What a thread does to its own record is one step per call, but
`__Pool_Truncate` and `__Release` hand control to the destructor of each entry, which
may enter sections, drop references and raise. The client is free: any nesting,
a raise anywhere. Three things it must not do, because no code in the repository does and
the support would not survive them, are guards, named and commented in the
module: a destructor run by a truncation opens no scope and pools nothing (`Calm`),
a destructor run by `__Release` does not raise past it (`Releasing`), and a pointer that a block hands
over is pooled in it once (`LeaveAuto`, `PoolRef`). A mutex may be entered again by the
thread inside, as `Tasque_Terminate` does; a thread that enters a spin lock twice spins for ever (`Free`).
Sections are entered in any order: two threads may wait for each other, which is the program's fault and no state of this module is about.

Bounds. One thread goes three deep with two pooled entries, the other enters
sections and drops references; one mutex and one spin lock, two objects, two references each.
Depth three is a `__Try` with two sections, of two locks or twice of the mutex, and the raise through both, two nested `__Try`
blocks with a section, or an `__Auto_Release` in a `__Try` whose truncation runs a
destructor; two entries make one dropped and one handed over.

### Monitor and Tls

A step is one access to a shared pointer or one call of the system, so that every
interleaving of "test, create, compare and swap, delete mine" is there. Objects
and keys of the system may come back after they were deleted. Threads wait in a
monitor only while they are inside, as every use of `Mutex_Wait` in the repository does,
and have locked once: `Mutex_Wait` leaves the critical section once, so that a thread that has locked twice
would sleep with the lock. The thread inside may lock again (`Mutex_Lock_Again`), as often as `DEPTH` lets it;
twice, in the run, for the last unlock to differ from the others.
A notification may come from inside or outside. Three threads are enough for two losers
of one race while a fourth object is being made; `Monitor` is run without
time-outs, where a lost notification is not repaired by anything.
`TlsAlloc` may find no key left: the thread then offers `INVALID_TLS_VALUE`, and `Tls_Set` stores its value nowhere
and tells nobody. `refused` remembers those threads, and `ReadsOwn` allows them, and no others, to read null.

### TcpAio

State. The tasks are those of `TaskService` (`waiting`, `phase`). `iot` is the
`C_TCP_IOT` of each task; `skt` the descriptor in each `C_TCPSOK`, `fd` what the system has
behind a descriptor, `peer`, `inb` and `sent` the other ends. `behind`, `strayed` and
`early` are history: which connection a request was made for, and which tasks touched
another one. So is `late`: the tasks that callbacks make while the queue is torn down. `lost` holds the
sockets that a failed `Tcp_Listen` leaves to nobody.

Grain. Workers run on threads of their own, so each system call is one step and
everything may happen between two of them: the socket closes, its descriptor
goes to another connection, the peer leaves. Callbacks run in the main
thread and are one step each, with the calls they make (`Tcp_Ip_Connect` queues the
second task of a connect by name). A queue that is torn down tells the callbacks of what it
had FAIL. What they ask for then is queued like anything else: it may be failed in its turn, or stay in a list that
was already finished, and is answered or not (`late`). `Tcp_Listen` may fail after it got its descriptor, and raises
with the descriptor open.

Preconditions. One request of a kind is in flight on a socket at a time (`Alone`), and a
socket that is connected or listened to is closed: `Tcp_Ip_Connect` and `Tcp_Listen`
overwrite the descriptor. A blocked call whose descriptor is closed under it
fails or reads what the descriptor table says when it returns. A send has one byte at least. `Room` reserves tasks for the second half of a
connect, and one socket listens at a time: both are bounds of the model.

### Httpd

State. `rq` is the `C_HTTPD_REQUEST` of each connection with what its peer sends
and has been sent; `list` and `refs` are the list of requests and the references to the
server; `accepting` counts the accepts in flight that may succeed, `barred` those that were asked for on the
closed socket and can only fail: an accept that succeeded before `Httpd_Shutdown` and is reported
after it makes a request all the same, and asks for the next.

Grain. Everything runs in the main thread: a callback is one step, and the
handlers that call each other inside it are operators from a request to the requests they
may leave behind. A receive returns any number of tokens its sizes
allow, so heads and posted data come in every segmentation.

Data. A head is a text of words and line ends of which only the lengths, the line ends and the
method matter; `Analyze` takes method and length from the assignment `Wires`. Bodies are files
of known or unknown length; `Oj_Read` may return less than is there.
The sizes of the code (64 K, 4 K and so on) are scaled down to a few tokens, in the same
order.

Bounds. Two connections, one with a GET whose head comes after an earlier
line, a POST that fits and a POST that is longer than what is kept in memory (9 against 6), so that
data are stored twice; answers without a body, one that fits behind the header,
one that does not and whose file ends early, and a chunked one.

## 3. The runs

| run | question | answer |
|---|---|---|
| `tasque` | Do the counters, the links of the frame list, the start hand-over and the task lists stay consistent with any interleaving, with tasks queued by any thread and a `Terminate` at any moment? | They do. |
| `tasque_shutdown` | With `Stop` and `Terminate` at any moment and bodies that may never return: are tasks settled, are threads killed only while they run one, does the queue refine `TaskService`, does a stop end, and does a body that blocks hold up the tasks behind it? | All of it holds; a waiting task gets a processor while fewer than `Tasque_MAX` exist and the wait has a time-out. |
| `tasque_live` | Is every task updated when `Perform_Update` waits without a time-out, and does it ever sleep when nobody will wake it, is there a deadlock? | Every one is, it never does and there is none, with an auto-reset event and a reserve of at least one. |
| `mempool` | Can a piece be handed out twice, be lost, or be freed while it is referred to? Is an object destroyed once? | No; yes. The pool refines `ObjectLife`. |
| `csup` | Does a raise through any nesting unlock each section once and no other, those of a mutex entered twice included, find the right handler, and release each temporary once? | Yes, under the three rules above. |
| `monitor` | Does the race of the first uses of a mutex, which the thread inside may lock again, let two threads in, lose an object, or lose a notification? | No. |
| `tls` | Can a thread read a value that it did not set, or a key be leaked or freed in use? | No; a value is lost when the system has no key for it. |
| `tcp_server` | Can an asynchronous call touch a connection it was not made for? Is every descriptor held by one owner? | Only after its socket was closed under it. Yes, with two exceptions, and these are all: a `Tcp_Listen` that raised, and an accept that succeeded and is failed by the end of the queue, lose theirs. |
| `tcp_client` | Does every request get one answer, of a size it asked for, and in the end? | One at most; one, unless a callback made it while the queue was torn down. |
| `httpd` | Are posted data and answers whole in every segmentation, is the receive buffer respected, does the program hear the statuses in order and at last, does every callback bring its request nearer to the end, is the server destroyed only when nothing can come back to it, and in the end? | Yes, apart from the two findings. |
| `httpd_stray` | "empty line => end of headers" (`httpd.hc:542`): is a request performed only when its empty line has come? | No: the scan reads `bf->at[bf->count]`, one byte past the data. |
| `httpd_chunked` | Does a chunked answer consist of framed chunks? | No: a chunk is framed behind offset 30 but sent from offset 0 and without the length of its frame. |

The two violation runs differ from `httpd` in one thing each: what may lie in memory
behind the data (`STRAYS`), and the property asked. `httpd` itself is run with memory that
holds no line end there.

`CHECK_DEADLOCK FALSE` stands only where the program may really stop: the queue
is shut down (`tasque`, `tasque_shutdown`, `tcp_*`), `C_Fatal` aborts (`csup`), every thread waits and none is left
to notify (`monitor`), all requests are answered (`tcp_*`, `httpd`).

Fairness.

* Task queue. Every processor is scheduled (`WF` on its own code); the program calls
  `Perform_Update` again and again, as `Tasque_Finish` does (`WF` on the steps of the
  main loop); the system does not refuse a thread for ever (`SF` on the start).
  `FairSpec` adds that task bodies return. `BlockingSpec` does not, since nothing in
  the queue makes a body return. Nothing obliges a client to queue, arm or stop
  anything.
* `TcpAio`. What `TaskService` promises: tasks are run and reported, or all that were there are failed when the queue
  is torn down; nothing is promised of those that come late. A peer that may call does, and one that is connected leaves: without that a
  receive has no end, because the code has no time-out.
* `Httpd`. Tokens that have come and answers that were sent are reported; a peer that has sent
  all it wants leaves; the program answers what it put off and lets go of a request that has ended; a listening socket that is
  closed ends the accepts that wait on it, as `closesocket` does (on POSIX a `close` need not). Nothing obliges a call to fail
  otherwise, so that an answer that loops for ever would be found.

The two side conditions of the liveness runs are real. With `RESERVE = 0`
(the code starts with 5) a processor may retire after the main thread has read
`ONCARE = 1`; a task that an alert callback or another thread queues then finds no processor and
an infinite wait is never notified. `NoHeadOfLine` needs a bounded wait, because the
next processor is started only by the next `Perform_Update`.

## 4. The proofs

`TasqueProofs` proves, for any finite set of thread identities, any set of tasks
and alerts and any value of the limits (`TasqueAssumption`), every safety property
of the three runs, the action property `KillsOnlyRunning`, and the refinement of
`TaskService`. `CountersExact` includes the types, since the invariant has to have them anyway.

None of the properties is inductive alone. The invariant `IInv` is the
conjunction of

* `TypeOK`;
* `StartInv`: one thread is started at a time, the main thread is waiting for it
  (`mpc = "started"`), and who is past the gate has a stored handle. It is what
  makes `mp` point to a frame that stands still;
* `TaskInv`: `OnePlace` and `BackPointers`, each needed for the other: a task cannot
  be in two lists because the processor that holds it is the only one its back
  pointer names;
* `BoundInv`: `COUNT < MAX` is still true when the main thread starts the thread it
  decided to start, since only a new thread raises `COUNT` and only the main
  thread starts one;
* `CountInv`: the counters are the cardinalities of the idle and of the linked
  processors.

`ProcListSound` takes `ChainInv` on top: there is a sequence of the linked processors along which `next`
and `prev` lead, and frames outside it have null links. `ChainLink` and `ChainUnlink` exhibit the sequence after
a registration and a retirement, `ListSteps` says that nothing else touches the frames.
`LimitInv` (below) gives its last part, that no thread is killed before the queue is shut down.

The proofs split `[Next]_vars` into the steps that leave tasks and processors alone
(`Calm`, lemma `CalmOrBusy`) and fifteen actions. Lemmas `ElemsPush` and `ElemsPop`
say what the list operations do to the elements and to the absence of
repetitions; `CardMove` what a step does to a counter. The refinement takes one
more invariant, `RanInv`: which tasks have run, by place.

What the main thread may conclude takes four more. `StageInv` relates its place to the
stage on whose behalf it is there, and says that it holds the lock from the first list it
finishes to the last. On it rest `SettleInv` (a list that is finished stays so, but for what
callbacks queue), hence `TerminateSettles`, and `RestInv` (a zero that was returned stays
true while the next call fails to start a thread), hence `ZeroMeansDone`.

`WaitIsWoken` is the safety core of `AllUpdated`: while `Perform_Update` sleeps, the event
is set or a processor is about to set it, and a queued task has a processor that will come
to it. `TasqueWakes` proves it under the hypotheses that the monitor is the auto-reset event
and that `RESERVE` and `MAX` are at least 1 (5 and 1000 in the code). `LimitInv` says that
the limits are these until the queue is shut down, `StaffInv` that from the check of the
count on there is a linked processor, since the last one never retires, and `NotifiedInv`
that a task finished after the look at `Task_Out` is signalled by who finished it.
`AllUpdated` itself follows from it by fairness, and stays with TLC.

`MempoolProofs` proves, for any number of threads, slots and blocks and fewer
references than the count can hold (`MempoolAssumption`), every property of the
run, and the types. The first three safety properties need each other. A free list is
sound because the piece that is popped is nobody's and the piece that is pushed
is one thread's; that is `Exclusive`, which is kept because a thread gets a piece only
from a sound list or from an exact count; and the counts are exact because live
objects are not in the lists. What ties them is `LocksInv` (one thread at most in
the lock of a slot), `WorkInv` (what a thread has read of the head or written
into its piece is still so when it goes on) and `BlockInv` (a block that is being
added is one thread's). `IInv` is the conjunction of all. `HeadStays` and `OwnedStays`
say what a step leaves to the other threads, `LastGoes` that the decrement is zero
exactly at the last reference, `BusyQuiet` that only `Pop` and `Put` change what is in
use. `NoPieceLost` is about chains of any length, for which there is no recursion to unfold: `Reached` is the
least set of pieces that the head is in and that is closed under the links, and a set of that kind
is what the proof reasons with. `WholeInv` says that every such set holds all free pieces of the slot, and those behind the piece
a thread has popped or the block it is adding; the lemmas `TakesHead`, `PutsHead` and `AddsChain` say what the three writes of a
head do to those sets, and `ChainDown` that a closed set that meets a new block holds the rest of it, by its
least counterexample. Not every block is in the list that `C_Mempool_Cleanup` frees: of two slots that extend at the same time
both read the same head of the list, and one block is lost to it, a leak at the end
of the program. `MempoolNoDouble` says what is true: no block is listed twice (`SeenInv`: a
list that a thread has read never holds the block it is adding), so none is freed twice. `MempoolImplements` maps the dying objects to the pieces that
threads destroy or free.

`MonitorProofs` proves, for any finite set of threads, any supply of objects and any depth of locking
(`MonitorAssumption`), all three properties of its run. `HandsInv` says that the two pointers and the
hands of the threads hold different objects, one in a hand being as it was
created; `PlaceInv` what a thread knows at its place, which is stable because a
pointer is set once; `CountInv` counts. The refinement maps the owner and the
signal through the pointers: creating and offering are invisible.

`TlsProofs` proves both properties of its run for any threads, keys and values. `Fresh`
is what makes them inductive: a key that is about to be offered holds nothing.

`TcpAioProofs` proves, for any tasks, sockets, connections and sizes
(`TcpAioAssumption`), every safety property of the two TCP runs. The refinement of `AioContract` rests on
`CInv`: a task in flight serves one request that was made and not yet answered, no other
task in flight serves it (`ServesOne`, which the second task of a connect by name
inherits), and the counters in its `C_TCP_IOT` still agree with the sizes of the request
(`Transfers`); a callback then has nothing to report that was not asked for.
`DescriptorsHeld` and `StraysOnlyAfterClose` rest on `DInv`. `HInv` says who holds a descriptor:
sockets hold different ones, those of a failed `Tcp_Listen` included, an accept carries one that no socket has, one that the
queue has failed included, and nothing the
system gave out is without one of these. `DescriptorsHeld` then takes the two kinds of leaks out. `NamesOpen` says that a socket whose name is being
resolved has no descriptor yet, so that `Tcp_Ip_Connect` overwrites none; `BehindInv` that a task
whose socket was not closed still finds there what was there when it was made. The lemmas
`Holders...` take the six ways in which descriptors change hands, one each.

`CsupProofs` proves, for any threads, locks, pointers, sizes and depth of nesting
(`CsupAssumption`), `HandlersLive` and `SectionsExclusive`. Each thread
keeps its own record, so the invariant is `Sane` of one stack, its jump buffers and its pool,
for every thread, and `Locked`, which says that each lock is taken as often as sections for it are on
the stack of one thread, and of no other. `Sane` is the conjunction of
`Unwound` (`unwinding` is set exactly while a truncation is on the stack, and above it
there is its destructor and the sections that has entered), `Jumps` (the buffers
are those of the open `__Try` blocks, in order, and a raise is aimed at the innermost),
`Nested` (the breakers of scopes climb with the stack and stay within the pool),
`ForLocks` (sections are entered for locks) and `Records`
(a buffer holds a slot for each section between its `__Try` and the next, and no other, so that a raise unlocks a mutex as often
as it leaves sections of it). They need each other: `_C_Raise`
unlocks what is recorded, so the locks are right only if the record is; the record is right
only as long as a destructor run by a truncation, whose sections are not recorded, is
recognised by `unwinding`; and the end of a scope finds its own buffer and its own breaker only because blocks
nest. The lemmas `Sane...` take one way of changing the stack each.

`CsupRefsProofs` proves `RefsExact` and `RecordsExact`, which includes the types, from `IInv` and `RefInv`.
The count alone is not inductive: of two entries of a pointer that a scope hands over, the
truncation would keep one reference and hold both. `OnceOnly` says that there is one entry at most above
the breaker of a scope that hands a pointer over, and none once the pointer is in hand; it is what
the precondition of `LeaveAuto` and the guard of `PoolRef` give, and what nesting preserves, since
the entry that is handed over lies above the breakers of all outer scopes too. `KeepsOf` says that only
scopes hand over. Each step is then one of five balances (`Balance...`): nothing changes, an entry
appears or goes, or moves between the pool and the hand.

`HttpdProofs` proves, for any connections, clients, answers and sizes (`HttpdAssumption`), every
safety property of the `httpd` run and the refinement of `HttpExchange`. The handlers are operators
from a request to requests, so each lemma is about one handler (`...Goes`, `...Good`, `...Posted`) and the steps only
put them together. The invariant has four parts. `Stagewise` says that the call in flight tells the stage of a request,
and that none is in flight when the callback starts: from it follow the refinement and
`NotForgotten`. `Good` keeps sizes, the room in the buffer, and, for an answer of known length, that
what went out and what is in the buffer make the header and the data up to where the file
was read: `InBuffer` and `BodyWhole`. `Counted` and `Listed` relate references, list and accepts: `ServerSound`. `Posted`
follows the data of the client: before the end of the head the buffer holds all that came and
the scan has found no empty line in it (`ScanGoesOn`: a scan that goes on at the last
line end finds what a scan of everything would); after it the stream followed by the buffer holds
what came behind the head, and what is left to come is counted. `HttpdPostWhole` assumes what the first finding
shows to be necessary, that no line end lies in memory behind the data (`CleanBuffers`). `HeadsAssumption` says what a
client means by its head, and `PowersAssumption` that there
is a power of two for every size up to the largest buffer, which needs induction to prove; TLC evaluates both on its instances.

`MovesOn` is the safety core of `AllAnswered`: no callback leaves a request where it was. The measure
is lexicographic: the stage, then what has come of the client's text, then what is left to send of the
answer, in which the last chunk counts although it is empty. `Onward` says why: every receive asks for one token
at least, and an answer has one of the three kinds. It rests on `GROW > 0` (4096 in the code, now part of
`HttpdAssumption`): a buffer that did not grow would ask for nothing, be answered at once, and ask again.
`HttpdMovesOn` proves it; that a call is answered at all is fairness, and stays with TLC.

`HttpdHeadWhole` is the other side of the first finding: with `CleanBuffers` a request is performed only when its
empty line has come. The scan finds the end of the head among what has come (`RequestArrived`), and
no later handler changes what has come (`GoesOn`); so the byte behind the data is the only cause of what `httpd_stray` shows.

Only model-checked: the two findings, and the liveness properties (`AllUpdated`, `NoHeadOfLine`,
`ShutdownEnds`, `ServerEnds`, and `AllAnswered` of the client and of the HTTP server), which need fairness and are out of the
proof system's reach. Every safety property, action property and refinement of the passing runs is proved.

## 5. Not modelled

* The clock: any armed alert may be due at any time, worktime may be over at any
  time. The order of the alert list and re-entrant `Tasque_Perform_Alert` are
  left out.
* The memory of threads that are gone. A processor killed by `Tasque_Terminate` leaves its
  frame in `Tasque_Proc_List` and stays counted; `ProcListSound` keeps its links and says that this happens only
  after a shut-down. What a later retirement, which may write into that frame, does to the memory there is not modelled.
* Objects too large for the pool, which go to `malloc` and `free` directly; method
  tables and their cloning; `C_Mempool_Cleanup` itself.
* Handles of threads that ended are never closed; no property is about that.
* The POSIX half of `threads.hc` as written: `Mutex_Lock` calls a function that does
  not exist. The condition-variable semantics it aims at is covered by
  `AutoReset = FALSE`.
* `Csup`: the error record, the growth of the arrays, `__Safe_Prolog_Epilog` (used nowhere),
  abort hooks.
* `TcpAio`: synchronous calls and addresses. `Httpd`: the text of heads (headers, ranges,
  cookies), files as system objects; lengths are not negative; a request that
  the program puts off is answered once.
* The web host and the CGI gateway. Routing is a chain of string tests and the CGI part
  starts processes; both use `__Try_Except` (`webhost.hc:540,586`, `cgi.hc:127`), whose
  definition is commented out in `csupport.hc:140`, so that there is no code to
  translate the error paths from.
* The document database: texts of SQL statements, whose effect under concurrency is decided
  by the database behind them.
* Dictionary, arrays, document tree, strings, and libstr, libc0 and libconf, which hold
  earlier editions of them: sequential containers, without concurrency, callbacks
  or failures half way. Their tests reach what a model would.
* Cryptography, pictures, text formats, dates, files, start-up, the log and the inspector: arithmetic
  on large words, conversions of texts, and wrappers of the system.
* Everything vendored, which is nearly all of the tree: the models cover the part of
  it that is this program's own concurrent and event-driven logic, a few thousand lines.

## 6. The plan

What is left, in the order of what it would add:

1. The alert list of the task queue with a clock.
2. `Dicto` against a map, `Array` against a sorted sequence, `Xdata` against a tree of nodes.
