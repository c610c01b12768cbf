# A verification development of co-uring-WebServer

TLA+ models of the servers of this repository, the TLC configurations that check
them on small instances, and theorems about them that TLAPS proves for
every size. Paths are relative to the root of the repository.

Contents: 1 the system; 2 the modules; 3 how the models correspond to the code;
4 the runs, their bounds and what they show; 5 fairness; 6 what is proved;
7 what disagrees with the code's own words; 8 what is not modelled; 9 the plan.

## 1. The system (inventory)

`server/` is a web server: one thread, one io_uring instance, and a C++20
coroutine per connection. `demo/` holds the programs it grew out of: an echo
server over the same ring (C), the same with coroutines (C++), an HTTP server
over plain liburing, and two versions of `cat`.

| component | state | operations |
|---|---|---|
| `server/io_uring.h` `io_uring_handler` | the ring; `connections`, a map from descriptor to coroutine; the 2048-byte buffers of one provided-buffer group | constructor (first provide, first accept), `event_loop`, `add_accept_request`, `add_read_request`, `add_write_request`, `add_buffer_request`, `add_close_request`, the file reads and writes |
| `server/task.h` `task` | the coroutine's promise: `request_info` (descriptor, buffer id, event type), `res`, `uring` | start suspended, resume, destroy |
| `server/stream.h` awaitables | what a suspended coroutine waits for | `read_socket`, `write_socket`, `shutdown_socket`, `read_fd`, `write_fd` |
| `server/server.h` | the listening socket; `handle_http_request`, the coroutine | set-up, `start` |
| `server/http_conn.h`, `utils.h` | a request and its answer, both in the one provided buffer | `parse_request`, `handle_request` |
| `demo/io_uring_echo_server.c` (`.cpp` is the same program) | the ring and the buffers; all it knows of a connection is in `user_data` | one event loop |
| `demo/io_uring_coroutine_echo_server.cpp` | the ring, the buffers, `connections` | one event loop, `handle_echo` |
| `demo/uring_server.c` | a heap block per request, with its iovecs | accept, read, write; each block freed by the completion |
| `demo/uring_cat.c`, `demo/liburing_cat.c` | the raw rings (head, tail, mask); a `file_info` per file, with an iovec per block | `submit_to_sq`, `read_from_cq`; `submit_read_request`, `get_completion_and_print` |
| the kernel | the rings, the buffer group, the descriptor table, the backlog | consume an SQE, complete an operation |

**How they interact.** The kernel and the program share the two rings. The
program fills in SQEs and calls `io_uring_submit_and_wait`; the kernel consumes
them in order there, and posts completions at any time and in any order. The
event loop reads each CQE, decodes its 64-bit `user_data` (descriptor, buffer id,
event type), looks the coroutine up by *descriptor*, stores the result in its
promise and resumes it; the coroutine runs to its next `co_await`, whose
`await_suspend` fills in the next SQE. A received message arrives in a buffer
that the kernel selects from the group when data arrives; the program answers
from that buffer and gives it back with a provide request.

**What is hard here.**

- A completion names its connection by descriptor, descriptors are reused at
  once, and the accept for the next user may be in flight when the old one is
  closed.
- A suspended coroutine has no way to run other than one CQE. None outstanding:
  it hangs for ever, and there is no timeout. Two: it is resumed at the wrong
  `co_await`.
- A buffer passes kernel, CQE, coroutine, kernel (send), coroutine, SQE, kernel.
  In two hands at once, two connections' bytes mix; in none, the group drains.
- A receive on an empty group ends the process; a NULL SQE is written to. Both
  are questions of sizes (descriptors, buffers, SQEs) *and* of the order in which
  requests are submitted.
- Any of the operations can fail, and not every result is looked at.

`PROJECT.json` lists each hazard at its line.

**What makes each component correct.**

| component | properties |
|---|---|
| event loop and coroutines | each completion resumes the coroutine that asked for it, at the suspension that waits for it; exactly one such operation per suspended coroutine; exactly one accept; map and descriptor table agree; every buffer in one hand; SQ and group never exhausted at the stated sizes; talking clients are served, waiting ones admitted |
| buffer lending | a buffer is lent to one connection, released by that connection, returned before it is lent again; every buffer comes back |
| echo server | a client gets its own messages back, in order; the same of buffers and SQ; ended connections are closed (they are not) |
| HTTP handling | a request is answered by its own method and path; the client gets the answer that was made for it, whole; what is sent has the length that is announced; when text and terminator stay within the buffer |
| coroutine echo server | it does what the callback version does; no frame is resumed after its end |
| ZeroHTTPd | each block is freed exactly once, after the kernel is done with it; a socket is closed when nothing is outstanding on it; each client gets its own answer |
| `cat` | each read is printed once, for what it returned, in order; no entry is taken twice or overwritten, while counters wrap, waits are interrupted and reads fail; the iovecs fit into their block; the program ends |

## 2. The modules

| module | lines of the code | role |
|---|---|---|
| `IoUring` | external | the kernel's side: actions on `sq`, `inflight`, `cq`, `group`, `open`, `backlog` |
| `UringServer` | `server/io_uring.h`, `stream.h`, `task.h`, `server.h` | the web server, composed with `IoUring` by `EXTENDS`; its properties |
| `BufferPool` | | abstract specification of buffer lending, implemented by `UringServer`, `EchoServer` and `EchoCoroutine` |
| `EchoServer` | `demo/io_uring_echo_server.c` | the echo server, composed with `IoUring`; its properties |
| `EchoCoroutine` | `demo/io_uring_coroutine_echo_server.cpp` | extends `EchoServer` by coroutines; shown to take its steps |
| `HttpConn` | `server/http_conn.h` | what `parse_request` and `handle_request` make of a text: operators only |
| `ServerMemory` | `server.h:71-84`, `http_conn.h`, the buffers of `io_uring.h` | the contents of the lent buffers: `HttpConn` composed with `BufferPool` |
| `ZeroHttpd` | `demo/uring_server.c` | the HTTP server over plain liburing: its heap blocks, sockets and answers |
| `CatRing` | `demo/uring_cat.c`, `demo/liburing_cat.c` | what both `cat`s share: the iovec arithmetic, the rings, the kernel |
| `UringCat`, `LiburingCat` | one each | the steps of the one and of the other |
| `Cats` | both `main`s | their composition and common properties |
| `RingInv`, `RingProofs` | | how many operations of a kind are outstanding, and lemmas about the ring for both servers' proofs |
| `UringServerInv` | | the inductive invariant of `UringServer`, in two parts: `CoreInv` and `BoundInv` |
| `UringServerProofs` | | `CoreInv`, what follows from it, and the refinement of `BufferPool` |
| `UringServerBounds` | | `BoundInv`: the SQ and the buffers suffice |
| `EchoServerInv`, `EchoServerProofs` | | the same for `EchoServer`: invariant, theorems, refinement, bounds |
| `EchoCoroutineInv`, `EchoCoroutineProofs` | | the frames and the map of the coroutines, on top of the former; the refinements of `EchoServer` and `BufferPool` |
| `CatsInv`, `CatsProofs` | | the invariant of `Cats` and its theorems; the arithmetic of the iovecs and of the counters |
| `ZeroHttpdInv`, `ZeroHttpdProofs` | | the invariant of `ZeroHttpd` and its theorems |
| `ServerMemoryInv`, `ServerMemoryProofs` | | the invariant of `ServerMemory` and its theorems |
| `MCUringServer`, `MCEchoServer`, `MCEchoCoroutine`, `MCServerMemory`, `MCZeroHttpd` | | instances for TLC: the symmetry sets |

The operators whose names have the form `Something_name`, defined before `name`
with the same parameters, are bug variants of `name`: what a plausible mistake in
that piece of code would make of it. Nothing refers to them. Putting one in the
place of `name` must make the property that `PROJECT.json` pairs it with fail.

## 3. How the models correspond to the code

**The kernel (`IoUring`).** The submission queue is a sequence, consumed from its
head only while the program is in `io_uring_submit_and_wait`. Operations in
flight and completions are *sets*: io_uring promises no order between
completions, and since the kernel decides when to post each, a set from which the
loop takes any element allows exactly the orders that can occur. A provide is
carried out when it is consumed. A receive takes its buffer when data arrives.
Its result is data, end of stream, an error, or `-ENOBUFS`; a send's is all of
the bytes or a part of them. `Faults` says which failures the environment of a run
makes. An SQE record carries the connection that issued it (`conn`), which no code
reads: it is what `Routing` compares the code's look-up with.

Assumptions about the kernel, each visible in the module:
- a receive that ends in "eof" or in an error has taken a buffer, as the echo
  demos assume (`demo/io_uring_echo_server.c:150-152` gives it back). On kernels
  that recycle it, the id in the flags is that of no selected buffer;
- CQ overflow, failing `io_uring_submit_and_wait`, and `-ENOBUFS` as a result of
  accept or send are not modelled;
- failed sends are: a send that fails is a "short" one, since no server looks at
  the result.

**The web server (`UringServer`).** One thread runs everything, and between two CQEs
the loop resumes at most one coroutine, which runs until it suspends. So the
handling of one CQE, everything the coroutine does included, is one action, and
the kernel's actions interleave between any two.

| code | model |
|---|---|
| `io_uring_submit_and_wait` | `Enter`, `KernelConsumes`, `Return` |
| a CQE with `-ENOBUFS` | `OutOfBuffers` |
| `PROV_BUF` branch | `HandleProvBuf` |
| `ACCEPT` branch, `handle_event(...)`, the first run up to `read_socket` | `HandleAccept`, `HandleFailedAccept` |
| `READ` branch, `handle_request`, up to `write_socket` | `HandleRead`; `RequestKills` when the process does not survive it |
| `WRITE` branch, `await_resume`, `shutdown_socket`, `final_suspend` | `HandleWrite` |
| `std::map connections`, `emplace`, `at` | `connections`; a taken entry or a missing or wrong one is `proc = "derailed"` |
| the coroutine's suspension point | `co` |
| `promise.request_info` | `promise` |
| `io_uring_get_sqe` returning NULL | `Room` fails: `proc = "nosqe"` |

`handle_http_request` does not look at the result of the read. After an end of
stream the text is empty and `strtolower` is given the NULL of `strtok_r`: the
process ends. After an error the terminator is written before the buffer and the
text is whatever was in it, so the outcome is a choice: an answer is sent or the
process ends. The fault "text" makes that a choice for every request: one without
a method or a path, or one that names a file that cannot be opened
(`fatal_error`), ends the process too.

**The echo server (`EchoServer`)** has the same kernel and loop, and no
coroutines. Messages are numbered per client; `bufs` is what each buffer holds and
is read by the kernel when it *sends*, so a buffer that is reused too early shows
in what a client gets back.

**The coroutine echo server (`EchoCoroutine`)** is the same `main` with three branches
changed, and extends `EchoServer` accordingly: `CoAccept`, `CoRead` and `CoWrite`
replace `HandleAccept`, `HandleRead` and `HandleWrite`, everything else is taken
over. `echo_add_buffer` resumes the coroutine from within its own `await_suspend`,
so what follows it, up to the next real suspension or the end of the frame, is
part of the same action. `size_r` is unsigned, so `StreamEnded` is true of the end
of the stream only: after an error the coroutine writes. What it writes then does
not reach a client that reset the connection: it receives nothing more (`Broken`), and
the send completes with an error, which the coroutine does not look at (`SendFails`).

**The bytes of the web server (`HttpConn`, `ServerMemory`).** The buffers are one array
of cells, as in `setup_first_buffer`; a cell is tagged with where it comes from (a
client's request, a client's headers, a file, a fixed text, a terminator). A write
past the end of a buffer lands in the next one, and past the last one in memory that
is not modelled; `strayed` remembers either, and a path copied past the end of
`final_path`, after which the process is killed or goes on. Handling a request is two steps here,
up to `stat` and from `open` on, because a file may change between the two: each
finds any state of the file. Meanwhile the kernel receives into and sends from the
neighbouring buffers. Buffers are lent by the actions of `BufferPool`, which
`UringServer` implements: that is how the two models of the web server meet.

**ZeroHTTPd (`ZeroHttpd`).** A request is a heap block and owns the blocks of its
iovecs; its address is the `user_data`. `HandleAccept`, `HandleRead` and `HandleWrite`
are the branches of `server_loop`, everything they call included; `HandleEmptyRead`,
`AsyncRequestFailed` and `HandleBadRead` are the ways out of them. `Fresh` hands out the
lowest free blocks, so that what is freed is in use again as early as possible; a
freed block keeps its event type and socket, and loses its text and iovecs, so that
whoever uses it after that is seen to. Each kind of request stands for a path through
`handle_client_request`: a file whose extension is listed or not, no such file (or a
directory), another method, no path (`strtok_r`'s NULL is dereferenced), no line end
(`exit`). The answer for an extension that is not listed begins with whatever the
stack held (`replies`). The module has its own kernel, since the code has neither
provided buffers nor more than one SQE waiting in the ring.

**The two `cat`s (`CatRing`, `UringCat`, `LiburingCat`, `Cats`).** The rings are modelled
to the bit: `head` and `tail` are counters modulo `COUNTERS` that are masked on use, the
SQ has an index array, and `read_from_cq` works on a copy of `head` which it publishes
when it is done, one turn of its loop being one step, with the kernel posting between
any two. Since neither program asks for a polling thread, the kernel takes SQEs in
`io_uring_enter` only, and the order of the stores before it cannot be seen; so
`submit_to_sq` up to the call is one action. `blocks` is `(int) file_sz / BLOCK_SZ` as C
computes it, cast first; `filled` is how many iovecs the loop writes. A size that is no
`int` makes them differ. What the two do with a failed read differs, and is the point of
putting them side by side: `uring_cat` reports it and prints the unread blocks,
`liburing_cat` returns before `io_uring_cqe_seen` and its `main` does not look.
Assumed of the kernel: a wait that is interrupted after the SQE was taken returns the
number taken; `readv` takes at most `IOV_MAX` iovecs; completions for which the CQ has no
room are kept and come first at the next wait, and until then a submission may fail.

**Buffer lending (`BufferPool`).** A buffer is in the pool or has an owner; `Lend`
gives it to a connection, `Release` ends its use by that connection, `Return` puts
it back. The refinement mapping takes a buffer's owner from the completed
read, coroutine or operation that holds it, and `released` from the provide
requests. A buffer that no one holds is mapped to an owner that the abstract
specification does not have.

## 4. The runs

| run | instance | shows |
|---|---|---|
| `server_safety` | 4 connections, 3 descriptors, 3 buffers, 5 SQEs, all faults, symmetry | type, `IInv`, the seven safety properties of the web server, and `PoolDiscipline`: it implements `BufferPool`. Failed provides take buffers away, so there is contention for what is left |
| `server_live` | 3 clients of which one silent, 2, 2; accepts fail | `Served`, `Admitted`, `PoolNeverDrains` |
| `server_enobufs` | 3, 3, 2, no fault | expected to fail: "this should not happen" does |
| `server_memory` | 2 connections, 2 buffers of 4 cells, headers of 2; requests of 2 to 4 cells, `final_path` of 2, files of 0, 1, 2, 4 and 5 | type, `StraysOnlyWhen`, `KilledOnlyWhen`, `AnswerIntact`, `AnsweredAsAsked`, `LengthAnnounced` |
| `echo_safety` | 3 connections of 2 messages, 2, 2, 5 SQEs, all faults, symmetry | type, `EchoesInOrder`, `SqNeverFull`, `NoBufferExhaustion`, `PoolDiscipline` |
| `coroutine_safety` | 2 connections of 2 messages, 2, 2, all faults but short sends, symmetry | type, `FramesAlive`, `PoolDiscipline`, and `SameAsCallbacks`: every step is one of `EchoServer`, except after a failed read |
| `zero_httpd` | 3 requests, 2 descriptors, 9 blocks, all faults | type, `NothingDangles`, `NothingElseLeaks`, `SocketsAccounted`, `OwnAnswer`; `Answered`, or the client hung up, or the process ended |
| `cat` | either program, 4 files of 4 sizes or none, SQ of 1, CQ of 2, counters of 2 bits, all faults | type, `EachReadPrintedOnce`, `AllPrintedInOrder`, `IovecsFit`, `Ends` |
| `cat_skips` | `liburing_cat`, 2 files, no fault | expected to fail: what was read is never printed |
| `echo_live` | 2, 2, 2; accepts fail, clients hang up | `AllEchoed` |
| `echo_short` | 2, 2, 2, short sends | expected to fail: a write that "has been completed" has not |
| `echo_unclosed` | 2, 2, 2, hang-ups | expected to fail: a connection that ended is not closed |

**Bounds.** A connection is made once (`Client` is finite), and there are more
connections than descriptors, so each descriptor is reused with the next accept
already in flight: the case `Routing` is about. Two connections contending for one
buffer are enough for a buffer in two hands, and the abstract pool treats buffers
one by one. Two messages per connection make the echo server use a second buffer
for the same connection. The `ENTRIES` of the safety runs are the smallest
sufficient ones, and this is what the runs show about the ring: the web server
needs one SQE per descriptor and two more (with one more only, it writes to NULL),
since a connection leaves at most one SQE per pass and is accepted, answered and
closed in different ones; the echo server needs two per descriptor and one,
because a completed write fills in two at once. The code's ring has 2048 entries
and, at Linux's default limit of 1024 descriptors, room enough for the web server;
raising the limit takes that away, and for the echo server 1024 is already the
edge. In the same way `NoBufferExhaustion` ties the number of descriptors to the
number of buffers.

In `server_memory` the sizes stand on either side of each boundary: with headers of 2
cells in a buffer of 4, a file of 1 just fits with its terminator, one of 2 does
not, 4 is the length of the read, 5 is cut; a request of 3 leaves room for the
terminator, one of 4 does not; a request of 3 or 4 may hold a path that does not fit
into `final_path`. Two connections are the neighbours, or the former
and the present user of a buffer. What `server_memory` shows is in two parts: as long
as no write has left its buffer, each client gets its own answer, whole
(`AnswerIntact`, `AnsweredAsAsked`), and only the requests and files `KilledOnlyWhen`
lists end the process; and a write leaves it only after one of four causes
(`StraysOnlyWhen`): a read that filled the buffer, a failed read, a file that does not
fit behind the headers, and a path that does not fit into `final_path`. All four are
possible in the code.

In `zero_httpd` two iovecs stand for the six of an answer; nine blocks are what two
sockets and the accept can need at once, handlers included. If they were too few,
`Answered` would fail, because no handler could go on. Three connections over two
descriptors reuse both, and an empty read leaves one descriptor fewer for good: when
none is left, the accept fails and with it the process.

In `cat` the fourth file takes every counter round to 0 again. With blocks of 2 bytes and
`int`s of 4 bits, the sizes are one and a half blocks, more blocks than `readv` takes, a
size that is negative as an `int` and one that is 0 as an `int`; a fifth kind of file is not
regular. Two entries in the CQ are as many as the programs get for `QUEUE_DEPTH` 1: after
two failed reads `liburing_cat` overflows it.

The symmetric runs also check `PoolDiscipline` and `SameAsCallbacks`. These are of the form
`Init /\ [][Next]_v` without fairness, and treat clients, descriptors and
buffers alike, so that symmetry is sound for them.

Deadlock is not checked: the process may end, and once every client has been
served the accept waits for ever.

## 5. Fairness

`WF` on the steps of the loop: the thread is scheduled and no handler blocks in
the model. `WF` per connection on handling its completion: the CQ ring is first
in, first out, so each CQE is reached. `WF` on the kernel's consumption and on a
send's completion. `SF` on a connection's being accepted: accepts may fail again
and again, and each failure disables the step until the next accept is
submitted, but not every accept fails for ever (in `ZeroHttpd` the first failure ends
the process, and `WF` is enough; in the `cat`s `WF` on the program's steps, on the
kernel's, and on each read of a file: interrupts and failing calls are never required
to happen). A receive is fair only for
`Talkers`: the code has no timeout, so a silent client may keep its
descriptor for ever. `Admitted` therefore asks for a descriptor that the
silent ones leave free.

## 6. What is proved

For every value of the constants, under the named assumptions of the modules:
`RingAssumption` (`None` is not a member of the sets, `Faults` are known ones,
descriptors and buffers are finitely many), `ServerAssumption`, `EchoAssumption`,
`ZeroAssumption` and `CatAssumption` (sizes are natural numbers; the width of a
counter is a multiple of the size of its ring and larger, as powers of two are),
`HttpAssumption` and `MemoryAssumption` (the headers and the fixed texts fit into a
buffer with their terminator, the 404 text is shorter than the 400 text).

| module | theorems |
|---|---|
| `UringServerProofs` | `CoreInvariance`, `TypeCorrect`, `RoutingHolds`, `OneWakeupHolds`, `AcceptArmedHolds`, `DescriptorAgreementHolds`, `BufferConservationHolds`, `PoolDisciplineHolds` |
| `UringServerBounds` | `Invariance`, `SqNeverFullHolds`, `NoBufferExhaustionHolds` |
| `EchoServerProofs` | `CoreInvariance`, `TypeCorrect`, `EchoesInOrderHolds`, `PoolDisciplineHolds`, `SqNeverFullHolds`, `Invariance`, `NoBufferExhaustionHolds` |
| `EchoCoroutineProofs` | `CoInvariance`, `CoroutineTypeCorrect`, `FramesAliveHolds`, `SameAsCallbacksHolds`, `CoPoolDisciplineHolds`, `CoSqNeverFullHolds`, `CoNoBufferExhaustionHolds` |
| `ServerMemoryProofs` | `Invariance`, `TypeCorrect`, `StraysOnlyWhenHolds`, `KilledOnlyWhenHolds`, `AnswerIntactHolds`, `AnsweredAsAskedHolds`, `LengthAnnouncedHolds` |
| `ZeroHttpdProofs` | `Invariance`, `TypeCorrect`, `NothingDanglesHolds`, `NothingElseLeaksHolds`, `SocketsAccountedHolds`, `OwnAnswerHolds` |
| `CatsProofs` | `Invariance`, `TypeCorrect`, `EachReadIsPrintedOnce`, `AllArePrintedInOrder`, `IovecsAlwaysFit` |

Each component has its inductive invariant `IInv` in a module of its own, an
`InitIInv` and a `NextIInv` with one lemma per action, and theorems that follow.
TLC has checked each `IInv` before it was proved: the web server's is a property of
`server_safety`, the others (`CoInv` for the coroutine echo server) were checked on the
instances of `echo_safety`, `coroutine_safety`, `server_memory`, `cat` and `zero_httpd`.

**The web server.** No one of the properties is inductive. That a completion finds
its coroutine (`RouteInv`) needs that the coroutine has no second operation
(`WakeupInv`), else the first completion would move it on and leave the second
behind; that a new connection's `emplace` succeeds needs that a descriptor an accept
has returned has no entry in the map (`DescriptorInv`), which holds because
`add_close_request` removes the entry in the same step in which it closes the
descriptor; that the accept's descriptor stays so needs that there is one accept
(`AcceptInv`); that a coroutine that writes has a buffer no one else has
(`BufferInv`) needs `CoroutineInv`. Their conjunction `CoreInv` is inductive. It counts
without counting: "exactly one" is written as some and at most one over the three
places (SQ, in flight, CQ), so that each movement of the ring has a lemma of its own
in `RingProofs` (`ConsumeCounts`, `ProvideCounts`, `CompleteCounts`, `HandledCounts`)
that all actions of both servers share.

`PoolDisciplineHolds` maps each step to a step or a stutter of `BufferPool`: a receive
that selects a buffer lends it (`HandsLend`), a handler that fills in the provide
request releases it (`HandsRelease`), the kernel's consuming it returns it
(`HandsReturn`), and everything else leaves each buffer with its owner (`OwnerStays`).

**The web server's bounds** need more than `CoreInv`, and this is where the order in
which the code submits its requests comes in (`BoundInv`). `ProvideInv`: while a
provide request waits in the SQ, nothing is outstanding on the descriptor it was
answered on, except the first read of that descriptor's next user, which stands behind
it. The kernel consumes in order, so whoever reads has no buffer that is still on its
way back; a read that starves would mean that every buffer is with another
descriptor, one each (`OneBufferEach`), and there are too few of those: hence
`NoBufferExhaustion`, by an injection from buffers to descriptors. A descriptor can
have two SQEs at once, but only one descriptor can before the loop submits
(`ReuseInv`): its provide, and the read of its next user, whose accept was in
flight. So the SQ holds one SQE per descriptor, one more, and the accept:
`SqNeverFull`.

**The echo server** has no coroutine state, so its `CoreInv` says of each outstanding
operation what it means: its descriptor is the open one of its connection (`ShapeInv`),
it is the only transfer of that connection (`WakeupInv`), a buffer is in one hand
(`BufferInv`), and the message in that buffer is the last one received from the
connection and the next to be echoed, or none is left to be echoed (`EchoInv`). Since a
completed write fills in the provide and the next read together, in this order,
`ProvideInv` holds here too, and the bound is two SQEs per descriptor and the accept.
`LendInv` is this invariant without `EchoInv`: what does not depend on the contents of
the buffers, and so holds of the coroutine server as well, whose failed reads put
nothing into the buffers that it echoes.

**The coroutine echo server** shares the ring, the kernel and the loop with the echo
server, so `LendInv` and the lemmas about it are cited, not proved again: of a handler
they ask only which SQEs it fills in. `FrameInv` adds that a coroutine waits exactly while
its connection has a transfer outstanding (`WaitingInv`), that the map has an entry for
each coroutine that waits, under its own descriptor, and for no other (`MapInv`), and
that a promise holds the descriptor and buffer its operation was given (`FramesAlive`,
`PayloadInv`). It needs `WakeupInv`: were there a second transfer, the first would move
the coroutine on, or free its frame, and leave the second behind. A handler is first
brought to one of five shapes (`Starts`, `Echoes`, `Finishes`, `ReadsOn`, `GivesUp`:
`CoAcceptIs`, `CoReadIs`, `CoWriteIs`), from which everything else is proved.

`SameAsCallbacksHolds` maps each step to one of `EchoServer` under `Plain`, which forgets
the fields of the `user_data` that no handler reads. That needs the invariant too: the
rings are sets of operations, and a step of the one is a step of the other only because
`Plain` still tells the outstanding operations apart (`PlainApart`), a connection having
one transfer at a time and one descriptor. The steps that are not the callbacks' are
those of a connection whose last read failed (`GetsOverError`); these lend and return
buffers by the rules as well (`CoPoolDisciplineHolds`), and need no more SQEs or buffers
(`SameOrGoesOn`), so both bounds of the callback server carry over.

**The buffers' contents.** As long as nothing has strayed, a buffer whose request was
received and not yet looked at begins with that request, and one whose answer is to be
sent begins with the whole answer (`ContentsInv`). A step writes into one buffer, and
a write that stays inside leaves the others alone: buffers that differ do not overlap,
whatever their number and size (`Behind`, `WrittenElsewhere`, `OthersContents`). What
is written is spelled out cell by cell (`AnswerText`), and so is what is sent (`Sent`).
`PoolInv` ties the stages of a connection to the lending of its buffer: it holds exactly
one from its read to its write. `StraysOnlyWhen` is not inductive: the file that `stat`
has seen is replaced by the one that `open` finds, and with it a cause would go away, so
`StrayInv` blames the file only once it was read.

**ZeroHTTPd.** Each outstanding operation owns its request block and the blocks of
its iovecs, no two operations share one, and all are allocated (`NothingDangles`);
what stands in them fits the operation (`ShapeInv`); an operation has its socket to
itself (`SocketInv`); the buffer of a completed read holds what that socket's client
has sent, the iovecs of a write an answer to it (`TextInv`); and exactly two blocks per
empty read belong to no one (`LeakInv`). The steps fall into three shapes, with a
lemma each: an operation is done with and up to two new ones are started (`Handled`),
an operation moves from the kernel to the completion queue (`Moved`), and that with a
result (`Transferred`). `FreshBlocks` says that the lowest free blocks are free,
distinct and as many as were asked for (by rank among the free ones), `Freed` and
`HandledBlocks` that what a handler frees is what its operation owned.

**The `cat`s.** `Span(h, t)` is the set of counter values from `h` up to `t`, modulo
`COUNTERS`. Every file submitted is in exactly one place: an entry of the SQ, in flight,
an entry of the CQ from the program's head on, kept by the kernel for want of room, or
printed (`OncePlacedInv`, `SubmittedInv`); each movement has a lemma (`ConsumePlaces`,
`CompletePlaces`, `FlushPlaces`, `PrintPlaces`). That no entry is overwritten is
arithmetic: two counters less than a ring apart have different slots (`SlotsApart`),
also when they wrap, since the width is a multiple of the size. `OrderInv` adds that,
undisturbed, what is printed is an initial piece of the command line, and that
`liburing_cat` prints nothing more once it has come upon a failed read. `IovecsAlwaysFit`
rests on the quotient that the code rounds up by hand being the number of turns of its
loop (`RoundedUp`), on the cast's changing nothing when the size is an `int`
(`CastKeepsInt`), and on -1, the size of what is not a regular file, taking one iovec and
having one (`NotRegularFits`).

**Only model-checked.** Liveness: `Served`, `Admitted`, `PoolNeverDrains`, `AllEchoed`,
`Answered` and `Ends` assume fairness, and the prover has no rules for `WF` and `SF` or
for `ENABLED`, from which they would follow. Every safety property that a passing run
checks, refinements included, is a theorem.

## 7. Where the code and its own words disagree

- "bufs in automatic buffer selection empty, this should not happen..."
  (`server/io_uring.h:105`): it happens as soon as there are more connections than
  buffers, without any failure (`server_enobufs`).
- "write has been completed" (`demo/io_uring_echo_server.c:160`): the result of the
  send is not looked at (`echo_short`).
- `document/part1.md:25-27` closes a connection when its read has ended; the code
  calls `shutdown` only, and the descriptor is never free again (`echo_unclosed`).

- "Wait for a completion to be available, fetch the data from the readv operation and
  print it to the console." (`demo/liburing_cat.c:53-56`): after one file that cannot be
  read, a directory for instance, `get_completion_and_print` finds the CQE of that read
  again at every later file, which is read and never printed; the program ends with
  success (`cat_skips`).

Without a run of its own: a file of more than 1024 blocks has more iovecs than `readv`
takes, so that both `cat`s fail on files of more than 1 MiB, and `uring_cat` then prints
the unread blocks.

Two comments of `demo/uring_server.c` are wrong as they stand, without a run: "we only
implement GET and POST methods" (line 345) stands over code that compares with "get"
only, and line 195 speaks of `sendfile()` where the file is read into a buffer.

## 8. What is not modelled

- Of the two `cat`s: which of the set-up calls fails, opening and memory errors one by
  one (each ends the program before anything is submitted), and kernels with a polling
  thread, which neither asks for.
- Of ZeroHTTPd: the text of the headers, a path that is longer than `final_path` (what
  happens then depends on the layout of the stack), which bytes of a file are missing
  after a short read, short writes (the handler is the same).
- Of HTTP: the content type, lower-casing (a method is "get" or not).
- Of the coroutine echo server: the length of the write after a failed read (the
  error as an unsigned number), of which nothing arrives.
- `read_fd`, `write_fd`, `read_file_awaitable` and `write_file_awaitable`: nothing
  uses them.
- Set-up of sockets, argument parsing, `main.cpp`: straight-line code that exits on
  failure before anything is concurrent.
- The test client and the benchmark script: I/O against a running server.

## 9. The plan

Done so far: the models of the ring, the two echo servers, the web server, its
buffers' contents, ZeroHTTPd and the two `cat`s, with their runs; proofs of every safety
property the passing runs check, of the refinement of `BufferPool` by all three servers
on provided buffers, and of that of `EchoServer` by `EchoCoroutine`.

Left: `EchoesInOrder` of `EchoCoroutine` for connections that were never reset, from the
part of `EchoInv` about them; lemmas towards the liveness properties that need no
fairness (what an outstanding operation guarantees the loop to have next).
