# Verification of Ratchetron

Ratchetron is a module for the PlayStation 3's shell (VSH). It serves a binary protocol over TCP:
a client reads and writes a game's memory, and *subscribes* to addresses, to be notified over UDP
when their contents change or to keep them frozen at a value. This directory holds TLA+ models of
the parts of it where several threads, the network and the game meet, the TLC runs that check them,
and TLAPS proofs of what matters most.

Source paths are relative to the repository, which is `src/` here: `src/src/ratchetron.c` is the
repository's `src/ratchetron.c`.

## 1. The system

| component | state | operations | interacts with |
|---|---|---|---|
| **Subscription table** (`ratchetron.c:92-121, 157-240`) | `memory_sub_area`, a heap block of 72-byte containers linked by `fwd`; `memory_sub_size`; `reallocating` | `add_memory_sub`, `remove_memory_sub`, `remove_memory_sub_by_sock_fd`, `reallocate_memory_sub_area` | every connection thread writes it, every data-channel thread walks it; there is no lock |
| **Data channel** (`async_data_handle`, 242-396) | `tick`, a UDP socket, its `AsyncDataDesc`, each container's `last_value`, `tick_updated`, `sent_last_tick`; the global `ingame_status` | 120 times a second: announce the console's status, read the memory of every subscription of its connection, notify, patch or remind | walks the table; reads and patches the game; sends to the client with no acknowledgement |
| **Client connection** (`handleclient_ps3mapi`, 398-769) | socket, `async_desc`, `async_t_id`, a 64 KB buffer | one command after another; at the end it drops its subscriptions, closes the socket and clears `async_desc->open` | starts the data channel; calls the table; system calls on the game and on files |
| **Server** (`ps3mapi_thread`, 771-842; `main.c`; `socket.h`) | `list_s`, `working`, the table's first allocation | listen, accept, listen again; start and stop of the plug-in | creates one thread for each connection |
| **File commands** (132-155, 650-741) | open file descriptors, a chunk buffer | open, write, close, delete a directory and what is in it | TCP stream, file system |
| `vsnprintf` (`printf.c`) | none | formatting | logging only |
| `libc.c`, `include/vsh*.h`, `include/ps3mapi.h`, ... | none | imports of the console's libraries and system calls | all of the above |

What is hard here:

* **Threads without locks.** A container is written with `memcpy` while other threads follow its
  `fwd`, look at `free` or write it too. A removal writes back a whole copy.
* **Lifetimes.** Descriptors are used again, and a data channel outlives its connection by up to a
  pass. The heap block can be extended or moved under a walk.
* **Uninitialised memory.** `curr_value`, and a new container's ticks and last value.
* **The game.** It writes, ends and is replaced by another while the loop is at work.
* **UDP.** Notifications are lost, delayed and overtaken; reminders are the only remedy.
* **A byte stream.** Commands and payloads follow each other with no marks between them; `recv` may
  return less than it is asked for, and most of its results are not looked at.
* **Errors in the middle.** Threads, buffers, sockets and files that cannot be had, the network that
  goes down under the server, a transfer that breaks off, a directory that cannot be deleted.
* **Arithmetic on 32-bit ticks and counts.**

What makes each component correct: an id keeps naming the subscription it was given for; a
connection that has ended leaves nothing behind; no pass misses a subscription; no walk leaves the
table; every thread comes to an end; a watched value reaches the client in the end; reminders come
in time and never claim a change that is none; a frozen value is restored; structures and sockets
are freed by their last user, once; the server listens again; what is taken for a command is one; a
file is what was sent for it, in order.

`PROJECT.json` lists every hazard at its line with the properties about it, or why there is none.

## 2. Modules

| module | what it is |
|---|---|
| `SubRegistry` | abstract specification: what the table promises, with no table, pointers or threads |
| `SubRegistryProofs` | what any implementation of it promises a client |
| `MemorySubs` | the subscription table and all threads that use it |
| `MCMemorySubs` | symmetry for TLC |
| `MemorySubsProofs` | its inductive invariant, for every value of the constants |
| `SerialProofs` | what holds besides where clients come one after another |
| `RegistryProofs` | there the table is bounded and implements `SubRegistry` |
| `PollLoop` | the loop of one data channel, with the console, the game, the network and the client around it |
| `MCPollLoop` | the subscriptions TLC tries |
| `PollLoopProofs` | types, the timing of reminders and what they say, for every value of the constants |
| `Sessions` | the life of the module, the server, connections, data channels and what they allocate; checked directly |
| `SessionsProofs` | all its invariants, for any number of connections and channels |
| `RmdirRecursive` | what `rmdir_recursive` leaves of a tree, as functions |
| `RmdirProofs` | the closed form of these functions, on every tree |
| `CommandStream` | one connection's commands out of a TCP stream, with MEMSET, files and `RmdirRecursive` |
| `MCCommandStream` | the streams and trees TLC tries |
| `CommandStreamProofs` | the boundaries of commands, the chunks, the files, the deletions and the end of every loop, for every value of the constants |

### MemorySubs

A step is one access to a container that another thread can touch. A `memcpy` of a container is two
steps, head (`memory_sub`, `id`, `free`) and tail (`sock_fd`, ..., `fwd`), in the order of their
addresses, so that readers and other writers can come in between; the copy `remove_memory_sub`
reads is taken in one. A pointer is an index, and 0 stands for NULL, as no `fwd` points at
container 0.

* `Accept`, `SubMem`, `FreeSub`, `OpenAsync`, `Disconnect` are what a client makes a connection do.
  A client frees only ids that it was given. Descriptor 0, the `sock_fd` of a container nobody has
  written, is not given to a connection.
* `HasRoom`, `NoRoom`, `Hop`, `Claim`, `WriteHead`, `WriteTail` are `add_memory_sub`, and `GrowRead`,
  `GrowWrite`, `GrowFlag`, `GrowInPlace`, `Fix`, `Unflag` the reallocation. The test of
  `memory_sub_size` (188), its read and its write (190), the flag (159) and `realloc` (160) are steps
  of their own: two threads may pass the test together, one update may be lost, and a late one may
  make the block shorter than it was. `size` is the counter, `allocated` the block.
* `RemoveRead`, `RemoveHead`, `RemoveTail` are `remove_memory_sub`; `DropFree`, `DropMatch`,
  `DropOther`, `DropNext` are the loop at the end of a connection. `Sclose` and `ClearOpen` are two
  steps: from the first on the descriptor can be accepted again.
* `PassBegin`, `Skip`, `Pick`, `Copy`, `Send`, `Follow`, `PassEnd`, `WalkerStop` are a data channel.
  `Copy` takes `memory_sub` and reads the game (305-308), `Send` is what is done with it (310-383);
  the container may be freed and claimed again between them, and then the sample of the old address
  goes out under the id of the new subscription. No property speaks of that: nothing in the repository
  promises otherwise. A pass may be cut short at any container, because the game may have ended
  (`PassCut`; `PollLoop` has the details).
* `due` is history: what a pass has still to serve of what its client held when it began.
* `LeaveHeap`: a thread uses memory outside the block or through NULL, or the block is moved, or
  realloc fails. What follows is undefined, and the model stops there ("undefined"). Four actions get there
  (`ConnOut`, `WalkerOut`, `GrowElse`, `FixOut`); the properties say when they cannot.

`ImplementsRegistry` is the refinement: a container is an entry of the registry while it is live
and not half written. `Connect`, `Subscribe`, `GiveUp`, `Retire` and `Leave` are what a client can
tell. With two connections at a time it does not hold (see the findings), so it is stated of
`SerialSpec`: the same system where a client connects, on any descriptor, only when no connection
is open. The end of the one before may still be under way then: `open` is still to be cleared, and
its data channel may be in the middle of a pass.

### PollLoop

`Check`/`Ask`/`Set`/`Say`/`Gate`/`AskPid` are the top of the loop, in the order of the code, each with
the question it asks the console (`IS_INGAME` may change between any two). `ingame_status` is a
global that every channel's thread tests, sets and reads with no lock: `OtherSets` stands for all
other channels, any of which may set it, at any time, to what it asked for before.
`Scan` is the condition of the inner loop, `Read` is `ps3mapi_get_memory`, and one of `Patch`,
`Notify`, `Remind`, `Quiet` is the rest of the body. `PassEnd` counts the tick; out of the game
there is none. Which containers are served is `MemorySubs`' subject, so here the channel's own
subscriptions are numbered.

* A `u64` is a pair of digits: the bytes a short subscription (`size` < 8) reads, and the rest. In
  a short read the rest is an arbitrary value, as is everything after a read that failed: that is
  what an uninitialised `curr_value` may hold. Sizes of 0 are left out.
* `last_value`, `tick_updated`, `sent_last_tick` and `ingame_status` start with anything.
* `TickMod` stands for 2^32 and `RemindAfter` for 60.
* External, from how the code uses them: the console's mode, the game's process, its memory, and a
  network that keeps a set of datagrams, delivers any, loses any.
* History variables record what was sent last, how long it has been silent, what was notified, and
  what status was told since another channel last set it.

### Sessions

Every thread of the module has a program counter: `mpc` and `tpc` for `ratchetron_start`,
`ratchetron_stop` and the thread this starts, `spc` for `ps3mapi_thread`, `pc` for the connections,
`wpc` for the data channels. `heap` says of each `AsyncDataDesc` whether it is allocated and what
its `open` is; `desc` and `own` are the pointers to it. What is done with the descriptors between
their allocation and the end is in `MemorySubs` and `CommandStream`.

* `Listen` and `ListenDeaf` are `slisten`, whose `bind` and `listen` are not looked at: with a
  "deaf" socket the server never hears of anybody. `AcceptFails` is the way back to `relisten`.
* `SpawnFails`, `NoBuffer`, `OpenAsyncFails` and `ChannelNoSocket` are what cannot be had. Lost
  connections are bounded by `MaxLost`, and a connection is accepted only while there is a cell for
  it (`malloc` of the descriptor succeeds: the code does not look).
* `Disconnect`, `Sclose`, `ClearOpen` and `ChannelEnds` are the end, in the order of the code.
* `NetworkDown` and `NetworkUp` are external.

`working` is never written, so that the branches for `working = 0` are left out. It follows that
nothing ends a server that listens: `ratchetron_stop` then waits for ever, and `UnloadsUnused` says
that this is the only thing that keeps it safe.

### CommandStream and RmdirRecursive

The stream is a sequence of units: a header (a command with its fields and paths), then its payload.
The code cannot tell them apart; the model can, and stops ("astray") when the code takes a payload
for a command. Every `recv` may return less than it was asked for (`Pieces`): those of NOTIFY, SUB_MEM
and MEMSET, whose flags are 0, and that of WRITE_FILE, whose loop does not need its `MSG_WAITALL`.
`Torn` is a short `recv` of a field of fixed size, after which the model stops too. History variables
record why the boundary may be lost (`refused`, `short`) and how a MEMSET came (`pieces`).

* `Accepts`, `Refuse`, `Default`, `Query` stand for the commands that are received at once, by what
  they leave in the stream. SUB_MEM and FREEZE_MEM receive alike and are one.
* `MemsetBegin`, `MemsetRecv`, `MemsetError`, `MemsetDone` are MEMSET's loop, whose `recv` always asks
  for the full size at the start of the buffer; -1 is added to a `u32`. Where `recv` returns 0 the
  loop spins: `MemsetSpin`, a step that flips `turn` and changes nothing else.
* `WriteBegin`, `WriteFill`, `WriteChunk`, `WriteFails`, `WriteLost`, `WriteNoMemory`, `CloseFile` are
  WRITE_FILE; a step is one `recv` with the write it leads to. `meant` records what the client sends
  for the file.
* `RmdirRecursive` computes what is left of a tree some nodes of which cannot be deleted or are not
  reached; `DeleteDir` applies it to any tree. A `Tree` is finite, each way up it ends, and only
  directories have entries: a file system the walk of the code is made for. It need not have one root.

Assumed: sizes are below 2^31.

## 3. What TLC checks

| run | instance | shows |
|---|---|---|
| `subs_serial` | 2 descriptors used one after the other, again and again, 1 channel, 2 subscriptions, 3 containers | `HeldIsLive`, `LeavesNothing`, `TableBounded`, `MissesNothing`, `ImplementsRegistry`; liveness `Departs`, `Answered`, `WalkerEnds` |
| `subs_two` | 2 descriptors, 1 channel, a table of 1 container that grows once | `TypeOK`, `WellFormed`, `UndefinedOnlyWhenFull` |
| `poll` | 1 subscription of every condition, size and type, ticks modulo 3, reminder after 1 | `TypeOK`, `SilenceBounded`, `ReminderRepeats`, `ConditionsAsMeant` |
| `poll_live` | 1 notification or freeze, ticks modulo 2, reminder after 0, a lossy network of 1 datagram, other channels | `ClientLearns`, `FreezeRestores`, `StatusAnnounced` |
| `sessions` | 2 connections, 2 channels, 2 descriptors, 1 lost connection | `TypeOK`, `DescLives`, `SocketsAccounted`, `UnloadsUnused`; liveness `Reclaimed`, `ListensAgain` |
| `stream` | every pair of commands with sizes at their limits, files of up to two writes, chunks of 3, pieces of any size from every `recv`, streams that end anywhere, trees of four nodes: the root, the directory to delete, a node in it, and one anywhere | `TypeOK`, `StraysForCause`, `FileIsPrefix`, `ChunkBounded`, `MemoryIsSetIfWhole`, `DeletedAsTold`, `LoopsRunOut`; liveness `Ends` |
| `subs_lost`, `subs_reuse`, `poll_residue`, `poll_pid`, `stop`, `memset` | | refute what the repository says: see the findings |

Bounds. `MaxHeld` and `MaxSlots` bound the clients' subscriptions and the area; in `subs_serial` the
table can hold one more than the client asks for, so that a walk always finds its end, a second
subscription claims behind the first, and a freed container in front is claimed again. Two
descriptors let the next client come on the same and on another one; one channel is enough, because
a channel writes nothing that another reads. In `subs_two` there is no room for that: a table of one
container is full at once, so that it is extended, raced over and left, which is what the run is
about; the model stops when a thread leaves it or `MaxSlots` is reached, hence `CHECK_DEADLOCK
FALSE`. With one reallocation within `MaxSlots` an update of the size is lost, but not one that
makes the block shorter: that takes two reallocations and a late write, which only the proofs cover,
as they do every other size. In the `poll` runs two values for each digit are enough for a
comparison to go either way by the first or by the second; three ticks with a limit of one let an
uninitialised tick lie before, at or after the limit and let the tick wrap during a silence. One
subscription is enough: those of a channel share only `tick` and what cuts a pass short, and that
may happen before it is reached. `poll` has no network (`MaxNet` = 0), as its properties are about
what is sent. In `poll_live` one datagram in flight can be lost, or be delivered after later ones
were lost; two that overtake each other would need `MaxNet` = 2, and with `RemindAfter` = 0 every
pass sends. In `sessions` two of everything let a descriptor be used by two connections, freed under
another, and allocated again; one lost connection is enough to see that the count of sockets goes on
after it. In `stream` `MaxText`, `MaxValue`, `MaxSet`, `CHUNK` and `U32` stand for 2048, 8, 64 K, 64
K and 2^32: a text or a payload of MEMSET of two units comes in one piece or in two, a write of 2 *
`CHUNK` + 1 takes two full chunks and a rest, and MEMSET's count can wrap. The connection's thread
ends, hence `CHECK_DEADLOCK FALSE`.

Fairness. Each thread runs (weak fairness of its steps). A connection's thread has the higher
priority (0x400) and never waits for a data channel (0xA00), not even for one that spins on
`reallocating`; it blocks in `recv` between commands and after a finite call, and a channel sleeps
8 ms a pass, so that every channel gets its turn. No client has to send a command, no game has to
start or write. The network delivers some datagram about a subscription again and again if it is
given one again and again (strong fairness): without it no protocol over UDP could promise
anything. In `sessions` the threads of the server, of connections that do not wait for their client
and of channels run; nobody has to connect, to leave, to open a channel or to stop the module, and
the network need not come up: `ListensAgain` says what follows if it does and the port can be bound.
In `stream` what the client has sent arrives. In `poll_live` other channels
owe nothing: `StatusAnnounced` says what follows if they no longer set the status.

Operators marked *Mutant* are plausible faults of the definition after them. Put in its place, each
makes TLC refute a property of a run (`PROJECT.json` lists the pairs): the properties are not true by
construction.

### Findings

* `subs_lost`: two connections that subscribe at the same time find the same container
  (`ratchetron.c:202` tests, 203 claims). Both get the same id and one of them is never notified.
* `subs_reuse`: the descriptor is closed (764) before `open` is cleared (766), and `open` is tested
  once a pass: when the descriptor is accepted again, the old channel serves the new connection's
  subscriptions to the old client, against the comment at line 300.
* `poll_residue`: `curr_value` (306) is not initialised and all its eight bytes are compared, so
  that a subscription of fewer bytes is notified of changes that are none. `ConditionsAsMeant` says
  what remains true: full subscriptions, ANY and BELOW are exact, EQUAL can only miss, the others
  can only hit too often.
* `poll_pid`: `current_pid` (292) is only compared with 0, so that subscriptions of a game that has
  been replaced are still served, although their reads fail, against the comment at line 291.
* `stop`: the thread of `ratchetron_stop` (`main.c:34-44`) sleeps two seconds and is never joined.
  Where the server's thread has ended already (the core has another version, or the thread could
  not be created) the module is unloaded half a second later, under it, against the comment
  "Prevent unload too fast".
* `memset`: a MEMSET whose payload comes in two pieces (`ratchetron.c:502-504`) writes the second over
  the first, asks for more than is to come, and takes the next command with it. `MemoryIsSetIfWhole`
  says what remains true: in one piece it is right, in more it never is.

Behind these, worth knowing: with the right core `ratchetron_stop` never returns, as nothing ends the
server; "Ratchetron loaded and listening." is shown even where `slisten` failed; a MEMSET whose client
leaves in the middle spins for ever, and one whose connection is reset writes what was in the
buffer; a connection whose buffer cannot be allocated, or whose thread cannot be created, keeps its
socket, and one that never opens a data channel its `AsyncDataDesc`; a transfer that breaks leaves its
file open; the one-byte answers of `OPEN_ASYNC_DATA` and `FREE_SUB` pass a character where `send`
takes an address; a reminder of an ABOVE, BELOW, EQUAL or NOT_EQUAL subscription carries
the value just read, which need not satisfy the condition (`ReminderRepeats` is about CHANGED); the
datagram that tells the status is never repeated, and only the channel that sees a change first tells
its client of it; a subscription that is freed while it is served, and whose container is claimed at
once, sends one sample of the old address under the id of the new one; a `recv` of a few bytes that
comes short, with no `MSG_WAITALL`, costs the boundary of commands.

## 4. What is proved

For every value of the constants that satisfies the modules' assumptions:

* `MemorySubsProofs`: `TypeCorrect`, `TableIsWellFormed`, `MemorySafeUntilFull`, for any number of
  connections and channels. `WellFormed` is not inductive by itself: a writer between head and tail
  must be writing its own index at a place that is reached from container 0, and a remover's copy
  must still say where its container leads. `IndInv` adds what each thread knows at each label
  (`AddInv`, `RemoveInv`, `WalkerInv`), that held ids are in use, and that containers in use are
  inside the block. The argument is that `fwd` of a container, once set to the next, is only ever
  written with that same value: writers that race disagree about the owner, never about the links.
  `TypeCorrect` says of a reallocation by several threads what survives it: whatever updates of the
  size are lost, size and block stay between the first allocation and the bound, as a thread that
  grows them has read a size that was (`AddInv` at "growWrite"). That the block is as long as the size
  says is not true and not claimed.
* `SerialProofs`, about `SerialSpec`, for any number of descriptors and channels: `SerialHeldIsLive`
  and `SerialLeavesNothing`. Neither property is inductive. `SerialInvariant` says whose every live
  container is (`LiveAccounted`): at each label of the connection that is open, the ones it holds,
  the one it writes or removes, and, while its walk at the end is under way, those ahead of the walk;
  what each thread knows of the owner and of its copy is `SerialInv`. When a connection has closed
  there is nothing left to account for, which is what the next one starts from (`NoneOpen`). The
  proof has one lemma for the thread of the open connection (`ClientKeepsSerial`, from one per part
  of it), one for `Accept`, and one for all others, which write no container. `SerialMissesNothing`
  (`MissesNothing`) is proved from it by `PassInvariant`: a channel that a connection knows is its own
  and runs (`ChannelInv`), and what a pass still owes is held, so live and linked, and ahead of it.
* `RegistryProofs`, about the same specification: `SerialTableBounded`, by `BoundInvariant`:
  `add_memory_sub` passes only containers that its client holds, so that whoever claims one from
  behind the last holds all before it, and those are fewer than `MaxHeld`. Hence `SerialNeverFull`
  under `MaxHeld < InitSlots`: no reallocation, and no thread leaves the block. Under the same
  condition `SerialImplementsRegistry`, the refinement of `SubRegistry`, step by step: `WriteTail`
  is `Subscribe`, the write of `free` is `Retire`, `FreeSub` and `Disconnect` are `GiveUp`, `Sclose`
  is `Leave`, all others stutter; the second half of a removal rewrites what is there
  (`TailRewritten`). The condition is needed and it is the code's: with every container of the block
  in use a walk for the end of the table reads behind it. The 32 KB allocated at start (774) hold
  455 containers. What the registry promises (`SubRegistryProofs`) holds of the table through it.
* `SubRegistryProofs`: `HeldIdsAreOwned` and `HeldIdsKeepTheirMeaning`, for any number of clients at
  a time. The table breaks the first with two (`subs_lost`): the code, not the promise, needs
  clients to come one after another.
* `PollLoopProofs`: `PollTypeCorrect`; `ReminderComes` (`SilenceBounded` for any modulus larger than
  `RemindAfter + 1` and any uninitialised ticks), by `SilenceCounted`: the ticks elapsed since
  `sent_last_tick` count the silent passes, and since they stay below the modulus no wrap is missed;
  `RemindersRepeat`, by `NotificationKept`: the container of a CHANGED subscription keeps what its
  last notification said, whatever the stack held. `ConditionsKeepTheirMeaning`
  (`ConditionsAsMeant`), for digits of any size and whatever an uninitialised `curr_value` holds: two
  u64 are compared by their first digit unless it is the same (`FirstDigitDecides`), and the
  subscription's value has a rest of zeros.
* `SessionsProofs`: all four invariants of `Sessions` (`SessionsTypeCorrect`, `DescriptorsLive`,
  `SocketsCounted`, `UnloadIsSafe`). The argument about descriptors is that
  `open` hands them over: while a connection that has opened a channel uses one, it is "open" until its
  last step, and a channel frees only what is not open. Nothing else starts before the server does, and
  a server that has listened never ends, which is why the module is unloaded only unused.
* `CommandStreamProofs`: `StreamTypeCorrect`; `ReceivesInBounds` (`ChunkBounded`) and
  `FilesArePrefixes` (`FileIsPrefix`), for chunks, sizes, pieces and streams of any length, by
  `WriteInv` (at the top of the loop something is to come and there is room for it; `Pending` says that
  it is the rest of the payload) and `FileInv` (the file, then the chunk, then that rest make up what
  was meant, `PartOf`). `StaysInStep` (`StraysForCause`), with no assumption on pieces: as long
  as nothing was dropped and no `recv` but WRITE_FILE's was short, a header comes next between
  commands. `MemsetNeedsOnePiece` (`MemoryIsSetIfWhole`), by `MemsetInv`: nothing has been received
  yet, or the whole payload in one piece, or a first part of it that the rest is then written over, or
  more than one piece, after which the buffer starts with something else than the payload does.
  `OnlyMemsetSpins` (`LoopsRunOut`): a step shortens what is still to be received, or leaves fewer
  rounds to go (`RoundsLeft`), or is a `recv` of MEMSET that returned 0. So where that does not
  happen the thread takes finitely many steps, whatever the stream; `Ends` needs fairness besides, to
  say that it takes them. The rounds that are hard to see are MEMSET's on a
  connection that was reset (`ErrorCountsDown`): each -1 takes one from the `u32` until it is 0, and
  the next takes it past the size, which `MemsetFits` keeps below 2^32.
* `RmdirProofs`, and `DeletesWhatItTells` (`DeletedAsTold`) in `CommandStreamProofs`, for every tree.
  `Above` and `Left` are recursive functions over a tree, and no induction theorem can be applied to
  them here, so each is shown to be a closed form that the prover can reason about. First the closed
  form satisfies the recursion (`UpStep`; `KeptUnread`, `KeptFile`, `KeptDir`), so that a function that
  does exists. Then any function that does is the closed form: of the nodes where they differ one has
  its parent (`WayUp`), or all its entries (`WayDown`), outside of them, and there the recursion gives
  the same. `WayUp` is what makes a `Tree`; `WayDown` follows, as the nodes are finitely many: take one
  with the fewest below it. `KeptDir` is where the order of the walk matters: what keeps a directory
  is in exactly one of its entries (`BelowLinear`) unless it is the directory itself.
  `RmdirLeavesWhatStays` is the result.

The assumptions are in the modules: sentinels differ from real values, the first allocation and each
reallocation have room for a container, short values are followed by zeros (SUB_MEM and FREEZE_MEM
clear the structure first), the reminder's limit is below the modulus, a stream is made of commands
each followed by its payload, MEMSET's limit is at most half of 2^32, and a file system has finitely
many nodes that form trees (`NodesAssumption`, `Tree`).

Only model-checked: the liveness properties (`Departs`, `Answered`, `WalkerEnds`, `ClientLearns`,
`FreezeRestores`, `StatusAnnounced`, `Reclaimed`, `ListensAgain`, `Ends`), since the prover has no
rules for fairness here. Every other property of a passing run is a theorem.

`HeldIsLive`, `LeavesNothing` and `TableBounded` are not theorems of `Spec`: of two connections that
race for a container one overwrites the other's `sock_fd`, so that an id is lost, and what the loser
thinks it has is not accounted for. What holds for any number of connections at a time is what
`MemorySubsProofs` proves: the links, the ids and the memory.

## 5. Plan

1. `MemorySubs` and `SubRegistry` with proofs, the refinement among them: done.
2. `PollLoop` with proofs, with the other channels that share `ingame_status`: done.
3. `Sessions` with proofs: done.
4. `CommandStream` and `RmdirRecursive` with proofs: done.

## 6. Not modelled, and why

`libc.c`, the headers of imports and constants: no behaviour of their own. `printf.c` is a vendored
formatter that feeds log messages only. The commands that ask the console something and send the
answer (title, user, processes, MEMREAD) keep no state, and are one action, `Query`. What the
threads say to each other through `debug_enabled`, and the texts they show, are left out. Negative
and oversized lengths are outside the models' inputs.
