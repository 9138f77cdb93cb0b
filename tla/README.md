# Verification of kpr

kpr is a small system of servers and clients for the L4Re microkernel
environment: a keyboard server, a console server that multiplexes the frame
buffer, a log server, a client of an external pong server, and backends of the
C library (malloc, signals, files, mounts, clocks) that these programs link.
This directory holds TLA+ models of its core, the TLC configurations that check
them on small instances, and proofs that TLAPS checks for every instance.

Paths below are relative to the repository; `pkg/...` is `src/pkg/...` here.

## The system

| component | source | state | operations |
|---|---|---|---|
| keyboard server | `pkg/rm_keyboard/server/src/keyboard.cc` | the list `currently_pressed` | interrupt thread `loop()`; server thread `dispatch()` |
| console server | `pkg/rm_consoleAlt1/server/src/consoleAlt1.cc`, `consoleCtrl.cc` | `consoles[]` (address, active flag), `id_ctrl`, `last_tab` | factory and console `dispatch()` on the main thread; `switch_loop()`; `refresh_loop()` |
| malloc backend | `pkg/libc_backends/lib/l4re_mem/mem_list.cc` | two circular lists of blocks | `malloc`, `free` |
| signal backend | `pkg/libc_backends/lib/sig/lib/sig.cc` | `alarm_timeout`, `current_itimerval`, `sigactions` | `alarm`, `setitimer`, `getitimer`, `signal`, `sigaction`; the handler thread |
| pong client | `pkg/rm_pong_client/pong_client.cc` | a position per paddle | a thread per paddle; the keyboard thread |
| log server | `pkg/rm_log/server/src/log.cc` | the screen, the next colour | `dispatch()`, `print_log()` |
| bitmap allocator | `pkg/libc_backends/lib/l4re_mem/mem_bitmap.cc` | `bitmap[]`, `start_addr`, headers in the region | `malloc`, `free` |
| file backend | `pkg/libc_backends/lib/l4re_file/file.cc`, `mmap.cc`, `mount.cc` | descriptors and working directory (in the Vfs), `_current_working_dir` | `open`, `dup`, `dup2`, `close`, `chdir`, `fchdir`, `getcwd`, `select`, and the calls that pass arguments on |
| mount backend | `pkg/libc_backends/lib/mount/mount.cc` | its place in the table | the constructor `libmount_init`, `parse_fstab` |
| clock backends | `pkg/libc_backends/lib/l4re/lib/clock_*.c`, `gettimeofday.c`, `time.c` | `__libc_l4_rt_clock_offset` | `clock_gettime`, `clock_settime` and what calls them |
| stubs, sleeps, math, configuration | `pkg/libc_backends/lib/*_noop` and others | none | not modelled |

How they interact. Clients call servers by synchronous IPC; the kernel queues
callers. The console server's switch thread and the pong client's keyboard
thread poll the keyboard server. Clients of the console server get a buffer
from its factory and draw into shared memory that its refresh thread copies.
Every program calls malloc; a program that uses signals has a second thread
that receives its exceptions and its timeouts. Before `main()` the mount
backend's constructor makes calls of the file backend, and the tree and the
descriptors it leaves are the program's.

What is hard here: no lock is taken anywhere. The keyboard's list is edited
while it is walked; a reply's length and contents come from two walks; the
console's two flags are set one after the other; positions and timer values
are read and written by several threads; the allocator's size arithmetic is
unsigned and rounds twice, to different units; the bitmap allocator's bit
numbers wrap; the clock and its offset have twice the width of a register; a
directory and its name are kept apart. `PROJECT.json` lists each hazard
at its line with the properties that look at it.

What makes each component correct:

- keyboard: between interrupts the list is the keys that are down; a reply names
  only keys that were in the list while it was made, and all that stayed in it;
  every call is answered.
- console: one console is active, one client owns each, memory that is not there
  is not copied, one press of TAB switches once, the screen follows.
- malloc: blocks are disjoint, aligned and large enough; the lists stay
  consistent; calls return.
- signals: an alarm rings, a periodic timer is not lost, the main thread is
  always answered.
- pong: every key counts, once, for its paddle; paddles come to rest on the field.
- log: the message is shown, all of it; scrolling loses nothing.
- bitmap allocator: blocks have room for what was asked, and stay apart.
- files: the name `getcwd()` gives leads to the directory;
  strings and descriptors have an owner.
- mounts: what is mounted is what the table says, and `main()` is reached.
- clocks: a time told is one between call and return; real time goes on from
  what it was set to.

## Modules

| module | models | note |
|---|---|---|
| `Keys` | `shared.h` | key codes and the protocol label, shared by servers and clients |
| `Keyboard` | keyboard server, with the PS/2 controller and clients as environment | |
| `KeyboardProofs` | theorems about `Keyboard` and `TabSwitch` | |
| `SwitchLoop` | `switch_loop()`: flags and `last_tab`, one access a step | a part, composed below |
| `TabSwitch` | `Keyboard` and `SwitchLoop` | the switch thread as a real client of the keyboard |
| `Console`, `ConsoleProofs` | `SwitchLoop` with the factory, the consoles and the refresh thread; theorems | keyboard replies are arbitrary |
| `Heap` | what malloc and free promise | abstract |
| `MemList`, `MemListProofs` | `mem_list.cc`; theorems | implements `Heap` |
| `Pong`, `PongProofs` | pong client, and theorems about it | the server is external, keyboard replies are arbitrary |
| `Sig`, `SigProofs` | signal backend with the main thread, clock and kernel around it; theorems | |
| `Log`, `LogProofs` | log server; theorems | graphics library external |
| `Bitmap` | `mem_bitmap.cc`, and clients that fill their blocks | |
| `Files` | `file.cc`, `mmap.cc`, `l4re_file/mount.cc` | the Vfs is external: `Lookup` |
| `Fstab`, `FstabProofs` | `mount/mount.cc`, over `Files`; then the program's own calls; theorems about both | implements `Files` |
| `Clock` | clock backends, several threads and the kernel's clock | |
| `ArithmeticProofs` | theorems about `Bitmap` and `Clock`, both about numbers of a fixed width | |

The `MC...` modules only fix constants. In every module, definitions whose name
adds a word to the one that follows (`ReleasedSwapped` before `Released`) are
faulty variants that no action uses. Each is a plausible mistake, and with it in
place of the original a property fails: that is how we know that the property
looks at the code.

### State and actions

`Keyboard`. `currently_pressed` is `lst` (nodes, in order), `val` (a node's
key) and `stale` (the next pointer that freed memory still holds). The list is
made of nodes because a reader's iterator is one: `dispatch()` may stand on a
node that is erased, and then follows the old pointer until the node is used
again. `irq` is the interrupt thread: `ReceiveIrq` reads a scan code; a push is
`ReceiveIrq` (take a node, store the key), `HookNode` (its next pointer) and
`LinkNode` (into the list), since a walk may already stand on a node that is
being used again. `EraseNext`/`EraseDone` is the erase loop: its iterator is `irq.node`, which
after an erase steps on by the pointer that the freed node still has.
`UniqueNext`/`UniqueDone` is `unique()`. `srv` is the server thread: `CountNext` and `CountDone` are
`size()`, `SendItem` reads a key and `NextItem` steps on. One `erase`, whose only
store a walk can see is that of the node before, is a step, as is one read of a
walk. The controller buffers `FifoSize` codes and drops more; key repeat
repeats the key pressed last.

`TabSwitch`. The switch thread's message registers are state (`words`): for a
word that a reply lacks the stream library gives 0 or what the register held,
and the model allows both. `Console` is one of the keyboard's clients; the
keyboard may have others.

`Console`. `main.pc` goes through `get_ds()` (allocation, address, flag,
reply), `sw` through the tests and stores of a switch, `refresh` through a
`memcpy` that copies chunks in any order. A missing keyboard, a failed call or a
failed allocation ends the server (`alive`). Anyone may create consoles, any number
of times: an id that `consoles[]` does not have makes `get_ds()` write behind it
(`overrun`), after which nothing is claimed but that ids differ. The model starts
when the main thread enters its loop. `sleep(5)` at the start of the two loops is `EarlyConsoles`:
how many consoles exist when they wake up. The history variable `early` is set
by a switch that begins before both do, and the properties say which failures
only that can cause.

`MemList`. Addresses count words of four bytes; headers take three, payloads
lie on even words. One round of a loop or one helper is a step. Arithmetic on
sizes is modulo `UMax` bytes. A pointer that leaves attached memory ends the
task (`fault`), also the one that `free(NULL)` makes (`FreeNull`). The code makes no
provision for three things, and the history variable `flaws` records them: a
call that begins while another thread is in one (`unlocked`: nothing serialises
them), a split whose remainder does not begin where the block ends (`moved`), and a
request for more than a region holds (`large`; its arithmetic comes round). They
are steps of the model like any other, and every thread and size may take them.
What follows the first one is whatever the broken lists make of it, so all
properties but `TypeOK` and `NoOverlap` are promises while `flaws` is empty
(`Sound`).

`Pong`. `up()` and `down()` are a load and a store; `run()` sends the position,
then tests and clamps it, each access a step. `net` counts the keys of a paddle
since its start, `exact` says that nothing else has moved it.

`Sig`. `hnd` is the handler thread's loop: `Timeout` computes the next receive
timeout, `DispatchPing` and `HandleException` are messages, `Expire`, `Trigger`,
`ReloadLoad`, `ReloadStore` are the timeout path. `app` is the main thread with
its stack of signal frames. `Enter` pushes one: `setup_sig_frame()` checks that it
has memory and else there is no reply (`NoReply`); the four words that it writes
below are not checked, so under the last frame that fits the handler thread may
fault itself (`hnd.pc = "fault"`). `Return` checks the frame it goes back to, and
may refuse as well. `setitimer()` stores two words in either order. The
kernel is external: a message that is there comes before a timeout, `ex_regs` on
a thread inside an IPC takes effect when the IPC is over, timeouts are exact.
Alarms up to 4294 seconds: beyond that the product in microseconds wraps.

`Log`. The message registers keep what earlier messages, and the server's own
`printf`, left behind the words just received. `fb` records for every line of
pixels which text, which part of it and which colour it shows.

`Bitmap`. A call is a step (one thread). `bitmap` is the set of pages whose bits
are set, `header` the words that blocks in use have before them, which a client
may write over once blocks overlap (`Overwrite`). `free()` computes
`start_addr - (iter - 1)`, the negative of the block's place, so the bits it
clears are numbered from just below 2^32 (`Bit`): outside `bitmap[]`, where the
store faults (`FreeFaults`) or hits something else, until the loop comes round to
bit 0. `wrapped` records that it has, or that a size came round to 0. If the
region lies above `bitmap[]`, `free()` refuses every address (`Refuse`).

`Files`. `fds`, `cwd` and `tree` are the Vfs's, moved by what the C functions
call; `name` is `_current_working_dir`. Strings are sequences of symbols, so that
`Joined` and `Stripped` do what the code does with slashes. `Lookup` is a
constant; what is assumed of it (`LookupAssumption`) is that a joined path leads
where its parts lead. `strings` counts the heap strings in use, `held` those that
`getcwd()` gave the program, `lost` those nobody has a pointer to. `drifted`
says that the tree was changed or `fchdir()` called since `chdir()` last had a
full path. `strdup` and `malloc` may fail, which `chdir()` does not look at: the
name is then null, or the task dies (`fault`). All calls that only pass
arguments to a file are `OnDescriptor` and `OnPath`. `Reshape` changes the tree, is
refused, or faults: those calls do not ask whether the directory was found.

`Fstab`. `phase` is the constructor's next call; a turn of `parse_fstab`'s loop
is a step (`ParseLine`), and a line is taken apart by the four searches of
`parse_fstab_line` (`Words`). A pointer is the number of characters before it.
`MountsAreEntries` compares the mounts with `Entries`, which says what a table
means without any search. Behind the constructor (`phase = "main"`) the program
makes the calls of `Files`.

`Clock`. A call is a record `th[t]` of the halves still to load or store and
what has been loaded; the order of the halves is free. `FromLong` is the
product in microseconds, computed in a `long`. `mixed` marks calls that another
came between; the properties claim nothing of those, nor of times set beyond
what a `long` holds, and everything of calls after them.

## Runs

| run | bounds | shows |
|---|---|---|
| `MCKeyboard` | 2 keys, 1 client, 4 nodes, 6 scan codes, a controller buffer of 1 | safety of list and replies |
| `MCTabSwitch` | TAB, 4 scan codes, 3 nodes | no spurious switch; calls answered; releases and held keys noticed |
| `MCTabSwitchTwo` | TAB and one more key | **fails**: `HeldTabSwitchesOnce` |
| `MCConsole` | 2 clients, 3 creations, 1 early console, 2 chunks, 2 switches, 1 frame each; up to the first write beyond `consoles[]` | safety and the screen's progress |
| `MCMemList` | 2 threads, sizes 0, 8, 20, 52 and 1022 bytes (1, 2, 5 words, more than a region, one that wraps), 2 regions of 12 words, 5 blocks; up to the first flaw | lists, tiling, pointers, refinement of `Heap`, calls return |
| `MCMemListEven` | 1 thread, sizes 8 and 28 bytes | **fails**: `NoOverlap` |
| `MCPong` | 3 keys, replies of 2, a field of 4 positions, speed 2 | keys add up; paddles settle |
| `MCSig` | 3 calls, 5 ticks, times 0 and 2, stack room for 2 frames | timers, alarms, answers |
| `MCLog` | 2 messages of up to 4 characters, a screen of 1.5 lines | text and scrolling |
| `MCBitmap` | 28 pages, 2^32 cut down to 256, sizes 0, 93 and 253, 2 blocks | blocks stay apart, marked and large enough until a number wraps |
| `MCFstab` | 2 descriptors, names of up to 5 symbols, tables of up to 3 arbitrary characters or 2 lines, 2 strings | mounts are the table's entries; the name is the directory's; strings and descriptors |
| `MCClock` | 2 threads, halves of 2 bits, seconds of 2 microseconds, clock 2 to 5, 3 calls | times told |

Why the bounds are enough to mean something. Six scan codes allow a key to be
listed twice with another between (press, press the other, lose the release,
press again) and then released; four nodes let a freed node be reused while a
reader stands on it. A controller buffer of 1 makes drops frequent. Two consoles
are all there are (`NUM_CONSOLES`), and a third creation is the first too many. The
allocator's sizes make every branch happen: a hole that fits exactly, one that is
split, one that is larger by less than a header, an extension, an exhausted
manager, an empty process list, and each of the three flaws. `MCMemList` and
`MCConsole` have a `CONSTRAINT` (`UntilFlawed`, `UntilOverrun`): a state with a
flaw is reached and checked, but not what follows it, of which the properties
say nothing. On the field of four positions a second
key leaves it on either side. Five ticks and three calls let an alarm, an
interval timer and a call overlap in every order. A screen of a line and a half
makes the scrolled areas overlap and the top line be cut. A block of 93 bytes
behind one of a page is the smallest case of a `free()` that comes round to bits
0 and 1; 253 is a size that is rounded up to 0. Tables of up to three characters
are complete, and the longer ones have one or two lines with each thing that
moves the parser's pointers: two blanks, a fourth word, a comment, blanks at
either end, no newline at the end. Names of five symbols allow two `chdir()` with relative
paths on top of a full one, one of them `a/..`. The clock's lower half runs over
at 4, half way through the run.

### What the failing runs show

Each states what a comment of the code says, and the code does otherwise.

- `HeldTabSwitchesOnce` (consoleCtrl.cc:130). `dispatch()` of the keyboard sends
  `size()` and walks again. A key pushed in between takes TAB's place in the
  reply; `last_tab` is cleared although TAB is held, and the next reply
  switches a second time.
- `NoOverlap` (mem_list.cc:59), with one thread. Sizes are aligned to 4 bytes and
  headers to 8. If a header moves when a block is split, the remainder keeps its
  size and reaches into the next block.

Other disagreements the models show, which have no run of their own since they
follow from a line whatever the order of steps:

- mem_list.cc:137, "split is possible": the test before it subtracts unsigned
  numbers, and for a request larger than a fresh region it succeeds; `split()` then
  writes a header behind the region.
- mem_list.cc:161: `free(NULL)` takes a header before address 0.
- consoleAlt1.cc:79: `id_ctrl` is not compared with `NUM_CONSOLES`; a third console
  is written behind `consoles[]`.
- sig.cc:296, "reload": the interval timer is reloaded for every timeout, also for
  an alarm's.
- log.cc:149, "render log msg to last line": the length that comes with a message
  is not read, and the end of a longer, earlier one appears behind it.
- file.cc:548: `fchdir()` moves the directory and returns -1; the name stays what
  it was (`drifted`).
- file.cc:335: `close()` returns `-EBADF` instead of -1 and errno.
- clock_settime.c:25: with a `long` of 32 bits no real time beyond 35 minutes
  after the epoch can be set.
- mem_bitmap.cc:110: `free()` gives back nothing but a part of the first block.

Seen on the way and harmless to the callers, so no run is given to it:
`unique()` (keyboard.cc:181, "remove all doubles") removes neighbours only, so a
key may be in the list twice; both go when it is released (`ListReflectsScans`).

## Fairness

All fairness is weak and on threads of the code: the kernel schedules every
runnable thread. `Keyboard` assumes it of the interrupt and the server thread,
not of the user or of clients. `TabSwitch` adds the switch thread, `Console` the
switch and refresh threads but not clients. `MemList` assumes that a thread
inside a call goes on, not that it makes calls. `Pong` assumes that threads go on
except where they wait for the pong server to exist; no key need be pressed.
`Fstab` assumes that the constructor goes on (`WF` on `libmount_init`): it runs on
the program's only thread before anything else does; `MainReached` needs no
fairness of the program. `Bitmap` and `Clock` state safety only.
`Sig` assumes the handler thread, time, and that the main thread continues inside
a library call; what the program does is its own business.

Known limits of the liveness statements: an alarm is forgotten when a message
ends the wait that was set for it (`cut`), also when a handler that has re-armed
it returns; an interval timer starts anew at each message; a TAB tapped between
two polls is not seen; nobody answers the main thread once the handler thread has
faulted itself below the last frame; calls of `malloc` are followed up to the first
flaw.

## Proofs

Assumptions are the named `ASSUME`s of the modules, which TLC evaluates in the
runs, and the premises a theorem states itself; those are named below with the
reason why the code needs them. The provers do no induction over data; where a
number of rounds or a reachable set is at stake, the argument is a least
counterexample (`LeastNumber`) or a statement about all closed sets.

### Keyboard and switch thread

`KeyboardProofs` proves for all sets of keys, clients and nodes and every buffer:

- `TypeCorrect`: the type invariant, with `StepOnNode` (a walk that has read a key
  stands on a node), without which following a pointer has no type, and
  `PushInv` (a push in progress has a node that is not in the list).
- `ListIsFaithful`: `[]ListReflectsScans`. The property speaks of the states
  between interrupts only; inductive is `ScansInv`: at all times the list's keys,
  with the one being pushed and less the one the erase loop is about to remove,
  are the keys down. The lemmas `RemoveAtElements`, `FillNode`, `PushFront` and
  `Erase` say what an edit does to the keys.
- `QuietListIsFaithful`: `[]FaithfulWhenQuiet`. It follows from `ScansInv` and
  `FifoInv`: for a key whose last code was not dropped, the last of its codes in
  the controller's buffer tells whether it is held, and if the buffer has none of
  them the codes read so far do. `CodeTables` says that the tables of make and
  break codes agree for every key there is.
- `RepliesNameSeenKeys`: `[]NoPhantomKey`. Inductive is `WalkInv`: the nodes seen
  in the list since the dispatch began (`window`) are closed under the pointers a
  walk may follow, live or stale, and their keys are among those seen. An erased
  node keeps its successor, which is in the window; a reused node gets the key
  being pushed, and then the first node of the list as its successor.
- `RepliesNameStayingKeys`: `[]NoMissedKey`, the converse: what stays in the list
  is found. `StayInv` says that a staying node is in the reply or reachable from
  where the walk stands, through stale pointers where it stands on an erased
  node. Reachable (`Reaches`) means to be in every set of nodes that has the
  walk's place and is closed under next pointers, so each edit is an argument
  about such sets and needs no induction along the list.
- `TabImplementsKeyboard`: `TabSpec => Spec` of `Keyboard`. The switch thread
  calls as a client may, so all of the above holds of the two together.
- `OneSwitchPerTap`: `[]TogglesMatchTaps`, if TAB is the only key (`OnlyTab`;
  `MCTabSwitchTwo` shows that it fails with a second one). Counting presses
  and switches is not inductive; `TapInv` counts besides what may still lead to a
  switch: a TAB in the list that no reply has told of or will tell of together
  with `last_tab` (`~ Spent`), one being linked, those in the controller's buffer
  (`Rises`) and the one that follows a dropped break code. Each has a press of
  its own. `loop()` moves a press along, and each step of the dispatch and
  of the switch thread keeps the sum. `CallInv` and `CodesInv` say that one call
  is under way, and that only TAB's codes are.

### Console

`ConsoleProofs` proves for any number of clients, creations and early consoles:

- `TypeCorrect`: types and `CreateInv` (an id is handed out once and in order, the
  ids below `id_ctrl` that `consoles[]` has are those with memory, and without an
  overrun there are at most two, or a third under way), and from it
  `ConsolesAreOwned`: `[]OwnConsole`.
- `ExactlyOneActive`: `[]OneActive`. `FlagInv` gives both flags for each place in
  `switch_loop()` by the parity of the switches begun. Before both consoles exist
  only `get_ds()` writes them, unless TAB was early; an id beyond the array changes
  neither.
- `HarmNeedsEarlyTab`: `[]HarmOnlyIfEarly`, with `CopyInv`, if `EarlyConsoles # 0`:
  without a console when the loops wake up, the refresh thread copies from
  nowhere with no TAB at all, as TLC shows.

The code never compares `id_ctrl` with `NUM_CONSOLES`. The start-up script makes two
creations, and then there is no overrun; neither the model nor the theorems use it.

### Allocators

`MemListProofs` proves, for any number of threads and every set of regions and of
sizes, with no premise but the named assumptions on the constants (`MemListAssumption`;
of its parts, that regions lie apart is the region manager's promise):

- `TypeCorrect`: `[]TypeOK`, always.
- `OnlyKnownPointers`, `ListsStayConsistent`, `MemoryStaysTiled`, `ImplementsHeap`:
  the safety properties of `MCMemList` and the refinement of `Heap`. They hold
  until the first flaw, because the code gives nothing after it: two calls at a
  time break the lists, a moved header makes blocks overlap (`MCMemListEven`),
  and a request beyond a region makes a header outside it. Whether a size moves
  a header depends on where its block lies, so the flaw is the split and not the
  size: an even number of words that fills a hole does no harm. `OnlyKnownPointers`
  leaves two pointers that do kill the task: the NULL that a caller frees, and
  `processes_head` of an empty list.
- All four come from one invariant `IInv`: until the first flaw at most one
  thread is in a call (`Alone`), and for it holds `Fine`, which is made of the
  following. `Laid`: headers that
  were ever written stay headers, on odd words, side by side, and fill the
  attached regions. `ListInv`: of these blocks, those in use and those in the
  hands of the thread are known by where it stands (`Procs`, `InHand`), the rest
  are holes; each list is a `Circle`, the one in use also `Ordered` by address.
  `ThreadInv` says what the thread's pointers are at each place.
- A `Circle` is defined without recursion: next and prev are inverse, and a
  subset that is not empty and closed under next is the whole set. The lemmas
  `BetweenCircle` and `WithoutCircle` are insertion and removal, and hold with
  one element, two, and at the head. The property follows the pointers in
  rounds, and a count of blocks (`FewBlocks`) shows that it has rounds enough.

`ArithmeticProofs` proves of the bitmap allocator, for every region, width of an
unsigned number and all sizes asked for:

- `BitmapTypeCorrect`: the type invariant.
- `BlocksApartUntilWrap`: `[]OverlapOnlyAfterWrap`. Inductive with `WholePages`
  (sizes are multiples of a page: the pages marked are exactly the size's, and a
  size smaller than what was asked has wrapped) and `NoneBeforeInit` (`init()`
  clears the bits before there are blocks). `ClearedBits` is the argument for
  `free()`: the bits it clears of the first block are that block's, those of any
  other lie beyond the region unless the count comes round to 0. `PagesOfBlock`
  shows that what a client may fill reaches no header but by overlap.

### Clocks

`ArithmeticProofs` proves for all threads, halves, times to set and clocks:

- `MonotonicTellsNow`: `MonotonicIsNow`, and `RealTimeIsAsSet`: `RealTimeAsSet`, two
  action properties, if `SecondsFit`: seconds have one word, and no time the
  program can be told needs more (the kernel has run for less than 136 years).
  Inductive is `ClockInv`. `OneTime`: while no carry came between, the halves
  loaded are those of one time the clock has shown during the call. `ApartInv`:
  calls that are not marked as mixed share no half of the offset with another,
  so (`OffsetOf`) the halves that a reader has are those of the offset, and the
  halves that a setter has stored are still there. `SetInv`: while no call sets
  the time, the offset is the time last set less the clock at some moment of that
  call, modulo 2^64, which the reader's addition takes back (`AddBack`).

### Signals, log, pong

- `SigProofs`: `TypeCorrect` with `ReplyInv` (a blocked main thread is owed a reply;
  a handler that returns has its frame). `TimerKeepsRunning`: `[]TimerSurvives`.
  `TimerInv` says that without a race only the timer's own exception comes between
  the two stores of `setitimer()`, that a reload stores what it has loaded, and
  that no frame of a signal holds a copy under way.
- `LogProofs`: `TypeCorrect`; `ScreenShowsHistory`: `[]ScreenIsHistory`, which is
  inductive with `ColourInv` (the next colour is the parity of the lines shown);
  what is to be shown is that the pixel lines which the copy moves, those which
  the fill overwrites and the cut line on top are exactly those which the
  property names, for every height of screen and font. `MessagesShownWhole`: `[]ShowsAllOfMessage`.
- `PongProofs`, for every speed, start, field and length of replies:
  `PongTypeCorrect` with `HasKey`. `PongKeysAddUp`: `[]KeysAddUp`, inductive with
  `LoadIsFresh`: what the key thread is about to store is the current position of
  a paddle that only keys have moved, plus one key's worth. `SwitchIsRight` says
  that the `switch` does what each key is for.

### Files and mounts

`FstabProofs` proves of `Files`, for every tree, set of paths and descriptors, and
every `Lookup` that meets `LookupAssumption`:

- `NameLeadsToCwd`: `[]NameIsCwd`. Inductive with `NameNotEmpty` (a name that is
  not null has a symbol: joining looks at its last one). `JoinedNotEmpty` and
  `StrippedRelative` are what joining and skipping slashes do to a path.
- `StringsHaveOwners`: `[]StringsAccounted`. A call that frees or takes a string
  changes the name or what is held or lost by as many (`FreedCount`).
- `FilesTypeCorrect`: the type invariant on which both rest.

and of the constructor, for every table:

- `FstabImplementsFiles`: `FstabSpec => Spec` of `Files`. Each step of the
  constructor is a call of the file backend or leaves its state alone. What is
  proved of `Files` therefore holds of programs that start with mounts:
  `NameLeadsToCwdInPrograms`.
- `ConstructorReturnsItsDescriptor`: `DescriptorReturned`, an action property, with
  `OnlyOurs`: until `main()` no descriptor but the constructor's is in use.
- `FstabTypeCorrect` and `TableIsMounted`: `[]FstabTypeOK` and `[]MountsAreEntries`,
  for texts of every length. `Reading` says that the parser stands where a line
  begins or the table ends and that the mounts so far are the entries before it
  (`MountedTo`, each at its rank). `LineSaysEntry` is the correctness of the four
  searches in a line: they find three words where there is an entry, and the
  words are those that `Entries` defines without a search (`WordAfter`).

### What only TLC checks

Liveness: that a release is seen, calls are answered or return, TAB is noticed,
a console comes to the screen, alarms ring, the main thread resumes, paddles
settle and `main()` is reached. The proof system does not reason about fairness and ENABLED. Every
safety invariant and action property of a passing run is proved, as is the
refinement of `Heap`.

## Not modelled

- `mem_vFail.cc`, an abandoned first version of `mem_list.cc`. (The build names
  `mem.cc`, a link that is not in the tree, so both `mem_list.cc` and
  `mem_bitmap.cc` are modelled.)
- `sig/sig.cc`, an older copy that is not built.
- Stubs and sleeps (no state), floating point, start-up scripts.
- What is behind the Vfs: the contents of files, which file a directory's own
  `rename` or `link` finds, descriptors' offsets and locks.
- Two threads in the file calls or in `mem_bitmap.cc`: nothing serialises them.
- What `mem_list.cc` does after a first flaw, but for its types: the model has the
  steps, no run or theorem claims anything of them.
- Logging, formatting, colours beyond "inverted or not", IPC errors other than
  those the code acts on.
- Which thread of the console server an allocation failure ends: it ends the task.

## Plan

1. Compositions: `Pong` with `Keyboard`, as `TabSwitch` does for the console.
2. Abstract specifications: the keyboard as a set of keys, which `Keyboard`
   implements when no dispatch overlaps an edit; the console server as one
   active console.
3. Proofs of what these add: that compositions implement their parts, as
   `TabImplementsKeyboard` does, and that the details implement the abstractions.
