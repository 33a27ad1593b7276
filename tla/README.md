# A verification project for the dom6-arm loader

The loader runs the macOS AArch64 binary of a game on Linux and Windows for ARM. It maps the binary, fills the binary's
tables of imported functions with shims and host functions, and jumps to its entry point. This directory holds TLA+
models of the parts of the loader that keep state, TLC configurations that check them on small instances, and proofs
checked by TLAPS. Paths below are relative to the repository's `src/` and `tools/`.

## Inventory

Everything runs in one process. The game calls the loader through slots: the GOT of libc (`loader_install_got`), the SDL
jump table (`install_sdl_redirect`), the GL GOT (`install_gl_redirect`, `install_win_vbo`). The host calls it back
through threads, signals, hooks and `atexit`.

| Component | State | Operations | What is hard | What makes it correct |
|---|---|---|---|---|
| Software vertex buffers (`loader_win_vbo.c`, Windows) | `s_vbos`, two bindings, scan hint, live count and peak, eight slots, `s_real_arb_state`, retries | install, gen / bind / data / delete, promotion to the driver, pointer hooks | a hand-over in the middle of the game's life, a table at its limit, failing malloc, pointers kept by the driver | the game cannot tell it from GL buffers: names, stores and bindings are those of `ARB_vertex_buffer_object` |
| `SDL_Quit` watchdog (`loader_sdl_gl.c`, `loader_os_*.c`) | `watchdog_disarmed`, `watchdog_seconds`, one polling thread | arm, disarm, poll, fire | two threads without a lock, time, unsigned arithmetic, signals, repeated calls | never early, never after a disarm in time, always when SDL_Quit is wedged |
| Alt+Enter fix (`loader_altenter_win.c`) | hook, window, handle, `g_alt_down`, `g_enter_down` | init, window created, key event | order of key events, auto-repeat, focus, second windows, missed events | DXGI sees no Alt+Enter, the game sees one per press |
| Socket shims (`loader_shims.c`, two halves) | `errno`, the host's descriptors and their flags | socket, bind, listen, connect, accept, recv/send, fcntl, close | the end of a connect is told by errno numbers only; two descriptor spaces on Windows; paths that set no errno; addresses whose layout is guessed | the game knows the truth about its connections and descriptors, never waits unless it asked to, and addresses keep their meaning |
| Boot and redirects (`loader_main.c`, `loader_sdl_gl.c`) | the SDL jump table, traps, `host_ptr` of variadic wrappers, captured `real_*` functions | open, check, map, redirect, wrap, enter | a file replaced in between, a host that lacks functions, a trap table at its limit, traps too far from the loader, wrappers over wrappers | what runs fits the tables, and each call arrives |
| Plugin file hooks (`loader_shims.c`, POSIX) | `g_open_files`, the plugin's entry points | fopen, fclose with their hooks | threads in a table without lock, reuse of FILE addresses, a full table | the plugin is told the right file, rows come back |
| Thread start (`loader_shims.c`, Windows) | the malloc'd argument, the new thread | create, trampoline | the thread may finish before its creator returns; failures on the way | the argument is read and freed once |
| Shim counters (`loader_counters.c`) | atomic counters | count, dump from signal or exit | dumps that overlap with counting and each other | a total between the true ones |
| Crash handler (`loader_crash.c`, `loader_os_*.c`) | none of its own | handle, walk frames, print map | faults inside the handler, cycles of frames | it ends the process |
| Paths and files (`loader_shims.c`) | the urandom file | translate, open, mkdir, popen | prefix cases, buffers | one place per game file |
| Shapes (`loader_shims.c`) | a thread-local dirent | stat, dirent, timeval | widths, sharing of the dirent | the game reads its layout |
| Variadic wrappers, setjmp, stack probe (`loader_shims.c`, `build_loader.py`) | the registers, the game's stack and `jmp_buf` | re-marshal arguments, save and restore registers, touch pages | offsets that depend on a frame or on the host; words that overlap; a page left out | the k-th argument stays the k-th, a jump brings everything back, no probe faults |
| Stubs (ObjC, CoreFoundation, dispatch, sysctl) | `dispatch_once_f` predicates | constant answers | nothing: one thread calls them | run once |
| Memory mapping (`loader_os_*.c`) | the host's address space, `va_reservation_done` | reserve, map, protect | pages taken by the host in between; a granule larger than a segment's unit (Windows) | segments at their addresses |
| Generators (`tools/`) | none | parse the binary, emit tables | finding the jump table | tables that describe the binary |

Interactions that matter: `main` runs the components' installers in one order (`loader_main.c:245-252`), each reading
what the one before left in the slots. Boot wraps `SDL_Quit` in the watchdog and `SDL_CreateWindow` in the Alt+Enter
fix; on Windows it replaces `SDL_CreateThread` by the thread start; the vertex buffers capture the GL slots that
`install_gl_redirect` filled. A constructor reserves the addresses before `main` runs; what the host loads in between
decides whether the segments can be mapped.

## Modules

Each module has its state as variables named as in the code, an action per handler (or per access of shared memory where
threads share it without a lock), its environment as actions of their own, and its properties at the end. An `*MC`
module holds the values the configurations give to constants, a `*Proofs` module the theorems. Definitions whose
comment says "with a fault, for comparison" are used by no behaviour: each is a definition of the model with one
plausible bug, and shows that a property would notice it.

What is assumed of the surroundings is named. `WinVbo` has a set of `Rules` that the game respects; `AltEnter` and
`MacSockets` choose one of several sets of rules or hosts in the initial state, so that one run checks each property
under every set and the property says which it needs; `QuitWatchdog`, `PluginFiles` and `Boot` let the surroundings do
what they like and remember what they did (`disturbed`, `overlapped`, `updated`, `judged`, `missing`).

* **GLBuffers** is the abstract specification: the four functions of `ARB_vertex_buffer_object` as the game sees them,
  with names, stores and bindings.
* **WinVbo** models all of `loader_win_vbo.c`. `Install`, `GenCall` (with `try_promote_to_real_vbo`), `GenTake`,
  `GenExhausted`, `vbo_glBindBufferARB`, `vbo_glBufferDataARB`, `vbo_glDeleteBuffersARB`, `Pointer` and `IndexPointer`
  are the file's functions. Everything runs on the game's GL thread, so a function is one step, but the loop of
  `glGenBuffers` is a step for each name. `heap` makes malloc and free visible. `Host*` and `MakeCurrent` are the
  driver; `exported` is what `wglGetProcAddress` knows. The driver creates a name that is bound before it is generated.
  `attrib` is the pointer the driver keeps, and `src` the buffer the game set it for, until that buffer's store is
  replaced or deleted (`Outdates`).
* **QuitWatchdog**: `SDL_Quit` to `Disarm` are the steps of `watchdog_SDL_Quit` and `os_watchdog_arm`, one for each
  access of a shared variable; `LoopTest` to `Fire` those of `posix_watchdog`, and `win32_watchdog` is the same loop.
  `Tick` is a tenth of a second; a `nanosleep` ends after a tick, or before it by a signal. `disturbed` remembers what
  a deadline cannot stand: overlapping calls, with a watchdog past its last test (`firing`) or not, a timeout that
  wraps, a sleep cut short. What each thread writes to stderr
  is left out.
* **AltEnter**: `ll_kbd` is cut into the decisions it takes (`AltAfter`, `Swallows`, `Pushes`, `EnterAfter`), `Key` is
  a key event through it, `Keyboard` what a keyboard with two Alts and Enter can do, auto-repeat of the last key
  included. `owed`, `toggles` and `trapped` are bookkeeping of the properties. `CreateWindow` is
  `altenter_SDL_CreateWindow` with `altenter_fix_on_window`. `rules` is what player and game
  respect in a behaviour. A hook that Windows removes shows as `Missed` events.
* **Addresses** holds what passes through the arguments of a socket call: `mac_sa_to_linux` and its three companions,
  `mac_flags_to_linux` and back, the flags of messages. An address is its first two bytes, its length, the length of
  its path and one value for the rest, which a copy carries over whole, or cut (`Reads`, `Copied`, `PathBytes`).
* **MacSockets** models both halves of the socket shims on top of it; `setup` is the host: its platform, the failures
  that may happen on it and the numbers it gives to files. `Fail` and `FailSilently` are the two ways in which a shim
  reports a failure on Windows; on POSIX libc always sets errno, with Linux numbers. `HostConnect` is what the two
  network stacks answer to `connect`, `Concludes` what a game that knows only errno makes of it (the comment at
  `loader_shims.c:1060-1063` describes that game). `waits` is the descriptor a call blocks on, `wanted` the flags the
  game has asked for (on POSIX also the non-blocking `mac_listen` gives a listener for it), `passed` the last address
  and what the other side saw of it. `WsaCases` is the whole table of `mac_set_errno_from_wsa`. `setsockopt`, and of
  `fcntl` the lock commands and `F_DUPFD`, are left out.
* **Segments** models the memory functions of both hosts, a page for each 16 KB: the two reservations, `os_map_fixed`
  with what `VirtualAlloc` refuses, and the pages that the host takes at any time.
* **Boot** composes it with the sequence of `main`, from the constructor to the call of the entry point, with the file
  and what the host lacks as environment; `updated` is the stage at which the file was replaced, `Entry` the entry point
  a file names, which is all `check_binary` compares. `Reaches` says where a call through a slot ends up, `Lands` what
  becomes of the branch in a trap, whose page may be near the loader or far from it. `CallInternal` is the game's own
  SDL, which fills the whole table with itself when one of its defaults is called (`loader_main.c:267-271`).
* **PluginFiles**: each access of a row is a step of a thread. stdio (`opened`) may reuse the address of a closed FILE;
  `overlapped` remembers whether two threads have ever been in the functions at once. Paths are shorter than 512
  characters; of longer ones a row keeps the first 511.
* **ThreadStart**: `Allocate` to `Detach` are `mac_create_thread_impl`, `Take` to `Return` the trampoline.
* **VarArgs** follows one variadic call through a wrapper: `Push` and the bodies are the instructions of the shims of
  printf, scanf, open and fcntl on both hosts and of the wrappers `build_loader.py` writes for SDL. `HostRuns` and
  `VaArg` are the host. Memory is words around the game's stack pointer.
* **JumpBuf**: `win_setjmp` and `win_longjmp` word by word, among calls that save and restore registers.
* **StackProbe**: the loop of `mac_chkstk_nop`, each access a step, above a guard page that Windows moves. `Prologue` is
  a function's first store, below the frame of its caller; `Access` any other, anywhere in the frame.
* **Counters**: `SHIM_HIT` and the loop of the dump, a counter a step; a dump on demand is a signal handler on POSIX,
  which the one at exit waits for, and a thread on Windows.
* **Crash**: `Report` to `Exit` are `handle_crash` in the order of its lines; `Raise` is what the systems do with a
  fault, inside the handler too: POSIX runs it once for each signal (`SA_RESETHAND`), Windows every time. `frames` is
  any graph of frames, broken ones included.
* **Runtime** composes the last five. They share no state, so one moves while the others rest.

## Runs, what they show, and their bounds

Passing runs:

| Run | Question | Instance |
|---|---|---|
| `vbo_memory` | do memory, names, bindings, counts and slots hold together, with malloc failing at will and the hand-over at any moment? | 2 names, batches of 2, 3 blocks, so the table fills, the scan wraps and blocks are reused; five drivers: nothing, core, both families, and two mixes of which one never resolves; 1 retry, so the budget runs out |
| `vbo_buffers` | does the game see one consistent set of buffers across the hand-over (`GLBuffers` as a property)? | 3 names, the same drivers, a game that respects both rules |
| `watchdog_deadline` | is the deadline kept both ways; does a wedged call always end? | 2 calls, 0 to 3 seconds of 2 polls, arithmetic modulo 6, so 3 seconds wrap |
| `altenter_keys` | does auto-repeat toggle twice; is DXGI kept out; does each press toggle once; does the hook know the keys? | 3 keys, 2 windows, each of the 32 sets of rules |
| `sockets_hosts` | are errno, connections, descriptors and addresses what the game takes them for; is it made to wait? | 2 sockets, 1 file; addresses with length bytes 0, 16, 28 and 106, lengths 16, 17, 28 and 106, paths of 14, 15 and 104 characters, so each is cut by the one, the other, or neither; Linux with all failures, Windows without, with failures, and with numbers that sockets and files share |
| `boot_hosts` | right entry point, segments in place, calls arrive, wrappers stay? | 6 functions, every subset missing, 2 traps, no page for them, a near or a far one; the build, one that shares its entry point, another, or no Mach-O file; an update at any stage; the four rows of `segments.inc` scaled down in 20 pages, a granule of 4, three pages the host may take |
| `plugin_files` | is the plugin told the right file, do rows come back? | 2 threads, 2 rows, 3 streams, so the table overflows, addresses are reused and threads race for a row |
| `threads` | is the block owned, read and freed once; does it come back? | 2 creators, 2 threads, 2 blocks, so malloc and `pthread_create` fail |
| `runtime` | are variadic calls transparent, do jumps restore, do probes fault, are dumps consistent, does a crash end? | up to 7 arguments of both kinds on each shim and host, so registers run out; jumps over 3 functions; pages of 4 bytes, frames of up to 13, prologues of up to 2; 2 shims, 2 hits, 2 dumps on demand; 2 threads that crash on every graph of 2 frames, walks of 4 through handlers of 2, room for one activation more than needed |

The bounds suffice because each limit of the code (table, retries, traps, rows, modulus) is a constant that the
instances make smaller than what the environment can ask for, and because the handlers treat all elements beyond the
first two or three alike. For most properties the proofs below remove the bounds.

Three runs find a disagreement between the code and what the repository says of it (the findings of `PROJECT.json`
quote the lines):

* `vbo_late_context`: names given out before the context is current are lost at the hand-over.
* `watchdog_second_quit`: a second call of `SDL_Quit` resets the flag a first watchdog was to see. The watchdog of the
  counterexample has been disarmed and is between two polls: `NeverEarlyAgain` excludes one that has tested the flag
  for the last time. With `ArmNoFlag`, which resets nothing, the property holds.
* `altenter_alt_first`: Alt released before Enter loses the next toggle. The run drops `enter_first` only: focus stays
  (`keeps_focus`), the window is one.

Two comments of the code say what the code next to them does not do; no run is needed to see it. That a thread of SDL
is stubbed and "never actually starts" (`loader_sdl_gl.c:175-176`), so that texture threads cannot start
(`loader_main.c:255-257`): the stub starts one, which `ThreadStart` models. And that every page of a frame is probed
(`loader_shims.c:106-110`): `b.ls` at line 127 leaves the last one out, see `NoFault` below.

The conditions of the other properties stand for more that is known of the code. Each condition is needed: TLC violates
the property when it is dropped.

* `DrawsReadStores` speaks of pointers set since the last `glBufferData` of their buffer. One set before leads into the
  freed block until the game sets it again: the driver draws from there, and the emulator cannot know. `NoOldLife` needs
  one that binds only names it was given: another can fill a slot that is marked free, and the data stays when the slot
  is handed out.
* `NeverEarly` needs timeouts below `UINT_MAX / 10` seconds (`watchdog_seconds * 10` wraps) and no signal handlers
  (`nanosleep` is not repeated). `WedgedQuitEnds` needs the thread to have been created. And a watchdog past its last
  test ends the process even if `SDL_Quit` returns just then, which `DisarmInTimeHolds` allows at the deadline.
* `NeverTrapped` needs one Alt (both share `g_alt_down`), one window (the first is remembered for ever) and every event.
* `TogglesOnce` needs all rules for its second half, that a press does toggle: an Alt released first, a focus lost or an
  event that the hook missed, may cost the next toggle. That no press toggles twice needs none.
* `ErrnoIsMac` speaks of Windows, and of the failures that are translated: `socket`, `listen` and an address that is
  refused leave the number of an older failure behind. On Linux the game reads Linux errno numbers.
  `GameKnowsConnection` and `ConnectNoticed` hold there all the same, because Linux reports that a connection stands by
  returning 0. `ConnectNoticed` speaks of that outcome only: a refusal is 111 on Linux and a timeout 110, where the
  game knows 61 and 60, so it may ask for ever.
* `DescriptorsAgree` and `NeverWaits` need numbers that differ on Windows: a file with the number of a socket closes the
  socket. `NeverWaits` says nothing of `MSG_DONTWAIT`, which Windows has no bit for, nor of the flags that an accepted
  socket inherits on macOS and Winsock but not on Linux.
* `AddressesSurvive` says nothing of addresses shorter than their family needs, of AF_UNIX paths that do not fit the
  length byte (where it is filled in the shim cuts the path by it, and at 107 characters; macOS ignores the byte), nor
  of AF_UNIX peers, whose layout stays the host's.
* `NoFault` allows one store past the guard page: up to a page at the end of a frame is left unprobed, so where neither
  the function that holds the frame nor anything it called has touched its end, the first push of the next function
  can be more than a page below what is committed.
* `CallsTransparent` speaks of the SDL calls the wrappers are made for: with more arguments than registers, or with
  doubles on Linux, they pass on what is not there.
* `NoRaceLost` needs the reservation of the whole range. Without it each segment is reserved when it
  is mapped: by then the host may have taken a page of it, and one that does not begin at a granule cannot be placed.
* `NestingBounded` promises survival of the handler on Windows only where the stack has room for its activations.
* `EntryAgrees` needs a file that `check_binary` can judge and no update between the two opens. A build that shares the
  entry point of another is not told apart.
* `WrappersStay` needs no more missing functions than traps, and a page for them: otherwise a slot keeps the game's own
  SDL, whose first call puts its functions over the wrappers. `CallsReachHost` speaks of the time before that.
* `CallsReachHost` promises a trap only where its page is near: the branch to the handler is cut to 26 bits without a
  check (`loader_sdl_gl.c:68-69`), and from an anonymous page more than 128 MB away, as is normal, the call of a missing
  function goes astray.
* `PluginKnowsCloses` needs threads that take turns: two that overlap claim the same row. `RowsReturn` does not. Both
  speak of paths below 512 characters.

### Fairness

Safety properties need none. `watchdog_deadline` assumes that the threads are scheduled and that time passes; nothing of
the engine. `sockets_hosts` assumes that a connection attempt ends, because the host times it out, and that a game that
waits asks again, because the comment at `loader_shims.c:1060-1063` describes that loop. `threads` assumes that both
sides go on; a thread's own function need not return. `runtime` assumes that a thread in the crash handler goes on: it
takes no lock of the game's. Deadlock is checked but in `QuitWatchdog`, `Boot` and `Runtime`, which model the end of the
process or of a call.

## Proofs

Eight modules hold theorems for every value of the constants that satisfies the modules' ASSUMEs: a table of at least
two slots, batches below its size, finitely many blocks, some payload to store, a poll rate and modulus above 0,
segments that do not overlap, a `jmp_buf` with room for the 21 registers (macOS has 24 words, `RoomAssumption`), a probe
whose step is no longer than a page, finitely many threads, descriptors that are natural numbers. They name the
inductive invariant and why the property is not one itself. Every invariant, action property and refinement that a
passing run checks is stated by a theorem.

**WinVbo**
1. `TypeCorrect` is inductive by itself. `CandInRange` bounds the scan.
2. `SlotsAlwaysAgree`, `DecisionStays`: `ModeInv` strengthens `SlotsAgree` by what an uninstalled emulator looks like;
   without it `Install` could not be shown to find the boot slots.
3. `BlocksOwned`: `OwnedBlocks` is inductive with `TypeOK`. All steps that change a store have the shape of lemma
   `Reowned`: free the old block, own a new one or none.
4. `BindingsInUse` (`NoOldLife`, rule `binds_generated`): `NameInv` adds that the names the game holds are in use while
   the emulator runs. That is why a game that binds only such names can bind no free slot.
5. `LiveNamesCounted`: `LiveCount` is inductive with `TypeOK`, by cardinalities of finite sets.
6. `GameNamesLive`, `NamesNew` (rules `binds_generated`, `context_first`): `HandOverInv` says that names exist only
   after the first `glGenBuffers` has decided, and that this decision is the last when a context is current, or that the
   emulator will never find the driver's functions. `ScanCovers` shows that the scan probes every name from any hint,
   so 0 is handed out only when the table is full.
7. `DrawsFollowStores` (`DrawsReadStores`, both rules): `DriverInv` says that until the hand-over the driver holds no
   name, store or binding, and that every slot in use is a name of the game's; `DrawInv` that the pointer of each array
   set since leads to the block of the buffer it was set for while the emulator runs, and to the buffer itself after the
   hand-over. `PromotionFindsNothing` is why it survives the hand-over: at that moment the game holds no name.
8. `BuffersImplemented` (rules `binds_generated`, `context_first`): the refinement of `GLBuffers`. Each of the four
   functions is shown to be a step of the abstract buffers twice, in the emulator (`Emulator*`) and in the driver
   (`DriverSteps`), through `Views`, which says what the refinement mapping shows in each mode. `ModeChangeUnseen` is
   the step that changes the mode: the mapping shows an empty set of buffers before it and after it.

**QuitWatchdog**
1. `TypeCorrect`, for every timeout, wraps included.
2. `DeadlineKept` (`NeverEarly`) and `DisarmRespected` (`DisarmInTimeHolds`). The invariant of both is `disturbed = {}
   => DeadlineInv`: while nothing has disturbed the deadline, only the latest watchdog runs, it runs for the seconds
   asked for, it has made no more polls than tenths have elapsed (one more once its sleep has passed), and a flag set in
   time finds it before its last test. `DisturbedStays` says that a disturbance is never forgotten, `NoWrap` that the
   arithmetic is exact while timeouts fit.

**Boot**
1. `EntryChecked`: `FileInv` follows the file through three places, disk, `opened` and `image`; the property speaks only
   of the last.
2. `SegmentsEndInPlace`, `ReservationSuffices`: `MemoryInv` says of each row already mapped that it is in its place
   (rows do not overlap, by assumption, so mapping one disturbs none), and of a whole reservation that no page is free.
3. `CallsArrive`: `SlotInv` says what a slot may hold at each stage, and that what a wrapper has captured is no wrapper;
   `Meant` what belongs into a slot, and `ArrivesRight` reads `Reaches` off it. Where traps suffice, `ReachInv` counts
   them: at most as many are used as missing functions have been passed, so one is left for the next.
4. `WrappersKept`: as no slot is then left to the game's own SDL, `CallInternal` cannot happen.

**AltEnter**: `PressTogglesOnce`, `KeepsDXGIOut`, `KnowsKeys`. `ToggleInv` adds that a press that has toggled left
`g_enter_down` set, `Fresh` that a hook not set remembers nothing, `KnownInv` that one window and one Alt are the ones
the hook knows, `PressInv` that a `g_enter_down` means an Enter still held with all else in place.

**PluginFiles**
1. `RowsComeBack`, with threads that overlap: `LoadInv` (rows are used only after the plugin is there), `OwnerInv` (an
   open stream is one thread's or the game's) and `RowInv` (a stream is in one row at most; a thread that looks for it
   has passed none with it, so when it is done there is none).
2. `PluginHearsCloses`: as long as nobody has overlapped, `Turn` adds that a claimed row stays the claimer's, that the
   path beside a stream is its file's, and where each open stream is known. `FewAreAlone` turns the cardinality in
   `overlapped` into "at most one thread".

**ThreadStart**: `RunsAsked`, `LeaksNothing`. `BlockInv` gives each block in use one owner out of creators and threads,
who finds there what was put in; `DetachInv` keeps ids of threads apart.

**MacSockets**: `ErrnoTranslated`, `AddressesArrive`, `NonblockingKept`, `ConnectionsKnown`, `ClosesWhatIsMeant`.
1. One invariant, `SocketsInv`, in two halves. `Told` is what the last call has told the game; each call settles it anew
   (`FailTells`, `PassesKeeps`, ...). `Descriptors` is what the game and the host know of each descriptor.
2. `NeverWaits` is not inductive: a call that is about to wait must not find a descriptor blocking that the game made
   non-blocking. `FlagsFollow` says that the host's flags follow the game's wishes, through reads and writes of the
   translated flags (`SetFlFacts`). It needs in turn that no number is a socket and a file at once, and so
   `DescriptorsAgree`: a close that hit another descriptor would reset its flags.
3. `ConnectionsKnown` rests on `AnswerFacts` (what the host can answer in each state) and `ConclusionFacts`: of the
   numbers connect can leave, the game takes none for success or refusal that is not, Linux numbers included.
4. `SentMeaning` and `ReceivedMeaning` compute the conversions of every address the game or a peer can pass.

**Runtime**: each part under its own specification. `Runtime` lets one part move while the others rest, so nothing is
added by proving the parts together.
1. `ArgumentsArrive` (VarArgs): `VarArgsInv` says where the game's arguments are (`ArgsInPlace`, above all that a
   wrapper or the host writes), that x29 and x30 stay at the bottom of the frame (`FrameKept`), and by what the host
   finds its next argument (`Handed`). The number of arguments is any; the registers and frames are those of the code.
2. `JumpsRestore` (JumpBuf): `BufferHolds` says that while the activation of the last setjmp lives, each register is in
   a word of its own; this needs the words to be different and inside the buffer (`WordFacts`). `BackAtMark` keeps the
   result of a jump through calls made after it.
3. `ProbesNeverFault` (StackProbe) from `ProbeInv`: where the probe stands, all above is committed, and what remains
   ends where the frame will; once it is taken, the guard page is within reach of any access in it, and a store below it
   goes further only if its end is not committed.
4. `DumpsInBetween` (Counters) from `CountersInv`: counts never go down, so what is printed stays between.
5. `HandlerNestsLittle` (Crash): on POSIX the activations are at most the signals that have lost their handler. On
   Windows each activation but the last faulted after it had walked all frames of those before it, so their frames are
   fewer than a walk is long (`OwnFirst`).

Only model-checked: liveness (`WedgedQuitEnds`, `DisarmEndsThreads`, `ConnectNoticed`, `BlocksReturn`, `CrashEnds`),
which is out of the prover's reach.

## Not modelled

* Paths, files, `popen`, stat, dirent and timeval: text or structures copied field by field. A model of one would be the
  same text again.
* Stubs of Objective-C, CoreFoundation, dispatch and sysctl: constant answers. `dispatch_once_f` has no lock, but as far
  as the repository shows one thread calls it.
* Generators: offline. What they emit is modelled where it is used (segments, wrappers).
* The GOT of libc and the table of GL functions other than buffers: plain copies.
* What is written to stderr, traces and the switches that turn them on.
* `setsockopt`, DNS, locks and `F_DUPFD` of `fcntl`.

Known limits of the code that no property claims away: `MAP_FIXED` on POSIX replaces pages that the host may have put
there; `mac_open` passes flags on untranslated, and macOS's O_CREAT is O_TRUNC on Linux; a second window is not guarded
by the Alt+Enter fix; a vertex array set before `glBufferData` draws from a freed block; an update between the two opens
of the binary is not noticed, nor is a build with the same entry point; a trap more than 128 MB from the loader goes
astray; the first push below an untouched frame may pass the guard page; a refused connect has a number on Linux that
the game does not know; without a watchdog thread nothing ends a wedged `SDL_Quit`; a watchdog on Windows writes through
stdio before it ends the process. The hazards in `PROJECT.json` give the lines.

## Plan

All modules named above exist, and what their runs check of safety is proved. What is left, in order of what it would
add:

1. Boot with QuitWatchdog and AltEnter through the slots it wraps; MacSockets with a thread for each connection (errno
   is per thread, descriptors are shared).
2. The event queue of SDL under the Alt+Enter fix, so that one of its two events may be rejected; the lock of stderr
   under the watchdog on Windows.
3. The search for the jump table (`sdl_lookup.py`), path translation, and `mac_readdir` on two streams.
