# Verification of the trusted OS kernel

TLA+ models of the trusted OS (an ARM TrustZone secure-world kernel), the TLC
runs that check them and the TLAPS proofs about them. Paths are relative to `src/`.

## 1. The system

A core is in the non-secure or in the secure world. It changes world in the
secure monitor, by an SMC or, from the non-secure world, by an FIQ. In the secure
world a *fast call* runs to its end on the core's temporary stack with exceptions
masked; a *standard call* is given one of `NUM_THREADS` threads with its own
stack and runs with exceptions unmasked. A thread returns to the non-secure world
when it has finished, when it asks it for a service (RPC), or when an IRQ hits it;
in the last two cases it is suspended, and any core may resume it with an SMC that
names it. The shipped configuration has one core and two threads
(`plat-vexpress-a15/conf.mk`); the code is written for several cores.

| component | state | operations | interacts with | what makes it correct |
|---|---|---|---|---|
| mutex (`kern/mutex.c`, `mutex_asm.S`) | one word, the cores' exclusive monitors | lock, trylock, unlock | the monitor's CLREX; callers | mutual exclusion, no livelock |
| thread scheduler (`kern/thread.c`) | `threads[]`, `thread_core_local[]`, `thread_global_lock` | alloc_and_run, resume_from_rpc, state_suspend, state_free, set/get_tsd, init_stack | called from the entry code; calls the handlers | one active thread, on one core, for one client; nothing lost |
| entry, RPC and exceptions (`kern/thread_asm.S`) | CPSR, banked registers, stacks | recv_smc_call, resume, save_state, rpc, IRQ, FIQ, SVC, abort | scheduler, monitor | registers and masks survive; one user of the temporary stack |
| secure monitor (`sm/`) | a secure and a non-secure context per core, SCR | smc_entry, fiq_entry, init | both worlds | each bank saved and restored once; an FIQ is invisible to the non-secure world |
| TEE entry (`tee/entry.c`) | the shared argument structure | tee_entry, tee_invoke | RPCs through the scheduler | protocol of an invocation; failure of an RPC |
| boot (`kern/entry.S`, `main.c`) | inited, canaries, handlers | main_init, handlers | everything | order of initialisation |
| MMU (`kern/mmu.c`) | the level-1 table | init, map_device, map_rwmem | boot | the mapping asked for, no wrap-around |
| reserved memory (`kern/resmem.c`) | begin, end, disabled | init, alloc, disable | boot | disjoint, aligned, inside the limits |
| GIC, UART (`drivers/`) | device registers | probe, add, enable; put, get | boot, FIQ handler | interrupt routed as FIQ; FIFO drained before end of interrupt |
| formatted output (`kern/kvprintf.c`) | flags, widths | kvprintf | all | conversions mean what printf(3) says |

Hard behaviours: cores interleave at every memory access; exceptions hit wherever
the masks allow; a core's stream can be replaced by the monitor between LDREX and
STREX; the non-secure world decides which thread is resumed, when and by which
core, and may be wrong about it; the locks are spin locks and a refused call is
retried by the caller. `PROJECT.json` lists each hazard at its line with the
properties aimed at it.

## 2. Modules

| module | what it is |
|---|---|
| `AbstractLock` | what `kern/mutex.h` promises |
| `Mutex` | `mutex.c` and `mutex_asm.S`, one memory access per step |
| `MCMutex` | its instance |
| `MutexProofs` | its proofs |
| `ThreadPool` | what the scheduler promises the rest of the system |
| `Threads` | scheduler and its assembly: entry, RPC, exceptions |
| `MCThreads` | its instances |
| `ThreadsProofs` | its proofs |
| `Monitor` | the secure monitor's register switch |
| `Boot` | from reset to the non-secure world, and what the boot has to have prepared |
| `TeeEntry`, `MCTeeEntry`, `TeeEntryProofs` | `tee_entry()`, `tee_invoke()` and their RPCs, the instance, the proofs |
| `ThreadData` | thread specific data, on top of `ThreadPool` |
| `Smc`, `MCSmc`, `SmcProofs` | the SMC interface: identifiers, dispatch, return codes and the callers, on top of `ThreadData`; instance and proofs of both |
| `Console` | `kprintf()`, the UART and the FIQ handler that prints |
| `MCCore`, `CoreProofs` | instance of `Monitor`, `Boot` and `Console`, the proofs of all three |
| `Mmu`, `MCMmu`, `MmuProofs` | the translation table, table walks and the TLB |
| `Gic`, `MCGic`, `GicProofs` | the interrupt controller's driver and the controller, the instance, the proofs |
| `Resmem` | the reserved memory |
| `Kvprintf` | formatted output beside a definition of what printf(3) means |
| `Exceptions` | system calls, aborts and undefined instructions: registers and stacks |
| `MCParts`, `PartsProofs` | instance of `Resmem`, `Kvprintf` and `Exceptions`, the proofs of all three |

How they fit: `Threads` implements `ThreadPool`; `ThreadData` is written against
`ThreadPool` and `Smc` against `ThreadData`, so that they need none of the locks and
masks below it.
`Mutex` implements `AbstractLock`, which is why the lock of `Threads` may be a
Boolean. `Monitor` and `Exceptions` look at the registers that `Threads` keeps as one
word; `Gic` and `Console` share the interrupt, of which `Console` keeps what the
handler sees; `Boot` ends in the state the others start from. `MCCore` and `MCParts`
check several modules that share no state in one run: a variable `part` says whose
behaviour it is, and the others stay in an initial state.

Definitions named `X_Something` after a definition `X` are mutants: `X` as a
plausible mistake would have it. They are used by no specification; each shows that
one property notices that mistake (`PROJECT.json`, "mutants").

### Mutex

`state` is the word, `mon` the cores with a reservation on it, `pc[a]` where an
instruction stream is, `on[a]` its core. `Ldrex`, `StrexOk`/`StrexFail` and `Str`
are the instructions of the same name. `Preempt` and `Resume` are a pass through
`sm_smc_entry`: CLREX, and another stream on the core. In the code a holder of
`thread_global_lock` has exceptions masked and is never taken off its core; the
model allows it everywhere, for the sake of other users of the mutex (`mutex.h` does
not ask for masking). `SpinEnds` holds when the core stays with the spinning stream.

Not modelled: the memory order the DMBs establish. A step is atomic and visible to
every core at once, which is what the barriers are there to provide.

### Threads

A step is the code between two points where another core or an exception can
interfere. The places a core can be at (`pc`):

| `pc` | code |
|---|---|
| `nsec` | the non-secure world |
| `recv`, `fiqwin`, `smc` | `thread_recv_smc_call`: entry, between `cpsie f` and `cpsid f`, `thread_issue_smc` |
| `alloc`, `alloc_check`, `alloc_take`, `alloc_run` | `thread_alloc_and_run`: before `lock_global()`, locked, after `have_one_active_thread()`, after `unlock_global()` |
| `resume`, `resume_check`, `resume_take`, `resume_run` | `thread_resume_from_rpc`, likewise |
| `thread`, `rpc_return` | a thread in its handler; at `.thread_rpc_return` |
| `irq`, `fiq` | `thread_irq_handler` before `cpsid f`; `thread_fiq_handler` |
| `suspend`, `suspend_cs`, `rpc_load` | `thread_state_suspend` before and with the lock; `ldm r5, {r0-r2}` of `thread_rpc` |
| `free`, `free_cs` | `thread_state_free`, before and with the lock |
| `halt` | `__assert()`: the core spins for ever |

`state`, `hyp_clnt_id`, `copy` (the flag) and `regs` are the fields of
`threads[t]`, `curr_thread` that of `thread_core_local[c]`, `lock` the global lock.
The registers a call passes or a thread computes with are one word, `a1`, because
the properties only ask whether the right word is where it should be; `a3` carries
the thread number, `a7` the client. Of `CPSR` the two mask bits are kept. The
mutex is a Boolean here; `MutexImplementsLock` is the reason it may be.

A thread's code is `Compute` (any register value), `ThreadRpc`, `RpcReturn` and
`ThreadReturn`, in any order and number: a superset of what `tee_entry()` does. In
a fast call `FASTCALL_INVOKE` stands for a fast call whose argument asks for
`TEESMC_CMD_INVOKE_COMMAND`.

The non-secure world calls with any client, and resumes any thread, also one that
does not exist, for any client. With `StrictNw` it resumes only a thread it was told
is suspended, for the client that owns it, and once: what a correct driver does.

`guest` and `live` are history: the client a core serves, and what a thread must
find in its registers. No guard of the code's actions reads them; only the strict
non-secure world looks at `live`, for the client it remembers.

### Monitor

`reg` is the one set of registers both worlds use; `r5` stands for r5-r7, `r9` for
r8-r11, `usr` to `und` for the banked registers of a mode, `ret` for what `rfefd`
returns to. `nctx` and `sctx` are the two context structures, with the fields they
have; `frame` is what `srsdb` and `push {r0-r3}` leave on the monitor's stack. Every
step says which registers it overwrites, scratch registers and those a C function may
change included (`Clobber`, `CCall`). `pc` follows the labels of `sm_asm.S`
(`smc_ret_to_sec`, `smc_ret_to_nsec`, `smc_exit`), with `fiq_*` for `sm_fiq_entry`, and
`recv` and `fiqwin` of `thread_recv_smc_call`. The monitor runs with exceptions
masked, so that its steps do not interleave with anything but a new FIQ becoming
pending. A world's own work is the choice of the registers it leaves. `nleft`, `sleft`
and `via` are history. The FIQ mode's own banked registers are not switched by the
code and not modelled. An FIQ that hits a thread is the step `ServeFiq` at `call`;
what it does to the scheduler is in `Threads`.

### TeeEntry

One thread per call, each call with its argument structure, and the buffers of the
non-secure world's allocator (`owner`). An RPC is a request (`RpcAlloc`, `RpcCmd`,
`RpcFree`) and an answer (`NwAlloc`, `NwCmd`, `NwFree`); that the answer reaches the
right thread, on whatever core, is what `Threads` shows. `ret` and `ret_origin` are
set together and are one field. A caller leaves its structure alone until the call
returns. A buffer that was freed and a local variable that is out of scope are set to
a fixed value.

### Resmem

The three variables of `resmem`, and the blocks given out as history. `Wrap` is a
sum in a machine word; clearing low bits with a mask is subtracting the remainder.
Empty blocks may coincide with each other and with the start of the next one: C
makes no promise for them, and `Apart` does not exclude it. Nothing in the repository
calls `resmem_alloc()` yet.

### ThreadData

`tsd` and `tsd_free` are the fields of `threads[t]`, `mine` is history. The actions
are those of the pool, with what the code does to the two fields in each (nothing),
and `SetTsd`. A pointer is given to one slot at a time.

### Smc

A word is a pair of halves, put together by `CallVal` as `TEESMC_CALL_VAL` does; `Id`
holds the identifiers, the standard and the fast ones for 32 and 64 bit calls, and two of
those the header documents and `tee_entry()` does not know. `at` is where a core is:
`recv` (`thread_recv_smc_call`), `fast`, `thread`, `answer` (`thread_issue_smc`).
`AllocAndRun` and `ResumeFromRpc` are the two functions as the pool promises them,
error returns and zeroed registers included; the thread started is the free one of
the smallest number. `ResumeFromRpc` takes the one identifier that
`thread_handle_smc_call()` compares with; every other standard one goes to `AllocAndRun`,
that for the resumption of a 64 bit call included. The callers (external) do what
`teesmc.h` says: resume with the r3
they were given and, if their call was a 64 bit one (`wide`), with the 64 bit identifier;
retry a refused resume. In r3 of a call that does not use it is
anything. They compare with `TEESMC_RETURN_UNKNOWN_FUNCTION` before they use
`TEESMC_RETURN_IS_RPC`, because that answer, `0xFFFFFFFF`, passes the test; the header
does not ask for it, and a caller that does not may resume with a leftover r3. All
callers have the same client id, as without a hypervisor. `who` and `origin` are history.
An invocation as a fast call is left to `Threads`, `HANDLE_FIQ` to `Monitor`.

### Console

A step is one access to a device. `pc[x]` is where a context is in `uart_putc()` (a
character, `'\n'`, the `'\r'` behind it; waiting, or between the flag register and the
data register), in `uart_flush_tx_fifo()`, or in `main_fiq()`. A context is a core or
the FIQ handler, which runs on top of core `FiqCpu`. `tx` and `rx` are the numbers of
characters in the two FIFOs; a message is its length and whether a newline ends it.

### Mmu

Addresses count in sections and wrap around. The core's stores go to `stored`; a walk
sees `table`, which gets them some time later (`Drain`), at the latest when a DSB
completes (`buffer` has those under way). The TLB may fetch any valid descriptor at
any time (`Walk`). `pc` is the loop the code is in; `MmuInit` is `mmu_init()`,
`MapCall` the two mapping functions up to the invalidation in
`cache_tlb_invalidate()`. `old` is history: the table before the last call that changed it.

### Gic

A register has a bit for each of `RegSize` interrupts; the controller's state is sets of
interrupts. `Signalled` is the external controller's rule for an FIQ. `pc` follows
`probe_max_it()` (`set`, `get`, `out`), `gic_init()` (`init`) and the register accesses
of the other functions: a register that is read, changed and written back takes two
steps, with what was read in `word`, all interrupts of the register included. Devices
raise their interrupts at any time, the non-secure world configures its own between the
driver's calls (which run masked, on the one core there is), `ReadIar` and `WriteEoir`
are the accesses of `main_fiq()`. Interrupts above `Last` are not implemented, as in the
hardware.

### Kvprintf

One character of the format is one step: `Text`, `Percent`, then in `reswitch` the
flags, digits, lengths and conversions, each an action. Which character it is is chosen
by the environment. The variables are the function's; `took` is the list of
`va_arg()` sizes, `out` what was printed, as a record (digits, sign, prefix, padding),
not as text. Beside them runs `d`, the same directive as printf(3) reads it, and
`Reference` computes from it what ought to be printed. `Inverted` is the macro
`FLAG_INV()` as it is written. Integer types are scaled to 2 to 5 bits with their order
and the wrapping kept.

### Boot

`Calls` is the sequence of `_start` and `main_init()`. A global is `junk` (whatever
memory held), `zero` or `set`; the memset of the `.bss` behind `.bss.prebss` makes
`set` of a plain global `zero` again. Each step notes in `bad` what it uses and is not
ready. Stacks are word counts between two canaries. Exceptions may be pending from
the start and are taken whenever the masks allow, with the vectors that are installed.
After the boot `Enter`, `Call`, `Push`, `Fiq` and `Irq` use what it has prepared.

### Exceptions

`reg` are the core's registers with the banked `lr` and `spsr` of the modes; stacks are
sequences, lowest address first. `Svc`, `Dabort`, `Pabort` and `Undef` are the
exception with the prologue of its handler, `Handler` what the C function may do:
change the structure it gets as `thread.h` allows, clobber caller-saved registers,
and, in a system call, unmask IRQ. `SvcReturn` and `AbortReturn` are the
epilogues, `Irq` a suspension with the resumption of another thread. `frames` is
history: what was interrupted, and what must be found again.

## 3. Runs

| run | question | bounds |
|---|---|---|
| `mutex` | do the instruction sequences implement the lock, and end? | 3 streams, 2 cores |
| `threads_any` | does the scheduler keep its tables, registers and clients whatever is resumed? | 2 cores, 2 threads, 2 clients, 2 register values |
| `threads_strict` | with a correct driver: is the RPC request read from an undisturbed stack, does the code implement `ThreadPool`? | 2 cores, 2 threads, 2 clients |
| `threads_up` | the shipped configuration: temporary stack, does every SMC return and every call finish? | 1 core, 2 threads |
| `fast_rpc` | an RPC in a fast call (expected violation) | 1 core |
| `core` | boot: is anything used before it is ready, do canaries mean overflow, does the boot end? Monitor: does each world find its registers after any SMCs and FIQs, and is every FIQ handled? Console: is a character lost or left unread, does every FIQ end? | stack of 3 words; 2 register files per world; 1 core and the FIQ handler, FIFOs of 2 and 3, messages up to 2 |
| `tee` | do concurrent calls keep their buffers, requests and results apart, and return? | 2 calls, 2 buffers, words of 2 values, 0 or 1 parameters, failing allocations |
| `parts` | are allocations apart, and only refused for lack of room? is what is printed what printf(3) prints? does what was interrupted go on as if nothing had happened? | address space of 8, alignment 2, all limits and sizes; values at the bounds of four integer types, 3 widths; 2 threads, 2 register files |
| `mmu` | does a returned call have mapped its range, visibly, and kept the kernel's; how old can a TLB entry be? | 4 sections, ranges that keep off the kernel's |
| `gic` | FIQs only for what was added, enabled and raised; are all served? | 6 bits in 3 registers, 4 interrupts |
| `smc` | do identifiers, return codes and numbers keep the callers' calls apart, lose no 32 bit one, and does data follow its thread? | 2 cores, 2 threads, 3 callers, 2 pointers |
| `smc64` | is a suspended 64 bit call found by its resumption (expected violation)? | as `smc` |

Some properties are conjunctions of what one definition says of every state of its
module, types included; each part has its own comment in the module:

* `BootSound`: globals and devices are ready when used, the temporary stack is free for
  the handlers, and a halt by a canary means that a thread left its stack.
* `GicSound`: the probing finds the largest interrupt it can see, no FIQ without an
  interrupt added, enabled and raised, no assertion fails.
* `TlbSound`: virtual is physical in the table and the TLB, and once a call has returned a
  TLB entry is the table's or the one the last call that changed the table replaced. That
  it is the table's is not so (below).
* `PrintsAsPrintf`: numbers and strings as printf(3) prints them, with the exceptions
  listed at `Ordinary`; the digit buffer is large enough; an unknown directive stops the
  conversions.
* `ExceptionsSound`: registers after a return are those at the exception but for what
  the handler changed, and no thread is suspended on the abort stack.

Bounds. The scheduler treats cores, threads, clients and values alike and its decisions
compare two of them, so two of each show a wrong choice, and a third stream in `mutex`
lets two waiters race while one holds. With one thread slot free, suspended or active,
every combination of two slots occurs, and a bogus thread number (`NUM_THREADS`) is
among the inputs. Cores are interchangeable, hence the symmetry sets, except where
liveness is checked. `threads_any` leaves fast calls to `threads_up`: they touch none of
the scheduler's state. Nothing needs a counter, so there is no other bound; the theorems
cover the other sizes. In the monitor's part of `core` a value tells the world, the
register and the visit it comes from: any wrong, stale or overwritten register shows,
and two visits tell stale from fresh. The contexts are per core, so one core is enough.
In the boot's part a thread may use `MaxDeep` words, enough to reach the canary and pass
it. In `tee` one value of `Width` makes the sum wrap, and two calls are enough to mix up
two. In `parts`, four aligned units of memory leave room for every order of fitting and
wrapping; each integer type is a bit wider than the one below, so that every truncation
shows; at most one abort nests in a system call (`Exceptions` takes no other, as the
handlers do). In the console's part of `core` a FIFO of two places is full, empty and in
between; a longer message only repeats the loop. In `mmu` four sections hold ranges
before and behind the kernel, empty and wrapping ones; callers keep off the kernel's own
sections. In `gic` there is a register the probing does not reach, one it finds the last
interrupt in and one that is not implemented; one word of targets holds all four
interrupts. In `smc` three callers for two threads means that one is refused, and the
third value of r3 names no thread.

Fairness. `mutex`: a core keeps executing a mutex function it has started. `threads_up`:
the code that runs masked keeps running (weak fairness); code that runs unmasked makes
progress although exceptions interrupt it over and over (strong fairness, because an
exception disables it); a thread's handler makes finitely many RPCs and returns
(`tee_invoke()` makes three); the non-secure world resumes a thread it holds. `core`:
the monitor and the secure world go on, and an FIQ that is pending whenever the core is
in the non-secure world is taken in the end (strong fairness, because the non-secure
world may leave by an SMC first); inside the four nops of `thread_recv_smc_call` a
pending FIQ is taken, as the comment there expects; the boot is sequential code that
runs on, and `BootEnds` only speaks of cores that come out of reset with exceptions
masked. `tee`: threads run and the non-secure world answers. The console's part of
`core`: the wire takes what is sent and pending FIQs are taken (weak); code an FIQ may
hold up again and again gets on (strong), and what is claimed is claimed for a line that
falls silent. `gic`: the driver runs on, and an FIQ is taken when it unmasks (strong: it
masks again). Nothing is assumed about new calls, IRQs and FIQs. No liveness is claimed
for several cores: a resume is refused with EBUSY while any thread is active, and
nothing in the code keeps one core from losing that race for ever. Not even "some call
completes" holds under weak fairness: a core whose calls are refused can win the spin
lock every time.

What was seen while modelling, beyond "no error":

* `fast_rpc`: a fast call that invokes a command reaches `thread_rpc()` without a
  thread; `assert(l->curr_thread != -1)` fails and the core hangs. `tee_entry()`
  accepts `TEESMC32_FASTCALL_WITH_ARG` for every command. This run expects a violation.
* `smc64`, the other one that does: `teesmc.h:543` gives
  `TEESMC64_CALL_RETURN_FROM_RPC` for resuming a 64 bit call, and
  `thread_handle_smc_call()` (`thread.c:201`) compares with the 32 bit identifier only. An
  IRQ suspends the call (it is refused only when its thread runs on), its caller resumes
  it as the header says, and gets a new thread and the refusal of an unknown function. The
  suspended thread is nobody's and keeps its slot for ever. `NoCallLost` says, of the same
  callers, that 32 bit calls suffer from this by a lack of slots only.
* `cache_tlb_invalidate()` (`cache.c:32`) has no DSB before TLBIALLIS. A table walk
  between the invalidation and the moment the store becomes visible fetches the old
  descriptor, which stays in the TLB when the call has returned: map a section as a
  device, map it with `mmu_map_rwmem()`, `Tlbiallis`, `Walk`, `Drain`, `Dsb`. It takes a
  section that was mapped before; those that were not have nothing a TLB could keep.
  `main_init()` remaps no section with a different descriptor (the two halves of the GIC
  share theirs). `TlbBounded` is what does hold: the next call that changes the table
  ends what the last one has left.
* `RpcTailPrivate` needs the strict non-secure world. A non-secure world that resumes
  a thread before it has been told of the suspension can have it run while
  `thread_rpc()` still reads `rv[]` from its stack.
* A refused call comes back with r1 to r3 zeroed (`Refuse` of `Smc` and `Threads`);
  `teesmc.h:466` speaks of them as preserved.
* `tee_invoke()` does not look at the address it gets for a failed allocation, which
  `teesmc.h:599` lets be 0; and the assertion of `entry.c:57` stops the core for a call
  without parameters, which `teesmc.h:200` provides for. The thread slot stays active.
* `TEESMC32_FASTCALL_RETURN_FROM_RPC` is the standard call's identifier, and none of
  the general calls (`CALLS_COUNT` and the others) is implemented: `Id` and `TeeEntry`
  of `Smc` have both as they are.
* Nobody calls `tsd_free` (`thread.h:137` says it happens when a thread exits); the next
  call in the slot sees its predecessor's data until it sets its own, of which
  `DataFollowsThread` says nothing.
* The FIQ handler's messages all end in a newline, and the flush that follows is what
  keeps the interrupted `uart_putc()` from writing to a full FIFO. With a second core
  nothing does: `NoCharLost` is a property of the one core that is shipped.
* A range that ends in the topmost section never ends (`a` wraps to 0 in `mmu.c:180` and
  210); `mmu_map_rwmem()` stores a device descriptor (`mmu.c:208`); the section that
  code shares with data is writable.
* The probing skips register 0 and bit 0 of the others (`gic.c:77`), so that
  `gic_init()` leaves the largest interrupt as it found it if it is a multiple of 32.
* `FLAG_INV(flag)` shifts by `flags` (`kvprintf.c:105`): `%lld` prints a sign, `%.8llx`
  takes the wrong argument size, `%*s` with a negative width does not adjust to the
  left. `Inverted` is the macro as written; the properties leave those directives out.
* The undefined instruction handler returns to the wrong instruction, its register
  structure is not laid out as `thread.h` says, and the data abort handler reports a
  prefetch abort and conversely (`thread_asm.S:341`). None bites the shipped handlers,
  which panic.

## 4. Proofs

All for any number of cores, streams, threads, clients and values, from the assumptions
named in the modules (`NowhereAssumption`, `ConstantsAssumption`, `MonitorAssumption`,
`TeeAssumption`, `WidthAssumption`, `ConsoleAssumption`, `MmuAssumption`,
`ThreadDataAssumption`, `SmcAssumption`, `CoreAssumption`, `PartsAssumption`,
`GicAssumption`). They say what the C types and the linker script say, such as that an
`int` is no wider than an `intmax_t`; none restricts what the other world does.

* `MutexProofs`. `MutexInv` = types, mutual exclusion, sound reservations, word locked
  exactly while held. Mutual exclusion alone is not inductive: that a STREX with an
  intact reservation finds the word unlocked is what the reservations are for.
  Theorems: `MutualExclusionHolds`, `UnlockNeverAsserts`, `MutexImplementsLock`, and
  the invariant's parts `ReservationsAreSound` and `LockedMeansHeld`.
* `ThreadsProofs`, in layers.
  `ControlInv` says, for every place in the code, what a core has in `curr_thread`,
  `n`, its masks and its return addresses, and that a context that can be resumed lies
  in thread code with nothing masked. It gives `TypeCorrect`, `TmpStack` and
  `Unmasked`. Types alone are not inductive: `threads[l->curr_thread]` is in range
  only because `curr_thread` is set at the places that use it.
  `SchedInv` adds the lock (held by the one core in a critical section), that the
  answer of `have_one_active_thread()` is still true when acted upon, and that
  threads are active exactly while one core holds them. Its proof
  first shows that a step does one of three things to the lock (`LockStep`) and one
  of three to the threads (`StateStep`), and argues about those. It gives
  `OneActiveHolds` and `ActiveIsRunHolds`, and with both layers `AssertionsHold`: no
  assertion of `thread.c` fails if no fast call makes an RPC.
  `DataInv` ties what is saved in `threads[t]` to what the thread must find (`live`)
  and whose it is (`hyp_clnt_id` to `guest`): `RegistersIntact` and `ClientsKept`
  follow, and `ThreadsImplementPool`, where each step is shown to be a step of the pool or a
  stutter. `TokenInv` holds for a non-secure world that follows the rules
  (`StrictNw`): the right to resume a thread is in one place, a core on its way out, the
  non-secure world, or a core on its way in, and never in two. It gives
  `RpcTailIsPrivate` and `ResumesSucceed`.
* `CoreProofs`. First the monitor. `MonInv` says where each world's registers are at
  each place of the monitor: in the core and the frame, then in its context, then back.
  `FiqTransparent` needs four facts together: the context holds r4-r12 and the banks,
  r0-r3 travel one register further on, `thread_recv_smc_call` shifts them back, and the
  secure world cannot have taken the way of a call (`via = "fiq"` never meets `call`,
  because r0 is `TEESMC32_CALL_HANDLE_FIQ`). Nothing is assumed of register values, so
  the theorems also cover a non-secure world that puts that identifier in r0 itself.
  Then the boot. `BootInv` has three parts beside the types. `ReadyInv` says, for every
  place from some call of `main_init()` on, what that call has made ready: which globals
  are set and have survived the memset, what is mapped, which modes have a stack.
  `TakenInv` says which exceptions can be taken by which vectors: both are masked from
  before the handlers are installed until `main_init()` has left the temporary stack.
  `StackInv` says what a wrong canary means. `BootSound` alone is not inductive, since
  nothing in it says why the next step will find what it needs. `BootIsSound` holds for
  stacks of any size; `PartsOfCore` shows that the composition which the run checks
  behaves as each of its parts, and `CoreBootIsSound`, `CoreMonitorInvariant`,
  `CoreLosesNoChar` and `CoreEndsWhatItAcks` follow. Last the console. `ConsoleInv` =
  types, what a context has left where it is, and the life of the interrupt; `SpaceInv`
  adds that the FIFO is empty when the handler returns, from which `NoCharLostHolds`,
  for one core (`CPU = {FiqCpu}`) and FIFOs of any depth.
* `TeeEntryProofs`. `HolderInv`: the allocator's books and the threads' pointers agree
  in both directions; from it `OwnsBuffer`, `NothingLeaks` and, because no two threads
  hold one buffer, `RequestAndAnswer`. `ResultStands` needs that the structure is as
  sent until the last step (`ArgInv`).
* `PartsProofs`, of three parts, whose steps leave each other's state alone (`PartSteps`).
  - `Resmem`. The arithmetic first: `RoundupLeast` says what ROUNDUP computes for any word
    size that is a multiple of the alignment. Then everything allocated lies below
    `begin`. `BlocksApart` and `RefusedForGood` follow for any address space.
  - `Exceptions`. `ExcInv`: a thread that does not run is in no abort and in at most one
    call (`Base`), the running one may be in an abort on top of that (`Aborted`), and the
    eight words on a stack are the registers the history says were interrupted. So each
    handler pops what its own entry pushed: `ReturnsAreIntact`, for any number of threads.
    The lemmas `Cat8` to `LoadedAbt` read the `push` and `pop` lists of the assembly.
    `ExceptionsAreSound`, with the types of the program counter, needs that no undefined
    instruction returns: where one does, its address is off by 4 (section 3) and the
    program counter leaves the code. The run makes the same choice (`Returning`).
  - `Kvprintf`. `KvInv` says that in a directive `kvprintf()`'s variables are what printf(3)
    reads from the same characters (`Known`), unless `FLAG_INV` has spoilt them (`Exact`
    excludes `ll` and a negative width argument). A character keeps that, one lemma each;
    `ReadRight` says that the argument read is the value of its type, `SamePrint` that
    the two ways of counting padding and zeros agree, `KsprintnFits` that the digits fit
    the buffer. `PrintsLikePrintf` and `ArgumentsStayInStep` follow for any widths of
    `char`, `short`, `int` and `intmax_t`, where the run has 2, 3, 4 and 5 bits.
    Powers of two and the digits are recursive functions. That such a function exists
    and obeys its equation is proved first (`Upto`, `Total`, `Recursion`, for one step
    back at a time to any smaller number), and where induction is needed, the set of the
    numbers for which a claim fails is shown to have no least member (`Least`).
* `GicProofs`. `ProbeInv` says that the probing has found nothing above the
  register it is at, so that it ends with the largest interrupt it can see. `SetupInv`
  says that from then on only what the driver enabled, or left to the non-secure world, is
  enabled, that in `gic_it_add()` an interrupt is off until it has changed its group, and
  that the word read of a register is still what is there when it is written back:
  `GicIsSound`. It has one hypothesis about the controller, `LastVisible`: the last
  interrupt is neither in register 0 nor at bit 0 of its own, for there the probing does
  not look (`gic.c:77`, `gic.c:87`), and `gic_init()` then leaves it as it was. The run's
  controller is of that kind, as is every one whose interrupts fill their registers.
* `MmuProofs`. `BufferInv`: walk and core differ only in what is in the store buffer,
  which is empty wherever a DSB was the last thing. `InitInv`: the kernel is mapped up
  to the loop's address. `CallInv`: a call has done its range up to its address and
  nothing else. From these `IdentityHolds`, `MappedHolds`, `KernelStaysHolds`, for any
  number of sections and any place of the kernel. `AgeInv` follows the TLB:
  an old translation is one that the store buffer still hides from walks, or the one the
  last changing call replaced; a call waits for its own stores, so that where none is under
  way (`Quiet`) the next invalidation is the end of everything older than the table it finds.
  `TlbSoundHolds`.
* `SmcProofs`. First `ThreadData`: `OneRuns` from the pool's promise, a core that runs a
  thread runs an active one, and no other core runs any; then `DataFollows`. Then the
  interface on top. `Serving` and `Origins` say that a call has one caller, at most one
  core and, if it is a 32 bit one, at most one thread (`Held`: the threads of 64 bit
  calls may be left behind, and there can be several of a caller); `Waiting` where the
  thread of a caller is while the caller waits, `Underway` what the registers of the
  core that serves it say about it. `ServesOwnCall` is part of that; `NoCallLost`
  follows from all four, none of which is inductive alone: whether a resume names the
  right thread depends on what the answer in r0 made the caller believe two steps
  before. Most actions change one core, one thread and one caller's affairs, so one
  lemma (`OwnStep`) shows that such a step leaves the others' alone.
  `ImplementsThreadData` carries `DataFollows` over to the interface
  (`DataFollowsCalls`). As `Threads` implements `ThreadPool`, what is proved of the pool
  holds of the code.

Theorems of types and of parts that no run asks for (`Unmasked`, `ArgumentsReachSecure`,
`ReservationsAreSound`, `UnlockNeverAsserts` and others) are part of the same inductive
invariants; those that say more than types are listed in `PROJECT.json` without a
property.

Every invariant that a run checks is proved. Only model-checked are the liveness
properties (`SpinEnds`, `SmcReturns`, `CallCompletes`, `FiqServed`, `BootEnds`, `CallReturns`,
`ReceivedIsRead`, `AllServed`: the prover handles neither fairness nor ENABLED), and, by
their nature, the violations that the two remaining runs find.

## 5. Not modelled

* `THREAD_LOCAL_EXCEPTION_SPS`, a variant of the entry code nothing defines.
* The start of a second core. `main_init()` brings up one; `curr_thread` of the others
  would be 0 and not -1. `Threads` starts with every core prepared as `Boot` leaves it.
* A build without `WITH_STACK_CANARIES`: `main_init()` calls `init_canaries()` all the
  same.
* A system call from SVC mode and aborts inside abort handlers, which the code does not
  make and its handlers do not provide for.
* The order of memory accesses that the DMBs of the mutex and the DSBs outside `Mmu`
  establish; steps are seen by all cores at once.
* The 64 bit structures of `teesmc.h`, which no code uses.
* The wrappers of single instructions (`arm32.h`, `cache.c` beyond the TLB, `misc.S`), and
  `memset()`, `strlen()`, the division functions of `eabi.c`: sequential helpers without
  state.
* The build files and the linker script, but for the order of sections that `Mmu` and
  `Boot` rest on.
