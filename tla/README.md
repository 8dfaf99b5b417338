# A verification project for the Cosmos kernel

The repository is a collection of study notes; its one program of size is
Cosmos, a teaching kernel for x86-64 that grows from lesson to lesson under
`操作系统/操作系统实战/cosmos-master`. This project models and proves properties
of the kernel of **lesson41.2** (`lesson41.2/Cosmos`), the most complete BIOS
snapshot. All paths below are relative to that directory.

Contents: [the system](#the-system) · [modules](#modules) ·
[runs](#runs-what-tlc-checks) · [proofs](#proofs-what-tlaps-proves) ·
[findings](#findings) · [what is left out](#what-is-not-modelled) ·
[plan](#plan)

## The system

One CPU (`CPUCORE_MAX` is 1), kernel threads and user threads, preemption by
interrupts, also inside the kernel. A critical section is
`krlspinlock_cli ... krlspinunlock_sti`: interrupts off, hence atomic. Everything
between two such sections can be interleaved with any handler and any thread.

| component | state | operations | talks to | what is hard | what makes it correct |
|---|---|---|---|---|---|
| scheduler `kernel/krlsched.c` | per priority: run list, current thread, count; need-schedule flag; exit list | `krlschedul`, `krlsched_wait`, `krlsched_up`, `krlsched_exit`, `krlschdclass_add_thread`, `krlsched_chkneed_pmptsched` | everybody | preemption between and inside its own steps; lists edited without knowing which list | a thread is in exactly the place its status says; nobody who waits or is dead gets the CPU; round robin |
| wait lists, semaphores `krlwaitlist.c`, `krlsem.c` | list, length, count | `krlsem_down`, `krlsem_up`, `krlwlst_*` | scheduler; keyboard handler | wake-up against going to sleep; many woken, few units | no lost wake-up; units neither lost nor handed out twice |
| tick, idle, interrupt path `krlthread.c`, `krlcpuidle.c`, `hal/x86/halintupt.c` | `td_tick`, nesting | `systick_handle`, `hal_hwint_allocator`, `hal_fault_allocator` | scheduler, virtual memory | handlers nest, with interrupts on | slices end; the stack unwinds in order |
| physical pages `hal/x86/memdivmer.c` | per area and order: free list and counts; a descriptor per page | `mm_division_pages`, `mm_divpages_procmarea`, `mm_merge_pages` | slabs, pool, page tables, faults | split and merge of runs, checks before the lock | runs disjoint, counts exact, no assertion reachable |
| boot memory map `hal/x86/memarea.c`, `msadsc.c` | descriptors, areas | `init_memarea`, `init_merlove_mem` | pages | boundaries of the map | every page in one area, every free run listed once |
| slabs `hal/x86/kmsob.c`, pool `kernel/krlpagempol.c` | pools by object size, a cache; page blocks by size | `kmsob_new`, `kmsob_delete`, `kmempool_new`, `kmempool_delete` | pages | growth, destruction while an object remains, size classes | an object is given to one owner; what is freed is found again |
| address spaces `kernel/krlvadrsmem.c`, page tables `hal/x86/halmmu.c` | ordered areas, boxes of pages with a reference count, four-level table | `vma_new_vadrs`, `vma_del_vadrs`, `vma_map_fairvadrs`, `hal_mmu_transform`, `hal_mmu_untransform` | pages, slabs, threads | areas that grow, shrink, split and share a box; failure half way | areas disjoint; a frame is mapped once; nothing leaks |
| device manager `kernel/krldevice.c` | device table, counts, request lists | `krlnew_device`, `krldev_*` | drivers, services | tests outside the lock | unique numbers, counts match opens |
| services `krlsve*.c`, object nodes, handles | handle table of 8 per thread, nodes | `open`, `close`, `read`, `write`, `ioctrl` | device manager | one step of several fails | a handle names one live node |
| RAM file system `drivers/drvrfs.c` | super block, bitmap, root directory, file blocks | create, delete, open, read, write, close | services | read, change, write back without a lock | a block belongs to one file |
| keyboard `drivers/drvuart.c` | one slot, `kb_sem` | `uart_handle`, `uart_read` | semaphore | keys faster than reads | a read returns a key that was pressed |
| threads `kernel/krlthread.c`, `krlsvethread.c` | descriptor, stacks, handles | create, exec, exit | all | runnable before its program is mapped | a thread that runs has a program |

`PROJECT.json` lists these components with their status, and the hazards of each
at the line where they bite.

## Modules

| module | role |
|---|---|
| `KrlSched` | scheduler, wait lists, semaphores, tick, idle thread and interrupts |
| `CountingSem` | the abstract specification of the semaphores |
| `MCKrlSched` | `KrlSched` for TLC: the symmetry set |
| `KrlSchedProofs` | lemmas on lists; what holds with interrupts anywhere: types, no lost wake-up, no node linked twice, the semaphores implement `CountingSem` |
| `KrlSchedSafeProofs` | the inductive invariant of the scheduler and what follows from it |
| `MemDivMer` | the allocator of physical pages |
| `PageRuns` | the abstract specification of an allocator of runs of pages |
| `MCMemDivMer` | memory maps of `MemDivMer` for TLC |
| `MemDivMerProofs` | the inductive invariant of the allocator, its properties, and that it implements `PageRuns` |
| `PageTable` | the page tables of address spaces |
| `PageMap` | the abstract specification of page tables: partial maps |
| `MCPageTable` | a tree of tables for TLC |
| `PageTableProofs` | the inductive invariant of the page tables, and that they implement `PageMap` |
| `VirMem` | areas of address spaces, their boxes of frames, and page faults |
| `PrivMem` | the abstract specification of virtual memory: private pages that keep their frames |
| `MCVirMem` | `VirMem` for TLC: the symmetry set |
| `VirMemProofs` | the inductive invariant of address spaces in every mode; until a handler reads the wrong address, no frame lost, every fault answered, and `VirMem` implements `PrivMem` |
| `Rfs` | the RAM file system and the services on files |
| `Files` | the abstract specification of files: each its own contents, and what a handle is on after its file has gone |
| `MCRfs` | a small device for TLC |
| `RfsProofs` | types in every mode; until two clients are inside the driver: bitmap and directory agree, no file is lost, and `Rfs` implements `Files` |
| `KmSob` | the slabs of kernel objects |
| `KrlPool` | the kernel's heap, over `KmSob` and pages |
| `Heap` | the abstract specification of a heap: blocks apart |
| `MCKrlPool` | sizes and classes for TLC |
| `KrlPoolProofs` | the inductive invariant of slabs and page blocks, that nothing is kept, and that `KrlPool` implements `Heap` |
| `KrlSve` | handles, object nodes, use counts of devices, and the keyboard |
| `MCKrlSve` | `KrlSve` for TLC |
| `KrlSveProofs` | handles, nodes and use counts agree between any two steps; what a read of the keyboard returns |

### KrlSched: how the code maps to the model

Each variable is the field of that name (`tdl_lsth`, `tdl_curruntd`, `tdl_nr`,
`sda_currtd`, `td_stus`, `wl_list`, `sem_count`, ...). Lists are sequences, a
`list_del` of a node on an unknown list is `Unlink` on all of them.

What is not a field is the *rest of the computation* of each thread. When a
thread is interrupted or leaves the CPU inside a kernel function it later
continues there; this continuation lives on its kernel stack. `td_kstk[t]` is
that stack, one entry per call still pending:

| entry | stands for | executed by |
|---|---|---|
| `down s` | `krlsem_down` at `start_step` | `DownTake`, `DownWait` |
| `allup s` | the loop of `krlwlst_allup` in `krlsem_up`, interrupts off | `WakeOne`, `WakeDone` |
| `setflgs` | `krlsched_set_schedflgs` at the end of `krlsem_up` | `SetFlgs` |
| `chkneed` | `krlsched_chkneed_pmptsched` at the end of an interrupt | `ChkNeed` |
| `exit` | `krlsched_exit` that has tested `tdl_nr` and not yet taken the lock | `ExitDel` |
| `select` | `krlschedul` that has not called `krlsched_select_thread` yet | `Select` |
| `switch n` | `krlschedul` that has chosen `n` and has not switched yet | `Switch` |

An empty stack is a thread that executes its own code, where it may call the
kernel (`CallDown`, `CallUp`, `CallExit`, `CallNewThread`; the idle thread:
`IdleLoop`). `TimerIrq` and `KeyIrq` push the entries of a handler on whatever is
running. `died` is `hal_sysdie`, which prints and spins.

`IrqInWindow` selects whether an interrupt may arrive at an entry `switch n`,
between `krlsched_select_thread` (krlsched.c:266) and the `cli` in
`save_to_new_context`. In the code it may: see the findings. TLC checks the modes
apart because most invariants can be lost after such an interrupt; what exactly it
takes to lose them is proved with interrupts anywhere (see the proofs).

The counters (`tdl_nr`, `sda_threadnr`, `wl_tdnr`) are unsigned: `Incr` and `Decr`
wrap at `UINT_MAX`. `krlsched_exit` tests `tdl_nr` with interrupts on and counts
down later (`CallExit`, then `ExitDel`); nothing tests `sda_threadnr`.

Abstracted: registers and stacks themselves (a switch changes `sda_currtd`), the
contents of handlers other than the tick and the keyboard, `krlsem_set_sem` and
`krlwlst_up` (no callers after boot), creation failing for lack of memory (it
changes no scheduler state). `CallNewThread` is called with any priority, as
`krlnew_thread` allows; today's callers pass `PRITY_MIN`.

### MemDivMer: how the code maps to the model

Every page has a descriptor `msadsc_t`; the model keeps what the allocator reads
of it: `mf_marty` and the address `paf_padrs` as constants, `mf_olkty`,
`md_odlink` and `mf_uindx` as variables. A page is its index in the array of
descriptors; `paf_padrs` may jump from one page to the next, which is how the
array describes a memory with holes. An area has a free list `af_frelst` and its
count `af_fobjnr` per block size, its page counts and its lock.

| code | actions |
|---|---|
| `mm_division_pages` (kernel memory) | `DivisionPages`, then `DivSplit` for every turn of the cutting loop, then `DivDone` |
| `mm_divpages_procmarea` (pages of processes) | `DivProc`, or `ProcEmpty` and then `DivFallback` or `NoPages`; then as above |
| `mm_merge_pages` | `MergePages` up to the lock; `MergeStart` under the lock up to the joining loop; `MergeJoin` for every turn of the loop; `MergeDone` |

`ma_lock` is held from the choice of the block to `DivDone`, and from
`MergeStart` to `MergeDone`; callers in different areas interleave within these
sections, callers in one area between them. `call` has what a caller knows on its
way: the block in its hands and the size asked for. `died` is `system_error`.

Abstracted: a list is the set of its blocks, so the model takes any block where
the code takes the first one or the first that fits (what the properties say
holds for each choice); `paf_alloc` changes with the step of `mf_uindx` from and
to 0 and is not a variable of its own. A caller gives back a run that it holds,
once, and names the number of pages it was given, as the callers in the kernel
do; `MergePages` therefore takes its run from `held`. The memory at boot is any
map allowed by `BootAssumption`, which is what `init_memarea` leaves behind: free
blocks apart from each other, without holes, in one area each, with no two
neighbours of one size but the largest. The two functions of `DMF_MAXDIV`
have no caller in the kernel and are left out.

### PageTable: how the code maps to the model

`hal/x86/halmmu.c` has every function three times, for `sdirearr`, `idirearr` and
`mdirearr`; the model has each once, with the level as a parameter. A table is
named by its place: `Obj[k]` are the possible tables of level `k`, `Obj[4]` the
virtual pages, and `up[k]` gives the table above. `dire[m][k][n]` is the entry
that names table `n` (or, at level 4, the page mapped), `mud_dirhead[m][k]` the
list `mud_tdirhead` ... `mud_mdirhead`, `mud_tdirearr[m]` the root.

| code | actions |
|---|---|
| `hal_mmu_init` | `MmuInit` |
| `hal_mmu_transform` | `MmuTransform`: tables on the way down, the entry, or the labels `untf_mdire`, `untf_idire`, `untf_sdire` when no page is left for a table |
| `hal_mmu_untransform` | `MmuUntransform`: the entry, and the tables that are empty now |
| `hal_mmu_load` | `MmuLoad` |
| `hal_mmu_clean`, then `kmsob_delete` of the `mmadrsdsc_t` | `MmuClean` |

An operation runs under the lock of its address space with interrupts off and is
one step. The entries of a table are kept under its place and not under its
page: that is right as long as no page is two tables, which is the first part of
`PagesPartition`. Only the half of the table for programs is modelled; the other
half is copied from the kernel's table and never changes. Which page the
allocator picks does not matter and is fixed by `CHOOSE`. The fields
`mud_*dirmsanr` are only printed. In the kernel `del_mmadrsdsc` is called for
address spaces that were never loaded; here for any that is not in `cr3`.

### VirMem: how the code maps to the model

`VirMem` is the layer above the two before it: frames come from an allocator that
is a set (`free`; what `PageRuns` promises of `mm_divpages_procmarea` for one
page), the page table is a function (`mapped`; what `PageMap` promises of
`hal_mmu_transform` and `hal_mmu_untransform`), and the slabs behind
`kmsob_new` are the finite sets `Kmvd` and `Box`. Addresses are counted in pages.

| variable | in the code |
|---|---|
| `vs_list`, `vs_currkmvdsc` | the fields of `virmemadrs_t`, per address space |
| `kva` | `kva_start`, `kva_end`, `kva_maptype`, `kva_kvmbox` of a descriptor; `NULL` while the slab has it |
| `kbm_kmbhead`, `kbm_cachehead`, `kmb_cont`, `kmb_msalist` | the lists of `kvmemcboxmgr_t`, and the count and the frames of a box |
| `cr2` | the register; 0 when no handler is on its way to read it |
| `fault` | the address that the thread of an address space has faulted at, while it is in its handler |
| `stus` | how far the thread is; the error that `system_error` has stopped it with |
| `blocks` | no field of the kernel: what the program was granted and has not given up |

| code | actions |
|---|---|
| `new_mmadrsdsc`, `kvma_inituserspace_virmemadrs` | `NewMmadrsdsc` |
| `krlthread_execvl` | `Execvl` |
| `krlsve_mallocblk` to `vma_new_vadrs_core` | `Mallocblk` |
| `krlsve_mfreeblk` to `vma_del_vadrs_core` | `Mfreeblk`, with `DelWhole`, `DelEdge` or `DelMiddle` for the four cases of the code |
| the CPU raises a page fault | `Touch` |
| `hal_fault_allocator` to `vma_map_fairvadrs_core` | `FaultMapped`, and `FaultNoArea` (`-EFAULT`), `FaultNoBox` (`-ENOOBJ`), `FaultNoMem` (`-ENOMEM`) |

Every operation holds `vs_lock` with interrupts off and is one step. The fault
handler is entered with interrupts off (an interrupt gate), enables them, reads
CR2 and then takes the lock: `Touch` is the fault, the `Fault...` actions are the
rest. With `PreemptInFault` another thread may run between the two, as it may in
the code; without it, not. `FaultNoBox` stops everybody, because `system_error`
in `knl_get_kvmemcbox` is called with interrupts off; in the other failures it is
called with interrupts on and only that thread stays in it.

Programs are modelled as well-behaved: they touch and give up what they were
granted, a block, a part of one, or the pages granted at creation. That is what
the properties quantify over; `vma_del_vadrs` refuses a request that no single
area covers, without a change. Requests that fail without a change are no
action. `RunsEarly` lets a new thread fetch its first instruction before its
creator has called `krlthread_execvl` (`TouchEarly`), as it may in the code.
Abstracted: `kva_limits`, always 0; `vs_kmvdscnr`, `vs_endkmvdsc` and the
other fields that nobody reads; page contents with `vma_full_textbin`; which
descriptor the slab gives out (`Kmsob`) does not matter. `del_mmadrsdsc` has no
caller but the failure path of thread creation, which is not modelled.

### Rfs: how the code maps to the model

The device is a bitmap, a root directory and a block per file. Each function of
`drivers/drvrfs.c` copies a block into a buffer (`get_rootdirfile_blk`,
`get_bitmapblk`), works on the buffer and copies it back
(`del_rootdirfile_blk`, `del_bitmapblk`), also when it only looked. There is no
lock and interrupts are on, so a step of the model is one such copy with what is
done to the buffer, and the buffers `dirbuf` and `bmpbuf` are variables of each
client. `finode` is the buffer `on_finode` that an open file keeps from
`rfs_openfileblk` to `rfs_closefileblk`.

| code | actions |
|---|---|
| `rfs_new_file` | `NewFile` and `NewChk` (`rfs_chkfileisindev`), `NewBlk` and `NewBmp` (`rfs_new_blk`), `NewDir`, `NewFileBlk`, `NewPut` (`rfs_new_dirfileblk`) |
| `rfs_del_file` | `DelFile`, `DelBlk` (the entry is looked for, the bitmap read), `DelBmp` (the bitmap written), `DelPut` (the directory written) |
| `krlsve_core_open` of a file | `OpenFile`, `OpBlk`, `OpPut`; a file that is not found ends in `hal_sysdie` |
| `rfs_write_file`, `rfs_close_file` | `WriteFile`, `CloseFile`, one step each: they copy one block |
| `new_buf` returns NULL | `NewBlkNoMem` (nothing has changed), `NewDirNoMem` (the block taken is lost), `NewBmpNoMem`, `DelNoMem`, `OpenNoMem` (`hal_sysdie`); `OpBlk` without a buffer for the file |

`Serial` (one client at a time is in the driver) is what the kernel does not
ensure: `rfs` checks with it what one client leaves to the next, `rfs_race` shows
what is lost without, and the theorems need no such constant. A file may be
deleted while it is open: the services have no other way, `krlsve_core_ioctrl`
deletes by handle; the driver's test closes the file first, and the model does
both. The handle then outlives the file. `on` of `Files` says which file a handle
is on, the refinement maps it to the file that has the block of the handle
(`HandleOf`): none after the deletion, and the next file created in that block
later, which a write or a close then overwrites.

`lost` is a history variable for the blocks that failed creations keep: when the
directory is full (drvrfs.c:600) and when there is no memory for it (drvrfs.c:592).
Writing the new block (drvrfs.c:618) cannot fail, as `create_bitmap` marks the
blocks behind the end of the device. A thread in `hal_sysdie` (`died`) spins with
interrupts on; the others go on.

Abstracted: the superblock, which never changes after formatting
although it is copied back like the rest; buffers refused where the operation
then returns with nothing changed; the contents of a file are the sequence of
writes to it, each marked with the
name of the file; reads, which return what the reader's buffer holds. A client
has at most one file open and leaves the files of others alone: sharing a file
is nothing the driver promises.

### KmSob, KrlPool: how the code maps to the model

`kmsob_new` and `kmsob_delete` hold `ks_lock` with interrupts off from their
first look at the classes to their last and are one step each (`KmsobNew`,
`KmsobDelete`). A descriptor `kmsob_t` is named by its first page; addresses are
numbers, because the layout of a slab, a descriptor followed by objects, with a
smaller descriptor in the extensions, is what `scan_fadrskmsob_isok` computes
again when an object comes back. `runs` is the page allocator, which gives out a
power of two of pages (`PageRuns` is what it promises). `Krlnew` is an object of
a slab or a block of pages filed in `msalsthead`; `Krldelete` takes it back, and
`Refused` is `krldelete` returning FALSE: the block is then in `lost`, in nobody's
hands and still allocated. Filing a block and taking it from its list are
sections of their own in the code (`mp_lock`); only the caller knows the block in
between, so that they are one step with the call of the page allocator. `live` is
what callers hold: they give back what they were given, once, with the size they
asked for.

Abstracted: lists of equal things are sets; `so_mc` and `so_mextlst`, two lists of
the same extensions, are one; the error path of `retn_mscidx` cannot be reached
with at most 16 pages; the debugging functions at the end of `kmsob.c`.

### KrlSve: how the code maps to the model

A service runs with interrupts on and each function it calls takes and drops a
lock of its own; `pc` is where a thread is between two of them.

| code | actions |
|---|---|
| `krlsve_core_open` of a device | `Open` (`krlnew_objnode`), `OpenHand` (`krlthd_add_objnode`, or the clean-up at `res_step`), `OpenDev` (`krldev_inc_devcount`) |
| `krlsve_core_close` | `Close`, `CloseCheck` and `CloseDec` (`krldev_dec_devcount` tests the count before it takes the lock), `CloseDel` |
| `krlsve_core_read`, `uart_read` | `Read`, `ReadDown` (`krlsem_down`), `ReadFirst` and `ReadRest` (the buffer is copied while the handler may write it) |
| `uart_handle` | `KeyIrq` |
| `krlsve_core_exit_thread` | `Exit`: handles stay as they are |

`Node` is the memory for object nodes, which may run out. Devices are registered
at boot and stay. Keys are numbered, so that one can tell the last one; the
semaphore is a counter here, and `KrlSched` says how threads wait on it.

## Runs: what TLC checks

| run | configuration | checks |
|---|---|---|
| `sched` | 3 threads of one priority, 1 semaphore, every tick ends the slice, stacks to depth 2, no interrupt in the window, fairness | `TypeOK`; `NeverDies`: no counter check fires; `ListsMatchStatus`; `RunningIsCurrent`; `NeverResumeBlocked`; `RoundRobin`: a thread on the most urgent run list gets the CPU; `SemIsLive`: the semaphores implement `CountingSem` with its liveness |
| `sched_open` | 2 threads, 2 priorities, 2 semaphores, counters that wrap at 2, interrupts in the window, safety only | `LinkedOnce`: no node is linked twice; `NoLostWakeup`; `SemIsSafe`: the semaphores implement the safety part of `CountingSem` |
| `sched_window` | one thread, interrupts in the window | violation of `NeverDies` |
| `mem_divmer` | 7 kernel pages with a hole behind the fourth, 1 process page, sizes 1, 2 and 4, 2 callers | `TypeOK`; `PagesPartition`: no page is lost or in two pieces; `RunsContinuous`; `NoFreeNeighbours`: joining goes as far as it can; `CountsMatch`; `NeverHalts`: no check of a descriptor fails; `HeldUntouched`; `ImplementsPageRuns` |
| `page_table` | 2 address spaces, 4 virtual pages in 3, 2 and 1 tables of the three levels, 7 pages | `TypeOK`; `Reachable`; `NoEmptyTable`: also after a mapping that failed half way; `PagesPartition`: no page is shared, lost or off its list; `CpuHasTables`; `ImplementsPageMap` |
| `vir_mem` | one program, 6 pages, requests of 1 or 2 pages, 5 descriptors, 2 boxes, 2 frames | `TypeOK`; `AreasOrdered`; `BoxesCounted`: counts of shared boxes; `FramesKept`: no frame is lost; `BlocksCovered`: what was granted can be used and given up; `FaultsAnswered`; `ImplementsPrivMem` |
| `vir_mem_open` | two programs, 4 pages each, 8 descriptors, 2 boxes, 2 frames, preempted before CR2 is read, run before their program is there | `FramesApart`: no frame is behind two pages or in two boxes |
| `vir_mem_cr2` | as `vir_mem_open`, program there in time | violation of `FaultsAnswered` |
| `rfs` | two clients, two names, 3 blocks, 3 directory entries, 2 writes to a file, buffers refused anywhere, files deleted open or closed, one client in the driver at a time | `TypeOK`; `DirMatchesBitmap`: no block is shared, and none lost but by creations that failed behind `rfs_new_blk`; `ImplementsFiles` |
| `rfs_race` | as `rfs`, clients in the driver at the same time: as the code is | violation of `CreatedIsThere` |
| `krl_pool` | 5 pages of 8 units, objects of 2 and 4 units, blocks of 2 and 3 pages, a list for each number of pages up to 4, 4 blocks at a time | `SlabsConsistent`: counts and free lists of slabs; `NothingKept`: pages are given back; `ImplementsHeap`: no two blocks overlap |
| `krl_sve` | 2 threads with 2 handles, keyboard and one more device, 3 nodes, 2 keys | `HandlesAccounted`: nodes, handles and counts agree at every step; `LastKeyRead`: the last key is read, whole |

**Bounds.** Three threads are the least that show the interplay: one that runs,
one parked or ready, one that waits. `sched` has one priority, since with two a
busy thread starves those less urgent and the semaphores are not live; the two
priorities of `sched_open` exercise the choice of the most urgent one and leave
the other parked, and the theorems cover any number of both. Two threads are
enough there for a stale choice, and with `UINT_MAX = 2` the counters wrap in both
directions.  `MaxKstk` bounds how
deep interrupts nest; a nested interrupt adds the same entries as the first, and
depth 2 has an interrupt on top of an interrupted `krlsem_down`. `MaxCount = 1` gives both values of
the test in `krlsem_down` and makes waiters compete. `TDRUN_TICK = 0` makes every
tick end the slice, which has the most preemptions. The semaphores of `sched_open`
are interchangeable: symmetry, in runs without liveness only.

For the pages: three sizes are the least in which a block is cut twice and joined
twice; a block of four pages has descriptors in its middle that say nothing of
it any more. The hole lies between two blocks that would otherwise be joined;
the process page makes the process area run dry, so that a page comes from the
kernel area and has to go back there. Two callers put one in a locked section
while the other tests a run to be given back; with three, two may work in the two
areas while the third does. Callers are interchangeable: symmetry. `MaxAsk` is
the size of the largest block; a larger request is refused by `CanDiv`.

For the page tables: two pages share a `mdirearr`, a third is under the same
`idirearr`, a fourth only under the same `sdirearr`, so that a table is emptied by
its last entry, or is not, at each level. A full address space takes seven pages,
two take fourteen: with seven a mapping fails at each of the three levels.

For virtual memory: six pages have an area between two others that can be cut
in its middle and cut again (three areas with one box), extended when what is
behind it has gone, and started anew in a hole. `MaxSize` bounds the pages asked
for at a time; blocks longer than that come from the areas that grow. Five
descriptors let the cut in the middle fail for want of one, two boxes and two
frames run out, and `CacheMax = 1` has boxes both cached and given back. In the
runs with two programs (`vir_mem_open`, `vir_mem_cr2`) each gives up only pages of its heap (`FreesAll`), which
is where requests come and go; with one program any page. Address spaces, boxes
and frames are interchangeable: symmetry. Descriptors are not, since they are
chosen by `CHOOSE`.

For the file system: two names and two clients let one delete or create between
any two steps of the other; three directory entries, which deletion does not give
back, let the directory fill up with files created and deleted in every order, and
three blocks run out, are lost, or are handed out again, to a file created while a
handle of the one before is still open. Two writes tell a stale buffer from a fresh
one. Clients and names are interchangeable: symmetry. For the heap: a page of 8 units with descriptors of 4 and 2 units
leaves one object in the first pages of a slab and two in an extension, the last
one next to the end that must stay free; class 2 takes two pages at a time; five
pages hold a slab with an extension beside blocks and run out; `RunSizes` are the
powers of two that fit into them; `LiveMax` is
enough for a slab with two extensions' worth of objects. For the handles: three
nodes run out before four handles do, so that both failures happen; with two keys
one overtakes the other.

**Fairness** (`FairSpec` of `KrlSched` and `Spec` of `KrlSve`; the other modules
check safety only, there a request that finds nothing is refused and nobody
waits). The CPU executes: weak fairness of the kernel steps of
the thread on the CPU. The clock ticks: strong fairness of `TimerIrq`, because the
interrupt controller latches a tick while interrupts are off. A thread in
`krlsem_down` that is given the CPU slice after slice with a unit available takes
it: a slice is `TDRUN_TICK` ticks, the test and the decrement a few instructions;
strong fairness of its `DownTake`. Threads are not forced to call, exit or
release anything, and keys need not be pressed. In `KrlSve` a service that was
entered goes on (weak fairness of each thread's steps, which `RoundRobin` of
`KrlSched` justifies), and when a unit of the keyboard's semaphore stays available
one of the readers takes it (`SemIsLive`), not any particular one.

**Deadlock** is checked except where the system may really stop: in the two runs
with interrupts in the window and in the runs of the file system (`hal_sysdie`),
in those of virtual memory (`system_error` stops threads) and in `krl_sve` (all
threads have exited and the keys are pressed).

## Proofs: what TLAPS proves

For every set of threads and semaphores, any number of priorities, any slice and
any nesting, with interrupts everywhere; the assumptions are those of
`SchedAssumption`: finitely many threads, no more than a counter can count.
`SpecH` is `Spec` with a history variable, `preempted`, that becomes TRUE when a
`krlschedul` chooses while another one has chosen and not switched.

| theorem | says | under |
|---|---|---|
| `TypeCorrect` | `Spec => []TypeOK` | |
| `NoWakeupLost` | `Spec => []NoLostWakeup` | |
| `SemaphoresAreSafe` | `Spec => SemIsSafe`, the refinement of `CountingSem` | |
| `NodesLinkedOnce` | `Spec => []LinkedOnce` | |
| `SafeAlways` | `SpecH => [](preempted \/ SInv)` | |
| `SchedulerNeverDies`, `ListsAlwaysMatch`, `CountsAlwaysMatch`, `RunningAlwaysCurrent` | the same for `NeverDies`, `ListsMatchStatus`, the counts beside the lists, `RunningIsCurrent` | |
| `BlockedNeverResumed` | no step gives the CPU to a blocked thread while `~preempted`; `NeverResumeBlocked \/ <>preempted` | |

*The argument for the scheduler.* `TypeOK` is not inductive: `Switch` gives the CPU to the argument
of the top entry, and `DownWait` links the running thread, which must not be the
idle one. `TInv` adds that the idle thread has no `down` or `exit` entry and that
either is the bottom of its stack. That counters keep their range says little, since
they wrap; that they never do wrap is part of `SInv` (`CountsMatchLists`), and false
after a preemption. `NoLostWakeup` follows from `TInv` and the shape of
`RaiseCount`: the count only rises together with an `allup` on top of the stack, interrupts are
off until that loop has emptied the list, and `DownWait` enlists only when the
count is zero. That argument does not depend on which thread the scheduler
picks, so it survives interrupts in the window, as does the refinement of
`CountingSem`.

`SInv` is the invariant of the scheduler proper. Beside `TInv` it says: every
list is free of duplicates; the lists of different priorities and semaphores hold
different threads; a parked thread is on no list; membership is equivalent to
status; counts equal lengths; one `switch n` at most is on all stacks together, on that of the thread on the CPU,
and its `n` is runnable and current at its priority. Interrupts in the window do no
harm by themselves: they push entries on top of the `switch`, wake threads, which
keeps `n` runnable, and return. Only a `select` on top of the `switch` breaks the
last part (`PreemptsChosen`), and from then on nothing of it need hold. So the
theorems say what the code does in every mode, and what a repair has to rule out.

What survives it is `OInv` of `KrlSchedProofs`: no list has a node twice, and a
thread has one place in all lists together. It does not say which place, so it
needs no counter to be right, and of the status only that a thread never created is
nowhere. `Unlink` takes a node off whichever list it is on (`list_del` does not
ask), the exit list included, and what is linked anew has just been taken off its
list, was current or is new. The property looks at the first
positions of a list, one more than there are threads, for which these must be
finitely many.

For every memory map that satisfies the assumptions of `MemDivMer` (any number of
pages, holes, areas, block sizes, callers):

| theorem of `MemDivMerProofs` | says |
|---|---|
| `Safety` | `Spec => []IInv`, the inductive invariant |
| `Partition` | `Spec => []PagesPartition` |
| `Continuity` | `Spec => []RunsContinuous` |
| `Coalesced` | `Spec => []NoFreeNeighbours` |
| `Survival` | `Spec => []NeverHalts` |
| `Untouched` | `Spec => HeldUntouched` |
| `Fits` | `Spec => RunFits` |
| `Implements` | `Spec => ImplementsPageRuns`, the refinement of `PageRuns` |
| `CountsAgree` | `Spec => []CountsMatch` |
| `TypeCorrect` | `Spec => []TypeOK` |

*The argument for the pages.* A piece of memory is a free block, a run given out,
or the block in a caller's hands. `IInv` says that the pieces tile the memory
free at boot (`Tiles`), that each is described by the descriptors of its first and
last page (`Described`), and what a caller in a locked section may rely on
(`CallOk`). Three parts are needed beyond the properties. The use counts in the
*middle* of a piece are zero: a cut makes a middle page the first page of a block
and checks its count. While a block is being cut, the lists between its size and
the size asked for are empty: that is why the halves, put on these lists without
a look for neighbours, never leave two free neighbours apart
(`NoFreeNeighbours`). And a run between its test and the lock is still described
as a run in use. A step replaces one or two pieces by others that cover the same
pages; `Tiles` and `Described` are proved once for such a replacement and then
used for every action. The refinement needs one more invariant, `LInv`: whoever
has the lock of an area is cutting or joining a block of that area, so that the
pages on their way back (`Pending`) change only with its own steps.

*The counts.* `CountsMatch` adds up cardinalities over the areas, and a sum over a
set is no step-by-step matter. `CInv` says it without a sum: an area's free pages
are the pages of the area in no run (`LeftOf`), and the machine's are all such
pages (`Left`) but for those that are being joined, which `PendSet` holds as a set of
pairs rather than as a sum. A step changes `Left` and `LeftOf` by the pages of one run of one area. That the
counts stay natural numbers, which is what `TypeOK` says beyond the shape of the
variables, then follows: they are cardinalities.

For any number of address spaces, pages, and entries per table:

| theorem of `PageTableProofs` | says |
|---|---|
| `TypeCorrect`, `AlwaysReachable`, `NeverEmptyTable`, `PagesKept`, `CpuSafe` | `[]` of `TypeOK`, `Reachable`, `NoEmptyTable`, `PagesPartition`, `CpuHasTables` |
| `PageTableImplements` | `Spec => ImplementsPageMap`, the refinement of `PageMap` |

*The argument for the page tables.* The five invariants are inductive together
(`IInv`), but not step by step: on the way down a new table is empty, on the way
up the table above one that has gone may be. The lemmas follow one tree through
an operation: `TreeOK` holds throughout, `EmptyOnly` names the one table that may
be empty at that point, `Frame` says that the tree takes its pages from the
allocator and returns them to it (`Reserve`) and does not touch what is mapped.
When the way up has reached the root, `EmptyOnly` has become `NoneEmpty`. The
other trees are untouched because their pages are not in `Reserve`. For the
refinement, `Reachable` makes the walk of the processor end at the last entry
(`WalkIs`), so that the map is the last level of the tree.

For any number of address spaces, descriptors, boxes, frames and pages, and any
size of the areas (`VirMemAssumption`):

| theorem of `VirMemProofs` | says |
|---|---|
| `TypeCorrect`, `AreasAlwaysOrdered`, `BoxesAlwaysCounted`, `FramesAlwaysApart`, `BlocksAlwaysCovered` | `[]` of `TypeOK`, `AreasOrdered`, `BoxesCounted`, `FramesApart`, `BlocksCovered` |
| `FramesAlwaysKept` | `SpecH => [](missed \/ FramesKept)` |
| `FaultsAlwaysAnswered` | `SpecH => [](missed \/ early \/ FaultsAnswered)` |
| `Implements` | `SpecH => ImplementsPrivMem \/ <>missed`, the refinement of `PrivMem` |

*The argument for virtual memory.* `IInv` is one induction for every mode; the
code as it is has both windows, and the first five theorems hold of it. Its parts
are the properties without their indices: `AInv` speaks of the areas on a list
(`On`), `FInv` of the box that an area has where a page is (`BoxAt`), `BInv` of
blocks within areas. It adds that a thread that does not exist has no areas and
that a new one has none where its program will be (`NInv`), which is what makes a
page touched early a page without a frame. A step is described twice: by what it
does to the list (`InsertSeq`, `WithoutSeq`, and from them `AreaExtended`,
`AreaInserted`, `WholeGone`, `EdgeGone`, `MiddleGone`), and by what that means for
pages (`Added`, `Removed`, `Placed`, `Filled`); frames and blocks are then argued
about once per meaning, not once per case of the code. Counts need that the area
found is the only one with the page (`OneArea`) and that the slab's descriptors
are finitely many. `FramesApart` survives a handler that serves the wrong
address, because the frame it puts there is a free one and goes to the box of the
area it found; what is lost is the frame that was there.

The other three theorems close no window. `SpecH` is `Spec` with two history
variables that no action reads: `missed` is set by a handler that acts on an
address in CR2 its thread has not faulted at, `early` by a thread that runs before
its program is there. `missed` is exactly the damage that the window of
halintupt.c:184-187 can do, a good deal less than a preemption there: a handler
that is preempted and still finds its own address is covered by the theorems. `GInv`
says, in every mode, that the page of each pending fault has no frame, also while
handlers of other programs run; a handler that reads its own address therefore
fills an empty page, and `FramesKept` and the refinement follow. For
`FaultsAnswered` each pending address must be in an area of its thread
(`AInArea`), which a program that runs early does not have.

For any number of clients, names, blocks and entries of the directory:

| theorem of `RfsProofs` | says |
|---|---|
| `TypeCorrect` | `Spec => []TypeOK` |
| `Agreement` | `SpecH => [](overlapped \/ DirMatchesBitmap)` |
| `CreatedStays` | `SpecH => [](overlapped \/ CreatedIsThere)` |
| `Implements` | `SpecH => ImplementsFiles \/ <>overlapped`, the refinement of `Files` |

*The argument for the file system.* `TInv` adds to `TypeOK` that a block named by
an entry, of the directory or of anybody's copy of it, has been written; that
makes the buffer of an opened file have its type, in every mode. The other three
do not assume that clients come one after the other. `SpecH` is `Spec` with a
history variable, `overlapped`, that becomes TRUE when a client enters the driver
(begins an operation, or writes or closes) while another one is inside; no action
reads it. Until then `SInv` holds, which says what the copies are worth: a client
inside is alone, its copy of the
directory is the directory, its copy of the bitmap the bitmap (`PhaseOK`), and
the blocks in use are those of the entries plus or minus the one of its
operation (`Used`, by where it is), and those in `lost`. Once two are inside the
copies are worth nothing, and `rfs_race` shows what follows. With `Serial` nobody
ever overlaps. The directory holds no name and no
block twice (`UniqueIn`), and exactly the files created and not deleted
(`MadeOK`), which belong to one client each. For the refinement, a handle is on a
file exactly if it has its block (`HandleIs`), whatever became of the file it was
opened for; a block that a creation takes is no file's, so that the handles that
have it are on no file (`NewPutFiles`). The
assumptions about `NULL` say that it is none of the values it stands beside.

For any memory, classes of objects, sizes of pages and descriptors, number of blocks
in use, and `PHYMSA_MAX` of at least 2 (512 in the code; `KmSobAssumption`,
`KrlPoolAssumption`):

| theorem of `KrlPoolProofs` | says |
|---|---|
| `PoolInvariant` | `Spec => []IInv`, the inductive invariant |
| `SlabsAlwaysConsistent` | `Spec => []SlabsConsistent` |
| `NothingEverKept` | `Spec => []NothingKept` |
| `PoolIsHeap` | `Spec => ImplementsHeap`, the refinement of `Heap` |

Of the lengths of runs (`RunSizes`) the proof needs that each is at least twice the
one before, as powers of two are: then at most one of them is what the allocator
rounds a request up to (`RelpnrIs`).

*The argument for the heap.* Everything rests on who owns what. A run of pages has
one owner, a slab or a block too large for a slab (`SlabRuns`, `BlockRuns`,
`AllOwned`); an object of a slab is on its free list or is one caller's block
(`SmallInv`, `FreeInv`). Neither property is inductive without it: that a block
given back is found in the slab it came from, and in no other of the class, needs
`ClassInv` (one slab per class, with objects of that class); that destroying a slab
does not free the pages of another needs their runs apart; and that its objects can
be counted needs those of its runs not to meet (`Apart`, and `Objects` within
`Vstat` and `Vend`). `BlockRuns` says of a block of pages that its run is at least as
long as asked for; `LostInv` that it is on the list of the number *given*. From
both, `krldelete` refuses exactly the blocks whose number asked for is another one.
For the refinement, two blocks are in different runs, in one run at different
objects (`Objects` are a multiple of their size apart), or in two runs of one slab.

For any number of threads, devices, nodes, handles and keys:

| theorem of `KrlSveProofs` | says |
|---|---|
| `HandlesAlwaysAccounted` | `Spec => []HandlesAccounted` |
| `CloseAlwaysCovered` | a close finds the count of its device at one or more, when it tests it and when it decrements it |
| `ReadsReturnKeys` | both parts of what a read returns are keys that were pressed, the second not older than the first |

*The argument for handles.* The property counts places of a node and handles of a
device; `IInv` says for each node that it stands in one place (`PlaceInv`), for a
thread inside a service that it has the node of its handle (`HandInv`), and for a
device that its count is the number of the slots `InCount` names (`CountInv`), so
that a step adds or removes one element of that set. `krldev_dec_devcount` tests the
count before it takes the lock. The test is not stale when it is used, because the
handle being closed is itself counted until the decrement (`CloseAlwaysCovered`);
two threads in a close have two handles. `ReadsReturnKeys` needs that the
semaphore is never above the number of keys pressed: a reader that got a unit
finds a key in the buffer.

Only model-checked: `RoundRobin` and `SemIsLive` of `KrlSched` and `LastKeyRead` of
`KrlSve`. They are liveness properties under fairness, which rest on `ENABLED` and are beyond this
prover. The safety parts of the last two are proved (`SemaphoresAreSafe`,
`ReadsReturnKeys`). Every other property that a passing run checks is a theorem, of the code
in every mode or up to the event (`preempted`, `missed`, `early`, `overlapped`) that its
table names.

## Findings

* `sched_window` (krlsched.c:267). `krlschedul` keeps its choice in a local
  variable across a point where interrupts are enabled; in fact
  `krlspinunlock_sti` in `krlsched_select_thread` delivers the interrupt that
  arrived during the choice exactly there. If it preempts, the interrupted
  `krlschedul` resumes later with a stale `next` and switches to a thread that
  exits or waits meanwhile, or leaves one thread running while another is
  current; the counters then disagree with the lists and the next
  `krlsched_wait` or `krlsched_exit` ends in `hal_sysdie`.

* `vir_mem_cr2` (halintupt.c:187). `hal_fault_allocator` enables interrupts
  before it reads CR2. If the thread is preempted there and another one faults,
  CR2 has the other one's address. The handler then looks for that address in
  its own address space: not found, the program is stopped by the check
  `krluserspace_accessfailed(fairvadrs) != 0` of halintupt.c:189 although it
  touched only what it was granted; found and already mapped, the page gets a
  second frame and what was in the first is lost to the program. `vir_mem_open`
  shows that no frame gets behind two pages even so; the frame that was replaced
  stays in its box and `FramesKept` is false. The theorems say that reading the
  wrong address is the only way to that (`missed`).

* `rfs_race` (drvrfs.c:956). All functions of the file system, the look-ups too,
  write the copy of the root directory back that they made earlier. Two threads in
  the driver undo each other's creations and deletions; a file created
  successfully is gone, and opening it halts the machine.

Four more divergences were met while modelling. No run is kept for them; the
models contain each.

* krlsvethread.c:115. `krlnew_thread` puts the new thread on the run list;
  `krlthread_execvl`, which makes room for its program, comes after it with
  interrupts on. A thread that is given the CPU in between faults at its first
  instruction in no area and ends in the check of halintupt.c:189; so does one
  whose `krlthread_execvl` fails, as it stays on the run list. With `RunsEarly`,
  `FaultsAnswered` fails even without a preemption in the handler.

* drvrfs.c:493. A file is deleted through a handle and its block is given to the
  next file, but the handle stays open; a write or the close through it puts the
  old contents over the new file. `Files` says so in the open: `Create` may put
  handles that outlived their file on the new one. Where it may not, TLC finds `rfs`
  in violation after a creation, an opening, a deletion and a creation. The theorem says that
  such a handle reaches no other file.

* krlsveopen.c:122. Opening a file that does not exist calls `hal_sysdie`; the
  clean-up on the next line is never reached. The driver's own test
  (drvrfs.c:1225) expects an error. The thread stays in `died` of `Rfs`.

* krlpagempol.c:149. Blocks of pages are filed under the number of pages given, a
  power of two, and looked for under the number asked for. A block of three pages
  is refused by `krldelete` and stays allocated: it goes to `lost` of `KrlPool`.
  Today's callers ask for a power of two; `del_buf` of drvrfs.c halts the machine
  when `krldelete` refuses a block.

## What is not modelled

The components marked `not_modelled` in `PROJECT.json`: set-up of the CPU, the
interrupt controller and the platform, video output and the boot loader
(straight-line register writes that run alone); the vendored lwIP tree, which
the build does not link; user library and demo programs; the other snapshots of
the kernel; the Linux demos of lessons 31, 35 and 42; the interview exercises
and the notes. The remaining components are in the plan.

## Plan

In this order, most important first:

1. `KrlSched`, `CountingSem` and their proofs. Done.
2. `MemDivMer` with `PageRuns` and their proofs. Done.
3. `PageTable` with `PageMap` and their proofs. Done.
4. `VirMem` with `PrivMem`, in every mode, and their proofs. Done.
5. `Rfs` with `Files`, with files deleted while open and buffers refused, and their
   proofs. Done.
6. `KrlSve`: handles, nodes, use counts, keyboard, and their proofs. Done.
7. `KmSob` and `KrlPool` with `Heap`, and their proofs. Done.
8. Next: `MemArea`: the functions that carve up the memory map, against reference
   definitions.
9. Failing thread creation over `VirMem` and `KrlPool`.
