# TLA+ models of the Asterisk kernel core services

This directory holds TLA+ specifications of the kernel services under `src/kernel`. Each has a TLC configuration that checks it. The models are translated from the C source. `spec.md` is used only where the code that a provider calls is not under `src/`; the generic socket layer and the VFS core are two examples.

## 1. The system

| Part | Source | State | Operations | Interacts with |
|---|---|---|---|---|
| Unix-domain sockets | `unixsocket.c` | per socket: name, listening bit, `accept_queue`, `connection`, `buffer_in` FIFO, `disconnected`, `last_thread` | bind, listen, accept, connect, send, recv, close; `read_test_ready` (a read-only query), fs read/write forward to recv/send | threads (block in `TS_WAITIO`, resumed by peers), the generic socket layer (`socket.c`, fd table, teardown) |
| Shared memory | `sharedmemory.c` | `g_shm_list` of objects: node, name, length, physical page list, mapping records `(process, v_address, page_count)`, `marked_unlink` | create, open (finddir), ftruncate, mmap, unlink, `unmap_if_exists` (munmap), `unmap_for_process_all` (process exit), `destroy_by_name`, readdir | the vmm (frames, address spaces), VFS Files holding node pointers, processes |
| List / Stack / Queue | `list.c` | header `head`/`tail`; nodes `next`/`previous`/`data` from kmalloc | append, prepend, remove by node/first/last/value, find, index, count, is_empty, clear, destroy, clone; stack push/pop and queue enqueue/dequeue on top | used by every provider: the shm list, page and mapping lists, socket accept queues |
| FAT provider | `fatfilesystem.c` | volume table `g_mounted_block_devices[FF_VOLUMES]`; node children under a mount; FIL handles | mount, readdir, finddir (with path assembly), open/read/write/lseek/stat/close, `disk_*` callbacks | VFS mount, the FAT library, block-device nodes |
| System info fs | `systemfs.c` | `/system` tree; lazily rebuilt `/system/threads/<tid>` nodes | create_nodes, readdir/finddir, meminfo reads, thread-file read, `open_threads_dir` (rebuild) | the thread list, VFS Files on the thread nodes |
| Kernel init | `main.c` | none retained | `kmain`: hardware set-up, provider registration, initrd mount | all of the above, once, at boot |
| VBE structures | `vbe.h` | type declarations only | — | — |

### Hard behaviours

- **Socket scheduling.** Socket system calls run with interrupts off. Another thread runs only at the `enable_interrupts(); halt()` pairs: in the accept, send and recv loops, and in the connect spin. A blocked thread is woken only by a `thread_resume` that some other thread issues on the socket's single `last_thread`.
- **Shared-memory lifetime.** The lifetime is a reference count in disguise. An object dies when it is marked for unlink and has no mapping records. Unlink, munmap and process exit can each be the last step.
- **List nodes.** Nodes are reused through kmalloc/kfree, so only the `memset` in append/prepend protects a new node from stale links.
- **FAT path assembly.** Paths are built backwards in a fixed 128-byte buffer.
- **Stale sysinfo nodes.** Thread nodes are freed and rebuilt while Files may still point at them.

## 2. Modules

| Module | Models | Kind |
|---|---|---|
| `UnixSocket` | `unixsocket.c` plus the socket-layer duties of spec 4.6 | component, threads interleaved |
| `MC_UnixSocket` | model values, initial fd ownership | TLC instance |
| `SharedMemory` | `sharedmemory.c` with the vmm reduced to a frame pool and per-process mappings | component, processes interleaved |
| `MC_SharedMemory` | model values, the ftruncate lengths, process symmetry | TLC instance |
| `ListSpec` | what a List promises: a sequence and each call's return value | abstract specification |
| `LinkedList` | `list.c` at pointer level, shown to implement `ListSpec` | component + refinement |
| `MC_LinkedList` | model values | TLC instance |
| `FatPath` | `fatfilesystem.c` mount, checkMount, disk_read, finddir, readdir and stat, with the 128-byte path buffer byte by byte and the FAT library answering from a constant volume | component, calls in sequence |
| `SystemFs` | `systemfs.c`: the threads directory at pointer level, thread-file and meminfo opens and reads, the VFS Files on the nodes | component, calls and scheduler events interleaved |
| `MC_SystemFs` | model values, File symmetry | TLC instance |
| `MC_FatPath` | names of chosen lengths, the volume tree, two devices, node symmetry | TLC instance |

### UnixSocket

**State.** The variables are the socket fields named in the table above. `alive` is the socket list, and `holder` is which threads hold an fd on each socket. Per thread, the model keeps:
- `pc`: the call in progress;
- its arguments, `sock` and `len`;
- `tstate`: `RUN` or `WAITIO`;
- `reason`: `state_privateData`.

**Auxiliary variables.** `sentTo` and `recvFrom` count the bytes that send and recv reported. `connects` bounds the enqueued connects.

**Actions.** There is one action per atomic stretch of code:
- call entry with its early returns: `Bind`, `Listen`, `Accept`, `Connect`, `Send`, `Recv`, `Close` (which ends with `unixsocket_closing`, `Closing`: the freed UnixSocket takes the name with it);
- one pass of each blocking loop: `AcceptTry`, `ConnectDone`, `SendTry`, `RecvTry`.

A pass either returns, or sets `WAITIO` and yields. `unixsocket_fs_read` and `unixsocket_fs_write` only call recv and send. They are taken as the `Recv` and `Send` actions. Whether `read()` on the fd also records `last_thread` is decided in `socket.c`, which is not under `src/`. PROJECT.json lists this among the hazards no property covers.

**Data abstraction.** A FIFO entry stands for one byte. It records the socket that sent it, which is all the byte-conservation property needs.

**Taken from spec 4.6, because socket.c is not under `src/`:**
- `Enter`: every socket call records `last_thread`;
- `CanCall`: fd lookup;
- `Close` and its `Disconnect` step: peer marked disconnected, its connection cleared, its `last_thread` resumed.

**Bind's name.** `unixsocket_bind` checks the raw address: it must be non-empty and not equal to any stored name. It then stores `sprintf(name, SOCKET_NAME_SIZE, addr)`, which uses the address as the format string and truncates it. The model stores `Formatted[n]`. The runs use one short name with no `%`, for which `Formatted` is the identity (`PlainNames`).

### SharedMemory

**State.** One variable per field of the `SharedMemory` struct and its node. `handles` are open Files, as `<<process, object>>`. `freeFrames` and `vm` are the vmm view:
- `vm` holds the frames each process has mapped at each address;
- `vmm_map_memory` returns the lowest free address of the mmap region, or 0 on failure (a nondeterministic choice).

**Actions.** Each provider function is one action, including the `destroy_if_suitable` and `destroy` calls it ends with (`Reclaim`). `UnmapForProcessAll` is the net effect of its loop of `unmap_if_exists` calls: every record of the process goes, and each object left marked and unmapped is destroyed.

**Calls through a stale File.** A call through a File whose object was already destroyed reads freed memory. The model does not follow such calls (`Usable`). Instead, the run `shm_stale_handle` shows that such Files exist.

### LinkedList and ListSpec

**State.** `LinkedList` keeps `alloc`, `head`, `tail`, `next`, `prev` and `data` over a pool of nodes. A freed node keeps its field values, and kmalloc may return it again. `kind` says whether the header exists and for which type: a List, a Stack or a Queue. Before the first create, `head` and `tail` hold arbitrary pointers, because that memory has not yet been memset.

**Actions.** Each function of `list.c` is one action:
- `Create`, `StackCreate` and `QueueCreate` memset the header;
- `Destroy`, `StackDestroy` and `QueueDestroy` clear the list and free the header;
- a created container is then used only through its own type's calls. Stack: push, pop, is_empty, clear. Queue: enqueue, dequeue, is_empty, clear.

A wrapper is the list call it makes, under its own name: `StackPush` is `ListPrepend`, `QueueEnqueue` is `ListAppend`, and `StackPop`/`QueueDequeue` are `PopFirst` (`list_get_first_node` and then `list_remove_node`). A container can be destroyed and created again, which reuses both the header and the nodes. `ret` is the value the call returned. `call` is an auxiliary variable naming the call, so that each concrete step is matched against the abstract operation of the same name.

**Helpers.** The walks `list_foreach`, `list_get_count` and the two find functions are `RECURSIVE` operators. They are bounded by the pool size so that a corrupted, cyclic chain still evaluates.

**Refinement.** The refinement mapping `Items` reads the data pointers along `next` from `head`. It is empty while no header exists. `ListSpec` has the same `kind`: a Stack pushes and pops at the head (LIFO), and a Queue enqueues at the tail and dequeues at the head (FIFO). `RefinesListSpec` asserts `ListSpec!Spec` under that mapping.

### FatPath

**State.**
- The nodes kmalloc'd by mount and finddir (`alloc`), with `pname`, `parent`, `ntype`, the child lists (`children`, for `first_child`/`next_sibling`), `msource` (`mount_source`) and `vol` (`private_node_data`).
- The volume table `slot` (`g_mounted_block_devices`), `mpoint` (a target's `mount_point`; non-Null means `FT_MOUNT_POINT` is set) and `fatfs`, the volumes whose FATFS work area is allocated.
- `result`, the last call's return value (mount's BOOL as `[ok]`).
- Two auxiliaries: `asm`, the last assembled path with the names it was for, and `oob`, which records that some write fell outside `target_path`.

**The buffer.** A record holding the buffer, `char_index`, whether the code has given up, and the out-of-bounds flag. `PutStr` is `strcpy_nonnull`. `WalkUp` is the `while (NULL == n->mount_source)` loop. `Finish` writes the ':' and the volume number. `FinddirStart` is finddir's unchecked first write of the looked-up name. `CStr` reads the string at `target_path + char_index`, as the FAT library does.

**The FAT library.** It is not under `src/`. It is taken from spec 4.3/6:
- `f_stat` and `f_opendir` accept `"<vol>:"` followed by the names, with or without a leading '/'. The code writes `0:a/b`; the spec writes `0:/a/b`. Both name the same entry because nothing calls `f_chdir`.
- `f_readdir` returns a directory's entries in a fixed order.

**Mount.** `Mount` is the whole of `mount`. Its early returns (source not a block device, target missing or not a plain directory, no free slot) return FALSE and change nothing. Otherwise it takes a free struct for the overlay root, fills it, reserves the first free slot (`FirstFree`, `Reserve`) and calls `f_mount`. `FMount` is the library's immediate mount. It reads the volume through `DiskRead`, which is `disk_read`: RES_NOTRDY on an empty slot. It succeeds when the device holds a FAT volume. On failure the root is kfree'd, the FATFS work area is freed and the slot is cleared (`Release`). `checkMount` changes nothing; its test is `MountArgsOk`, which `Mount` shares. `fs_get_node` resolves a target path through mount points to the overlay root on top (spec 8, invariant 1); this is `Resolve`, taken from the spec.

**Actions.** `Mount`, `CheckMount`, `Finddir`, `Readdir` and `Stat` each model one whole provider call. The walk in the path assembly stops at the node whose `mount_source` is set, and writes that root's volume number.

**The reference.** The path the code should produce is `FatPathOf`, the volume number, ':' and the names joined by '/'.

### SystemFs

**State.**
- The scheduler's thread list, which is the environment: threads are created and exit, and ids are not reused.
- The thread-file node structs: `alloc`, the threads directory's `firstChild`, and each node's `nextSib` and `name`. A freed struct keeps its fields, and kmalloc may hand it out again.
- The VFS Files: `[node, offset, live]`. `live` is auxiliary: it turns FALSE when the node the File points at is kfree'd.
- `ret`, the value the last call returned.

**Actions.**
- `OpenThreadsDir` is all of `systemfs_open_threads_dir` in one step: `clean_thread_nodes` frees the old chain, then one node per live thread is kmalloc'd, named and linked. Any free structs may be returned, including the ones just freed.
- `OpenThreadFile` is the VFS lookup through `systemfs_finddir`, followed by `systemfs_open_thread_file`.
- `ReadThreadFile`, `ReadMemInfo`, `Readdir` and `CloseFile` follow their functions. The text blocks are abstracted to the thread id and the page count.

**Not in the state.** The static subtree (meminfo, pipes, shm) built at boot never changes.

## 3. Runs

| Run | Cfg | Expect | Checks |
|---|---|---|---|
| `socket_safety` | `MC_UnixSocket.cfg` | pass | `TypeOK`, `PairedSymmetric`, `NoLostWakeup`, `BytesConserved`, `PendingConnectAccepted` (liveness) |
| `socket_orphan` | `MC_UnixSocket_orphan.cfg` | violation | `PendingConnectAccepted`: accept drops its dequeued connector when it cannot create the new socket |
| `socket_shared` | `MC_UnixSocket_shared.cfg` | violation | `PairedSymmetric`: two threads connecting one shared socket queue it twice |
| `socket_eof` | `MC_UnixSocket_eof.cfg` | violation | `EofOnlyWhenDrained`: recv returns 0 with bytes still buffered |
| `socket_lost_wakeup` | `MC_UnixSocket_lostwake.cfg` | violation | `NoLostWakeup`: with a shared socket, the disconnect wake-up goes to whichever thread called last |
| `shm_lifecycle` | `MC_SharedMemory.cfg` | pass | `TypeOK`, `UnlinkedReclaimed`, `MappedFramesHeld`, `MapCountMatches` |
| `shm_stale_handle` | `MC_SharedMemory_stale.cfg` | violation | `NoDanglingHandle`: unlink frees an object other processes still have open |
| `shm_failed_mmap` | `MC_SharedMemory_mapfail.cfg` | violation | `NoFailedMapRecord`: a failed mmap leaves a record with address 0 |
| `list_refinement` | `MC_LinkedList.cfg` | pass | `TypeOK`, `WellFormed`, `RefinesListSpec` |
| `sysfs_stale_thread_file` | `MC_SystemFs_stale.cfg` | violation | `NoStaleRead`: a thread File is read through a node that reopening `/system/threads` freed |
| `fat_paths` | `MC_FatPath.cfg` | pass | `TypeOK`, `AssemblyCorrect`, `NodeTreeMirrorsFat`, `MountBinding`, `MountOutcome` |
| `fat_finddir_overflow` | `MC_FatPath_overflow.cfg` | violation | `NoOutOfBoundsWrite`: a 126-character name makes finddir write at `target_path[-1]` |

### What the properties state

**UnixSocket**
- `PairedSymmetric`: a live socket's peer points back at it.
- `NoLostWakeup`: no thread sleeps in recv while its FIFO has data or its socket is disconnected. No thread sleeps in send while the peer FIFO has room or the connection is gone. The send half is reached: a second send finds the 1-byte FIFO full and sleeps, and only recv's resume (`unixsocket.c:287-290`) wakes it.
- `BytesConserved`: for each pair of sockets, the bytes send reported written equal the bytes recv returned plus those still in the FIFO.
- `PendingConnectAccepted`: a connector at the head of a queue that a thread is accepting on is eventually connected.

**SharedMemory**
- `UnlinkedReclaimed`: no listed object is both marked for unlink and unmapped (spec invariant 3).
- `MappedFramesHeld`: no frame that a process has mapped is free again.
- `MapCountMatches`: every mapping covers exactly its object's page count (spec invariant 4).

**LinkedList**
- `WellFormed`: while a container exists, head and tail are NULL together. The walk from head visits every allocated node once and ends at tail. `previous` inverts `next`. Once it is destroyed, no node is still allocated (destroy leaks nothing).
- `RefinesListSpec`: every call, return value included, behaves as the sequence operation it stands for. This holds across create, use, destroy and create again. The stack is LIFO and the queue FIFO.

**FatPath**
- `AssemblyCorrect`: every path that readdir, finddir or stat hands to the FAT library names the entry for the node (and name). Assembly fails exactly when the path is longer than 126 characters (spec test: 126 succeeds, 127 fails).
- `NodeTreeMirrorsFat`: every node finddir creates stands for an existing entry of that entry's type and is linked into its parent's list. No directory node has two children with the same name.
- `MountBinding`: the volume table and the mounts agree, whatever mounts failed before. Every mount point's overlay root is allocated, and its slot holds its device. Every occupied slot belongs to a mounted root. No overlay root survives a failed mount. A FATFS work area is live exactly for the occupied slots (spec 4.3 and 7).
- `MountOutcome` (action property): a mount succeeds exactly when the source is a FAT-formatted block device, the target a plain directory, and a slot is free (spec 4.3 and the boundary test in 8). This depends on the order inside `mount`: the slot is reserved before `f_mount` reads the device back through `disk_read`.
- `NoOutOfBoundsWrite`: no write falls outside `target_path`.

**SystemFs**
- `NoStaleRead`: a read of `/system/threads/<tid>` never goes through a node struct that a later open of the threads directory has kfree'd. `clean_thread_nodes` frees the children while Files on them stay open, so this holds only if no File outlives a rebuild.

Every property of a passing run has a mutant in `PROJECT.json`. A mutant is a plausible bug in the mapped code, and TLC finds the property violated under it.

### Bounds and why they suffice

- **Sockets.**
  - Two threads, each holding one socket, plus one socket that accept can create. With `MaxConnects` 1 only one connector is ever dequeued, so accept never runs out of sockets in `socket_safety`. Running out is the `socket_orphan` run, which has two connects.
  - `Capacity` is 1 and `Lens` is {0, 2}. A send of 2 into a 1-byte FIFO is partial. `MaxBytes` 2 lets each socket call send until it has sent two bytes, so a second send finds the FIFO full and blocks until the peer's recv resumes it. Length 0 takes the early return.
  - `MaxBytes` and `MaxConnects` bound the counters; the violation runs keep `MaxBytes` 1. The orphan and shared-socket runs allow 2 connects, so that a second connector can arrive or one socket can be connected twice.
  - The runs on shared sockets add a third thread, so that one socket is held by two threads.
- **Shared memory.**
  - Two processes, two object structs and one name. This allows two objects with the same name, and re-creation after unlink.
  - Three frames with 2-byte pages, so lengths 1 and 3 take one and two pages and -1 is rejected.
  - Two mmap addresses per process, so a process can map twice and unmap one mapping.
  - At most 2 records per object. Processes are symmetric.
- **List.**
  - Three nodes and two data values. This allows repeated values (first vs. last occurrence), a middle node, and reuse of a freed node.
  - One container header, of any of the three kinds, which may be destroyed and created again. Destroying it with nodes still in it and then creating it again is what exposes a leak or a header that is not reset.

- **FAT paths.**
  - The real 128-byte buffer. The volume table has one slot, so volume 0. FatFs allows at most 10 volumes, so the number is always one digit.
  - Two block devices, one holding the FAT tree and one not, one target directory, and a node that is neither a device nor a directory. Between them, mount takes each early return, fails in `f_mount` and frees everything, succeeds, and then finds the table full.
  - Two slots would allow a second mounted volume, and every mounted volume multiplies the byte-level path state. The one slot is enough for the full-table case and for reuse of the slot after a failed mount.
  - The names are 62 and 61 characters (a/b: 126 characters, succeeds) and 62 and 62 (127, fails), 124 and 125 at the root (126 and 127), and 1.
  - The overflow run adds a 126-character name.
  - Five nodes, which is enough for every entry that can be reached, and readdir indexes 0 and 1.
  - All five node structs are symmetric. Mount may take any of them for the overlay root.

- **System fs.**
  - Two thread ids, two node structs and two Files. This is enough for a File on a thread node while a second File reopens the directory.
  - Buffer sizes 3, 4 and 128 hit both sides of the 4- and 128-byte minimums.

### Fairness

`PendingConnectAccepted` in `socket_safety` assumes weak fairness of each thread's loop steps (`AcceptTry`, `ConnectDone`, `SendTry`, `RecvTry`). The scheduler is preemptive round-robin, so a thread that is runnable (`RUN`) gets the CPU again. Threads are not assumed to make new calls. The shared-memory, list and FAT runs check safety only.

## 4. Findings

Each finding is a violation run.
- **Lost connector** (`unixsocket.c:144`). Accept dequeues the connector before it knows it can create the socket.
- **Double queueing** (`unixsocket.c:182`). Connect on a socket whose earlier connect is still pending is not refused.
- **EOF before drained** (`unixsocket.c:274`). Recv reports EOF while bytes are still buffered, against spec 4.6.
- **Lost wake-up** (`unixsocket.c:295`). A sleeping socket thread depends on staying `last_thread`.
- **Dangling Files** (`sharedmemory.c:178`). Unlink frees an object that Files still point at.
- **Failed mapping recorded** (`sharedmemory.c:237`). A failed mapping is recorded, against spec section 6.
- **Stale thread File** (`systemfs.c:322`). Opening `/system/threads` frees the thread nodes that open Files still point at. The next read of such a File takes the thread id from freed memory, or from a struct that kmalloc has already reused for another thread's node.
- **Path buffer underflow** (`fatfilesystem.c:278`). finddir writes the looked-up name and '/' without checking `char_index`. A name of 126 or more characters writes before `target_path`. The ancestors' names are checked, and spec 4.3 asks for NAME_TOO_LONG.

## 5. Not modelled, and the plan

| Part | Status and reason |
|---|---|
| `list_create_clone`, `list_get_last_node` | nothing under `src/` calls them. The clone reads one list and builds a second one by a loop of appends, so it needs two headers. |
| FAT provider | mount/checkMount, disk_read, finddir/readdir/stat are modelled (`FatPath`). Not modelled: open/close/read/write/lseek of FIL handles. They are thin wrappers over the library, and the spec gives only the byte counts and the position mirrored into `file->offset`, not what the library does with positions and modes. The FIL leaked when `f_open` fails is therefore not checked. Also not modelled: `disk_write` and `disk_ioctl`, because no library call the spec describes issues them. |
| System info fs | modelled (`SystemFs`); it is checked only by the stale-File run. The static subtree is constant. |
| `unixsocket_fs_read_test_ready` | a read-only query for poll/select: it changes no state, so it is not an action. Its promise (spec 8, invariant 6) fails on the orphan instance, as described below. |
| `sharedmemory_destroy_by_name` | it is an action of `SharedMemory`, but no code under `src/` calls it, so no property is stated about its callers |
| VFS core, socket layer, vmm, FAT library | not under `src/`; only what the providers see of them is modelled, from the spec |
| Kernel init (`main.c`) | one sequential boot path with no retained protocol state |
| `vbe.h` | declarations only |

**Checked outside the runs.** Two hazards are reached by instances whose run checks another property, and no run states them:
- On the co-holder instance of `MC_UnixSocket_shared.cfg`, one thread's connect is still spinning when the other thread holding the socket closes it. Close does not take the socket out of the listener's accept queue, so accept dequeues the freed socket and crosslinks a new socket with it (`unixsocket.c:160`, 7 steps). `socket_shared` checks the double-queueing finding on that instance.
- On the instance of `MC_UnixSocket_orphan.cfg`, a poll (`read_test_ready`) that finds the accept queue non-empty is followed by an accept that dequeues, fails to create the socket and sleeps: the poll's promise (spec 8, invariant 6) fails through the same dequeue-before-create order as the `socket_orphan` finding. `read_test_ready` reads state only, so it is not an action of the model.

**Byte order.** Spec invariant 5 says bytes arrive "in order". The model's FIFO is a sequence appended at the back and taken from the front, and a FIFO entry records only its sender, so order within one sender's bytes holds by the model's construction and is not stated as a property. The fifobuffer code is not under `src/`.

Planned additions to the existing modules:
- a property for connectors left in the queue of a closed listener;
- a run for the closed-connector use-after-free above.
