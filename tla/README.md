# Verification of libploop

TLA+ modules that model the library behind the ploop tools (`lib/`), the TLC
configurations that check them on small instances, and TLAPS proofs that hold
for every size. `PROJECT.json` maps every definition to the source lines it
stands for and lists runs, mutants, findings, hazards and theorems.

## The system

A ploop image is a directory with `DiskDescriptor.xml` and a tree of delta
files. The kernel runs a device over one path of that tree (base to top delta):
writes go to the top delta, reads fall through to the first delta that has the
cluster. The library changes the tree, the descriptor and the running device,
each by a different system call, so an operation is a sequence of steps that
the guest, other processes, a failing call, a kill or a power loss may
interrupt anywhere.

| component | state | operations | interaction | what must hold |
|---|---|---|---|---|
| disk descriptor (`di.c`, `xml.c`) | arrays of images and snapshots, top uuid | add, change_guid, set_temporary, remove, merge, lookups, validation | value stored by rename of `DiskDescriptor.xml.tmp` | well-formed tree at all times |
| snapshot operations (`snapshot.c`) | the descriptor it works on, new delta, step reached | create (online, offline, temporary), delete, switch, merge_temporary_snapshots | hold the lock, ioctl on the device, call merge | disk and snapshots keep their content; files named exist; operations end |
| merge (`merge.c`) | levels, clusters left to copy | ploop_merge_snapshot(_by_guid), merge_image | called by users, by delete, by failed temporary snapshots | neither guest nor readers see a change |
| mount, device lookup (`ploop.c`, `delta_sysfs.c`) | devices in the kernel | mount, mount read-only, umount, check_snapshot_mount | finds devices by top delta | device and descriptor agree |
| interrupted operations (`balloon.c`) | maintenance state of the device | complete_running_operation | first step of later operations | as if not interrupted |
| live copy (`ploop-copy.c`) | tracker position, two buffers, packet, two threads | init, start, next_iteration, stop, deinit | mutexes, condition variables, tracker ioctls, freeze | the copy is the frozen image; calls return; device thawed |
| copy receiver, legacy copy (`pcopy.c`) | packet stream | send, receive | socket or pipe | same, with a peer |
| image format, check (`delta_read.c`, `check.c`) | header, index tables, in-use mark | open, allocate, grow, check, repair | under merge, mount, resize | a crash between two writes is repaired or harmless |
| format conversion, resize, replace (`ploop.c`) | header fields, block maps | change_fmt_version, grow, shrink, replace | mount restores an interrupted conversion | old or new, never between |
| lock (`lock.c`) | lock file, timer | lock, unlock | around every operation | exclusion, bounded waiting |
| balloon, discard (`balloon*.c`) | hidden file, free extents, maintenance state | change, complete, discard | kernel freeze and relocation | no block lost |
| changed block tracking (`cbt.c`) | bitmaps | start, snapshot, dump, load | inside snapshot and umount | no changed block missed |
| volumes (`volume.c`) | descriptors that share images | create, clone, switch, delete | reuse snapshot operations | shared images are not written |
| the rest | | encryption, partition table, file system tools, logging, uuid, tools, bindings | | no state of their own that matters here |

Hard behaviours: steps of an operation against guest writes and against the
holders of read-only devices; crashes between an ioctl and the rename; the
completion of what a killed process left; loops over an array that the loop
body changes; pointers into entries that are being rewritten; two threads that
meet through condition variables without a predicate; a write tracker that has
to be told before a cluster is read; index, data and header of an image that
reach the disk in any order; bitmaps taken out of the kernel while the guest
goes on writing; descriptors of several volumes that are relinked one after the
other; a trimming child and its parent that talk through the kernel.

## Modules

* `DiskDescriptor` - the descriptor as a value: one sequence of entries for the
  two parallel arrays (entries are added and removed in both at the same
  index), first-match lookups, and each update of `di.c` as an operator. The
  aliasing of `ploop_di_remove_image` (it passes a pointer into the entry that
  the callee rewrites) is `ChangeGuidUpTo`. `WellFormed` says what a snapshot
  tree is.
* `Snapshot` - the state is `DiskDescriptor.xml` and its `.tmp`, the directory
  (`link`), the deltas (`data`), the device, read-only devices, and the
  operation `op` of the process that holds the lock (program counter, its
  copy of the descriptor, and its local variables). One action per step that
  somebody else can observe: store to `.tmp`, create file, ioctl, copy one
  cluster, rename, unlink. Calls of one function from several places return
  through `Return`. `disk`, `want`, `waived` and `gap` are history variables:
  what the guest wrote, what each snapshot contained, which snapshots were
  given up, and whether a fault hit the window in which device and descriptor
  differ.
* `LiveCopy` - what a live copy promises, in four actions.
* `PCopy` - caller, sender thread, tracker and guest. Both mutexes are held
  everywhere except inside the waits, so `MutexFree` and `WaitMutexFree` are
  functions of the program counters. `Live` is the refinement mapping.
* `PCopyProofs` - the theorems about the live copy.
* `SnapshotProofs` - lemmas on the operators of `DiskDescriptor` (types, what
  each update does to the set of files a descriptor names, and when it keeps the
  snapshot tree); types and the files on disk in `Snapshot`, one lemma per
  action; the snapshot tree; that no file is left behind.
* `ImageFile` - two stacked delta files, word by word: header (version, size,
  in-use mark), index table, data clusters. `cache` is what processes see,
  `disk` what was synced; a power loss keeps any part of the difference.
  Actions are the writes and fsyncs of `grow_delta`, `grow_lower_delta`,
  `ploop_change_fmt_version`, `do_restore` and the check at mount; the guest
  allocates clusters through the kernel's mapping `core`.
* `ImageFileProofs` - its theorems, one lemma per action and layer of the
  invariant, on lemmas about what each operator does to header and length.
* `Cbt` - the chain of files with their optional headers and bitmap blocks, the
  kernel's tracker, and the process inside snapshot, unmount, mount, merge,
  dump, drop or start. `since` (what was written since each uuid was set) and
  `kept` are ghosts.
* `Volume` - descriptors, parents, `children` links, image files and locks of
  several directories; two callers, each with its own copy of what it read
  before it took a lock. Operations on the snapshots of one descriptor, which
  `Snapshot` has step by step, are single steps. `want` is a ghost.
* `VolumeProofs` - its theorems on links, parents and owners, one lemma per action on
  top of a frame lemma for a step of one call.
* `Device` - one disk from creation to conversion: directory, descriptor and
  its `.tmp`, image sizes and formats, device, partition, file system and lock;
  two callers. The labels of a call are the places between two system calls.
* `DeviceStepProofs`, `DeviceProofs` - its invariant, one lemma per action on top
  of frame lemmas for a step of the call that holds the lock and for one beside
  it, and its theorems.
* `Balloon` - index, blocks and end of the top image, what the file system
  keeps in each cluster, the kernel's maintenance state and free list; callers,
  their trimming children, the lock of the descriptor and that of the balloon.
  `range_build` and its helpers are operators over sets of blocks.
* `MCSnapshot`, `MCPCopy`, `MCCbt`, `MCVolume`, `MCDevice`, `MCBalloon` -
  instances for TLC: operation sets, image layouts, symmetries.

A definition with the comment "mutant:" stands before the definition it
changes; no specification uses it.

### What is abstracted

Content is one number per cluster; file names and uuids are model values;
messages, logging, statfs caches and the XML text are left out. In `Snapshot`
an image has the same size everywhere (`ImageFile` grows it) and the base is
not raw (`PCopy` and `Device` have raw images). A store of the descriptor is atomic, as the code
makes it by write, sync and rename. `flock` gives exclusion and is dropped
when its holder dies. A new file name is one nobody uses. The kernel (reading
through deltas, the ioctls, the tracker) is modelled from how the library uses
it and marked external in the map. `PLOOP_IOC_MERGE` is one step, which may be
interrupted before it takes effect and then leaves the maintenance state.
`TRACK_READ` may return any non-empty part of the next run of pending
clusters. The copy models a local output file; a write of the header by the
caller is taken to be complete, and the bitmap that follows it is left out.

`Volume` keeps of an image the set of writes that reached it. `Device` keeps
sizes, formats and listings and no content: what the guest wrote is kept if the
images stay listed, keep their format and hold the file system. In `Balloon`
the kernel side is taken from its use and from `include/ploop_if.h`: blocks of
the free list are given out lowest first, `RELOCBLKS` moves one block at a
time, an image whose `alloc_head` is wrong is refused. `TRACK` stands for
`TRACK` and `GROW`, which the library completes alike. The trim of
a child always succeeds.

Some steps of the code are merged, or taken a little differently, where no
property can tell:

* `PCopy.Freeze`: on a device that is not mounted `freeze` returns 0 with nothing
  frozen (`ploop-copy.c:837`). The model calls that frozen: no file system writes
  to such a device, which is what frozen stands for, and the thaw that follows
  does nothing. The optional header with the bitmap (`send_optional_header`) is
  left out.
* `Cbt`: a failed offline snapshot (`snapshot.c:440-465`) leaves the stored
  descriptor as it was. In the model the new delta is in the chain before its
  bitmap is written, and stays with an incomplete one after a fault. The chain
  without it is the state before the call, from which calls go on as well.
* `Device.GrowRaw`: on the raw path the failing and the good end call `ploop_umount`
  with a buffer nobody has filled (`ploop.c:2844`). Under the lock this disk has no
  device at that point, so that whatever the buffer holds, none of this disk is
  stopped; what it might do to another disk is beyond a model of one.
* `Balloon.FbGet`: `PLOOP_IOC_FBGET` for the number of extents and for the list
  is one step. `Balloon.Begin`: `ploop_balloon_clear_state` runs under the lock of the
  balloon that its callers take (`tools/ploop-balloon.c:243`).

### Named windows

Some steps are known, from the code and from TLC, to leave something behind
when they fail or are cut. The history variables `gap`, `torn` and `windows`
record that one of these was hit, and each property says which ones it
excludes. They are part of the result:

| module | window | what it means |
|---|---|---|
| `Snapshot` | `gap` | killed between an ioctl and the rename: device and descriptor differ |
| `ImageFile` | `mark` | a lower delta is dirty without the mark that calls for a restore (`ploop.c:3666`): no mount accepts it |
| | `header` | power loss: the new size reaches the disk before the nullified clusters, which `merge.c:187-209` does not sync |
| | `restore` | `do_restore` writes 1 instead of `SIGNATURE_DISK_IN_USE`: an unfinished restore can be opened and grown |
| | `retry` | killed before the ioctl of `grow_lower_delta` (`merge.c:167-185`): the next attempt nullifies clusters in use |
| | `slot` | the kernel is told of a relocated cluster by its slot within a cluster of the index table (`delta_read.c:376`): wrong past the first cluster |
| `Cbt` | `taken`, `sent`, `unsynced`, `dumped` | bitmap out of the kernel with its uuid still set; sent in part; not synced and not covered by the checksum; dumped while the device writes below |
| `Volume` | `existing`, `nested`, `after a kill`, `stale child`, `several images`, `half made child`, `half made target`, `switch to a volume` | the directory of a new volume exists; clone of a read-only volume from below its top; a call after a killed one; the child was relinked before its lock was taken; delete of a volume with several images; the child is still being made; switch to a directory another call is still making; switch to a volume that is not read-only |
| | `link lost`, `after a lost link` | the new link of a switch or a delete could not be made (`volume.c:361,918`; nothing is undone); a call after that, which takes the parent for childless |
| | `links` | a snapshot fails after its parent was told: the undo leaves the links as they are |
| `Device` | `dropped` | a creation that fails, or comes second, removes a disk others use |
| | `replaced`, `grown`, `converted`, `truncated`, `limited` | cut between device or image and descriptor |
| | `swapped`, `other`, `unaligned`, `raw shrunk` | image converted under a running device; image replaced by one of another size or format; size no multiple of the cluster; raw disk shrunk (see below) |
| | `killed`, `left`, `lock kept`, `tmp kept` | a caller was killed; an undo failed; `check_dd` returned with the lock; a temporary file stays |
| `Balloon` | `killed`, `child killed` | a caller or its child is gone |
| | `stale`, `unfinished` | `do_inflate` fails with the state taken (`balloon.c:263-270,285-287`); a relocation failed, or was left by an abort or a late child, and the free list stays loaded |
| | `overtaken` | a list was loaded by a discard without a descriptor, hence without a lock, between plan and `RELOCBLKS`; needs three calls and four writes, more than the run has |

`CONSTRAINT Sound` (`Volume`, `Device`) and `NotTorn` (`Cbt`) stop exploring
behind a window after which no property promises anything.

## Runs

| run | question | bounds | result |
|---|---|---|---|
| `snapshot_tree` | is the stored tree well formed, over existing files, with the right content, after any single fault in create, delete, merge, switch, mount, umount | 2 uuids, 4 files, up to 4 images, 2 writes, 1 fault | holds, 689 k states |
| `snapshot_temp` | do guest and readers see stable data with temporary snapshots, merge_all and deletion of the top delta | the same, 1 read-only device | holds, 1.4 M |
| `snapshot_options` | merge into a new delta, offline snapshot of a running image, switch that keeps the top | the same | holds, 2.1 M |
| `snapshot_ro` | does a read-only device over a snapshot read stable data while others are merged, deleted, switched; do the loops end | 1 device, 1 write, no faults, weak fairness of the process's steps | holds, 104 k |
| `pcopy` | is a successful copy the frozen image; are three iterations enough; does it implement `LiveCopy`; do calls return and is the device thawed | 3 clusters, 3 writes, 1 failing call, cancellation, weak fairness of both threads | holds, 885 k |
| `image_file` | does the guest read what it wrote, do kernel and file agree, can the image be mounted again, after faults in growing, conversion, restore, repair | 2 deltas, 2-word clusters, 3 to 4 clusters of the device, 3 writes, 2 faults | holds, 2.4 M |
| `cbt` | is no changed block missing from a bitmap; does tracking go on; is no data cut off with an extension | 3 blocks in 2 chunks, 2 uuids, 3 deltas, 4 calls, 2 writes, 1 fault | holds, 707 k |
| `volume` | does each volume keep its data; do links and descriptors agree; has each image one owner | 3 directories, 2 callers, 4 calls, 1 write, 1 fault | holds, 61 k |
| `device` | do descriptor, image, partition and file system fit; is the device found; is nothing left behind | 2 callers, 3 calls, size 630 (made 640) to 448, 682 and 704, 1 fault | holds, 1.4 M |
| `balloon` | do files keep their blocks; is freed space given back; does no state stay; does nobody wait in vain | 2 callers, 2 calls, 3 clusters, 2 layouts, 2 allocations or trims, 1 fault | holds, 1.7 M |
| `new_delta`, `keep_name` | see Disagreements | | violated |

Why the bounds suffice: two named snapshots with a top delta give every shape
the code distinguishes (leaf, one child, several children, base, top); two
writes let a value be overwritten before and after a snapshot; one fault hits
every step, and another operation follows it. Three clusters let the tracker
wrap, with a cluster on each side of the position; the image may grow. In
`image_file` the index table takes two clusters of two words and grows to
three, so that a data cluster has to be moved, in both deltas, whose slot is in
the first cluster of the table or in a later one, and two faults let a recovery
be interrupted itself; a failed backup of the
index is not counted. In `cbt` a bitmap has two chunks and one extent
block, and the chain is long enough to merge below the top. Four calls of two
callers on three volumes give a parent, a child and a sibling while another
call is at work. `device` shrinks below and grows above the initial size, the
partition table next to a cluster boundary, also for sizes that are no multiple of
the block. The two layouts of `balloon` have
adjacent and scattered blocks, and a cluster without one.
The proofs remove the bounds of `PCopy` and `Cbt`, those of `Snapshot` for
`FilesExist` and `TreeOK`, those of `Balloon` for `NothingStuck` and `DiscardAnswered`, those of `ImageFile`
for `TypeOK` and `VersionsAgree`, those of `Volume` for `LinksAgree` and `OwnedOnce`, and those of
`Device`. Uuids, processes and directories are interchangeable, so the
symmetries are sound; no run with a symmetry checks liveness.

`snapshot_ro` has no faults: after a kill between the kernel's merge and the
rename, a user who mounts the snapshot named by the stale descriptor shares a
delta with the running device, and only the kernel could refuse that.
Deadlock checking is off where the client may simply stop (`PCopy`: after
deinit; the others: when the calls the bound allows are used up) or where a
second fault is not available to leave a state in which every call is refused
(`snapshot_options`). What a deadlock would be there is stated instead:
`CallReturns`, `NothingStuck`, `DiscardAnswered`.

Fairness: `FairSpec` of `Snapshot` is weak fairness of the steps of the
process that holds the lock (it runs unless it is killed); calls, guest and
holders have none. `FairSpec` of `PCopy` is weak fairness of each thread
inside a call: the scheduler runs both and system calls return. Nothing says
that a client calls again.

### Disagreements

Two runs show by a counterexample that the code does not do what a document,
a comment or a test of the repository says; each is quoted in `findings`.

* `new_delta` - the old delta is unlinked before the descriptor is renamed.
* `keep_name` - replacing an image under its old name always fails at link(2),
  since mkstemp has made the file, is rolled back and reports success.

Others were met while modelling. The models do what the code does, and the
properties exclude the case or the runs leave out the operation:

* `ploop-copy.c:1006`: after a failed write of the sender the closing packet is
  refused without a signal, and `ploop_copy_stop` joins a sender that nobody
  wakes, the device frozen. `CallReturns` and `Thawed` exclude a failed sender
  write. `ploop-copy.c:1008`: the error of the final fsync is dropped.
* `snapshot.c:115`, `di.c:530`: deleting the top delta after a switch makes a
  parent writable under other snapshots, or leaves a parent uuid dangling.
  `delete_top` is only combined with chains (`snapshot_temp`, no switch).
* `snapshot.c:595`: the mark that should lock a temporary snapshot reads as
  "not used".
* `ploop.c:2859-2864`: the size to which a raw disk is shrunk has no room for the
  second partition table, so that the partition made for it is smaller than
  the file system (`raw shrunk`).
* `delta_read.c:376`: the comment above `relocate_block` (`delta_read.c:301`)
  promises `<req_cluster, iblk>` of the relocated block, and the code stores the
  slot within one cluster of the index table. For an image whose table has more
  than one, growing a lower delta under a running device changes the mapping of
  another cluster, or none, and the device goes on reading the cluster that is
  nullified next (`slot`). The run with a table of one cluster does not show it.
* `merge.c:167-185`, `merge.c:187-209`, `ploop.c:3666`, `do_restore`: the windows
  of `ImageFile`.
* `ploop.c:1849`: a caller is killed between the ioctl that puts the new image
  under a running device and the descriptor. The device is not found any more by
  the descriptor, so that a snapshot is taken without it; a second replace stores
  the copy as the base, and a resize finds the device again, without the image of
  the snapshot, grows it and lays the partition beyond the end of the top image
  (`replaced`). It takes six calls, copy and snapshot included; the run does not show it, the attempt to
  prove `FsFits` and `DescriptorFits` did.
* `check.c:713-717`: an error return of `check_dd` keeps the lock.
* `balloon.c:1076-1086,1172`: when fork fails, the pid stays -1 and a later error
  would signal every process; the model fails the fork but signals nobody.
  `balloon.c:270`: `do_inflate` leaves the maintenance state (`stale`).
* `balloon.c:1093`: `DISCARD_FINI` does not say whose mode it ends. A child that
  goes on trimming after `ploop_balloon_complete` ended its discard ends the mode
  of a later one, whose requests, if they are loaded by then, wait for the next
  completion. It takes three callers and four calls; the proof of
  `DiscardAnswered` found it, and the model counts it as `unfinished`.

`switch_dup` and `reset` occur in no passing run, `merge_new` not where
`FilesExist` is checked.

`PCopy` assumes that `pthread_cond_wait` does not wake up spuriously, which
POSIX allows and the code does not guard against (the waits have no
predicate); so do the theorems.

## Proofs

`SnapshotProofs` proves, for any sets of uuids, files and clusters, any bounds
on images, writes, faults and readers, and any choice of operations
(assumptions `GuidAssumption` and `SnapshotAssumption`: the special uuids are
distinct and no names of snapshots, `Hole` is no content, `NoFile` is no file,
bounds are natural numbers):

* `TypeCorrect`: descriptors on disk and in memory, devices and the locals of
  the operation keep their types.
* `CrashSafety`: unless somebody merges into a new delta (the run `new_delta`
  shows why it is excluded), `DiskDescriptor.xml` names existing files only,
  at each step and after any number of failed calls, kills and power losses.

Both follow from the inductive invariant `SnapshotInv` (theorem `Invariance`).
`FilesExist` alone is not inductive: the next rename may install a descriptor
that names a missing file and the next unlink may remove a file that is named.
`SnapshotInv` adds that the locals which a step relies on have been set
(`Locals`), that the descriptor in memory is the stored one until the
operation changes it and equals `.tmp` from its store to the rename
(`WorkingCopy`), that what is going to be renamed names existing files, and
that the new delta is named by no stored descriptor and the file to be
unlinked not by the one in memory (`ListedFiles`), and that no two entries
share a file (`UniqueFiles`), without which removing one entry would not take
its file off the list. Lookups return the first match; that there is one is
the least-number principle (`WFMin` of WellFoundedInduction), used once, in
`Least`.

The third part of `SnapshotProofs` proves `TreeStays` (`TreeOK`), for the same constants and
with any faults, merges into a new delta included, from the inductive invariant
`TreeInv` (theorem `TreeInvariance`) on top of `SnapshotInv`. The hypothesis
`TreeOnly` leaves out the three operations for which the statement is false, as
TLC shows in a few steps: `delete_top` and `reset` make a snapshot that still
has other children the top one, and the merge of such a child gives the top
entry another uuid; `switch_dup` adds a second top delta. `TreeOK` is not
inductive: it says nothing of the descriptor that is going to be renamed, and a
well-formed tree in which something hangs below the top delta does not survive
a merge. `Tree` adds that nothing does; `TreeInv` says that the descriptor in
memory is the stored one while an operation reads, a tree when a deletion is
about to store it and the tree in `.tmp` up to the rename; that the snapshot to
be deleted is not the top delta, which no loop over temporary snapshots may
take up; that the name of a new delta is in no descriptor until `MergeSwap`; and
that the uuid of a snapshot, looked up when the call begins, is still unused
after temporary snapshots were merged (`Fresh`). What each update of `di.c` does
to a tree is a lemma of the first part. The hard one is
`ploop_di_merge_image` (`MergeImageTree`): the parent's entry gets the child's
uuid at the parent's place in the array, so the grandchildren, which stand
behind the child, still stand behind their parent, and entries that named the
parent would dangle if the child were not its only one.

The fourth part proves `NothingOrphaned` (`NoOrphans`): without faults nothing
but the listed files is left when an operation ends, for any number of snapshots
and files and every choice of operations but one: who merges into a new delta
must keep to the operations of `TreeOnly` (`NewDeltaInTree`; `SetFile` renames
the first entry with the child's uuid, which is the parent's old entry only where
uuids are unique). `NoOrphans` speaks of states without an operation; `Clean` says
for each step which files there are (`Linked`) and which of them the descriptors
in memory, in `.xml` and in `.tmp` list (`Lists`, `Copies`), exactly where
`ListedFiles` above bounds them: a file that is unlinked too early would break
`FilesExist`, one that nobody unlinks only this. It needs no case for
`do_mntn_merge`, since a merge is interrupted by a kill only. TLC checked `Clean`
for all operations without faults, with and without `merge_new`, before it was
proved.

`PCopyProofs` proves, for every image size, number of writes and number of
failures (assumption `PCopyAssumption`: the parameters are natural numbers or
Booleans, the image has at least one cluster):

* `TypeCorrect`, `StopDeliversImage` (`CopyComplete`) and `BuffersSafe` from the
  inductive invariant `CopyInv`. `CopyComplete` alone says nothing about the
  states before the end; `CopyInv` adds which positions the two threads can
  have at the same time and whose buffer is whose (`Handshake`), that the
  tracker has been told of a cluster before it is read (`Positions`), what
  freezing changes (`Stopping`), and that each cluster is pending in the
  tracker, in the hands of the caller, in flight, or right in the output
  (`NothingLost`). One lemma per action, one step per conjunct.
* `ThreeIterations` (`NeverLooped`) from `LoopInv` on top of it: the first
  iteration on the frozen device leaves nothing, or only clusters ahead of the
  tracker after a wrap; the second finds those without wrapping; the third
  finds nothing.
* `Refinement`: `Spec` implements `LiveCopy`; every action but guest write,
  freeze, release, deinit is a stutter.

`CbtProofs` proves all four properties of `Cbt`, for any number of blocks,
chunks, extents per reply, uuids, deltas, calls, writes and faults (assumption
`CbtAssumption`: sizes are positive, bounds are natural numbers, `None` is no
uuid). The invariant has three layers:

* `FileInv` (theorem `FilesInOrder`), in every state: which step goes with which
  device, target and locals (`Control`); for each file, that the clusters seen
  and those synced agree, that an announced extension lies behind all others in
  both, and that what it lists is older than itself and no data (`FileOK`); what
  a save has written so far (`Extending`). `DataKept` alone is not inductive: a
  header that reached the disk without its block, or a block without its header,
  decides later what is cut off. `TypeCorrect` and `ExtensionSparesData` follow.
* `TrackInv`, until a fault hits one of the windows: the changes known under a
  uuid are in the kernel's bitmap or in what the process has taken out of it
  (`Kernel`, `Taken`, `Switching`), in the entries saved so far or still ahead of
  the position read (`SavingDevice`, `SavingRaw`), or in a loadable extension
  (`Loads`). `AllChangesTracked` follows.
* `KeptInv`, without faults: under which uuid each step leaves the tracker
  (`Follows`). `UuidKept` follows.

`BalloonProofs` proves, for any number of callers, clusters, calls, trims and
faults (assumption `BalloonAssumption`: sizes are positive, layouts have the
blocks of the device, `None` is no caller), `NothingLeftBehind` (`NothingStuck`)
and `RequestsAnswered` (`DiscardAnswered`), from the inductive invariant `Inv`
(theorem `Attentive`). Neither is inductive: they speak of the moment when
somebody is missing. `ControlInv` says which operation may be at which place
under which lock, and which state the kernel is in then, whatever failed;
`Attended`, as long as no window was met, that each of the states `BALLOON`,
`TRACK`, `FBLOADED`, `RELOC` and the discard mode has a caller that will end it:
one that took it, one whose `RELOCBLKS` the kernel will accept because the end
of the file has not moved since it was read, one that completes; and that the
mode has a child that will send or end it. Two lemmas (`ControlStep`,
`AttendStep`) say what a step of one caller must do for both to be kept, and one
lemma per action that it does.

`ImageFileProofs` proves, for any number of deltas, words per cluster, sizes,
guest writes, kills and power losses and any choice of operations (assumption
`ImageAssumption`: at least one delta, two words in a cluster, positive sizes),
`TypeCorrect` (`TypeOK`: no file ends inside its own index table) and
`OneVersion` (`VersionsAgree`) from the inductive invariant `ImageInv` (theorem
`Invariant`), in two layers:

* `Wide`. That the table of the header fits into the file is not inductive: a
  power loss may join the header of the cache to the length of the file on the
  platter, or the other way round. `TablesFit` says that the header in the cache
  never has the smaller size and that its table is in both files; since a larger
  device has no shorter table (`FirstBlockMono`), so is the other one.
  `GrowthFits` says of a delta that grows that the table for the new size is in
  the file once the gap is appended, and on the platter when the header is
  written: here the fsyncs of `grow_delta` are needed. That a repair does not
  trim the table away is `RepairedType`: the largest cluster in use is taken
  over the table and all slots, and is in the file because a slot beyond it
  would have been fatal.
* `VersionsInv`. `VersionsAgree` speaks of the moment when a device starts; what
  makes it true happened in the conversion before. `BackTo(v)` says that every
  delta has version `v`, or is dirty and has a backup of version `v` if it has
  one; while the base is marked there is such a `v`, and when it is not all
  versions are the same (`Versions`). `Phase` says which deltas are marked at
  which step. Backups are unlinked one by one in a restore, and a growth may
  start in the middle of one (the window `restore`), so `BackTo` has to speak of
  the deltas without a backup too. `HeadersAgree`: the only header that is not
  synced is the one a restore has put back.

`VolumeProofs` proves, for any number of directories, callers, calls, writes and
faults (assumptions `VolumeAssumption`: the directories are finitely many, bounds
are natural numbers, `NoDir` is no directory; `NoneAssumption`: `None` is no
process, descriptor or set of writes), `LinksConsistent` (`LinksAgree`), `OneOwner`
(`OwnedOnce`) and `ParentsStay`: at every step, also in the middle of calls and in the undo of a
failed snapshot, the directory that a made volume continues in is a made volume
with a descriptor. All hold while no window was hit; the first and the last follow
from `IInv` (theorem `Invariant`). `LinksAgree` speaks of the moment between calls; what
makes it true is done by calls that each hold some of the locks:

* `Holding` and `Targets`: a call has locked exactly the directories of its
  step, and the directory a clone or snapshot is making is its own, unlocked,
  and nobody's child.
* `Working`, one case per operation: what the step knows of the volumes it works
  on. Which descriptor it has read is still the stored one, whether the link to
  be made is there already, and which one is still to be removed.
* `Childless`: a volume whose images are about to go has no child, or only the
  one the call has locked to merge it into. `volume_delete` reads the links, then
  locks the child, then merges; that the child is still one is what the window
  `stale child` is about.
* `Free`: a directory no call works on is linked by its parent and by nobody
  else. `Parents`: what a made volume continues in is made.

The lemma `Step` is the frame: a step of one call leaves alone what another has
locked or is making, so that only the volumes of the call itself have to be looked
at; one lemma per action does that. The attempt to prove `SwitchLock` brought up
the window `half made target`: `ploop_volume_switch` takes the lock of the
volume it switches to, which a clone does not hold on the directory it is filling.

`OneOwner` rests on a second invariant on top of it, `Owned`. `OwnedOnce` says
nothing of uuids, but the code decides by uuid what to merge, to relink and to leave
out of a stored descriptor, and the uuid of the top image is the same in every
volume:

* `Stored`, `FirstTops`, `Distinct`: what a stored descriptor looks like, and that
  a uuid other than that of the top image, and a file, is listed by one volume
  only, except between the two stores of a snapshot, in which the new volume and its
  source list the same (`SnapshotFact`, `IsSnapshot`, `IsChild`).
* `Names`, `New`: the uuid a call has drawn for a snapshot is nobody else's, from the
  time it is drawn to the time it is stored.
* `Chains`: there is a ranking of the volumes such that the image a volume continues
  in is listed by nobody but its parent, or a volume of lower rank that also lists an
  image on top of it (`Rests`, `Forked`). The second happens when a snapshot takes over
  the images below the clones of its source. It is what keeps a delete from merging
  an image it does not own: the image would need to have one child only.
* `Fact`: for each call, that the descriptors it has read are still stored, and that
  what a delete hands to the child it merges is listed by the deleted volume
  (`Inherits`).

`DeviceProofs` proves, for any number of callers, calls, failing steps and kills,
any block size and any sizes the disk is created with or resized to (assumptions
`DeviceAssumption`: a block is more than a partition table and a sector, and a
multiple of 8 sectors, as `is_valid_blocksize` (`util.c:220`) makes it; sizes and
bounds are natural numbers; `NoneAssumption`: `None` is no number, caller, name,
descriptor or device), all four properties of `Device`: `Fitted`
(`DescriptorFits`), `Contained` (`FsFits`), `Findable` (`DeviceFound`) and `TidiedUp`
(`NothingLeft`). They follow from `IInv` (theorem `Invariant`), which holds until a
creation that fails, or comes second, removes a disk others use (`dropped`); TLC
checked it on the instance of the run `device` first. None of the four is
inductive: three speak of the moment between calls, and what makes them true is
done in the middle. `IInv` describes the call at work (`Now`, the one that holds
the lock, or none), at each of its steps:

* whatever failed: which step goes with which call, arguments and ways on
  (`Steps`); that only the holder of the lock is at such a step (`Control`); which
  names are taken, and that no two of them are one file but for the link made by a
  replace (`Listed`); who made the image of a disk that is being created and
  what it is like (`Making`); that there is a device where a step uses one
  (`Working`); and that the descriptor a call has read is still the stored one, up
  to what it stored itself (`Read`);
* until a replace was cut off or put in another image (`Placed`): a device found by
  the base image has all images of the descriptor and the size of the top one, and
  how it compares with the size asked for while a resize goes on (`Match`);
* until, besides, a raw disk was shrunk (`Whole`): partition and file system lie in the
  disk, and what the next step of a resize will ask of them is there (`Lies`). The
  order of the steps is what matters: growing changes image, table and file system
  in this order, shrinking the other way round, and each step has to know the
  result of the one before. Sizes of disks are multiples of the block, so the
  partition ends one block before (`PartEndIs`);
* until a change was cut off between image and descriptor (`Stored`): the
  descriptor that is stored, or about to be renamed, fits the images (`Fitting`);
* until a call was cut off between device and descriptor (`Followed`): the device that
  runs is found (`Running`);
* until a call was killed or failed to clean up (`Returned`): what the step has
  made for itself is taken away on the way out (`Tidy`).

The lemma `Change` says what a step of the call at work must do for `Inv` to be
kept, `Move` the same for one that leaves the disk alone, `Aside` and `Beside` for a
step of the creator or of a caller without the lock; then one lemma per action, one
step per layer. The attempt brought up the missing exclusion of `replaced` described
above; it also showed that `DeviceFound` need not exclude a failed undo (`left`), as
it first did.

TLC only: liveness (`CallReturns`, `Thawed`, `OperationEnds`), which the prover
does not do under fairness; what images contain in `Snapshot`, which is read
through `ImagesList` and `Seen` (`StoredContent`, `SnapshotContent`,
`OnlineContent`, `ReadOnlyStable`, `DeviceMatches`): that a walk along parents
gives the same list before and after an update is an induction over the tree;
`GuestContent` and `Reclaimed` of `Balloon`, which rest on what
`rmap2freemap` and `range_split` compute by recursion over the blocks; what a
guest reads through the deltas of `ImageFile` and whether they can be mounted
(`GuestContentOutside`, `CoreMatches`, `RecoverableOutside`); what a volume holds
over its chain (`DataKept` of `Volume`, an induction over the line of parents).

## Not modelled

* the receiver of the live copy: a stream that is ordered and reliable until it
  breaks as a whole, after which the copy is started again;
* the legacy copy (`pcopy.c`), which the tools do not call any more;
* defragmentation, encryption: they run programs, no state of an image
  depends on their steps; native discard, which takes none of the paths of
  `Balloon`; `ploop_resize_blkdev`;
* `do_lock`'s timer and its retry after EINTR: a wait is one step that ends
  with the lock or with a timeout;
* the text of XML, logging, uuids, checksums as bytes, tools and bindings.

## Plan

1. done: `DiskDescriptor`, `Snapshot`, `LiveCopy`, `PCopy`, with the proofs above.
2. done: `ImageFile`, `Cbt`, `Volume`, `Device`, `Balloon`, model-checked.
3. done: proofs of `Cbt`, of `Balloon` where no extents are computed, of types
   and versions in `ImageFile`, of the snapshot tree, of the links of volumes,
   of `Device`, and of the owners of images in `Volume`.
4. next, proofs: `RecoverableOutside` of `ImageFile`, which needs for each step of
   growth, conversion, restore and repair what a power loss may leave of it, index
   table and length together, and that the repair at mount accepts that.
