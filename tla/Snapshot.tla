------------------------------ MODULE Snapshot ------------------------------
(***************************************************************************)
(* Snapshot operations of libploop: ploop_create_snapshot,                 *)
(* ploop_create_temporary_snapshot, ploop_delete_snapshot,                 *)
(* ploop_switch_snapshot_ex (lib/snapshot.c), ploop_merge_snapshot         *)
(* (lib/merge.c), complete_running_operation for an interrupted merge      *)
(* (lib/balloon.c) and mounting and unmounting the image (lib/ploop.c).    *)
(*                                                                         *)
(* One process at a time holds the lock of DiskDescriptor.xml              *)
(* (ploop_lock_dd) and runs one operation; op is that process.  Between    *)
(* any two of its steps the guest writes to the running device, holders of *)
(* read-only devices come and go, a call may fail, the process may be      *)
(* killed (the kernel device lives on) or the host may lose power (only    *)
(* the files survive).                                                     *)
(***************************************************************************)
EXTENDS DiskDescriptor

CONSTANTS Block,      \* cluster numbers of the virtual disk
          Hole,       \* an index entry with no data in the delta
          NoFile,     \* no file name
          MaxImages,  \* the limit of do_create_snapshot on stacked images
          MaxWrites,  \* bound on the number of guest writes
          MaxFaults,  \* bound on failed calls, kills and power losses
          MaxRo,      \* bound on read-only devices at the same time
          Ops         \* which operations the clients of the library call

Commands == {"create", "create_offline", "tsnap", "delete", "delete_top",
             "merge", "merge_new", "merge_all", "mount", "mount_ro",
             "umount", "switch", "switch_keep", "switch_dup", "reset"}

ASSUME SnapshotAssumption == /\ Hole \notin Nat
                             /\ NoFile \notin File
                             /\ MaxImages \in Nat
                             /\ MaxWrites \in Nat
                             /\ MaxFaults \in Nat
                             /\ MaxRo \in Nat
                             /\ Ops \subseteq Commands

VARIABLES
  dd,      \* DiskDescriptor.xml
  tmp,     \* DiskDescriptor.xml.tmp, NoDi when there is none
  link,    \* image files that have a directory entry
  data,    \* data[f][b]: the block b of delta f, or Hole
  dev,     \* the kernel device: its delta stack and maintenance state
  ro,      \* read-only devices over snapshots
  op,      \* the operation of the process that holds the lock
  writes,  \* number of guest writes so far
  faults,  \* number of faults so far
  disk,    \* history: what the guest last wrote to each block
  want,    \* history: what each snapshot contained when it was made
  waived,  \* history: snapshots whose content is given up (deleted, merged)
  gap      \* history: a fault parted the device from DiskDescriptor.xml

vars == <<dd, tmp, link, data, dev, ro, op, writes, faults, disk, want,
          waived, gap>>
files == <<dd, tmp, link, data>>
ghosts == <<disk, want, waived, gap>>
world == <<writes, faults>>

NoDi == [ent |-> << >>, top |-> TopDelta]

NoOp == [cmd |-> "none", pc |-> "idle", ret |-> "none", di |-> NoDi,
         guid |-> TopDelta, victim |-> TopDelta, child |-> TopDelta,
         file |-> NoFile, del |-> NoFile, old |-> NoFile,
         online |-> FALSE, kern |-> FALSE, top |-> FALSE, new |-> FALSE,
         err |-> FALSE, i |-> 0, n |-> 0, todo |-> {}]

NoDev == [stack |-> << >>, mntn |-> "off"]

Running == dev.stack # << >>

Top(s) == s[Len(s)]

InStack(s) == {s[i] : i \in DOMAIN s}

\* a file name nobody uses: the code makes it from a generated uuid
Taken == link \cup FilesOf(dd) \cup InStack(dev.stack)
              \cup UNION {InStack(r.stack) : r \in ro}
NewFile == CHOOSE f \in File : f \notin Taken
NameLeft == \E f \in File : f \notin Taken

\* what reading block b through a stack of deltas gives
Seen(d, s, b) ==
  LET hit == {i \in DOMAIN s : d[s[i]][b] # Hole}
  IN  IF hit = {} THEN 0
      ELSE d[s[CHOOSE i \in hit : \A j \in hit : j <= i]][b]

View(d, s) == [b \in Block |-> Seen(d, s, b)]

Content(di, g) == View(data, ImagesList(di, g))

EmptyDelta == [b \in Block |-> Hole]

-----------------------------------------------------------------------------
(* Initially one base image, stopped, every block written once with 0.     *)

Init ==
  \E f \in File :
    /\ dd = [ent |-> <<[guid |-> TopDelta, parent |-> NoneUuid,
                        temp |-> FALSE, file |-> f]>>,
             top |-> TopDelta]
    /\ f = CHOOSE x \in File : TRUE
    /\ link = {f}
    /\ tmp = NoDi
    /\ data = [x \in File |-> IF x = f THEN [b \in Block |-> 0]
                                        ELSE EmptyDelta]
    /\ dev = NoDev
    /\ ro = {}
    /\ op = NoOp
    /\ writes = 0
    /\ faults = 0
    /\ disk = [b \in Block |-> 0]
    /\ want = [g \in Guid |-> [b \in Block |-> 0]]
    /\ waived = {}
    /\ gap = FALSE

-----------------------------------------------------------------------------
(* Devices: who has a snapshot's delta on top.                             *)

DevsOn(f) == {r \in ro : Top(r.stack) = f}

MainOn(f) == Running /\ Top(dev.stack) = f

\* is_device_inuse on every device found by is_snapshot_in_use; a device
\* with the cookie mark or without a holder is not in use
InUse(f) == MainOn(f) \/ \E r \in DevsOn(f) : r.kind = "held"

\* mutant: devices on a regular snapshot are not looked for
MountBusyTemp(di, g) == g # di.top /\ IsTemp(di, g) /\ InUse(FileOf(di, g))

\* check_snapshot_mount refuses; a temporary snapshot's devices are
\* stopped when nobody holds them, any device on a regular one is an error
MountBusy(di, g) ==
  LET f == FileOf(di, g)
  IN  /\ g # di.top
      /\ IF IsTemp(di, g) THEN InUse(f) ELSE MainOn(f) \/ DevsOn(f) # {}

\* mutant: the devices are left running
StoppedNone(di, g) == {}

\* the devices check_snapshot_mount stops
Stopped(di, g) == IF g # di.top /\ IsTemp(di, g) THEN DevsOn(FileOf(di, g))
                                                ELSE {}

-----------------------------------------------------------------------------
(* Returning from do_delete_snapshot, ploop_merge_snapshot_by_guid and     *)
(* do_mntn_merge to whoever called them.                                   *)

\* mutant: merge_temporary_snapshots starts again after every deletion,
\* whether or not the array changed
ReturnRestarting(o, ok) ==
  IF o.ret = "none" /\ o.i > 0 /\ ok
  THEN [o EXCEPT !.pc = "mtmp", !.kern = FALSE, !.top = FALSE,
                 !.del = NoFile, !.err = FALSE, !.i = 1]
  ELSE IF o.ret = "none" /\ o.cmd = "delete" /\ ok
       THEN [o EXCEPT !.pc = "mtmp", !.i = 1]
       ELSE NoOp

Return(o, ok) ==
  CASE o.ret # "none" /\ ok ->
         [o EXCEPT !.pc = o.ret, !.ret = "none", !.kern = FALSE,
                   !.top = FALSE, !.del = NoFile, !.err = FALSE]
    [] o.ret = "none" /\ o.i > 0 /\ ok ->
         [o EXCEPT !.pc = "mtmp", !.kern = FALSE, !.top = FALSE,
                   !.del = NoFile, !.err = FALSE,
                   !.i = IF Len(o.di.ent) # o.n THEN 1 ELSE @ + 1]
    [] o.ret = "none" /\ o.i = 0 /\ o.cmd = "delete" /\ ok ->
         [o EXCEPT !.pc = "mtmp", !.kern = FALSE, !.top = FALSE,
                   !.del = NoFile, !.err = FALSE, !.i = 1]
    [] /\ o.ret = "none" /\ o.i = 0 /\ o.cmd = "merge_all" /\ ok
       /\ Len(o.di.ent) # 1 ->
         [o EXCEPT !.pc = "mg", !.kern = FALSE, !.top = FALSE,
                   !.del = NoFile, !.err = FALSE, !.child = o.di.top]
    [] OTHER -> NoOp

\* ploop_lock_dd: the lock is free and the descriptor is valid
Locked(cmd) == op.pc = "idle" /\ cmd \in Ops /\ Valid(dd)

At(pc) == op.pc = pc

-----------------------------------------------------------------------------
(* complete_running_operation, called with the device running.             *)

CompleteNothing ==
  /\ At("complete")
  /\ dev.mntn = "off"
  /\ op' = [op EXCEPT !.pc = op.ret, !.ret = "none"]
  /\ UNCHANGED <<files, dev, ro, world, ghosts>>

\* do_mntn_merge: a merge of the top delta was interrupted
MntnMerge ==
  /\ At("complete")
  /\ dev.mntn = "merge"
  /\ LET t == op.di.top
         ok == /\ CanMerge(op.di, t)
               /\ FileOf(op.di, t) \in link
               /\ FileOf(op.di, t) = Top(dev.stack)
         merged == MergeImage(op.di, t)
     IN  IF ok
         THEN /\ tmp' = merged
              /\ op' = [op EXCEPT !.pc = "mg_ioctl", !.di = merged,
                                  !.kern = TRUE, !.top = TRUE, !.new = FALSE,
                                  !.del = FileOf(op.di, t)]
              /\ waived' = waived \cup {ParentOf(op.di, t)}
         ELSE /\ op' = NoOp
              /\ UNCHANGED <<tmp, waived>>
  /\ UNCHANGED <<dd, link, data, dev, ro, world, disk, want, gap>>

-----------------------------------------------------------------------------
(* merge_temporary_snapshots: the loop over the array, started again       *)
(* from its beginning when a deletion changed the array.                   *)

MergeTemporary ==
  /\ At("mtmp")
  /\ LET here == op.di.ent[op.i]
     IN  op' = IF op.i > Len(op.di.ent)
               THEN IF op.cmd \in {"create", "create_offline", "tsnap"}
                    THEN [op EXCEPT !.pc = "cr", !.i = 0]
                    ELSE NoOp
               ELSE IF here.temp /\ ~ InUse(FileOf(op.di, here.guid))
                    THEN [op EXCEPT !.pc = "del", !.victim = here.guid,
                                    !.n = Len(op.di.ent)]
                    ELSE [op EXCEPT !.i = @ + 1]
  /\ UNCHANGED <<files, dev, ro, world, ghosts>>

-----------------------------------------------------------------------------
(* do_delete_snapshot.                                                     *)

\* the early returns
DeleteRefused ==
  /\ At("del")
  /\ LET g == op.victim
         p == ParentOf(op.di, g)
     IN  \/ ~ Has(op.di, g)
         \/ Running /\ g = op.di.top
         \/ /\ ChildCount(op.di, g) = 0
            /\ \/ p = NoneUuid
               \/ g = op.di.top /\ (Has(op.di, p) => IsTemp(op.di, p))
               \/ MountBusy(op.di, g)
  /\ op' = Return(op, FALSE)
  /\ UNCHANGED <<files, dev, ro, world, ghosts>>

\* mutant: the file is unlinked before the descriptor is stored
DeleteLeafUnlinking ==
  /\ At("del")
  /\ Has(op.di, op.victim)
  /\ ~ (Running /\ op.victim = op.di.top)
  /\ CanRemove(op.di, op.victim)
  /\ ~ MountBusy(op.di, op.victim)
  /\ link' = link \ {FileOf(op.di, op.victim)}
  /\ op' = [op EXCEPT !.pc = "dl_store", !.del = FileOf(op.di, op.victim),
                      !.di = RemoveImage(op.di, op.victim, TRUE)]
  /\ UNCHANGED <<dd, tmp, data, ro, dev, world, ghosts>>

\* no children: taken out of the descriptor
DeleteLeaf ==
  /\ At("del")
  /\ LET g == op.victim
     IN  /\ Has(op.di, g)
         /\ ~ (Running /\ g = op.di.top)
         /\ CanRemove(op.di, g)
         /\ g = op.di.top => /\ Has(op.di, ParentOf(op.di, g))
                             /\ ~ IsTemp(op.di, ParentOf(op.di, g))
         /\ ~ MountBusy(op.di, g)
         /\ op' = [op EXCEPT !.pc = "dl_store", !.del = FileOf(op.di, g),
                             !.di = RemoveImage(op.di, g, TRUE)]
         /\ ro' = ro \ Stopped(op.di, g)
         /\ waived' = waived \cup {g}
  /\ UNCHANGED <<files, dev, world, disk, want, gap>>

\* ploop_store_diskdescriptor(conf): written aside, synced and renamed
DeleteStore ==
  /\ At("dl_store")
  /\ dd' = op.di
  /\ disk' = IF op.victim = dd.top THEN Content(op.di, op.di.top) ELSE disk
  /\ op' = [op EXCEPT !.pc = "dl_unlink"]
  /\ UNCHANGED <<tmp, link, data, dev, ro, world, want, waived, gap>>

DeleteUnlink ==
  /\ At("dl_unlink")
  /\ link' = link \ {op.del}
  /\ op' = Return(op, TRUE)
  /\ UNCHANGED <<dd, tmp, data, dev, ro, world, ghosts>>

\* one child: merge it into the snapshot
DeleteByMerge ==
  /\ At("del")
  /\ LET g == op.victim
     IN  /\ Has(op.di, g)
         /\ ~ (Running /\ g = op.di.top)
         /\ ChildCount(op.di, g) = 1
         /\ op' = [op EXCEPT !.pc = "mg", !.child = ChildOf(op.di, g)]
  /\ UNCHANGED <<files, dev, ro, world, ghosts>>

\* several children: marked temporary instead
DeleteMark ==
  /\ At("del")
  /\ LET g == op.victim
         marked == SetTemporary(op.di, g)
     IN  /\ Has(op.di, g)
         /\ ~ (Running /\ g = op.di.top)
         /\ ChildCount(op.di, g) > 1
         /\ ~ IsTemp(op.di, g)
         /\ dd' = marked
         /\ op' = Return([op EXCEPT !.di = marked], TRUE)
         /\ waived' = waived \cup {g}
  /\ UNCHANGED <<tmp, link, data, dev, ro, world, disk, want, gap>>

\* already marked: what ploop_find_dev_by_dd returned is returned, 0 when
\* the device runs and 1 when it does not
DeleteMarked ==
  /\ At("del")
  /\ LET g == op.victim
     IN  /\ Has(op.di, g)
         /\ ~ (Running /\ g = op.di.top)
         /\ ChildCount(op.di, g) > 1
         /\ IsTemp(op.di, g)
  /\ op' = Return(op, Running)
  /\ UNCHANGED <<files, dev, ro, world, ghosts>>

-----------------------------------------------------------------------------
(* ploop_merge_snapshot_by_guid and merge_image.                           *)

Level(f) == LET at == {i \in DOMAIN dev.stack : dev.stack[i] = f}
            IN  IF at = {} THEN 0 ELSE CHOOSE i \in at : TRUE

\* the checks before the device is asked about a running operation
MergeChecked ==
  /\ CanMerge(op.di, op.child)
  /\ Has(op.di, ParentOf(op.di, op.child))
  /\ {FileOf(op.di, op.child), FileOf(op.di, ParentOf(op.di, op.child))}
        \subseteq link

\* the deltas are neighbours on the device, or neither of them is on it;
\* child and parent were looked up before the interrupted merge of the top
\* delta was completed, so a second merge of the top delta fails here
MergeLevels ==
  LET lc == Level(FileOf(op.di, op.child))
      lp == Level(FileOf(op.di, ParentOf(op.di, op.child)))
  IN  Running => /\ Len(dev.stack) > 1
                 /\ (lc = 0 /\ lp = 0) \/ (lp > 0 /\ lc = lp + 1)
                 /\ At("mg2") => op.child # op.di.top

MergeAt == At("mg") \/ At("mg2")

MustComplete == At("mg") /\ Running /\ dev.mntn # "off"

MergeRefused ==
  /\ MergeAt
  /\ ~ MergeChecked \/ ~ MustComplete
  /\ LET p == ParentOf(op.di, op.child)
     IN  IF ~ MergeChecked \/ ~ MergeLevels
         THEN UNCHANGED ro
         ELSE \/ MountBusy(op.di, p) /\ UNCHANGED ro
              \/ /\ ~ MountBusy(op.di, p)
                 /\ MountBusy(op.di, op.child)
                 /\ ro' = ro \ Stopped(op.di, p)
  /\ op' = Return(op, FALSE)
  /\ UNCHANGED <<files, dev, world, ghosts>>

MergeComplete ==
  /\ At("mg")
  /\ MergeChecked
  /\ MustComplete
  /\ op' = [op EXCEPT !.pc = "complete", !.ret = "mg2"]
  /\ UNCHANGED <<files, dev, ro, world, ghosts>>

\* the merged descriptor goes to conf.tmp before any data moves
MergeBegin ==
  /\ MergeAt
  /\ MergeChecked
  /\ ~ MustComplete
  /\ MergeLevels
  /\ LET c == op.child
         p == ParentOf(op.di, c)
         merged == MergeImage(op.di, c)
         kern == Level(FileOf(op.di, c)) > 0
         top == kern /\ FileOf(op.di, c) = Top(dev.stack)
         target == IF op.new THEN NewFile ELSE FileOf(op.di, p)
     IN  /\ op.new => NameLeft
         /\ ~ MountBusy(op.di, p)
         /\ ~ MountBusy(op.di, c)
         /\ ro' = ro \ (Stopped(op.di, p) \cup Stopped(op.di, c))
         /\ tmp' = merged
         /\ link' = IF op.new THEN link \cup {target} ELSE link
         /\ data' = IF op.new THEN [data EXCEPT ![target] = EmptyDelta]
                              ELSE data
         /\ op' = [op EXCEPT !.pc = "mg_copy", !.di = merged, !.kern = kern,
                             !.top = top, !.file = target,
                             !.old = FileOf(op.di, p),
                             !.del = FileOf(op.di, c),
                             !.todo = IF top /\ ~ op.new THEN {} ELSE Block]
         /\ waived' = waived \cup {p}
  /\ UNCHANGED <<dd, dev, world, disk, want, gap>>

\* mutant: blocks the parent already has are kept
MergeCopyKeeping(b) ==
  /\ At("mg_copy")
  /\ b \in op.todo
  /\ data' = IF data[op.file][b] = Hole
             THEN [data EXCEPT ![op.file][b] = data[op.del][b]]
             ELSE data
  /\ op' = [op EXCEPT !.todo = @ \ {b}]
  /\ UNCHANGED <<dd, tmp, link, dev, ro, world, ghosts>>

\* one cluster: from the child (over the parent for a new delta) into the
\* merged image; a running top delta is left to the kernel
MergeCopy(b) ==
  /\ At("mg_copy")
  /\ b \in op.todo
  /\ LET src == CASE op.new /\ op.top -> <<op.old>>
                  [] op.new /\ ~ op.top -> <<op.old, op.del>>
                  [] OTHER -> <<op.del>>
     IN  data' = IF \E i \in DOMAIN src : data[src[i]][b] # Hole
                 THEN [data EXCEPT ![op.file][b] = Seen(data, src, b)]
                 ELSE data
  /\ op' = [op EXCEPT !.todo = @ \ {b}]
  /\ UNCHANGED <<dd, tmp, link, dev, ro, world, ghosts>>

\* mutant: the rename of conf.tmp is forgotten
MergedNoRename(o) == [o EXCEPT !.pc = "mg_unlink"]

Merged(o) == [o EXCEPT !.pc = IF o.new THEN "mg_swap" ELSE "mg_rename"]

MergeCopied ==
  /\ At("mg_copy")
  /\ op.todo = {}
  /\ op' = CASE op.kern /\ op.new -> [op EXCEPT !.pc = "mg_replace"]
             [] op.kern /\ ~ op.new -> [op EXCEPT !.pc = "mg_ioctl"]
             [] OTHER -> Merged(op)
  /\ UNCHANGED <<files, dev, ro, world, ghosts>>

\* mutant: the child is replaced instead of the parent
MergeReplaceChild ==
  /\ At("mg_replace")
  /\ dev' = [dev EXCEPT !.stack[Level(op.del)] = op.file]
  /\ op' = [op EXCEPT !.pc = "mg_ioctl"]
  /\ UNCHANGED <<files, ro, world, ghosts>>

\* PLOOP_IOC_REPLACE_DELTA: the new delta in the parent's place
MergeReplace ==
  /\ At("mg_replace")
  /\ dev' = [dev EXCEPT !.stack[Level(op.old)] = op.file]
  /\ op' = [op EXCEPT !.pc = "mg_ioctl"]
  /\ UNCHANGED <<files, ro, world, ghosts>>

\* mutant: the top delta is dropped without moving its blocks
MergeIoctlDropping ==
  /\ At("mg_ioctl")
  /\ dev' = [stack |-> RemoveAt(dev.stack, Level(op.del)), mntn |-> "off"]
  /\ op' = Merged(op)
  /\ UNCHANGED <<files, ro, world, ghosts>>

\* PLOOP_IOC_DEL_DELTA drops the copied child from the stack;
\* PLOOP_IOC_MERGE moves the blocks of the top delta down and drops it
MergeIoctl ==
  /\ At("mg_ioctl")
  /\ LET k == Level(op.del)
         low == dev.stack[k - 1]
     IN  /\ dev' = [stack |-> RemoveAt(dev.stack, k), mntn |-> "off"]
         /\ data' = IF op.top
                    THEN [data EXCEPT ![low] = [b \in Block |->
                            IF data[op.del][b] # Hole
                            THEN data[op.del][b] ELSE @[b]]]
                    ELSE data
  /\ op' = Merged(op)
  /\ UNCHANGED <<dd, tmp, link, ro, world, ghosts>>

\* the new delta's name is stored in conf.tmp
MergeSwap ==
  /\ At("mg_swap")
  /\ LET swapped == SetFile(op.di, op.child, op.file)
     IN  /\ tmp' = swapped
         /\ op' = [op EXCEPT !.pc = "mg_unlinkold", !.di = swapped]
  /\ UNCHANGED <<dd, link, data, dev, ro, world, ghosts>>

\* mutant: the old delta stays
MergeUnlinkOldKeeping ==
  /\ At("mg_unlinkold")
  /\ op' = [op EXCEPT !.pc = "mg_rename"]
  /\ UNCHANGED <<files, dev, ro, world, ghosts>>

\* the old parent delta is removed, before conf.tmp becomes conf
MergeUnlinkOld ==
  /\ At("mg_unlinkold")
  /\ link' = link \ {op.old}
  /\ op' = [op EXCEPT !.pc = "mg_rename"]
  /\ UNCHANGED <<dd, tmp, data, dev, ro, world, ghosts>>

MergeRename ==
  /\ At("mg_rename")
  /\ dd' = tmp
  /\ tmp' = NoDi
  /\ op' = [op EXCEPT !.pc = "mg_unlink"]
  /\ UNCHANGED <<link, data, dev, ro, world, ghosts>>

MergeUnlink ==
  /\ At("mg_unlink")
  /\ link' = link \ {op.del}
  /\ op' = Return(op, ~ op.err)
  /\ UNCHANGED <<dd, tmp, data, dev, ro, world, ghosts>>

-----------------------------------------------------------------------------
(* do_create_snapshot, from the point where temporary snapshots are gone.  *)

\* the old top delta takes the snapshot's uuid, a new top delta goes above
\* it, and the result is stored in conf.tmp
CreateStore ==
  /\ At("cr")
  /\ NameLeft
  /\ LET named == ChangeGuid(op.di, op.di.top, op.guid)
         flagged == IF op.cmd = "tsnap" THEN SetTemporary(named, op.guid)
                                        ELSE named
         added == AddImage(flagged, NewFile, TopDelta, op.guid)
     IN  /\ tmp' = added
         /\ op' = [op EXCEPT !.pc = "cr_delta", !.di = added,
                             !.file = NewFile]
  /\ UNCHANGED <<dd, link, data, dev, ro, world, ghosts>>

\* create_snapshot_delta; want is what the guest's disk holds when the
\* snapshot is taken
CreateDelta ==
  /\ At("cr_delta")
  /\ link' = link \cup {op.file}
  /\ data' = [data EXCEPT ![op.file] = EmptyDelta]
  /\ op' = [op EXCEPT !.pc = IF op.online THEN "cr_ioctl" ELSE "cr_rename"]
  /\ UNCHANGED <<dd, tmp, dev, ro, world, ghosts>>

\* mutant: the device goes on with its old stack
CreateIoctlMissing ==
  /\ At("cr_ioctl")
  /\ op' = [op EXCEPT !.pc = "cr_rename"]
  /\ want' = [want EXCEPT ![op.guid] = disk]
  /\ UNCHANGED <<files, dev, ro, world, disk, waived, gap>>

\* PLOOP_IOC_SNAPSHOT: later writes go to the new delta
CreateIoctl ==
  /\ At("cr_ioctl")
  /\ dev' = [dev EXCEPT !.stack = Append(@, op.file)]
  /\ op' = [op EXCEPT !.pc = "cr_rename"]
  /\ want' = [want EXCEPT ![op.guid] = disk]
  /\ UNCHANGED <<files, ro, world, disk, waived, gap>>

CreateRename ==
  /\ At("cr_rename")
  /\ dd' = tmp
  /\ tmp' = NoDi
  /\ op' = IF op.cmd = "tsnap" THEN [op EXCEPT !.pc = "ts_mount"] ELSE NoOp
  /\ want' = IF op.online THEN want ELSE [want EXCEPT ![op.guid] = disk]
  /\ LET apart == gap \/ (Running /\ ~ op.online)
     IN  /\ gap' = apart
         /\ waived' = IF apart \/ op.cmd = "tsnap"
                      THEN waived \cup {op.guid} ELSE waived \ {op.guid}
  /\ UNCHANGED <<link, data, dev, ro, world, disk>>

\* ploop_create_temporary_snapshot: a read-only device over the snapshot,
\* marked by its cookie (no holder_fd) or held open by the caller
TempMount(kind) ==
  /\ At("ts_mount")
  /\ LET s == ImagesList(op.di, op.guid)
     IN  /\ InStack(s) \subseteq link
         /\ ro' = ro \cup {[stack |-> s, kind |-> kind, val |-> View(data, s)]}
  /\ op' = NoOp
  /\ UNCHANGED <<files, dev, world, ghosts>>

-----------------------------------------------------------------------------
(* ploop_switch_snapshot_ex and reset_top_delta, after the checks.         *)

SwitchDelta ==
  /\ At("sw_delta")
  /\ link' = link \cup {op.file}
  /\ data' = [data EXCEPT ![op.file] = EmptyDelta]
  /\ op' = [op EXCEPT !.pc = "sw_rename"]
  /\ UNCHANGED <<dd, tmp, dev, ro, world, ghosts>>

SwitchRename ==
  /\ At("sw_rename")
  /\ dd' = tmp
  /\ tmp' = NoDi
  /\ op' = IF op.del = NoFile THEN NoOp ELSE [op EXCEPT !.pc = "sw_unlink"]
  /\ disk' = IF Running THEN disk ELSE Content(tmp, tmp.top)
  /\ gap' = (gap \/ Running)
  /\ want' = IF op.cmd = "switch_keep" THEN [want EXCEPT ![op.guid] = disk]
                                       ELSE want
  /\ waived' = IF op.cmd = "switch_keep"
               THEN IF gap' THEN waived \cup {op.guid}
                            ELSE waived \ {op.guid}
               ELSE waived
  /\ UNCHANGED <<link, data, dev, ro, world>>

SwitchUnlink ==
  /\ At("sw_unlink")
  /\ link' = link \ {op.del}
  /\ op' = NoOp
  /\ UNCHANGED <<dd, tmp, data, dev, ro, world, ghosts>>

-----------------------------------------------------------------------------
(* Calls: the lock is taken, the descriptor read and the arguments checked.*)

CreateSnapshot(cmd, g) ==
  /\ Locked(cmd)
  /\ ~ Has(dd, g)
  /\ ImagesList(dd, dd.top) # << >>
  /\ Len(ImagesList(dd, dd.top)) <= MaxImages
  /\ cmd = "tsnap" => Cardinality(ro) < MaxRo
  /\ NameLeft
  /\ Running \/ FileOf(dd, dd.top) \in link
  /\ LET online == Running /\ cmd # "create_offline"
     IN  op' = [NoOp EXCEPT !.cmd = cmd, !.di = dd, !.guid = g, !.i = 1,
                            !.online = online,
                            !.pc = IF online THEN "complete" ELSE "mtmp",
                            !.ret = IF online THEN "mtmp" ELSE "none"]
  /\ UNCHANGED <<files, dev, ro, world, ghosts>>

DeleteSnapshot(g) ==
  /\ Locked(IF g = dd.top THEN "delete_top" ELSE "delete")
  /\ Has(dd, g)
  /\ op' = [NoOp EXCEPT !.cmd = "delete", !.pc = "del", !.di = dd,
                        !.victim = g]
  /\ UNCHANGED <<files, dev, ro, world, ghosts>>

MergeSnapshot(cmd, g) ==
  /\ Locked(cmd)
  /\ Has(dd, g)
  /\ cmd = "merge_all" => g = dd.top /\ Len(dd.ent) # 1
  /\ cmd = "merge_new" => NameLeft
  /\ op' = [NoOp EXCEPT !.cmd = cmd, !.pc = "mg", !.di = dd, !.child = g,
                        !.new = (cmd = "merge_new")]
  /\ UNCHANGED <<files, dev, ro, world, ghosts>>

\* what the descriptor becomes, by the flags: default,
\* SKIP_TOPDELTA_DESTROY with and without guid_old, SKIP_TOPDELTA_CREATE
Switched(cmd, g, old) ==
  CASE cmd = "switch" ->
         AddImage(RemoveImage(dd, dd.top, FALSE), NewFile, TopDelta, g)
    [] cmd = "switch_keep" ->
         AddImage(ChangeGuid(dd, dd.top, old), NewFile, TopDelta, g)
    [] cmd = "switch_dup" -> AddImage(dd, NewFile, TopDelta, g)
    [] cmd = "reset" ->
         ChangeGuid(RemoveImage(dd, dd.top, FALSE), g, TopDelta)

SwitchSnapshot(cmd, g, old) ==
  /\ Locked(cmd)
  /\ g # dd.top
  /\ Has(dd, g)
  /\ ~ IsTemp(dd, g)
  /\ cmd \in {"switch", "reset"} => CanRemove(dd, dd.top)
  /\ cmd = "switch" => ~ Running
  /\ cmd = "switch_keep" => ~ Has(dd, old)
  /\ cmd # "reset" => FileOf(dd, g) \in link /\ NameLeft
  /\ tmp' = Switched(cmd, g, old)
  /\ op' = [NoOp EXCEPT !.cmd = cmd, !.guid = old, !.di = tmp',
              !.pc = IF cmd = "reset" THEN "sw_rename" ELSE "sw_delta",
              !.file = IF cmd = "reset" THEN NoFile ELSE NewFile,
              !.del = IF cmd \in {"switch", "reset"} THEN FileOf(dd, dd.top)
                                                     ELSE NoFile]
  /\ UNCHANGED <<dd, link, data, dev, ro, world, ghosts>>

\* mutant: the top delta is left out of the list, its parent is writable
MountShort ==
  /\ Locked("mount")
  /\ ~ Running
  /\ LET s == ImagesList(dd, dd.top)
     IN  /\ Len(s) > 1
         /\ dev' = [stack |-> RemoveAt(s, Len(s)), mntn |-> "off"]
  /\ gap' = FALSE
  /\ op' = [NoOp EXCEPT !.cmd = "mount", !.pc = "mtmp", !.di = dd, !.i = 1]
  /\ UNCHANGED <<files, ro, world, disk, want, waived>>

\* ploop_mount_image: the device is started over the listed deltas, then
\* temporary snapshots are merged
Mount ==
  /\ Locked("mount")
  /\ ~ Running
  /\ LET s == ImagesList(dd, dd.top)
     IN  /\ s # << >>
         /\ InStack(s) \subseteq link
         /\ dev' = [stack |-> s, mntn |-> "off"]
         /\ disk' = IF gap THEN View(data, s) ELSE disk
  /\ gap' = FALSE
  /\ op' = [NoOp EXCEPT !.cmd = "mount", !.pc = "mtmp", !.di = dd, !.i = 1]
  /\ UNCHANGED <<files, ro, world, want, waived>>

\* ploop_mount_snapshot, read-only and under a component name: another
\* device over the deltas of a snapshot; nothing is merged
MountRo(g) ==
  /\ Locked("mount_ro")
  /\ Has(dd, g)
  /\ Cardinality(ro) < MaxRo
  /\ LET s == ImagesList(dd, g)
     IN  /\ s # << >>
         /\ InStack(s) \subseteq link
         /\ ro' = ro \cup {[stack |-> s, kind |-> "mounted",
                             val |-> View(data, s)]}
  /\ UNCHANGED <<files, dev, op, world, ghosts>>

\* ploop_umount_image: a running operation is completed first
Umount ==
  /\ Locked("umount")
  /\ Running
  /\ op' = [NoOp EXCEPT !.cmd = "umount", !.pc = "complete", !.di = dd,
                        !.ret = "um_stop"]
  /\ UNCHANGED <<files, dev, ro, world, ghosts>>

UmountStop ==
  /\ At("um_stop")
  /\ dev' = NoDev
  /\ op' = NoOp
  /\ UNCHANGED <<files, ro, world, ghosts>>

-----------------------------------------------------------------------------
(* The guest and the holders of read-only devices.                         *)

GuestWrite(b) ==
  /\ Running
  /\ writes < MaxWrites
  /\ writes' = writes + 1
  /\ data' = [data EXCEPT ![Top(dev.stack)][b] = writes + 1]
  /\ disk' = [disk EXCEPT ![b] = writes + 1]
  /\ UNCHANGED <<dd, tmp, link, dev, ro, op, faults, want, waived, gap>>

\* the caller of ploop_create_temporary_snapshot closes holder_fd
HolderExit ==
  /\ \E r \in ro : /\ r.kind = "held"
                   /\ ro' = (ro \ {r}) \cup {[r EXCEPT !.kind = "mounted"]}
  /\ UNCHANGED <<files, dev, op, world, ghosts>>

\* ploop_umount of a read-only device
RoUmount ==
  /\ \E r \in ro : r.kind # "held" /\ ro' = ro \ {r}
  /\ UNCHANGED <<files, dev, op, world, ghosts>>

-----------------------------------------------------------------------------
(* Faults.                                                                 *)

Fault == faults < MaxFaults /\ faults' = faults + 1

\* the kernel already works on a stack that conf does not list yet
InWindow ==
  \/ At("cr_rename") /\ op.online
  \/ op.pc \in {"mg_swap", "mg_unlinkold", "mg_rename"} /\ op.kern
  \/ At("mg_ioctl") /\ op.new

\* create_snapshot_delta or PLOOP_IOC_SNAPSHOT fails: both files go
FailCreate ==
  /\ op.pc \in {"cr_delta", "cr_ioctl", "sw_delta"}
  /\ Fault
  /\ link' = link \ {op.file}
  /\ tmp' = NoDi
  /\ op' = NoOp
  /\ UNCHANGED <<dd, data, dev, ro, writes, ghosts>>

\* after the new delta exists: cbt_snapshot fails and the delta the device
\* already runs on is unlinked; offline, moving the bitmap fails and the
\* delta is left behind
FailCbt ==
  /\ At("cr_rename")
  /\ Fault
  /\ link' = IF op.online THEN link \ {op.file} ELSE link
  /\ tmp' = NoDi
  /\ op' = NoOp
  /\ gap' = (gap \/ InWindow)
  /\ UNCHANGED <<dd, data, dev, ro, writes, disk, want, waived>>

\* rename fails: the new delta is removed unless the device runs on it
FailCreateRename ==
  /\ op.pc \in {"cr_rename", "sw_rename"}
  /\ Fault
  /\ link' = IF At("cr_rename") /\ op.online THEN link
                                             ELSE link \ {op.file}
  /\ tmp' = NoDi
  /\ op' = NoOp
  /\ gap' = (gap \/ InWindow)
  /\ UNCHANGED <<dd, data, dev, ro, writes, disk, want, waived>>

\* a failed call of a merge or of the store of a deletion: conf.tmp and
\* everything done so far stay as they are, but a new delta below the
\* running top delta is unlinked, even if the device already runs on it
FailMerge ==
  /\ op.pc \in {"dl_store", "dl_unlink", "mg_copy", "mg_replace",
                "mg_ioctl", "mg_swap", "mg_rename"}
  /\ Fault
  /\ link' = IF op.new /\ op.top /\ op.pc \in {"mg_copy", "mg_replace", "mg_ioctl"}
             THEN link \ {op.file} ELSE link
  /\ op' = Return(op, FALSE)
  /\ gap' = (gap \/ InWindow)
  /\ UNCHANGED <<dd, tmp, data, dev, ro, writes, disk, want, waived>>

\* unlink fails: the merge goes on and returns the error at its end; the
\* completion of an interrupted merge only logs it
FailUnlink ==
  /\ op.pc \in {"mg_unlinkold", "mg_unlink", "sw_unlink"}
  /\ Fault
  /\ op' = CASE At("mg_unlinkold") ->
                  [op EXCEPT !.pc = "mg_rename", !.err = TRUE]
             [] At("mg_unlink") -> Return(op, op.ret # "none")
             [] OTHER -> NoOp
  /\ UNCHANGED <<files, dev, ro, writes, ghosts>>

\* the read-only device of a temporary snapshot does not start: the top
\* delta is merged back
FailTempMount ==
  /\ At("ts_mount")
  /\ Fault
  /\ op' = [op EXCEPT !.pc = "mg", !.child = op.di.top]
  /\ UNCHANGED <<files, dev, ro, writes, ghosts>>

\* the process is killed: the lock is released, the device stays; inside
\* PLOOP_IOC_MERGE the kernel remembers that a merge is going on
Kill ==
  /\ op.pc # "idle"
  /\ Fault
  /\ op' = NoOp
  /\ dev' = IF At("mg_ioctl") /\ op.top THEN [dev EXCEPT !.mntn = "merge"]
                                        ELSE dev
  /\ gap' = (gap \/ InWindow)
  /\ UNCHANGED <<files, ro, writes, disk, want, waived>>

\* power loss: only the files are left
PowerLoss ==
  /\ Fault
  /\ op' = NoOp
  /\ dev' = NoDev
  /\ ro' = {}
  /\ gap' = (gap \/ InWindow)
  /\ UNCHANGED <<files, writes, disk, want, waived>>

-----------------------------------------------------------------------------
(* A step of the running operation, a call, and everything together.       *)

Step ==
  \/ CompleteNothing \/ MntnMerge \/ MergeTemporary
  \/ DeleteRefused \/ DeleteLeaf \/ DeleteStore \/ DeleteUnlink
  \/ DeleteByMerge \/ DeleteMark \/ DeleteMarked
  \/ MergeRefused \/ MergeComplete \/ MergeBegin
  \/ \E b \in Block : MergeCopy(b)
  \/ MergeCopied \/ MergeReplace \/ MergeIoctl \/ MergeSwap
  \/ MergeUnlinkOld \/ MergeRename \/ MergeUnlink
  \/ CreateStore \/ CreateDelta \/ CreateIoctl \/ CreateRename
  \/ \E kind \in {"mark", "held"} : TempMount(kind)
  \/ SwitchDelta \/ SwitchRename \/ SwitchUnlink
  \/ UmountStop

Call ==
  \/ \E g \in Guid, cmd \in {"create", "create_offline", "tsnap"} :
        CreateSnapshot(cmd, g)
  \/ \E g \in AnyGuid : DeleteSnapshot(g)
  \/ \E g \in AnyGuid, cmd \in {"merge", "merge_new", "merge_all"} :
        MergeSnapshot(cmd, g)
  \/ \E g \in Guid, old \in Guid : SwitchSnapshot("switch_keep", g, old)
  \/ \E g \in Guid, cmd \in {"switch", "switch_dup", "reset"} :
        SwitchSnapshot(cmd, g, TopDelta)
  \/ \E g \in Guid : MountRo(g)
  \/ Mount \/ Umount

Environment ==
  \/ \E b \in Block : GuestWrite(b)
  \/ HolderExit \/ RoUmount

Failure ==
  \/ FailCreate \/ FailCbt \/ FailCreateRename \/ FailMerge \/ FailUnlink
  \/ FailTempMount \/ Kill \/ PowerLoss

Next == Step \/ Call \/ Environment \/ Failure

Spec == Init /\ [][Next]_vars

(* A process that holds the lock keeps running unless it is killed.        *)
FairSpec == Spec /\ WF_vars(Step)

-----------------------------------------------------------------------------
(* Properties.                                                             *)

Delta == [Block -> Nat \cup {Hole}]

Stack == Seq(File)

Device == [stack : Stack, mntn : {"off", "merge"}]

Pcs == {"idle", "complete", "mtmp", "del", "dl_store", "dl_unlink", "mg",
        "mg2", "mg_copy", "mg_replace", "mg_ioctl", "mg_swap",
        "mg_unlinkold", "mg_rename", "mg_unlink", "cr", "cr_delta",
        "cr_ioctl", "cr_rename", "ts_mount", "sw_delta", "sw_rename",
        "sw_unlink", "um_stop"}

Rets == {"none", "mtmp", "mg2", "um_stop"}

Operation == [cmd : Commands \cup {"none"}, pc : Pcs,
              ret : Rets, di : Descriptor,
              guid : AnyGuid, victim : AnyGuid, child : AnyGuid,
              file : File \cup {NoFile}, del : File \cup {NoFile},
              old : File \cup {NoFile}, online : BOOLEAN, kern : BOOLEAN,
              top : BOOLEAN, new : BOOLEAN, err : BOOLEAN, i : Nat, n : Nat,
              todo : SUBSET Block]

StorageOK ==
  /\ dd \in Descriptor
  /\ tmp \in Descriptor
  /\ link \subseteq File
  /\ data \in [File -> Delta]

DevicesOK ==
  /\ dev \in Device
  /\ \A r \in ro : r.stack \in Stack /\ r.kind \in {"mark", "held", "mounted"}

\* Every variable but the histories keeps its type: the descriptors on disk
\* and in memory are lists of entries over known uuids and files, and the
\* stacks of all devices consist of image files.
TypeOK ==
  /\ StorageOK
  /\ DevicesOK
  /\ op \in Operation
  /\ writes \in Nat
  /\ faults \in Nat

\* DiskDescriptor.xml is a well-formed snapshot tree at every moment, also
\* between the steps of an operation and after any fault: uuids and files
\* are unique, the base is images[0] (which the code takes for granted),
\* every parent exists, the top delta exists and is not temporary.
TreeOK == WellFormed(dd)

\* Crash safety of the order "create, rename, unlink": no fault leaves
\* DiskDescriptor.xml naming an image file that does not exist.
FilesExist == FilesOf(dd) \subseteq link

\* The same between operations, and so after a process was killed.
FilesExistAtRest == op.pc = "idle" => FilesExist

\* Creating, merging and deleting snapshots under a running device never
\* changes what the guest reads: its own last writes.
OnlineContent == Running => View(data, dev.stack) = disk

\* What DiskDescriptor.xml would give after a restart is what the guest
\* last wrote, unless the process or the host died between the kernel's
\* switch of deltas and the rename of the descriptor (gap), or is just
\* there (InWindow).
StoredContent == gap \/ InWindow \/ Content(dd, dd.top) = disk

\* A snapshot keeps the content the disk had when it was taken, whatever
\* is created, merged, deleted or written later, and through every fault,
\* until its own deletion or merge has been asked for.
SnapshotContent ==
  \A g \in GuidsOf(dd) \ (waived \cup {TopDelta}) :
     Content(dd, g) = want[g]

\* A read-only device over a snapshot reads the same data from its mount
\* to its unmount: nothing is merged into a delta somebody has mounted.
ReadOnlyStable == \A r \in ro : View(data, r.stack) = r.val

\* With no operation running, the kernel's stack of deltas is the one that
\* DiskDescriptor.xml lists, unless a fault hit the window.
DeviceMatches ==
  Running /\ op.pc = "idle" /\ ~ gap /\ dev.mntn = "off"
     => dev.stack = ImagesList(dd, dd.top)

\* Without faults no operation leaves an image file or a conf.tmp behind.
NoOrphans == faults = 0 /\ op.pc = "idle" => /\ link = FilesOf(dd)
                                             /\ tmp = NoDi

\* Every operation ends: merge_temporary_snapshots restarts its loop from
\* the beginning after each deletion, and merge_all loops until one image
\* is left.
OperationEnds == op.pc # "idle" ~> op.pc = "idle"

-----------------------------------------------------------------------------
(***************************************************************************)
(* The inductive invariant behind TypeOK and, for operations other than    *)
(* merge_new, FilesExist: the local variables of the operation are set     *)
(* when they are used (Locals), no two entries share a file, the           *)
(* descriptor an operation works on is the stored one until it is changed  *)
(* (WorkingCopy), what goes to conf.tmp lists existing files only, and the *)
(* file to be unlinked is not listed (ListedFiles).                        *)
(***************************************************************************)
ReadPcs == {"complete", "mtmp", "del", "mg", "mg2", "cr", "ts_mount"}

NewDeltaPcs == {"cr_delta", "cr_ioctl", "cr_rename", "sw_delta", "sw_rename"}

MergePcs == {"mg_copy", "mg_ioctl", "mg_rename"}

UnlinkPcs == {"dl_unlink", "mg_unlink", "sw_unlink"}

NoNewDelta ==
  ~ op.new /\ op.pc \notin {"mg_replace", "mg_swap", "mg_unlinkold"}

\* the local variables a step relies on are set when it is reached
Locals(o) ==
  /\ o.pc \in {"cr_delta", "cr_ioctl", "sw_delta", "mg_copy"} => o.file \in File
  /\ o.new /\ o.pc \in {"mg_replace", "mg_ioctl", "mg_swap"} => o.file \in File
  /\ o.pc \in {"mg_replace", "mg_swap"} => o.new
  /\ o.pc \in {"mg_copy", "mg_replace", "mg_ioctl"} => o.del \in File
  /\ o.pc = "mg_copy" => o.old \in File
  /\ o.pc = "mtmp" => o.i > 0 /\ o.ret = "none"
  /\ o.ret = "mtmp" => o.i > 0
  /\ o.pc = "complete" => o.ret # "none"

WorkingCopy ==
  /\ op.pc \in ReadPcs \cup UnlinkPcs => op.di = dd
  /\ op.pc \in NewDeltaPcs \cup MergePcs => op.di = tmp
  /\ op.pc \in NewDeltaPcs \cup MergePcs \cup {"dl_store"}
       => UniqueFiles(op.di)

ListedFiles ==
  /\ op.pc \in {"cr_delta", "sw_delta"} => FilesOf(op.di) \subseteq link \cup {op.file}
  /\ op.pc \in {"cr_ioctl", "cr_rename", "sw_rename", "dl_store"} \cup MergePcs
       => FilesOf(op.di) \subseteq link
  /\ op.pc \in NewDeltaPcs => op.file \notin FilesOf(dd)
  /\ op.pc \in {"dl_store", "sw_delta", "sw_rename"} \cup MergePcs \cup UnlinkPcs
       => op.del \notin FilesOf(op.di)

FilesInv == /\ FilesExist
            /\ UniqueFiles(dd)
            /\ NoNewDelta
            /\ WorkingCopy
            /\ ListedFiles

\* At every step of an operation, the descriptor it is about to store names
\* files that exist and the file it is about to remove is named by neither
\* descriptor, so that a fault anywhere leaves DiskDescriptor.xml usable.
SnapshotInv == /\ TypeOK
               /\ Locals(op)
               /\ "merge_new" \notin Ops => FilesInv
=============================================================================
