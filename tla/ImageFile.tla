------------------------------ MODULE ImageFile ------------------------------
(***************************************************************************)
(* The files of a ploop image: header, index table and data clusters, and  *)
(* the operations that rewrite them in place: growing a delta offline and  *)
(* under a running device, converting the format version, restoring an     *)
(* interrupted conversion and repairing a delta before it is mounted.      *)
(*                                                                         *)
(* A file is a header and a sequence of clusters of Words words; the first *)
(* clusters hold the index table, behind a header of MapOffset words.      *)
(* Everything written is in the page cache (cache) until fsync puts it on  *)
(* the platter (disk); a power loss keeps any part of what was not synced. *)
(***************************************************************************)
EXTENDS Integers, FiniteSets, Sequences

CONSTANTS NImages,    \* deltas from the base (1) to the top (NImages)
          Words,      \* words in a cluster
          BlockSize,  \* sectors in a cluster
          InitSize,   \* clusters of the block device at first
          MaxSize,    \* bound: clusters of the block device
          MaxWrites,  \* bound: guest writes
          MaxFaults,  \* bound: kills and power losses
          Ops         \* which operations clients call

MapOffset == 1

ASSUME ImageAssumption ==
  /\ NImages \in Nat \ {0} /\ Words \in Nat \ {0, 1} /\ BlockSize \in Nat \ {0}
  /\ InitSize \in Nat \ {0}
  /\ MaxSize \in Nat /\ MaxWrites \in Nat /\ MaxFaults \in Nat
  /\ Ops \subseteq {"grow", "lower", "convert"}

VARIABLES cache,   \* the files as processes see them
          disk,    \* what a power loss leaves at least
          bak,     \* the backups of index tables
          core,    \* the device: its mapping of each delta, <<>> when stopped
          op,      \* the operation of the process that holds the lock
          half,    \* a cluster allocated by the kernel and not yet mapped
          want,    \* what the guest has written
          writes, faults,
          torn     \* which of the windows named below were met

vars == <<cache, disk, bak, core, op, half, want, writes, faults, torn>>

Images == 1 .. NImages
Top == NImages

Cluster == [0 .. Words - 1 -> Nat]
Data(v) == [w \in 0 .. Words - 1 |-> v]
Zero == Data(0)

-----------------------------------------------------------------------------
(* The format.                                                             *)

\* generate_pvd_header: clusters taken by the header and the index table
FirstBlock(size) == (MapOffset + size + Words - 1) \div Words

\* ploop_ioff_to_sec and ploop_sec_to_ioff, in clusters: version 1 stores
\* sectors, version 2 clusters
Encode(iblk, ver) == IF ver = 1 THEN iblk * BlockSize ELSE iblk
Decode(word, ver) == IF ver = 1 THEN word \div BlockSize ELSE word

AllocHead(f) == Len(f.blk)

\* blk[i + 1] is cluster i of the file
BlockAt(f, i) == IF i < AllocHead(f) THEN f.blk[i + 1] ELSE Zero

L1(f) == FirstBlock(f.size)

L2Cluster(clu) == (clu + MapOffset) \div Words
L2Slot(clu) == (clu + MapOffset) % Words

Slot(f, clu) == BlockAt(f, L2Cluster(clu))[L2Slot(clu)]

\* the slots of the whole index table, also those past the device
Slots(f) == 0 .. L1(f) * Words - MapOffset - 1

Mapped(f, clu) == clu < f.size /\ Slot(f, clu) # 0

\* write at cluster i, extending the file when needed
PWrite(f, i, b) ==
  [f EXCEPT !.blk = [k \in 1 .. (IF i < Len(@) THEN Len(@) ELSE i + 1) |->
                       IF k = i + 1 THEN b ELSE BlockAt(f, k - 1)]]

PWriteSlot(f, clu, word) ==
  PWrite(f, L2Cluster(clu), [BlockAt(f, L2Cluster(clu)) EXCEPT ![L2Slot(clu)] = word])

\* open_delta without OD_ALLOW_DIRTY
CanOpen(f) == f.inuse # "yes"

-----------------------------------------------------------------------------
(* What a guest reads: the topmost delta that maps the cluster.            *)

MapOf(f) == [clu \in 0 .. f.size - 1 |->
               IF Slot(f, clu) = 0 THEN 0 ELSE Decode(Slot(f, clu), f.ver)]

\* through the mappings m of all deltas
ReadThrough(files, m, clu) ==
  LET levels == {i \in Images : clu \in DOMAIN m[i] /\ m[i][clu] # 0}
  IN  IF levels = {} THEN Zero
      ELSE LET i == CHOOSE i \in levels : \A j \in levels : j <= i
           IN  BlockAt(files[i], m[i][clu])

Running == core # << >>

NoOp == [pc |-> "idle", img |-> 1, i |-> 0, end |-> 0, size |-> 0, ver |-> 1,
         clu |-> 0, maps |-> << >>]

Goto(pc) == op' = [op EXCEPT !.pc = pc]

\* fsync of image i, before and after f is written
Synced(i) == disk' = [disk EXCEPT ![i] = cache[i]]
WriteOnly(i, f) == cache' = [cache EXCEPT ![i] = f] /\ UNCHANGED disk
WriteSync(i, f) == cache' = [cache EXCEPT ![i] = f] /\ disk' = [disk EXCEPT ![i] = f]
SyncWrite(i, f) == cache' = [cache EXCEPT ![i] = f] /\ Synced(i)

Called(name) == name \in Ops /\ op = NoOp

ghosts == <<want, writes, faults, torn>>

-----------------------------------------------------------------------------
(***************************************************************************)
(* Growing: ploop_grow_delta_offline for the top delta, grow_lower_delta   *)
(* for the base under a running device.  Both mark the file dirty and move *)
(* the data clusters that the longer index table needs.                    *)
(***************************************************************************)
Offline == op.size # 0 /\ op.img = Top /\ ~ Running

GrowOffline(size) ==
  /\ Called("grow")
  /\ ~ Running
  /\ CanOpen(cache[Top])
  /\ size > cache[Top].size
  /\ op' = [NoOp EXCEPT !.pc = "g_dirty", !.img = Top, !.size = size]
  /\ UNCHANGED <<cache, disk, bak, core, half, ghosts>>

\* src_size > dst_size: the top was grown after the snapshot was taken
GrowLower ==
  /\ Called("lower")
  /\ Running /\ half = {}
  /\ NImages > 1
  /\ cache[Top].size > cache[1].size
  /\ CanOpen(cache[1])
  /\ op' = [NoOp EXCEPT !.pc = "g_dirty", !.img = 1, !.size = cache[Top].size]
  /\ UNCHANGED <<cache, disk, bak, core, half, ghosts>>

\* dirty_delta
GrowDirty ==
  /\ op.pc = "g_dirty"
  /\ WriteSync(op.img, [cache[op.img] EXCEPT !.inuse = "yes"])
  /\ Goto("g_append")
  /\ UNCHANGED <<bak, core, half, ghosts>>

\* the file is shorter than the new index table: the gap is nullified and
\* needs no relocation
GrowAppend ==
  /\ op.pc = "g_append"
  /\ LET f == cache[op.img]
         l1 == FirstBlock(op.size)
         gap == IF AllocHead(f) < l1 THEN l1 - AllocHead(f) ELSE 0
     IN  /\ WriteOnly(op.img, [f EXCEPT !.blk = @ \o [k \in 1 .. gap |-> Zero]])
         /\ op' = [op EXCEPT !.pc = "g_find", !.i = L1(f), !.end = l1 - gap]
  /\ UNCHANGED <<bak, core, half, ghosts>>

\* relocate_block: the first slot that points to cluster iblk
Owners(f, iblk) == {clu \in 0 .. f.size - 1 : Slot(f, clu) = Encode(iblk, f.ver)}

\* relocate_block: the cluster is copied to the end of the file
RelocateData ==
  /\ op.pc = "g_find" /\ op.i < op.end
  /\ LET f == cache[op.img]
         found == Owners(f, op.i)
     IN  IF found = {}
         THEN Goto("g_nullify") /\ UNCHANGED <<cache, disk>>
         ELSE LET clu == CHOOSE c \in found : \A d \in found : c <= d
              IN  /\ WriteOnly(op.img, PWrite(f, AllocHead(f), BlockAt(f, op.i)))
                  /\ op' = [op EXCEPT !.pc = "g_index", !.clu = clu]
  /\ UNCHANGED <<bak, core, half, ghosts>>

\* the kernel is told the slot within a cluster of the index table, which is
\* the number of the cluster of the device only in the first of them
SlotWindow == torn' = torn \cup
                IF ~ Offline /\ L2Cluster(op.clu) > 0 THEN {"slot"} ELSE {}

\* mutant: the index is written before the data is synced
RelocateIndexUnsynced ==
  /\ op.pc = "g_index"
  /\ LET f == cache[op.img]
     IN  WriteOnly(op.img, PWriteSlot(f, op.clu, Encode(AllocHead(f) - 1, f.ver)))
  /\ IF Offline THEN Goto("g_nullify")
     ELSE op' = [op EXCEPT !.pc = "g_find", !.i = @ + 1,
                   !.maps = Append(@, [req |-> L2Slot(op.clu) - MapOffset,
                                       iblk |-> AllocHead(cache[op.img]) - 1,
                                       zblk |-> op.i])]
  /\ SlotWindow
  /\ UNCHANGED <<bak, core, half, want, writes, faults>>

\* relocate_block: after an fsync its index is written; the kernel is told
\* later
RelocateIndex ==
  /\ op.pc = "g_index"
  /\ LET f == cache[op.img]
     IN  SyncWrite(op.img, PWriteSlot(f, op.clu, Encode(AllocHead(f) - 1, f.ver)))
  /\ IF Offline THEN Goto("g_nullify")
     ELSE op' = [op EXCEPT !.pc = "g_find", !.i = @ + 1,
                   !.maps = Append(@, [req |-> L2Slot(op.clu) - MapOffset,
                                       iblk |-> AllocHead(cache[op.img]) - 1,
                                       zblk |-> op.i])]
  /\ SlotWindow
  /\ UNCHANGED <<bak, core, half, want, writes, faults>>

\* the freed cluster becomes an empty part of the index table
Nullify ==
  /\ op.pc = "g_nullify"
  /\ SyncWrite(op.img, PWrite(cache[op.img], op.i, Zero))
  /\ op' = [op EXCEPT !.pc = "g_find", !.i = @ + 1]
  /\ UNCHANGED <<bak, core, half, ghosts>>

\* mutant: no fsync before the header
GrowHeaderUnsynced ==
  /\ op.pc = "g_find" /\ op.i >= op.end /\ Offline
  /\ WriteOnly(op.img, [cache[op.img] EXCEPT !.size = op.size, !.inuse = "yes", !.conv = FALSE])
  /\ Goto("g_clear")
  /\ UNCHANGED <<bak, core, half, ghosts>>

\* grow_delta without maps: fsync, then the new header, still dirty
GrowHeader ==
  /\ op.pc = "g_find" /\ op.i >= op.end /\ Offline
  /\ SyncWrite(op.img, [cache[op.img] EXCEPT !.size = op.size, !.inuse = "yes", !.conv = FALSE])
  /\ Goto("g_clear")
  /\ UNCHANGED <<bak, core, half, ghosts>>

\* clear_delta at the end of ploop_grow_delta_offline
GrowClear ==
  /\ op.pc = "g_clear"
  /\ WriteSync(op.img, [cache[op.img] EXCEPT !.inuse = "no"])
  /\ op' = NoOp
  /\ want' = [clu \in 0 .. op.size - 1 |->
                IF clu \in DOMAIN want THEN want[clu] ELSE 0]
  /\ UNCHANGED <<bak, core, half, writes, faults, torn>>

\* grow_lower_delta: clear_delta before the kernel is told
LowerClear ==
  /\ op.pc = "g_find" /\ op.i >= op.end /\ ~ Offline
  /\ WriteSync(op.img, [cache[op.img] EXCEPT !.inuse = "no"])
  /\ Goto("l_ioctl")
  /\ UNCHANGED <<bak, core, half, ghosts>>

\* mutant: the kernel is not told
LowerUpdateIndexNot ==
  /\ op.pc = "l_ioctl"
  /\ op' = [op EXCEPT !.pc = "l_zero", !.i = 1]
  /\ UNCHANGED <<cache, disk, bak, core, half, ghosts>>

\* PLOOP_IOC_UPDATE_INDEX
LowerUpdateIndex ==
  /\ op.pc = "l_ioctl"
  /\ core' = [core EXCEPT ![op.img] =
                [clu \in DOMAIN @ |->
                   LET told == {k \in DOMAIN op.maps : op.maps[k].req = clu}
                   IN  IF told = {} THEN @[clu]
                       ELSE op.maps[CHOOSE k \in told : \A m \in told : m <= k].iblk]]
  /\ op' = [op EXCEPT !.pc = "l_zero", !.i = 1]
  /\ UNCHANGED <<cache, disk, bak, half, ghosts>>

\* the relocated clusters are nullified, without an fsync
LowerNullify ==
  /\ op.pc = "l_zero" /\ op.i <= Len(op.maps)
  /\ WriteOnly(op.img, PWrite(cache[op.img], op.maps[op.i].zblk, Zero))
  /\ op' = [op EXCEPT !.i = @ + 1]
  /\ UNCHANGED <<bak, core, half, ghosts>>

LowerHeader ==
  /\ op.pc = "l_zero" /\ op.i > Len(op.maps)
  /\ WriteOnly(op.img, [cache[op.img] EXCEPT !.size = op.size, !.inuse = "no"])
  /\ Goto("l_sync")
  /\ UNCHANGED <<bak, core, half, ghosts>>

LowerSync ==
  /\ op.pc = "l_sync"
  /\ Synced(op.img)
  /\ op' = NoOp
  /\ UNCHANGED <<cache, bak, core, half, ghosts>>

-----------------------------------------------------------------------------
(***************************************************************************)
(* ploop_change_fmt_version: back up all index tables, mark all deltas,    *)
(* rewrite all index tables, unmark all deltas, drop the backups.  The     *)
(* header of each delta was read before the marks were set.                *)
(***************************************************************************)
NoBackup == [size |-> 0, blk |-> << >>]

Convert(ver) ==
  /\ Called("convert")
  /\ ~ Running
  /\ \A i \in Images : CanOpen(cache[i])
  /\ ver # cache[1].ver
  /\ op' = [NoOp EXCEPT !.pc = "c_backup", !.ver = ver]
  /\ UNCHANGED <<cache, disk, bak, core, half, ghosts>>

\* the loops over di->images: the next image at pc, or the next phase
NextImage(pc, next) ==
  op' = IF op.img < NImages THEN [op EXCEPT !.pc = pc, !.img = @ + 1, !.i = 0]
        ELSE [op EXCEPT !.pc = next, !.img = 1, !.i = 0]

\* backup_idx_table, synced
BackupIndex ==
  /\ op.pc = "c_backup"
  /\ bak' = [bak EXCEPT ![op.img] =
               [cache[op.img] EXCEPT !.blk = SubSeq(@, 1, L1(cache[op.img]))]]
  /\ NextImage("c_backup", "c_dirty")
  /\ UNCHANGED <<cache, disk, core, half, ghosts>>

LockDelta ==
  /\ op.pc = "c_dirty"
  /\ WriteSync(op.img, [cache[op.img] EXCEPT !.inuse = "yes"])
  /\ Goto("c_mark")
  /\ UNCHANGED <<bak, core, half, ghosts>>

MarkDelta ==
  /\ op.pc = "c_mark"
  /\ WriteSync(op.img, [cache[op.img] EXCEPT !.conv = TRUE])
  /\ NextImage("c_dirty", "c_index")
  /\ UNCHANGED <<bak, core, half, ghosts>>

\* change_fmt_version: one cluster of the index table is written back
ConvertIndex ==
  /\ op.pc = "c_index" /\ op.i < L1(cache[op.img])
  /\ LET f == cache[op.img]
         first == IF op.i = 0 THEN MapOffset ELSE 0
     IN  WriteOnly(op.img, PWrite(f, op.i, [w \in 0 .. Words - 1 |->
           IF w < first THEN BlockAt(f, op.i)[w]
           ELSE Encode(Decode(BlockAt(f, op.i)[w], f.ver), op.ver)]))
  /\ op' = [op EXCEPT !.i = @ + 1]
  /\ UNCHANGED <<bak, core, half, ghosts>>

\* change_delta_version
ConvertVersion ==
  /\ op.pc = "c_index" /\ op.i = L1(cache[op.img])
  /\ WriteSync(op.img, [cache[op.img] EXCEPT !.ver = op.ver])
  /\ NextImage("c_index", "c_unmark")
  /\ UNCHANGED <<bak, core, half, ghosts>>

UnmarkDelta ==
  /\ op.pc = "c_unmark"
  /\ WriteSync(op.img, [cache[op.img] EXCEPT !.conv = FALSE])
  /\ Goto("c_clear")
  /\ UNCHANGED <<bak, core, half, ghosts>>

UnlockDelta ==
  /\ op.pc = "c_clear"
  /\ WriteSync(op.img, [cache[op.img] EXCEPT !.inuse = "no"])
  /\ NextImage("c_unmark", "c_drop")
  /\ UNCHANGED <<bak, core, half, ghosts>>

DropBackups ==
  /\ op.pc = "c_drop"
  /\ bak' = [i \in Images |-> NoBackup]
  /\ op' = NoOp
  /\ UNCHANGED <<cache, disk, core, half, ghosts>>

-----------------------------------------------------------------------------
(***************************************************************************)
(* Mounting: check_and_restore_fmt_version, then check_deltas from the     *)
(* base up, then the device starts.                                        *)
(***************************************************************************)

\* only the mark of the base says that a conversion was interrupted; the
\* base is restored last
Mount ==
  /\ op = NoOp /\ ~ Running
  /\ op' = [NoOp EXCEPT !.pc = IF cache[1].conv THEN "r_open" ELSE "k_check",
                        !.img = IF cache[1].conv /\ NImages > 1 THEN 2 ELSE 1]
  /\ UNCHANGED <<cache, disk, bak, core, half, ghosts>>

NextRestore ==
  op' = IF op.img = 1 THEN [op EXCEPT !.pc = "k_check"]
        ELSE [op EXCEPT !.pc = "r_open",
                        !.img = IF op.img = NImages THEN 1 ELSE op.img + 1]

\* restore_fmt_version
RestoreSkip ==
  /\ op.pc = "r_open"
  /\ ~ cache[op.img].conv
  /\ NextRestore
  /\ UNCHANGED <<cache, disk, bak, core, half, ghosts>>

RestoreFails ==
  /\ op.pc = "r_open"
  /\ cache[op.img].conv /\ bak[op.img].size # cache[op.img].size
  /\ op' = NoOp
  /\ UNCHANGED <<cache, disk, bak, core, half, ghosts>>

\* mutant: the version in the header is kept
RestoreIndexOnly ==
  /\ op.pc = "r_open"
  /\ cache[op.img].conv /\ bak[op.img].size = cache[op.img].size
  /\ WriteOnly(op.img, [PWrite(cache[op.img], 0, BlockAt(bak[op.img], 0)) EXCEPT !.inuse = "one"])
  /\ op' = [op EXCEPT !.pc = "r_unmark", !.i = 1]
  /\ UNCHANGED <<bak, core, half, ghosts>>

\* do_restore_fmt_version: the first cluster of the backup, with the header
RestoreIndex ==
  /\ op.pc = "r_open"
  /\ cache[op.img].conv /\ bak[op.img].size = cache[op.img].size
  /\ WriteOnly(op.img, [bak[op.img] EXCEPT !.inuse = "one", !.conv = TRUE,
                          !.blk = PWrite(cache[op.img], 0, BlockAt(bak[op.img], 0)).blk])
  /\ op' = [op EXCEPT !.pc = "r_unmark", !.i = 1]
  /\ UNCHANGED <<bak, core, half, ghosts>>

\* the next cluster of the index table
RestoreTable ==
  /\ op.pc = "r_unmark" /\ op.i < L1(bak[op.img])
  /\ WriteOnly(op.img, PWrite(cache[op.img], op.i, BlockAt(bak[op.img], op.i)))
  /\ op' = [op EXCEPT !.i = @ + 1]
  /\ UNCHANGED <<bak, core, half, ghosts>>

\* its fsync, and the mark removed
RestoreUnmark ==
  /\ op.pc = "r_unmark" /\ op.i >= L1(bak[op.img])
  /\ WriteSync(op.img, [cache[op.img] EXCEPT !.conv = FALSE])
  /\ Goto("r_clear")
  /\ UNCHANGED <<bak, core, half, ghosts>>

RestoreClear ==
  /\ op.pc = "r_clear"
  /\ WriteSync(op.img, [cache[op.img] EXCEPT !.inuse = "no"])
  /\ Goto("r_unlink")
  /\ UNCHANGED <<bak, core, half, ghosts>>

RestoreUnlink ==
  /\ op.pc = "r_unlink"
  /\ bak' = [bak EXCEPT ![op.img] = NoBackup]
  /\ NextRestore
  /\ UNCHANGED <<cache, disk, core, half, ghosts>>

\* check_one_slot
Beyond(f, clu) == clu > f.size
Corrupt(f, clu) ==
  LET word == Slot(f, clu)
  IN  \/ f.ver = 1 /\ word % BlockSize # 0
      \/ Decode(word, f.ver) >= AllocHead(f)
Checked(f) == {clu \in Slots(f) : Slot(f, clu) # 0 /\ ~ Beyond(f, clu)}
Twice(f) ==
  \E c \in Checked(f) :
     \/ Decode(Slot(f, c), f.ver) < L1(f)
     \/ \E d \in Checked(f) : d # c /\ Slot(f, d) = Slot(f, c)

Fatal(f) == (\E clu \in Checked(f) : Corrupt(f, clu)) \/ Twice(f)

\* mutant: alloc_head starts at the first data cluster without the table
UsedHeadShort(f) ==
  LET used == {Decode(Slot(f, clu), f.ver) : clu \in Checked(f)} \cup {0}
  IN  CHOOSE n \in used : \A m \in used : m <= n

\* alloc_head: behind the last cluster in use
UsedHead(f) ==
  LET used == {Decode(Slot(f, clu), f.ver) : clu \in Checked(f)} \cup {L1(f) - 1}
  IN  1 + (CHOOSE n \in used : \A m \in used : m <= n)

\* what ploop_check of image i returns when it has to look
Refused(i) ==
  LET f == cache[i]
  IN  \/ f.conv
      \/ Fatal(f)
      \/ i < NImages

Repaired(f) ==
  LET fixed == [k \in DOMAIN f.blk |-> [w \in 0 .. Words - 1 |->
                  LET clu == (k - 1) * Words + w - MapOffset
                  IN  IF clu \in Slots(f) /\ Beyond(f, clu) THEN 0
                      ELSE f.blk[k][w]]]
      head == UsedHead(f)
  IN  [f EXCEPT !.blk = SubSeq(fixed, 1, IF head < Len(@) THEN head ELSE Len(@))]

NextCheck == op' = IF op.img = NImages THEN [op EXCEPT !.pc = "start"]
                   ELSE [op EXCEPT !.img = @ + 1]

\* "Image is clean, check is skipped"
CheckSkip ==
  /\ op.pc = "k_check"
  /\ cache[op.img].inuse # "yes"
  /\ NextCheck
  /\ UNCHANGED <<cache, disk, bak, core, half, ghosts>>

CheckRefused ==
  /\ op.pc = "k_check"
  /\ cache[op.img].inuse = "yes" /\ Refused(op.img)
  /\ op' = NoOp
  /\ UNCHANGED <<cache, disk, bak, core, half, ghosts>>

\* slots past the device are cleared and the tail is trimmed
CheckRepair ==
  /\ op.pc = "k_check"
  /\ cache[op.img].inuse = "yes" /\ ~ Refused(op.img)
  /\ WriteOnly(op.img, Repaired(cache[op.img]))
  /\ Goto("k_hdr")
  /\ UNCHANGED <<bak, core, half, ghosts>>

\* the header is written and synced
CheckHeader ==
  /\ op.pc = "k_hdr"
  /\ WriteSync(op.img, [cache[op.img] EXCEPT !.inuse = "no"])
  /\ op' = IF op.img = NImages THEN [op EXCEPT !.pc = "start"]
           ELSE [op EXCEPT !.pc = "k_check", !.img = @ + 1]
  /\ UNCHANGED <<bak, core, half, ghosts>>

\* the kernel reads the index tables and marks the top delta
Start ==
  /\ op.pc = "start"
  /\ WriteSync(Top, [cache[Top] EXCEPT !.inuse = "yes"])
  /\ core' = [i \in Images |-> MapOf(cache[i])]
  /\ want' = [clu \in 0 .. cache[Top].size - 1 |->
                IF clu \in DOMAIN want THEN want[clu] ELSE 0]
  /\ op' = NoOp
  /\ UNCHANGED <<bak, half, writes, faults, torn>>

Umount ==
  /\ op = NoOp /\ Running /\ half = {}
  /\ WriteSync(Top, [cache[Top] EXCEPT !.inuse = "no"])
  /\ core' = << >>
  /\ UNCHANGED <<op, bak, half, ghosts>>

-----------------------------------------------------------------------------
(* The guest: the kernel writes a new cluster, then its index.             *)

GuestOverwrite(clu) ==
  /\ Running /\ half = {} /\ writes < MaxWrites
  /\ clu \in DOMAIN core[Top] /\ core[Top][clu] # 0
  /\ WriteSync(Top, PWrite(cache[Top], core[Top][clu], Data(writes + 1)))
  /\ want' = [want EXCEPT ![clu] = writes + 1]
  /\ writes' = writes + 1
  /\ UNCHANGED <<bak, core, op, half, faults, torn>>

GuestAllocate(clu) ==
  /\ Running /\ half = {} /\ writes < MaxWrites
  /\ clu \in DOMAIN core[Top] /\ core[Top][clu] = 0
  /\ WriteSync(Top, PWrite(cache[Top], AllocHead(cache[Top]), Data(writes + 1)))
  /\ half' = {clu}
  /\ writes' = writes + 1
  /\ UNCHANGED <<bak, core, op, want, faults, torn>>

GuestMap ==
  /\ \E clu \in half :
       LET f == cache[Top]
           iblk == AllocHead(f) - 1
       IN  /\ WriteSync(Top, PWriteSlot(f, clu, Encode(iblk, f.ver)))
           /\ core' = [core EXCEPT ![Top][clu] = iblk]
           /\ want' = [want EXCEPT ![clu] = writes]
  /\ half' = {}
  /\ UNCHANGED <<bak, op, writes, faults, torn>>

-----------------------------------------------------------------------------
(* Faults.                                                                 *)

Fault == faults < MaxFaults /\ faults' = faults + 1

(***************************************************************************)
(* A fault here leaves a delta that no mount accepts.  Only the top delta   *)
(* may be repaired, so that a lower one must not stay dirty without the     *)
(* mark that calls for a restore; and only the mark of the base calls for   *)
(* it, which is the first to be removed.                                    *)
(***************************************************************************)
MarkWindow ==
  \/ op.pc \in {"c_mark", "c_clear"} /\ op.img < Top
  \/ op.pc = "c_unmark" /\ op.img > 1
  \/ op.pc \in {"g_append", "g_find", "g_index", "g_nullify"} /\ op.img < Top

\* the header may reach the disk before the nullified clusters do
HeaderWindow == \E i \in Images : i < Top /\ cache[i].size # disk[i].size

\* the restored header says 1, not SIGNATURE_DISK_IN_USE: the delta can be
\* opened and grown although its restore has not ended
RestoreWindow == op.pc = "r_unmark"

\* the relocated clusters look free in the file while the device uses them:
\* the next attempt nullifies them
RetryWindow == op.pc = "l_ioctl"

Hit(power) ==
  torn' = torn \cup (IF MarkWindow THEN {"mark"} ELSE {})
               \cup (IF power /\ HeaderWindow THEN {"header"} ELSE {})
               \cup (IF RestoreWindow THEN {"restore"} ELSE {})
               \cup (IF ~ power /\ RetryWindow THEN {"retry"} ELSE {})

\* the process dies or a call fails
Kill ==
  /\ op # NoOp
  /\ Fault
  /\ Hit(FALSE)
  /\ op' = NoOp
  /\ UNCHANGED <<cache, disk, bak, core, half, want, writes>>

\* a failed backup removes the backups, also those that a restore still
\* needs; it leaves no other trace and is not counted
BackupFails ==
  /\ op.pc = "c_backup"
  /\ op' = NoOp
  /\ bak' = [i \in Images |-> NoBackup]
  /\ UNCHANGED <<cache, disk, core, half, ghosts>>

\* the words of d and c that differ
Unsynced(d, c) ==
  {k \in (1 .. Len(c.blk)) \X (0 .. Words - 1) :
     BlockAt(d, k[1] - 1)[k[2]] # c.blk[k[1]][k[2]]}

\* what may be left of c when only d was synced
Leftover(d, c) ==
  {[h EXCEPT !.blk = [k \in 1 .. len |-> [w \in 0 .. Words - 1 |->
       IF <<k, w>> \in kept THEN c.blk[k][w] ELSE BlockAt(d, k - 1)[w]]]] :
     h \in {d, c}, len \in {Len(d.blk), Len(c.blk)},
     kept \in SUBSET Unsynced(d, c)}

PowerLoss ==
  /\ Fault
  /\ Hit(TRUE)
  /\ \E left \in [Images -> UNION {Leftover(disk[i], cache[i]) : i \in Images}] :
       /\ \A i \in Images : left[i] \in Leftover(disk[i], cache[i])
       /\ cache' = left
       /\ disk' = left
  /\ core' = << >>
  /\ op' = NoOp
  /\ half' = {}
  /\ UNCHANGED <<bak, want, writes>>

-----------------------------------------------------------------------------
NewFile(size, blk) == [ver |-> 1, size |-> size, inuse |-> "no",
                       conv |-> FALSE, blk |-> blk]

\* every delta has an index table for InitSize clusters; one cluster has been
\* written and is in the base
Init ==
  /\ \E first \in 0 .. InitSize - 1 :
       LET empty == [k \in 1 .. FirstBlock(InitSize) |-> Zero]
           base == PWriteSlot(NewFile(InitSize, empty \o <<Data(1)>>), first,
                              Encode(FirstBlock(InitSize), 1))
       IN  /\ cache = [i \in Images |-> IF i = 1 THEN base ELSE NewFile(InitSize, empty)]
           /\ want = [clu \in 0 .. InitSize - 1 |-> IF clu = first THEN 1 ELSE 0]
  /\ disk = cache
  /\ bak = [i \in Images |-> NoBackup]
  /\ core = << >>
  /\ op = NoOp
  /\ half = {}
  /\ writes = 1
  /\ faults = 0
  /\ torn = {}

Grow == \/ GrowDirty \/ GrowAppend \/ RelocateData \/ RelocateIndex
        \/ Nullify \/ GrowHeader \/ GrowClear \/ LowerClear
        \/ LowerUpdateIndex \/ LowerNullify \/ LowerHeader \/ LowerSync

ChangeVersion == \/ BackupIndex \/ LockDelta \/ MarkDelta \/ ConvertIndex
                 \/ ConvertVersion \/ UnmarkDelta \/ UnlockDelta \/ DropBackups

MountSteps == \/ RestoreSkip \/ RestoreFails \/ RestoreIndex \/ RestoreTable
              \/ RestoreUnmark
              \/ RestoreClear \/ RestoreUnlink \/ CheckSkip \/ CheckRefused
              \/ CheckRepair \/ CheckHeader \/ Start

Step == Grow \/ ChangeVersion \/ MountSteps

Call == \/ \E size \in 1 .. MaxSize : GrowOffline(size)
        \/ GrowLower
        \/ \E ver \in {1, 2} : Convert(ver)
        \/ Mount \/ Umount

Guest == (\E clu \in 0 .. MaxSize - 1 : GuestOverwrite(clu) \/ GuestAllocate(clu))
         \/ GuestMap

Next == Step \/ Call \/ Guest \/ Kill \/ BackupFails \/ PowerLoss

Spec == Init /\ [][Next]_vars

-----------------------------------------------------------------------------
(* Properties.                                                             *)

File == [ver : {1, 2}, size : Nat, inuse : {"no", "yes", "one"},
         conv : BOOLEAN, blk : Seq(Cluster)]

\* Types, and no file ends inside its own index table (grow_delta moves the
\* clusters behind the table before it takes their place).
TypeOK ==
  /\ cache \in [Images -> File] /\ disk \in [Images -> File]
  /\ \A i \in Images : AllocHead(cache[i]) >= L1(cache[i])
  /\ writes \in Nat /\ faults \in Nat

\* The guest reads what it wrote, before and after growing, converting,
\* restoring and repairing, whatever was interrupted.
GuestContent ==
  Running =>
     \A clu \in DOMAIN want : ReadThrough(cache, core, clu) = Data(want[clu])

\* The same unless a fault hit the window of the header, of a restore or of the
\* retry, or the kernel was told a wrong cluster.
GuestContentOutside == torn \subseteq {"mark"} => GuestContent

\* The mapping that the device uses and the one in the files read the same
\* data at every step of growing a lower delta under the device.
CoreMatches ==
  Running /\ torn \subseteq {"mark"} => \A clu \in DOMAIN want :
     ReadThrough(cache, core, clu)
       = ReadThrough(cache, [i \in Images |-> MapOf(cache[i])], clu)

\* The kernel is never given deltas of two format versions.
VersionsAgree == Running => \A i, j \in Images : cache[i].ver = cache[j].ver

\* what a mount would say now
Mountable ==
  IF cache[1].conv
  THEN \A i \in Images : cache[i].conv => bak[i].size = cache[i].size
  ELSE \A i \in Images : cache[i].inuse = "yes" => ~ Refused(i)

\* After any fault the image can be mounted.
Recoverable == op = NoOp /\ ~ Running => Mountable

\* The same unless the fault hit a window in which a lower delta is dirty
\* and not marked, or marked when the base is not.
RecoverableOutside == torn \subseteq {"slot"} => Recoverable
=============================================================================
