--------------------------------- MODULE Cbt ---------------------------------
(***************************************************************************)
(* Changed block tracking.  The kernel sets a bit for every block that the *)
(* guest writes; snapshots take the bitmap away and start a new one, and   *)
(* an unmounted delta carries it in an optional header: bitmap blocks and  *)
(* an extension block behind the data, pointed to by the header of the     *)
(* file.  An incremental backup copies what the bitmap of a uuid shows, so *)
(* that a block changed since the uuid was set must never be missing.      *)
(*                                                                         *)
(* deltas is the chain of files from the base to the top.  A file is its   *)
(* header (use, ext) and its clusters; since is a ghost: what was written  *)
(* since each uuid was set.                                                *)
(***************************************************************************)
EXTENDS Integers, Sequences, FiniteSets, SequencesExt

CONSTANTS NBits,       \* tracked blocks
          ChunkBits,   \* bits in one cluster of bitmap
          MaxExtents,  \* CBT_MAX_EXTENTS
          Uuid, None,  \* cbt uuids, and no uuid
          MaxDeltas, MaxCalls, MaxWrites, MaxFaults  \* bounds

ASSUME CbtAssumption ==
  /\ NBits \in Nat \ {0} /\ ChunkBits \in Nat \ {0} /\ MaxExtents \in Nat \ {0}
  /\ None \notin Uuid
  /\ MaxDeltas \in Nat \ {0} /\ MaxCalls \in Nat /\ MaxWrites \in Nat /\ MaxFaults \in Nat

VARIABLES deltas, disk,  \* the files as seen and as synced
          dev,           \* the device: on, top (index), id and bits of its tracker
          op,            \* the operation of the process that holds the lock
          since,         \* ghost: blocks written since each uuid was set
          kept,          \* ghost: the uuid that tracks the top delta
          writes, calls, faults,
          torn           \* ghost: faults in the windows named below

vars == <<deltas, disk, dev, op, since, kept, writes, calls, faults, torn>>

Bits == 0 .. NBits - 1
NChunks == (NBits + ChunkBits - 1) \div ChunkBits
Chunk(i) == {b \in Bits : b \div ChunkBits = i - 1}

DataBlock(b) == [t |-> "data", b |-> b]
BitsBlock(s) == [t |-> "bits", s |-> s]
ExtBlock(id, l1) == [t |-> "ext", id |-> id, l1 |-> l1]
ZeroBlock == [t |-> "zero"]

NewDelta == [use |-> "v20", ext |-> 0, map |-> {}, blk |-> << >>,
             since |-> << >>]

NoCbt == [id |-> None, parts |-> << >>]
NoOp == [pc |-> "idle", id |-> None, img |-> 0, next |-> "", pos |-> 0, i |-> 1,
         got |-> {}, or |-> {}, l1 |-> << >>, raw |-> NoCbt]

Top == Len(deltas)
Goto(pc) == op' = [op EXCEPT !.pc = pc]

\* a write that is not synced, and one that is
Put(k, f) == deltas' = [deltas EXCEPT ![k] = f] /\ UNCHANGED disk
PutSync(k, f) == deltas' = [deltas EXCEPT ![k] = f] /\ disk' = [disk EXCEPT ![k] = f]

-----------------------------------------------------------------------------
(* Extents and the encoding of the bitmap.                                 *)

Runs(s, from, to) ==
  {r \in (from .. to) \X (from .. to) :
     /\ r[1] <= r[2] /\ r[1] .. r[2] \subseteq s
     /\ r[1] - 1 \notin s \cap (from .. to)
     /\ r[2] + 1 \notin s \cap (from .. to)}

\* BLKCBTGET: the first MaxExtents extents
Page(s, from, to) ==
  LET runs == Runs(s, from, to)
  IN  {r \in runs : Cardinality({q \in runs : q[1] < r[1]}) < MaxExtents}

Covered(runs) == UNION {r[1] .. r[2] : r \in runs}
PageEnd(runs) == 1 + (CHOOSE n \in Covered(runs) : \A m \in Covered(runs) : m <= n)
Full(runs) == Cardinality(runs) = MaxExtents

\* is_const_bit reads one byte too many: a constant chunk may also be
\* stored as a block
Constants(s, i) == IF s = {} THEN {0} ELSE IF s = Chunk(i) THEN {1} ELSE {}

\* the extension can be read: magic and checksum of its block are right
HasExt(f) == f.ext \in DOMAIN f.blk /\ f.blk[f.ext].t = "ext"

\* an entry of m_L1: 0, 1, or the cluster that holds the bits, minus 1 so
\* that the first cluster is told apart from the constants
L1Readable(f) == \A k \in DOMAIN f.blk[f.ext].l1 :
  f.blk[f.ext].l1[k] > 1 => f.blk[f.ext].l1[k] - 1 \in DOMAIN f.blk

ChunkOf(f, i) ==
  LET l1 == f.blk[f.ext].l1
      b == f.blk[l1[i] - 1]
  IN  IF i \notin DOMAIN l1 \/ l1[i] = 0 THEN {}
      ELSE IF l1[i] = 1 THEN Chunk(i)
      ELSE IF b.t = "bits" THEN b.s ELSE {}

\* load_dirty_bitmap and raw_move_to_memory
Raw(f) == [id |-> f.blk[f.ext].id,
           parts |-> [i \in DOMAIN f.blk[f.ext].l1 |->
                        [const |-> f.blk[f.ext].l1[i] <= 1, s |-> ChunkOf(f, i)]]]
RawBits(raw) == UNION {raw.parts[i].s : i \in DOMAIN raw.parts}

Loadable(f) == f.use = "v21" /\ f.ext # 0 /\ HasExt(f) /\ L1Readable(f)
NothingToLoad(f) == f.ext = 0 \/ f.use = "v20"

\* mutant: two clusters are cut off whatever they are
TruncatedShort(f) == [f EXCEPT !.blk = SubSeq(@, 1, Len(@) - 2)]

\* truncate_ext_blocks: bitmap and extension blocks at the end of the file
Truncated(f) ==
  LET ext == {f.ext} \cup {f.blk[f.ext].l1[k] - 1 : k \in
                {k \in DOMAIN f.blk[f.ext].l1 : f.blk[f.ext].l1[k] > 1}}
      keep == {n \in 0 .. Len(f.blk) : n + 1 .. Len(f.blk) \subseteq ext}
  IN  [f EXCEPT !.blk = SubSeq(@, 1, CHOOSE n \in keep : \A m \in keep : n <= m)]

-----------------------------------------------------------------------------
(***************************************************************************)
(* write_optional_header_to_image and ..._from_raw: the bitmap of the       *)
(* device, or one read from another image, is written behind the data of    *)
(* deltas[op.img]; op.next is where the caller goes on.                     *)
(***************************************************************************)
SaveTo(k, next) == [op EXCEPT !.pc = "save", !.img = k, !.next = next,
                              !.i = 1, !.pos = 0, !.got = {}, !.l1 = << >>]
SaveRawTo(k, next, raw) == [SaveTo(k, next) EXCEPT !.raw = raw]

\* the caller goes on, or ends without the lock
EndSave == op' = IF op.next = "end" THEN NoOp
                 ELSE [op EXCEPT !.pc = op.next, !.raw = NoCbt]

\* no bitmap in the kernel, or open_delta refuses a dirty delta
SaveNothing ==
  /\ op.pc = "save" /\ op.i = 1 /\ op.raw = NoCbt
  /\ dev.id = None \/ deltas[op.img].use = "yes"
  /\ EndSave
  /\ UNCHANGED <<deltas, disk, dev, since, kept, writes, calls, faults, torn>>

\* cbt_get_dirty_bitmap_part: one BLKCBTGET
SaveGet ==
  /\ op.pc = "save" /\ op.i <= NChunks /\ op.raw = NoCbt
  /\ dev.id # None /\ deltas[op.img].use # "yes"
  /\ LET last == IF op.i * ChunkBits <= NBits THEN op.i * ChunkBits - 1 ELSE NBits - 1
         runs == Page(dev.bits, IF op.pos > (op.i - 1) * ChunkBits THEN op.pos
                                ELSE (op.i - 1) * ChunkBits, last)
     IN  op' = [op EXCEPT !.got = @ \cup Covered(runs),
                          !.pos = IF Full(runs) THEN PageEnd(runs) ELSE @,
                          !.pc = IF Full(runs) THEN "save" ELSE "save_chunk"]
  /\ UNCHANGED <<deltas, disk, dev, since, kept, writes, calls, faults, torn>>

\* save_dirty_bitmap_from_raw copies entry by entry
SaveRaw ==
  /\ op.pc = "save" /\ op.raw # NoCbt /\ op.i <= Len(op.raw.parts)
  /\ LET p == op.raw.parts[op.i]
         f == deltas[op.img]
     IN  IF p.const
         THEN /\ op' = [op EXCEPT !.i = @ + 1, !.l1 = Append(@, IF p.s = {} THEN 0 ELSE 1)]
              /\ UNCHANGED <<deltas, disk>>
         ELSE /\ op' = [op EXCEPT !.i = @ + 1, !.l1 = Append(@, Len(f.blk) + 2)]
              /\ Put(op.img, [f EXCEPT !.blk = Append(@, BitsBlock(p.s))])
  /\ UNCHANGED <<dev, since, kept, writes, calls, faults, torn>>

\* mutant: what was taken before the snapshot is left out
SaveChunkFresh ==
  /\ op.pc = "save_chunk"
  /\ LET s == op.got
         f == deltas[op.img]
         next == [op EXCEPT !.pc = "save", !.i = @ + 1, !.pos = 0, !.got = {}]
     IN  \/ \E c \in Constants(s, op.i) :
              /\ op' = [next EXCEPT !.l1 = Append(@, c)]
              /\ UNCHANGED <<deltas, disk>>
         \/ /\ op' = [next EXCEPT !.l1 = Append(@, Len(f.blk) + 2)]
            /\ Put(op.img, [f EXCEPT !.blk = Append(@, BitsBlock(s))])
  /\ UNCHANGED <<dev, since, kept, writes, calls, faults, torn>>

\* the chunk, with what or_data has of it, is an entry or a block
SaveChunk ==
  /\ op.pc = "save_chunk"
  /\ LET s == op.got \cup (op.or \cap Chunk(op.i))
         f == deltas[op.img]
         next == [op EXCEPT !.pc = "save", !.i = @ + 1, !.pos = 0, !.got = {}]
     IN  \/ \E c \in Constants(s, op.i) :
              /\ op' = [next EXCEPT !.l1 = Append(@, c)]
              /\ UNCHANGED <<deltas, disk>>
         \/ /\ op' = [next EXCEPT !.l1 = Append(@, Len(f.blk) + 2)]
            /\ Put(op.img, [f EXCEPT !.blk = Append(@, BitsBlock(s))])
  /\ UNCHANGED <<dev, since, kept, writes, calls, faults, torn>>

\* mutant: the extension is looked for behind its block
SaveHeaderBehind ==
  /\ op.pc = "save"
  /\ op.i > IF op.raw = NoCbt THEN NChunks ELSE Len(op.raw.parts)
  /\ Put(op.img, [deltas[op.img] EXCEPT !.use = "v21",
                       !.ext = Len(deltas[op.img].blk) + 3])
  /\ Goto("save_ext")
  /\ UNCHANGED <<dev, since, kept, writes, calls, faults, torn>>

\* delta_save_optional_header: the header of the file comes first
SaveHeader ==
  /\ op.pc = "save"
  /\ op.i > IF op.raw = NoCbt THEN NChunks ELSE Len(op.raw.parts)
  /\ Put(op.img, [deltas[op.img] EXCEPT !.use = "v21",
                       !.ext = Len(deltas[op.img].blk) + 1])
  /\ Goto("save_ext")
  /\ UNCHANGED <<dev, since, kept, writes, calls, faults, torn>>

SaveExt ==
  /\ op.pc = "save_ext"
  /\ LET id == IF op.raw = NoCbt THEN dev.id ELSE op.raw.id
     IN  Put(op.img, [deltas[op.img] EXCEPT !.blk = Append(@, ExtBlock(id, op.l1))])
  /\ EndSave
  /\ UNCHANGED <<dev, since, kept, writes, calls, faults, torn>>

Save == SaveNothing \/ SaveGet \/ SaveRaw \/ SaveChunk \/ SaveHeader \/ SaveExt

-----------------------------------------------------------------------------
(* Snapshots.                                                              *)

Called == op = NoOp /\ calls < MaxCalls /\ calls' = calls + 1
Fresh(u) == u \in Uuid \ DOMAIN since
SetSince(u) == [v \in DOMAIN since \cup {u} |-> IF v = u THEN {} ELSE since[v]]

CanSnapshot == Called /\ Top < MaxDeltas

\* create_snapshot; with a uuid cbt_snapshot_prepare comes first, which
\* starts tracking where there is none
CreateSnapshot(u) ==
  /\ CanSnapshot /\ dev.on /\ dev.top = Top
  /\ op' = [NoOp EXCEPT !.id = u, !.pc = IF u # None /\ dev.id # None
                                         THEN "prepare" ELSE "ioctl"]
  /\ IF u # None /\ dev.id = None
     THEN dev' = [dev EXCEPT !.id = u, !.bits = {}] /\ since' = SetSince(u)
     ELSE UNCHANGED <<dev, since>>
  /\ UNCHANGED <<deltas, disk, kept, writes, faults, torn>>

\* cbt_get_and_clear: one BLKCBTGET with CI_FLAG_ONCE
SnapshotPrepare ==
  /\ op.pc = "prepare"
  /\ LET runs == Page(dev.bits, op.pos, NBits - 1)
     IN  /\ dev' = [dev EXCEPT !.bits = @ \ Covered(runs)]
         /\ op' = [op EXCEPT !.or = @ \cup Covered(runs),
                             !.pos = IF Full(runs) THEN PageEnd(runs) ELSE @,
                             !.pc = IF Full(runs) THEN @ ELSE "ioctl"]
  /\ UNCHANGED <<deltas, disk, since, kept, writes, calls, faults, torn>>

\* PLOOP_IOC_SNAPSHOT; a backup now reads the frozen deltas
SnapshotIoctl ==
  /\ op.pc = "ioctl"
  /\ LET closed == [deltas[Top] EXCEPT !.use = "v20", !.since = since]
     IN  /\ deltas' = Append([deltas EXCEPT ![Top] = closed], [NewDelta EXCEPT !.use = "yes"])
         /\ disk' = Append([disk EXCEPT ![Top] = closed], [NewDelta EXCEPT !.use = "yes"])
  /\ dev' = [dev EXCEPT !.top = @ + 1]
  /\ op' = IF op.id = None THEN NoOp ELSE [op EXCEPT !.pc = "cbt"]
  /\ since' = IF op.id = None THEN since ELSE SetSince(op.id)
  /\ kept' = IF op.id = None THEN kept ELSE op.id
  /\ UNCHANGED <<writes, calls, faults, torn>>

\* cbt_snapshot: the bitmap goes to the delta that was frozen, unless
\* tracking has just been started
CbtSnapshot ==
  /\ op.pc = "cbt"
  /\ op' = IF dev.id = op.id THEN NoOp ELSE SaveTo(Top - 1, "uuid")
  /\ UNCHANGED <<deltas, disk, dev, since, kept, writes, calls, faults, torn>>

SetUuid ==
  /\ op.pc = "uuid"
  /\ dev' = [dev EXCEPT !.id = op.id]
  /\ op' = NoOp
  /\ UNCHANGED <<deltas, disk, since, kept, writes, calls, faults, torn>>

\* the top delta becomes a snapshot, below a new one
Frozen(f) == [f EXCEPT !.since = since]
AddDelta == /\ deltas' = Append([deltas EXCEPT ![Top] = Frozen(deltas[Top])], NewDelta)
            /\ disk' = Append([disk EXCEPT ![Top] = Frozen(disk[Top])], NewDelta)

\* an offline snapshot with a uuid: write_empty_cbt_to_image
OfflineSnapshot(u) ==
  /\ CanSnapshot /\ ~ dev.on
  /\ AddDelta
  /\ since' = SetSince(u)
  /\ kept' = u
  /\ op' = [NoOp EXCEPT !.pc = "save", !.img = Top + 1, !.next = "end",
                        !.raw = [id |-> u, parts |-> << >>]]
  /\ UNCHANGED <<dev, writes, faults, torn>>

\* without one: ploop_move_cbt from the previous top
OfflineSnapshotMove ==
  /\ CanSnapshot /\ ~ dev.on
  /\ LET f == deltas[Top]
     IN  /\ NothingToLoad(f) \/ Loadable(f)
         /\ op' = IF NothingToLoad(f) THEN NoOp
                  ELSE SaveRawTo(Top + 1, "end", Raw(f))
  /\ AddDelta
  /\ UNCHANGED <<dev, since, kept, writes, faults, torn>>

\* the offline flag on a running image: cbt_dump into a new delta that the
\* device does not use
OfflineSnapshotDump ==
  /\ CanSnapshot /\ dev.on /\ dev.top = Top
  /\ deltas' = Append(deltas, NewDelta) /\ disk' = Append(disk, NewDelta)
  /\ op' = SaveTo(Top + 1, "end")
  /\ torn' = IF dev.id = None THEN torn ELSE torn \cup {"dumped"}
  /\ UNCHANGED <<dev, since, kept, writes, faults>>

-----------------------------------------------------------------------------
(* Merging: the bitmap of the child goes with the data, offline.           *)

\* the data of the child that the parent does not have is added to it
Merged(f, child) ==
  [f EXCEPT !.map = @ \cup child.map,
            !.blk = @ \o SetToSeq({DataBlock(b) : b \in child.map \ f.map})]

MergeOffline ==
  /\ Called /\ ~ dev.on /\ Top > 1
  /\ deltas[Top].use # "yes" /\ deltas[Top - 1].use # "yes"
  /\ LET child == deltas[Top]
         f == [Merged(deltas[Top - 1], child) EXCEPT !.use = "v20", !.since = since]
     IN  /\ PutSync(Top - 1, f)
         /\ op' = IF Loadable(child)
                  THEN SaveRawTo(Top - 1, "unlink", Raw(child))
                  ELSE [NoOp EXCEPT !.pc = "unlink"]
  /\ UNCHANGED <<dev, since, kept, writes, faults, torn>>

MergeUnlink ==
  /\ op.pc = "unlink"
  /\ deltas' = Front(deltas) /\ disk' = Front(disk)
  /\ op' = NoOp
  /\ UNCHANGED <<dev, since, kept, writes, calls, faults, torn>>

\* the top delta of the device is merged by the kernel, which keeps tracking
MergeOnline ==
  /\ Called /\ dev.on /\ dev.top = Top /\ Top > 1
  /\ LET f == [Merged(deltas[Top - 1], deltas[Top]) EXCEPT !.use = "yes"]
     IN  /\ deltas' = [Front(deltas) EXCEPT ![Top - 1] = f]
         /\ disk' = [Front(disk) EXCEPT ![Top - 1] = f]
  /\ dev' = [dev EXCEPT !.top = @ - 1]
  /\ UNCHANGED <<op, since, kept, writes, faults, torn>>

\* the top delta is dropped: the disk goes back to the snapshot below
DeleteTop ==
  /\ Called /\ ~ dev.on /\ Top > 1
  /\ deltas' = Front(deltas) /\ disk' = Front(disk)
  /\ since' = [u \in DOMAIN since |->
                 IF u \in DOMAIN deltas[Top - 1].since THEN deltas[Top - 1].since[u] ELSE Bits]
  /\ kept' = IF Loadable(deltas[Top - 1]) THEN Raw(deltas[Top - 1]).id ELSE None
  /\ UNCHANGED <<dev, op, writes, faults, torn>>

-----------------------------------------------------------------------------
(* Mounting and unmounting.                                                *)

\* a dirty delta is repaired, which closes it as version 2.0
MountCheck ==
  /\ Called /\ ~ dev.on
  /\ \A k \in 1 .. Top - 1 : deltas[k].use # "yes"
  /\ IF deltas[Top].use = "yes" THEN PutSync(Top, [deltas[Top] EXCEPT !.use = "v20"])
     ELSE UNCHANGED <<deltas, disk>>
  /\ op' = [NoOp EXCEPT !.pc = "load"]
  /\ UNCHANGED <<dev, since, kept, writes, faults, torn>>

\* read_optional_header_from_image with DIRTY_BITMAP_TRUNCATE
LoadExt ==
  /\ op.pc = "load"
  /\ LET f == deltas[Top]
     IN  IF NothingToLoad(f) THEN Goto("start") /\ UNCHANGED <<deltas, disk>>
         ELSE IF ~ HasExt(f)
         THEN Put(Top, [f EXCEPT !.ext = 0, !.use = "v20"]) /\ Goto("start")
         ELSE IF ~ L1Readable(f) THEN Goto("start") /\ UNCHANGED <<deltas, disk>>
         ELSE /\ Put(Top, Truncated(f))
              /\ op' = [op EXCEPT !.pc = "start", !.raw = Raw(f)]
  /\ UNCHANGED <<dev, since, kept, writes, calls, faults, torn>>

\* PLOOP_IOC_START marks the top delta dirty; cbt_start before any guest
Start ==
  /\ op.pc = "start"
  /\ PutSync(Top, [deltas[Top] EXCEPT !.use = "yes"])
  /\ dev' = [on |-> TRUE, top |-> Top, id |-> op.raw.id, bits |-> {}]
  /\ op' = IF op.raw = NoCbt THEN NoOp ELSE [op EXCEPT !.pc = "send", !.i = 1]
  /\ UNCHANGED <<since, kept, writes, calls, faults, torn>>

\* send_dirty_bitmap_to_kernel: BLKCBTSET chunk by chunk
SendBitmap ==
  /\ op.pc = "send"
  /\ dev' = [dev EXCEPT !.bits = @ \cup IF op.i \in DOMAIN op.raw.parts
                                         THEN op.raw.parts[op.i].s ELSE {}]
  /\ op' = IF op.i >= Len(op.raw.parts) THEN NoOp ELSE [op EXCEPT !.i = @ + 1]
  /\ UNCHANGED <<deltas, disk, since, kept, writes, calls, faults, torn>>

\* mutant: the bitmap is not saved
UmountUnsaved ==
  /\ Called /\ dev.on
  /\ PutSync(dev.top, [deltas[dev.top] EXCEPT !.use = "v20", !.since = since])
  /\ dev' = [dev EXCEPT !.on = FALSE]
  /\ Goto("stop")
  /\ UNCHANGED <<since, kept, writes, faults, torn>>

\* ploop_umount: the device stops and closes its top delta; its bitmap can
\* still be read
Umount ==
  /\ Called /\ dev.on
  /\ PutSync(dev.top, [deltas[dev.top] EXCEPT !.use = "v20", !.since = since])
  /\ dev' = [dev EXCEPT !.on = FALSE]
  /\ op' = SaveTo(dev.top, "stop")
  /\ UNCHANGED <<since, kept, writes, faults, torn>>

CbtStop ==
  /\ op.pc = "stop"
  /\ dev' = [dev EXCEPT !.id = None, !.bits = {}]
  /\ op' = NoOp
  /\ UNCHANGED <<deltas, disk, since, kept, writes, calls, faults, torn>>

\* ploop_drop_cbt; offline only the extension block is cut off, the list of
\* bitmap blocks is empty because ctx->raw was not set
DropCbt ==
  /\ Called
  /\ IF dev.on
     THEN /\ dev' = [dev EXCEPT !.id = None, !.bits = {}]
          /\ UNCHANGED <<deltas, disk>>
     ELSE /\ deltas[Top].use # "yes" /\ Loadable(deltas[Top])
          /\ Put(Top, Truncated([deltas[Top] EXCEPT !.blk[deltas[Top].ext].l1 = << >>]))
          /\ UNCHANGED dev
  /\ kept' = None
  /\ UNCHANGED <<op, since, writes, faults, torn>>

-----------------------------------------------------------------------------
(* The guest and faults.                                                   *)

\* a block that the delta does not have gets a new cluster
Written(f, b) == [f EXCEPT !.map = @ \cup {b},
                           !.blk = IF b \in f.map THEN @ ELSE Append(@, DataBlock(b))]

GuestWrite(b) ==
  /\ dev.on /\ op.pc # "send" /\ writes < MaxWrites
  /\ PutSync(dev.top, Written(deltas[dev.top], b))
  /\ dev' = IF dev.id = None THEN dev ELSE [dev EXCEPT !.bits = @ \cup {b}]
  /\ since' = [u \in DOMAIN since |-> since[u] \cup {b}]
  /\ writes' = writes + 1
  /\ UNCHANGED <<op, kept, calls, faults, torn>>

(***************************************************************************)
(* The windows in which a fault loses changes: the bitmap has been taken   *)
(* from the kernel and its uuid is still set; a part of it was not sent to *)
(* the kernel, which is ignored; the blocks of the bitmap are not synced   *)
(* and not covered by the checksum; the running device still writes to a   *)
(* delta below the one with the dumped bitmap.                             *)
(***************************************************************************)
Windows ==
     (IF op.or # {} THEN {"taken"} ELSE {})
  \cup (IF op.pc = "send" THEN {"sent"} ELSE {})
  \cup (IF \E k \in DOMAIN deltas : deltas[k].blk # disk[k].blk THEN {"unsynced"} ELSE {})

Fault == faults < MaxFaults /\ faults' = faults + 1

\* the process dies or a call of it fails
Fail ==
  /\ op # NoOp
  /\ Fault
  /\ torn' = torn \cup (Windows \ {"unsynced"})
  /\ dev' = IF dev.on THEN dev ELSE [dev EXCEPT !.id = None, !.bits = {}]
  /\ op' = NoOp
  /\ kept' = IF dev.on THEN dev.id ELSE None
  /\ UNCHANGED <<deltas, disk, since, writes, calls>>

\* the first n clusters of c under the header h, without those that were
\* lost; d is what was synced
Mixed(h, d, c, n, lost) ==
  [h EXCEPT !.blk = [k \in 1 .. n |->
     IF k \in lost \/ k > Len(c.blk)
     THEN IF k <= Len(d.blk) THEN d.blk[k] ELSE ZeroBlock
     ELSE c.blk[k]]]

\* what may be left of one file; the others are written back in time
Leftover(d, c) ==
  {Mixed(h, d, c, n, lost) : h \in {d, c}, n \in {Len(d.blk), Len(c.blk)},
     lost \in SUBSET {k \in DOMAIN c.blk : k > Len(d.blk) \/ d.blk[k] # c.blk[k]}}

PowerLoss ==
  /\ Fault
  /\ torn' = torn \cup Windows
  /\ \E k \in DOMAIN deltas : \E f \in Leftover(disk[k], deltas[k]) :
       deltas' = [deltas EXCEPT ![k] = f]
  /\ disk' = deltas'
  /\ dev' = [on |-> FALSE, top |-> 0, id |-> None, bits |-> {}]
  /\ op' = NoOp
  /\ kept' = None
  /\ UNCHANGED <<since, writes, calls>>

-----------------------------------------------------------------------------
\* an image that was just mounted
Init ==
  /\ deltas = <<[NewDelta EXCEPT !.use = "yes"]>> /\ disk = deltas
  /\ dev = [on |-> TRUE, top |-> 1, id |-> None, bits |-> {}]
  /\ op = NoOp
  /\ since = << >>
  /\ kept = None
  /\ writes = 0 /\ calls = 0 /\ faults = 0 /\ torn = {}

Snapshots == \/ \E u \in Uuid : Fresh(u) /\ (CreateSnapshot(u) \/ OfflineSnapshot(u))
             \/ CreateSnapshot(None)
             \/ SnapshotPrepare \/ SnapshotIoctl \/ CbtSnapshot \/ SetUuid
             \/ OfflineSnapshotMove \/ OfflineSnapshotDump
             \/ MergeOffline \/ MergeUnlink \/ MergeOnline \/ DeleteTop

Mounts == \/ MountCheck \/ LoadExt \/ Start \/ SendBitmap
          \/ Umount \/ CbtStop \/ DropCbt

Next == Save \/ Snapshots \/ Mounts \/ (\E b \in Bits : GuestWrite(b)) \/ Fail \/ PowerLoss

Spec == Init /\ [][Next]_vars

-----------------------------------------------------------------------------
(* Properties.                                                             *)

\* Types, and a header never points to an extension behind the end of its
\* file (write_optional_header, before the process that wrote it is gone).
TypeOK ==
  /\ \A k \in DOMAIN deltas :
       /\ deltas[k].use \in {"v20", "v21", "yes"}
       /\ deltas[k].use = "v21" /\ op = NoOp /\ faults = 0 => deltas[k].ext <= Len(deltas[k].blk) + 1
       /\ deltas[k].map \subseteq Bits
  /\ dev.on \in BOOLEAN /\ dev.id \in Uuid \cup {None} /\ dev.bits \subseteq Bits
  /\ DOMAIN since \subseteq Uuid /\ kept \in Uuid \cup {None}

SinceOf(k) == IF k = Top THEN since ELSE deltas[k].since

InKernel == dev.bits \cup op.or \cup (IF op.pc = "send" THEN RawBits(op.raw) ELSE {})

\* No change is missing: every block written since a uuid was set is in the
\* bitmap that the kernel or a delta offers under this uuid.
Complete ==
  /\ dev.on /\ dev.id \in DOMAIN since => since[dev.id] \subseteq InKernel
  /\ \A k \in DOMAIN deltas : Loadable(deltas[k]) =>
       LET r == Raw(deltas[k])
       IN  r.id \in DOMAIN SinceOf(k) => SinceOf(k)[r.id] \subseteq RawBits(r)

\* The same unless a fault hit one of the windows: a bitmap is incomplete
\* only where it was taken, sent in parts, not synced or dumped.
ChangesTracked == torn = {} => Complete

\* Without faults tracking goes on under the same uuid through snapshots,
\* merges and unmounting.
TrackingKept == faults = 0 /\ torn = {} /\ op = NoOp /\ dev.on => dev.id = kept

\* Cutting off the extension never cuts off a cluster of data.
DataKept == \A k \in DOMAIN deltas : \A b \in deltas[k].map :
  \E n \in DOMAIN deltas[k].blk : deltas[k].blk[n] = DataBlock(b)
=============================================================================
