------------------------------- MODULE Device -------------------------------
(***************************************************************************)
(* The life of one disk outside its snapshots (lib/ploop.c): its images    *)
(* and its descriptor are created, a device is made of them and stopped,   *)
(* the disk grows and shrinks with its partition and file system, images   *)
(* are replaced and converted, limits are set.  Every one of these calls   *)
(* changes the descriptor, image files, the kernel's device and the        *)
(* partition table one after the other.                                    *)
(*                                                                         *)
(* The disk has one image, or two after a snapshot.  Sizes are sectors.    *)
(* What the guest writes is left out: it is kept if the images stay        *)
(* listed, keep their format, and hold the whole file system.              *)
(***************************************************************************)
EXTENDS Integers, Sequences, FiniteSets

CONSTANTS
  Proc,        \* callers of the library, each in a process of its own
  None,        \* no file, no descriptor, no device, no lock holder
  B,           \* sectors of a cluster block
  CreateSizes, \* sizes disks are created with
  NewSizes,    \* sizes asked for when a disk is resized
  Ops,         \* the calls made
  MaxCalls,    \* bound: calls of the library
  MaxFaults    \* bound: failing steps and killed callers

Gpt == 33      \* sectors of a partition table: header and 16K of entries

\* is_valid_blocksize: a power of two, and of at least 64 sectors; used is
\* that a block holds whole pages and more than a partition table.
ASSUME DeviceAssumption ==
  /\ B \in Nat /\ B > Gpt + 1 /\ B % 8 = 0
  /\ CreateSizes \subseteq Nat /\ NewSizes \subseteq Nat
  /\ {MaxCalls, MaxFaults} \subseteq Nat

Names == {"image", "delta", "copy", "link", "image.tmp"}
Modes == {"raw", "expanded", "preallocated"}

\* A descriptor, with one snapshot or none; the kernel's device.
Descriptor ==
  [mode : Modes, size : Int, base : {"image", "copy"}, top : {None, "delta"}, max : {0, 1}]
Kernel == [deltas : Seq(Nat), running : BOOLEAN, size : Int, max : {0, 1}]

ASSUME NoneAssumption ==
  None \notin Nat \cup Proc \cup Names \cup Descriptor \cup Kernel

VARIABLES
  dd,       \* DiskDescriptor.xml
  tmp,      \* DiskDescriptor.xml.tmp
  names,    \* directory: file names to files
  nodes,    \* files: format, size in sectors, whether completely written
  dev,      \* the kernel's device: its deltas, base first
  mnt,      \* where its file system is mounted
  part, fs, \* end of the partition and size of the file system, 0: none
  lock,     \* the process that holds DiskDescriptor.xml.lck
  call,     \* the call each process is in
  wanted,   \* a caller mounted the disk and has not unmounted it
  calls, faults,
  windows   \* circumstances with known consequences, see the properties

store == <<dd, tmp, names, nodes>>
kernel == <<dev, mnt>>
layout == <<part, fs>>
control == <<lock, call, wanted>>
vars == <<store, kernel, layout, control, calls, faults, windows>>

Idle == [op |-> "idle", pc |-> "idle", di |-> None, size |-> 0, mode |-> "raw",
         flag |-> FALSE, own |-> FALSE, umfs |-> FALSE, target |-> "none",
         then |-> "ok", else |-> "fail"]

-----------------------------------------------------------------------------
(* Files, sizes and the kernel. *)

RoundUp(n, b) == ((n + b - 1) \div b) * b
round_bdsize(n) == RoundUp(n, B)

Top(di) == IF di.top = None THEN di.base ELSE di.top
Files(di) == IF di.top = None THEN <<di.base>> ELSE <<di.base, di.top>>
TopNode(di) == names[Top(di)]
Deltas(di) == [i \in DOMAIN Files(di) |-> names[Files(di)[i]]]
Format(mode) == IF mode = "raw" THEN "raw" ELSE "ploop1"

InUse(n) == dev # None /\ \E i \in DOMAIN dev.deltas : dev.deltas[i] = n
Links(n) == {f \in Names : names[f] = n}

\* The kernel does not let the last name of an image it uses be removed.
MayRemove(f) == ~InUse(names[f]) \/ Cardinality(Links(names[f])) > 1

\* A name removed, if that is allowed; unlink's result is not looked at.
Unlink(f) == IF names[f] # None /\ MayRemove(f) THEN [names EXCEPT ![f] = None] ELSE names

\* ploop_find_dev_by_dd: the device whose base delta is the first image.
Found(di) == dev # None /\ names[di.base] # None /\ dev.deltas[1] = names[di.base]

\* check_deltas: a file read as raw is never found to be in another format.
Checked(di) ==
  \A i \in DOMAIN Files(di) :
    LET n == names[Files(di)[i]] IN
    /\ n # None
    /\ nodes[n].whole
    /\ (i = 1 /\ di.mode = "raw") \/ nodes[n].fmt = "ploop1"

\* A partition that takes the room of the second table.
PartEndWhole(n) == (n \div B) * B

\* Where update_gpt_partition ends the partition of a device of n sectors,
\* and where create_gpt_partition ends it.
PartEnd(n) == ((n - Gpt - 1) \div B) * B
CreateEnd(n) == ((n - B) \div B) * B

When(b, w) == IF b THEN {w} ELSE {}

-----------------------------------------------------------------------------
(* Control: a call goes from step to step; a step may fail; any caller may  *)
(* be killed.                                                               *)

At(p, pc) == call[p].pc = pc
Go(p, pc) ==
  /\ call' = [call EXCEPT ![p].pc = pc]
  /\ UNCHANGED <<lock, wanted>>

NoFault == UNCHANGED <<faults, calls, windows>>
Fault == faults < MaxFaults /\ faults' = faults + 1 /\ UNCHANGED calls

Call(p, c) ==
  /\ c.op \in Ops
  /\ call[p] = Idle
  /\ calls < MaxCalls
  /\ calls' = calls + 1
  /\ call' = [call EXCEPT ![p] = c]
  /\ UNCHANGED <<store, kernel, layout, lock, wanted, faults, windows>>

\* The end of every call.
Reply(p) ==
  /\ call[p].pc \in {"ok", "fail"}
  /\ LET c == call[p] IN
     wanted' = CASE c.pc = "ok" /\ c.op = "mount"  -> TRUE
                    [] c.pc = "ok" /\ c.op = "umount" -> FALSE
                    [] OTHER                          -> wanted
  /\ lock' = IF lock = p THEN None ELSE lock
  /\ call' = [call EXCEPT ![p] = Idle]
  /\ UNCHANGED <<store, kernel, layout, calls, faults, windows>>

\* The calls that work on an existing descriptor, as their callers make them.
Arguments(op) ==
  CASE op = "mount"   -> {[Idle EXCEPT !.target = t] : t \in {"none", "user"}}
                           \cup {[Idle EXCEPT !.target = "user", !.flag = TRUE]}
    [] op = "resize"  -> {[Idle EXCEPT !.size = s] : s \in NewSizes}
                           \cup {[Idle EXCEPT !.size = s, !.flag = TRUE] : s \in NewSizes}
    [] op = "grow"    -> {[Idle EXCEPT !.size = s] : s \in NewSizes}
    [] op = "replace" -> {[Idle EXCEPT !.flag = k] : k \in BOOLEAN}
    [] op = "convert" -> {[Idle EXCEPT !.mode = m] : m \in Modes}
    [] OTHER          -> {Idle}

Locking == {"mount", "umount", "resize", "grow", "replace", "convert", "max", "check"}

\* ploop_lock_dd: a call waits for the lock and then reads the descriptor; one
\* that waits for LOCK_TIMEOUT, for a lock of its own process too, fails.
ploop_lock_dd(p) ==
  /\ dd # None
  /\ \E op \in Locking : \E a \in Arguments(op) :
       /\ op \in Ops /\ call[p] = Idle
       /\ op = "replace" => names["copy"] # None /\ dd.base # "copy"
       /\ \/ /\ lock = None
             /\ lock' = p
             /\ call' = [call EXCEPT ![p] = [a EXCEPT !.op = op, !.di = dd, !.pc = "locked"]]
          \/ lock # None /\ UNCHANGED <<lock, call>>
  /\ calls < MaxCalls /\ calls' = calls + 1
  /\ UNCHANGED <<store, kernel, layout, wanted, faults, windows>>

\* A killed caller leaves everything but its lock.  After some steps that is
\* known to leave the disk in two halves.
Halves ==
  [pc \in {"rp_conf", "rp_link", "rp_rename", "rp_undo", "g_rename", "gi_rename", "cv_conf",
           "d_store", "max_store"} |->
     CASE pc \in {"rp_conf", "rp_link", "rp_rename", "rp_undo"} -> "replaced"
       [] pc \in {"g_rename", "gi_rename"} -> "grown"
       [] pc = "cv_conf"   -> "converted"
       [] pc = "d_store"   -> "truncated"
       [] pc = "max_store" -> "limited"]

Half(p) ==
  IF call[p].pc \in DOMAIN Halves /\ (call[p].op = "replace" => call[p].own)
  THEN {Halves[call[p].pc]} ELSE {}

Kill(p) ==
  /\ call[p] # Idle
  /\ Fault
  /\ windows' = windows \cup {"killed"} \cup Half(p)
  /\ call' = [call EXCEPT ![p] = Idle]
  /\ lock' = IF lock = p THEN None ELSE lock
  /\ UNCHANGED <<store, kernel, layout, wanted>>

\* Entry(p, op): the call op holds the lock and begins.
Entry(p, op) == At(p, "locked") /\ call[p].op = op

-----------------------------------------------------------------------------
(* mount_image, ploop_mount and add_deltas, used by several calls.  The     *)
(* fields then and else say where the caller goes on.                       *)

DoMount(p, target, then, else) ==
  /\ call' = [call EXCEPT ![p].pc = "m_check", ![p].target = target,
                          ![p].then = then, ![p].else = else]
  /\ UNCHANGED <<lock, wanted>>

MountCheck(p) ==
  /\ At(p, "m_check")
  /\ \/ Checked(call[p].di) /\ Go(p, "m_add") /\ NoFault
     \/ ~Checked(call[p].di) /\ Go(p, call[p].else) /\ NoFault
     \/ Fault /\ Go(p, call[p].else) /\ UNCHANGED windows
  /\ UNCHANGED <<store, kernel, layout>>

\* PLOOP_IOC_ADD_DELTA, once for each image: the kernel refuses an image that
\* is in use for writing.  One device is modelled.
MountAdd(p) ==
  /\ At(p, "m_add")
  /\ LET c == call[p] IN
     \/ /\ dev = None /\ Checked(c.di)
        /\ dev' = [deltas |-> Deltas(c.di), running |-> FALSE,
                   size |-> nodes[TopNode(c.di)].size, max |-> 0]
        /\ call' = [call EXCEPT ![p].pc = "m_start", ![p].own = TRUE]
        /\ UNCHANGED <<lock, wanted>>
     \/ ~(dev = None /\ Checked(c.di)) /\ Go(p, c.else) /\ UNCHANGED dev
  /\ NoFault
  /\ UNCHANGED <<store, mnt, layout>>

\* The limit and PLOOP_IOC_START.
MountStart(p) ==
  /\ At(p, "m_start")
  /\ \/ /\ dev' = [dev EXCEPT !.running = TRUE, !.max = call[p].di.max]
        /\ Go(p, "m_gpt") /\ NoFault
     \/ Fault /\ Go(p, "m_undo") /\ UNCHANGED <<dev, windows>>
  /\ UNCHANGED <<store, mnt, layout>>

\* The way out of add_deltas: the deltas are deleted again, unless the kernel
\* refuses.
MountUndo(p) ==
  /\ At(p, "m_undo")
  /\ \/ /\ dev' = None
        /\ call' = [call EXCEPT ![p].pc = call[p].else, ![p].own = FALSE]
        /\ UNCHANGED <<lock, wanted>> /\ NoFault
     \/ Fault /\ Go(p, call[p].else) /\ windows' = windows \cup {"left"} /\ UNCHANGED dev
  /\ UNCHANGED <<store, mnt, layout>>

\* check_and_repair_gpt.  When it fails the device already runs, and a running
\* device does not give up its deltas.
MountGpt(p) ==
  /\ At(p, "m_gpt")
  /\ \/ Go(p, "m_fs") /\ NoFault
     \/ Fault /\ Go(p, call[p].else) /\ windows' = windows \cup {"left"}
  /\ UNCHANGED <<store, kernel, layout>>

\* get_part_devname and ploop_mount_fs; on failure the device is stopped.
MountFs(p) ==
  /\ At(p, "m_fs")
  /\ LET c == call[p]
         stop == /\ dev' = None
                 /\ call' = [call EXCEPT ![p].pc = c.else, ![p].own = FALSE]
                 /\ UNCHANGED <<mnt, lock, wanted>>
     IN  \/ c.target = "none" /\ Go(p, c.then) /\ NoFault /\ UNCHANGED kernel
         \/ /\ c.target # "none" /\ fs # 0
            /\ mnt' = c.target /\ Go(p, c.then) /\ NoFault /\ UNCHANGED dev
         \/ c.target # "none" /\ fs = 0 /\ stop /\ NoFault
         \/ Fault /\ stop /\ UNCHANGED windows
  /\ UNCHANGED <<store, layout>>

\* ploop_mount_image: a device that is found is refused, or remounted.
ploop_mount_image(p) ==
  /\ Entry(p, "mount")
  /\ LET c == call[p] IN
     \/ ~Found(c.di) /\ DoMount(p, c.target, "ok", "fail") /\ NoFault /\ UNCHANGED mnt
     \/ Found(c.di) /\ ~c.flag /\ Go(p, "fail") /\ NoFault /\ UNCHANGED mnt
     \/ /\ Found(c.di) /\ c.flag /\ dev.running
        /\ \/ mnt' = "none" /\ Go(p, "remount") /\ NoFault
           \/ Fault /\ Go(p, "fail") /\ UNCHANGED <<mnt, windows>>
     \/ Found(c.di) /\ c.flag /\ ~dev.running /\ Go(p, "fail") /\ NoFault /\ UNCHANGED mnt
  /\ UNCHANGED <<store, dev, layout>>

remount_image(p) ==
  /\ At(p, "remount")
  /\ \/ /\ call[p].target # "none" /\ fs # 0
        /\ mnt' = call[p].target /\ Go(p, "ok") /\ NoFault
     \/ call[p].target = "none" /\ Go(p, "ok") /\ NoFault /\ UNCHANGED mnt
     \/ call[p].target # "none" /\ fs = 0 /\ Go(p, "fail") /\ NoFault /\ UNCHANGED mnt
     \/ Fault /\ Go(p, "fail") /\ UNCHANGED <<mnt, windows>>
  /\ UNCHANGED <<store, dev, layout>>

-----------------------------------------------------------------------------
(* ploop_umount, used by several calls.                                     *)

DoUmount(p, then, else) ==
  /\ call' = [call EXCEPT ![p].pc = "u_fs", ![p].then = then, ![p].else = else]
  /\ UNCHANGED <<lock, wanted>>

\* do_umount gives up when the file system stays busy.
ploop_umount_fs(p) ==
  /\ At(p, "u_fs")
  /\ \/ mnt' = "none" /\ Go(p, "u_stop") /\ NoFault
     \/ /\ mnt # "none" /\ Fault /\ Go(p, call[p].else) /\ UNCHANGED mnt
        /\ windows' = windows \cup When(call[p].op # "umount", "left")
  /\ UNCHANGED <<store, dev, layout>>

\* PLOOP_IOC_STOP and CLEAR, which also end a device that was never started.
ploop_stop(p) ==
  /\ At(p, "u_stop")
  /\ \/ dev' = None /\ Go(p, call[p].then) /\ NoFault
     \/ /\ dev # None /\ Fault /\ Go(p, call[p].else) /\ UNCHANGED dev
        /\ windows' = windows \cup When(call[p].op # "umount", "left")
  /\ UNCHANGED <<store, mnt, layout>>

ploop_umount_image(p) ==
  /\ Entry(p, "umount")
  /\ IF Found(call[p].di) THEN DoUmount(p, "ok", "fail") ELSE Go(p, "fail")
  /\ NoFault
  /\ UNCHANGED <<store, kernel, layout>>

-----------------------------------------------------------------------------
(* ploop_create.  Until the descriptor is stored there is no lock; a call   *)
(* that fails removes what it finds.                                        *)

Create(p) ==
  /\ dev = None
  /\ \E s \in CreateSizes, m \in Modes, withfs \in BOOLEAN :
       Call(p, [Idle EXCEPT !.op = "create", !.pc = "c_init", !.size = s, !.mode = m,
                            !.flag = withfs])

init_dd(p) ==
  /\ At(p, "c_init")
  /\ IF dd # None THEN Go(p, "fail") ELSE Go(p, "c_image")
  /\ NoFault
  /\ UNCHANGED <<store, kernel, layout>>

Fresh == CHOOSE n \in 1..(Cardinality(DOMAIN nodes) + 1) : n \notin DOMAIN nodes
NewNode(n, r) == [m \in DOMAIN nodes \cup {n} |-> IF m = n THEN r ELSE nodes[m]]

\* create_image: O_EXCL decides between two creators.
create_image(p) ==
  /\ At(p, "c_image")
  /\ LET c == call[p] IN
     \/ /\ names["image"] = None
        /\ nodes' = NewNode(Fresh, [fmt |-> Format(c.mode), size |-> round_bdsize(c.size),
                                    whole |-> FALSE])
        /\ names' = [names EXCEPT !["image"] = Fresh]
        /\ part' = 0 /\ fs' = 0
        /\ Go(p, "c_fill")
     \/ names["image"] # None /\ Go(p, "c_clean") /\ UNCHANGED <<names, nodes, layout>>
  /\ NoFault
  /\ UNCHANGED <<dd, tmp, kernel>>

\* do_create_delta, create_empty_preallocated_delta, create_raw_delta.
do_create_delta(p) ==
  /\ At(p, "c_fill")
  /\ \/ /\ names["image"] # None
        /\ nodes' = [nodes EXCEPT ![names["image"]].whole = TRUE]
        /\ Go(p, "c_store") /\ NoFault /\ UNCHANGED names
     \/ names["image"] = None /\ Go(p, "c_drop") /\ NoFault /\ UNCHANGED <<names, nodes>>
     \/ Fault /\ names' = Unlink("image") /\ Go(p, "c_clean") /\ UNCHANGED <<nodes, windows>>
  /\ UNCHANGED <<dd, tmp, kernel, layout>>

ploop_create_dd(p) ==
  /\ At(p, "c_store")
  /\ LET c == call[p] IN
     \/ /\ dd' = [mode |-> c.mode, size |-> round_bdsize(c.size), base |-> "image",
                  top |-> None, max |-> 0]
        /\ Go(p, IF c.flag THEN "c_lock" ELSE "ok")
        /\ windows' = windows \cup When(dd # None, "dropped") /\ UNCHANGED <<calls, faults>>
     \/ Fault /\ Go(p, "c_drop") /\ UNCHANGED <<dd, windows>>
  /\ UNCHANGED <<tmp, names, nodes, kernel, layout>>

\* ploop_init_image does not ask whether a device already runs.
ploop_init_image(p) ==
  /\ At(p, "c_lock")
  /\ \/ /\ lock = None /\ dd # None
        /\ lock' = p
        /\ call' = [call EXCEPT ![p].di = dd, ![p].pc = "m_check", ![p].target = "none",
                                ![p].then = "c_gpt", ![p].else = "c_err"]
        /\ UNCHANGED wanted
     \/ (lock # None \/ dd = None) /\ Go(p, "c_drop")
  /\ NoFault
  /\ UNCHANGED <<store, kernel, layout>>

create_gpt_partition(p) ==
  /\ At(p, "c_gpt")
  /\ \/ part' = CreateEnd(dev.size) /\ Go(p, "c_fs") /\ NoFault
     \/ Fault /\ Go(p, "c_err") /\ UNCHANGED <<part, windows>>
  /\ UNCHANGED <<store, kernel, fs>>

\* make_fs and create_balloon_file.
make_fs(p) ==
  /\ At(p, "c_fs")
  /\ \/ fs' = part - B /\ DoUmount(p, "ok", "c_drop") /\ NoFault
     \/ Fault /\ Go(p, "c_err") /\ UNCHANGED <<fs, windows>>
  /\ UNCHANGED <<store, kernel, part>>

CreateErr(p) ==
  /\ At(p, "c_err")
  /\ IF call[p].own THEN DoUmount(p, "c_drop", "c_drop") ELSE Go(p, "c_drop")
  /\ NoFault
  /\ UNCHANGED <<store, kernel, layout>>

\* The end of ploop_init_image: from here on the creator has no lock.
ploop_unlock_dd(p) ==
  /\ At(p, "c_drop") /\ lock = p
  /\ lock' = None
  /\ NoFault
  /\ UNCHANGED <<store, kernel, layout, call, wanted>>

\* ploop_drop_image and unlink: descriptor and image, whoever uses them now.
ploop_drop_image(p) ==
  /\ At(p, "c_drop") /\ lock # p
  /\ names' = Unlink("image")
  /\ dd' = None
  /\ windows' = windows \cup When(dev # None, "dropped")
                        \cup When(dd # None /\ Top(dd) # "image", "dropped")
                        \cup When(\E q \in Proc \ {p} : call[q].op \notin {"idle", "create"},
                                  "dropped")
  /\ Go(p, "fail")
  /\ UNCHANGED <<tmp, nodes, kernel, layout, calls, faults>>

\* The end of a creator that made no image: it still removes the descriptor.
CreateClean(p) ==
  /\ At(p, "c_clean")
  /\ dd' = None
  /\ windows' = windows \cup When(dd # None, "dropped")
  /\ Go(p, "fail")
  /\ UNCHANGED <<tmp, names, nodes, kernel, layout, calls, faults>>

\* ploop_restore_descriptor: a descriptor for an image that has lost its own.
ploop_restore_descriptor(p) ==
  /\ dd = None /\ names["image"] # None /\ names["delta"] = None
  /\ nodes[names["image"]].whole
  /\ "restore" \in Ops /\ call[p] = Idle /\ calls < MaxCalls /\ calls' = calls + 1
  /\ LET n == nodes[names["image"]] IN
     dd' = [mode |-> IF n.fmt = "raw" THEN "raw" ELSE "expanded",
            size |-> n.size, base |-> "image", top |-> None, max |-> 0]
  /\ UNCHANGED <<tmp, names, nodes, kernel, layout, control, faults, windows>>

\* A snapshot, which module Snapshot has in detail: an empty image on top.
AddDelta ==
  /\ "snapshot" \in Ops /\ calls < MaxCalls /\ calls' = calls + 1
  /\ dd # None /\ lock = None /\ dd.top = None /\ names["delta"] = None
  /\ Checked(dd) /\ (Found(dd) => dev.running)
  /\ LET n == Fresh IN
     /\ names' = [names EXCEPT !["delta"] = n]
     /\ nodes' = NewNode(n, [nodes[TopNode(dd)] EXCEPT !.fmt = "ploop1"])
     /\ dev' = IF Found(dd) THEN [dev EXCEPT !.deltas = Append(@, n)] ELSE dev
  /\ dd' = [dd EXCEPT !.top = "delta"]
  /\ UNCHANGED <<tmp, mnt, layout, control, faults, windows>>

\* copy_delta: a copy of the base image, which may get a second name.  An
\* image in use for writing is refused.
copy_delta(p) ==
  /\ "copy" \in Ops /\ call[p] = Idle /\ calls < MaxCalls /\ calls' = calls + 1
  /\ dd # None /\ names["copy"] = None /\ names[dd.base] # None
  /\ nodes[names[dd.base]].whole /\ nodes[names[dd.base]].fmt = "ploop1"
  /\ dd.top = None => ~InUse(names[dd.base])
  /\ \E linked \in BOOLEAN :
       names' = [names EXCEPT !["copy"] = Fresh, !["link"] = IF linked THEN Fresh ELSE None]
  /\ nodes' = NewNode(Fresh, nodes[names[dd.base]])
  /\ UNCHANGED <<dd, tmp, kernel, layout, control, faults, windows>>

-----------------------------------------------------------------------------
(* ploop_grow_image.                                                        *)

GrowStore(p) ==
  /\ Entry(p, "grow")
  /\ \/ /\ tmp' = [call[p].di EXCEPT !.size = call[p].size]
        /\ call' = [call EXCEPT ![p].pc = "gi_dev", ![p].di = tmp']
        /\ UNCHANGED <<lock, wanted>> /\ NoFault
     \/ Fault /\ tmp' = None /\ Go(p, "fail") /\ UNCHANGED windows
  /\ UNCHANGED <<dd, names, nodes, kernel, layout>>

GrowDevice(p) ==
  /\ At(p, "gi_dev")
  /\ LET di == call[p].di IN
     IF Found(di) THEN Go(p, "gi_grow")
     ELSE IF di.mode = "raw" /\ di.top = None THEN Go(p, "gi_raw")
     ELSE DoMount(p, "none", "gi_grow", "gi_nodev")
  /\ NoFault
  /\ UNCHANGED <<store, kernel, layout>>

\* PLOOP_IOC_GROW takes the size in blocks: a rest is cut off.
Grown(n) ==
  /\ dev' = [dev EXCEPT !.size = (n \div B) * B]
  /\ nodes' = [nodes EXCEPT ![dev.deltas[Len(dev.deltas)]].size = (n \div B) * B]

ploop_grow_device(p) ==
  /\ At(p, "gi_grow")
  /\ LET n == call[p].size IN
     \/ dev.running /\ n > dev.size /\ Grown(n) /\ Go(p, "gi_rename") /\ NoFault
     \/ n = dev.size /\ Go(p, "gi_rename") /\ NoFault /\ UNCHANGED <<dev, nodes>>
     \/ (n < dev.size \/ ~dev.running) /\ Go(p, "gi_out") /\ NoFault /\ UNCHANGED <<dev, nodes>>
     \/ Fault /\ Go(p, "gi_out") /\ UNCHANGED <<dev, nodes, windows>>
  /\ UNCHANGED <<dd, tmp, names, mnt, layout>>

\* ploop_grow_raw_delta_offline rounds to 4K.  A write that fails half way
\* leaves the file longer.
ploop_grow_raw_delta_offline(p) ==
  /\ At(p, "gi_raw")
  /\ LET f == TopNode(call[p].di)
         n == RoundUp(call[p].size, 8)
     IN  \/ /\ n >= nodes[f].size
            /\ nodes' = [nodes EXCEPT ![f].size = n]
            /\ Go(p, "gi_rename") /\ NoFault
         \/ n < nodes[f].size /\ Go(p, "gi_out") /\ NoFault /\ UNCHANGED nodes
         \/ /\ n > nodes[f].size /\ Fault /\ Go(p, "gi_out")
            /\ \E m \in {nodes[f].size, n - 8} : nodes' = [nodes EXCEPT ![f].size = m]
            /\ windows' = windows \cup {"grown"}
  /\ UNCHANGED <<dd, tmp, names, kernel, layout>>

GrowRename(p) ==
  /\ At(p, "gi_rename")
  /\ \/ /\ dd' = tmp /\ tmp' = None
        /\ IF call[p].own THEN DoUmount(p, "ok", "ok") ELSE Go(p, "ok")
        /\ windows' = windows \cup When(call[p].size % B # 0, "unaligned")
        /\ UNCHANGED <<calls, faults>>
     \/ Fault /\ Go(p, "gi_out") /\ UNCHANGED <<dd, tmp>> /\ windows' = windows \cup Half(p)
  /\ UNCHANGED <<names, nodes, kernel, layout>>

\* The failing end unlinks the new descriptor.  A device name is known only
\* after the mount succeeded; ploop_umount of the name nobody set, here and at
\* the end of a raw image grown offline, finds no device.
GrowOut(p) ==
  /\ call[p].pc \in {"gi_out", "gi_nodev"}
  /\ tmp' = None
  /\ IF call[p].own /\ At(p, "gi_out") THEN DoUmount(p, "fail", "fail") ELSE Go(p, "fail")
  /\ NoFault
  /\ UNCHANGED <<dd, names, nodes, kernel, layout>>

-----------------------------------------------------------------------------
(* ploop_resize_image.  own: the call mounted the disk; umfs: it mounted    *)
(* the file system of a running device.                                     *)

ResizeBegin(p) ==
  /\ Entry(p, "resize")
  /\ LET c == call[p] IN
     \/ ~Found(c.di) /\ DoMount(p, "temp", "r_size", "fail") /\ NoFault /\ UNCHANGED mnt
     \/ Found(c.di) /\ ~dev.running /\ Go(p, "fail") /\ NoFault /\ UNCHANGED mnt
     \/ Found(c.di) /\ dev.running /\ mnt # "none" /\ Go(p, "r_size") /\ NoFault /\ UNCHANGED mnt
     \/ /\ Found(c.di) /\ dev.running /\ mnt = "none" /\ fs # 0
        /\ mnt' = "temp"
        /\ call' = [call EXCEPT ![p].pc = "r_size", ![p].umfs = TRUE]
        /\ UNCHANGED <<lock, wanted>> /\ NoFault
     \/ /\ Found(c.di) /\ dev.running /\ mnt = "none" /\ fs = 0
        /\ Go(p, "fail") /\ NoFault /\ UNCHANGED mnt
  /\ UNCHANGED <<store, dev, layout>>

NewSize(p) == round_bdsize(call[p].size)
NewFsSize(p) == NewSize(p) - 4 * B
Offline(p) == call[p].own /\ call[p].flag

\* Which of the three ways: balloon only, grow the device, or keep it.
ResizeSize(p) ==
  /\ At(p, "r_size")
  /\ \/ call[p].size = 0 /\ Go(p, "r_ok") /\ NoFault
     \/ call[p].size # 0 /\ NewSize(p) <= 4 * B /\ Go(p, "r_fail") /\ NoFault
     \/ /\ call[p].size # 0 /\ NewSize(p) > 4 * B
        /\ Go(p, IF NewSize(p) > dev.size THEN (IF Offline(p) THEN "g_umount" ELSE "g_store")
                 ELSE "s_gpt")
        /\ NoFault
     \/ Fault /\ Go(p, "r_fail") /\ UNCHANGED windows
  /\ UNCHANGED <<store, kernel, layout>>

\* Offline the file system is unmounted and checked first.
ResizeUmount(p) ==
  /\ call[p].pc \in {"g_umount", "s_umount"}
  /\ \/ /\ mnt' = "none" /\ Go(p, IF At(p, "g_umount") THEN "g_store" ELSE "s_fs") /\ NoFault
     \/ /\ Fault /\ Go(p, "r_fail") /\ UNCHANGED windows /\ mnt' \in {mnt, "none"}
  /\ UNCHANGED <<store, dev, layout>>

ResizeStore(p) ==
  /\ At(p, "g_store")
  /\ \/ tmp' = [call[p].di EXCEPT !.size = NewSize(p)] /\ Go(p, "g_grow") /\ NoFault
     \/ Fault /\ Go(p, "r_fail") /\ tmp' = None /\ UNCHANGED windows
  /\ UNCHANGED <<dd, names, nodes, kernel, layout>>

ResizeGrow(p) ==
  /\ At(p, "g_grow")
  /\ \/ Grown(NewSize(p)) /\ Go(p, "g_rename") /\ NoFault /\ UNCHANGED tmp
     \/ Fault /\ tmp' = None /\ Go(p, "r_fail") /\ UNCHANGED <<dev, nodes, windows>>
  /\ UNCHANGED <<dd, names, mnt, layout>>

ResizeRename(p) ==
  /\ At(p, "g_rename")
  /\ \/ dd' = tmp /\ tmp' = None /\ Go(p, "g_gpt") /\ NoFault
     \/ Fault /\ Go(p, "r_fail") /\ windows' = windows \cup Half(p) /\ UNCHANGED <<dd, tmp>>
  /\ UNCHANGED <<names, nodes, kernel, layout>>

\* resize_gpt_partition: to the end of the grown device, or, when the device
\* is large enough, to the size asked for.
ResizeGpt(p) ==
  /\ call[p].pc \in {"g_gpt", "s_gpt"}
  /\ LET grow == At(p, "g_gpt")
         to == IF grow THEN "g_fs" ELSE IF Offline(p) THEN "s_umount" ELSE "s_online"
         needed == grow \/ part - B < NewFsSize(p)
     IN  \/ /\ part' = IF needed THEN PartEnd(IF grow THEN dev.size ELSE NewSize(p)) ELSE part
            /\ Go(p, to) /\ NoFault
         \/ needed /\ Fault /\ Go(p, "r_fail") /\ UNCHANGED <<part, windows>>
  /\ UNCHANGED <<store, kernel, fs>>

\* resize_fs: to the end of the partition; to a size, offline; online only
\* upwards, the rest is left to the balloon.
ResizeFs(p) ==
  /\ call[p].pc \in {"g_fs", "s_fs", "s_online"}
  /\ \/ /\ fs' = CASE At(p, "g_fs") -> part - B
                   [] At(p, "s_fs") -> NewFsSize(p)
                   [] OTHER         -> IF NewFsSize(p) > fs THEN NewFsSize(p) ELSE fs
        /\ Go(p, IF At(p, "s_fs") THEN "s_discard" ELSE "r_ok") /\ NoFault
     \/ Fault /\ Go(p, "r_fail") /\ UNCHANGED <<fs, windows>>
  /\ UNCHANGED <<store, kernel, part>>

\* shrink_device: ploop_blk_discard gives blocks back, a raw image is cut.
shrink_device(p) ==
  /\ At(p, "s_discard")
  /\ LET raw == call[p].di.mode = "raw" /\ call[p].di.top = None
         cut == raw /\ RoundUp(B + fs, B) < part
     IN  Go(p, IF cut THEN "d_gpt" ELSE "r_ok")
  /\ NoFault
  /\ UNCHANGED <<store, kernel, layout>>

\* ploop_raw_discard.  The partition that fits into what remains is smaller
\* than the file system.
DiscardGpt(p) ==
  /\ At(p, "d_gpt")
  /\ \/ /\ part' = PartEnd(RoundUp(B + fs, B))
        /\ Go(p, "d_stop") /\ windows' = windows \cup {"raw shrunk"} /\ UNCHANGED <<calls, faults>>
     \/ Fault /\ Go(p, "r_fail") /\ UNCHANGED <<part, windows>>
  /\ UNCHANGED <<store, kernel, fs>>

DiscardStop(p) ==
  /\ At(p, "d_stop")
  /\ \/ /\ dev' = None
        /\ call' = [call EXCEPT ![p].pc = "d_trunc", ![p].own = FALSE]
        /\ UNCHANGED <<lock, wanted>> /\ NoFault
     \/ Fault /\ Go(p, "r_fail") /\ UNCHANGED <<dev, windows>>
  /\ UNCHANGED <<store, mnt, layout>>

DiscardTruncate(p) ==
  /\ At(p, "d_trunc")
  /\ \/ /\ nodes' = [nodes EXCEPT ![names[call[p].di.base]].size = RoundUp(B + fs, B)]
        /\ Go(p, "d_store") /\ NoFault
     \/ Fault /\ Go(p, "fail") /\ UNCHANGED <<nodes, windows>>
  /\ UNCHANGED <<dd, tmp, names, kernel, layout>>

\* The new size kept in memory only.
DiscardForgets(p) ==
  /\ At(p, "d_store")
  /\ Go(p, "ok") /\ NoFault
  /\ UNCHANGED <<store, kernel, layout>>

DiscardStore(p) ==
  /\ At(p, "d_store")
  /\ \/ /\ dd' = [call[p].di EXCEPT !.size = RoundUp(B + fs, B)]
        /\ Go(p, "ok") /\ NoFault
     \/ Fault /\ Go(p, "fail") /\ windows' = windows \cup Half(p) /\ UNCHANGED dd
  /\ UNCHANGED <<tmp, names, nodes, kernel, layout>>

\* An end that always unmounts the disk.
LeaveUmount(p) ==
  /\ call[p].pc \in {"r_ok", "r_fail"}
  /\ LET end == IF At(p, "r_ok") THEN "ok" ELSE "fail"
     IN  DoUmount(p, end, end) /\ UNCHANGED mnt
  /\ NoFault
  /\ UNCHANGED <<store, dev, layout>>

\* What the call mounted it unmounts.
ResizeLeave(p) ==
  /\ call[p].pc \in {"r_ok", "r_fail"}
  /\ LET end == IF At(p, "r_ok") THEN "ok" ELSE "fail" IN
     \/ call[p].own /\ DoUmount(p, end, end) /\ UNCHANGED mnt /\ NoFault
     \/ call[p].umfs /\ mnt' = "none" /\ Go(p, end) /\ NoFault
     \/ /\ call[p].umfs /\ Fault /\ Go(p, end) /\ UNCHANGED mnt
        /\ windows' = windows \cup {"left"}
     \/ ~call[p].own /\ ~call[p].umfs /\ Go(p, end) /\ UNCHANGED mnt /\ NoFault
  /\ UNCHANGED <<store, dev, layout>>

-----------------------------------------------------------------------------
(* ploop_convert_image.                                                     *)

ConvertStore(p) ==
  /\ Entry(p, "convert")
  /\ LET c == call[p] IN
     \/ c.di.mode = "raw" /\ Go(p, "fail") /\ NoFault /\ UNCHANGED tmp
     \/ /\ c.di.mode # "raw"
        /\ tmp' = [c.di EXCEPT !.mode = c.mode]
        /\ Go(p, CASE c.mode = "raw" -> "cv_open" [] c.mode = "expanded" -> "cv_conf"
                   [] OTHER -> "cv_fill")
        /\ NoFault
     \/ c.di.mode # "raw" /\ Fault /\ Go(p, "fail") /\ tmp' = None /\ UNCHANGED windows
  /\ UNCHANGED <<dd, names, nodes, kernel, layout>>

\* open_delta refuses an image a device writes to.
Convertible(di) ==
  /\ names[di.base] # None
  /\ nodes[names[di.base]].fmt = "ploop1"
  /\ ~(di.top = None /\ InUse(names[di.base]))

\* expanded2preallocated, in place.
expanded2preallocated(p) ==
  /\ At(p, "cv_fill")
  /\ \/ Convertible(call[p].di) /\ Go(p, "cv_conf") /\ NoFault /\ UNCHANGED tmp
     \/ ~Convertible(call[p].di) /\ tmp' = None /\ Go(p, "fail") /\ NoFault
     \/ Fault /\ tmp' = None /\ Go(p, "fail") /\ UNCHANGED windows
  /\ UNCHANGED <<dd, names, nodes, kernel, layout>>

\* expanded2raw writes a file of its own.  One that a killed conversion left
\* makes this one fail and is removed with it.
RawOpen(p) ==
  /\ At(p, "cv_open")
  /\ LET free == names["image.tmp"] = None
         ok == Convertible(call[p].di)
     IN  /\ names' = IF ok THEN [names EXCEPT !["image.tmp"] = IF free THEN Fresh ELSE None]
                     ELSE names
         /\ nodes' = IF ok /\ free
                     THEN NewNode(Fresh, [fmt |-> "raw", size |-> nodes[names[call[p].di.base]].size,
                                          whole |-> FALSE])
                     ELSE nodes
         /\ tmp' = IF ok /\ free THEN tmp ELSE None
         /\ Go(p, IF ok /\ free THEN "cv_copy" ELSE "fail")
  /\ NoFault
  /\ UNCHANGED <<dd, kernel, layout>>

\* The image is replaced before the descriptor.
RawRename(p) ==
  /\ At(p, "cv_copy")
  /\ LET f == call[p].di.base IN
     \/ /\ MayRemove(f)
        /\ names' = [names EXCEPT ![f] = names["image.tmp"], !["image.tmp"] = None]
        /\ nodes' = [nodes EXCEPT ![names["image.tmp"]].whole = TRUE]
        /\ windows' = windows \cup When(InUse(names[f]), "swapped")
        /\ Go(p, "cv_conf") /\ UNCHANGED <<tmp, calls, faults>>
     \/ /\ ~MayRemove(f)
        /\ names' = [names EXCEPT !["image.tmp"] = None] /\ tmp' = None
        /\ Go(p, "fail") /\ NoFault /\ UNCHANGED nodes
     \/ /\ Fault
        /\ names' = [names EXCEPT !["image.tmp"] = None] /\ tmp' = None
        /\ Go(p, "fail") /\ UNCHANGED <<nodes, windows>>
  /\ UNCHANGED <<dd, kernel, layout>>

ConvertRename(p) ==
  /\ At(p, "cv_conf")
  /\ \/ dd' = tmp /\ tmp' = None /\ Go(p, "ok") /\ NoFault
     \/ Fault /\ Go(p, "fail") /\ windows' = windows \cup Half(p) /\ UNCHANGED <<dd, tmp>>
  /\ UNCHANGED <<names, nodes, kernel, layout>>

-----------------------------------------------------------------------------
(* ploop_replace_image, for the base image.  own: a device runs; flag:      *)
(* PLOOP_REPLACE_KEEP_NAME.                                                 *)

ReplaceCheck(p) ==
  /\ Entry(p, "replace")
  /\ LET c == call[p]
         new == names["copy"]
         ok == new # None /\ c.di.base # "copy"
     IN  \/ /\ ok
            /\ tmp' = [c.di EXCEPT !.base = "copy"]
            /\ call' = [call EXCEPT ![p].own = Found(c.di),
                        ![p].pc = IF Found(c.di) THEN "rp_kernel"
                                  ELSE IF c.flag THEN "rp_rename" ELSE "rp_conf"]
            /\ UNCHANGED <<lock, wanted>>
            /\ windows' = windows \cup When(names[c.di.base] = None \/ nodes[new] # nodes[names[c.di.base]], "other")
            /\ UNCHANGED <<calls, faults>>
         \/ ~ok /\ Go(p, "fail") /\ NoFault /\ UNCHANGED tmp
         \/ ok /\ Fault /\ Go(p, "fail") /\ tmp' = None /\ UNCHANGED windows
  /\ UNCHANGED <<dd, names, nodes, kernel, layout>>

\* replace_delta: PLOOP_IOC_REPLACE_DELTA.
replace_delta(p) ==
  /\ At(p, "rp_kernel")
  /\ \/ /\ dev' = [dev EXCEPT !.deltas[1] = names["copy"]]
        /\ Go(p, IF call[p].flag THEN "rp_link" ELSE "rp_conf") /\ NoFault /\ UNCHANGED tmp
     \/ Fault /\ tmp' = None /\ Go(p, "fail") /\ UNCHANGED <<dev, windows>>
  /\ UNCHANGED <<dd, names, nodes, mnt, layout>>

\* The only name of an image in use cannot be renamed, so a second one is
\* made: mkstemp creates the file that link then finds in its way.
ReplaceLink(p) ==
  /\ At(p, "rp_link")
  /\ Go(p, IF Cardinality(Links(names["copy"])) > 1 THEN "rp_rename" ELSE "rp_undo")
  /\ NoFault
  /\ UNCHANGED <<store, kernel, layout>>

\* After a rename that failed the call still returns 0.
ReplaceRename(p) ==
  /\ At(p, "rp_rename")
  /\ \/ /\ names' = [names EXCEPT ![call[p].di.base] = names["copy"], !["copy"] = None]
        /\ tmp' = None
        /\ Go(p, "ok") /\ NoFault
     \/ /\ Fault /\ UNCHANGED <<names, windows>>
        /\ IF call[p].own THEN Go(p, "rp_undo") /\ UNCHANGED tmp ELSE Go(p, "ok") /\ tmp' = None
  /\ UNCHANGED <<dd, nodes, kernel, layout>>

\* An undo that leaves the old name although the kernel uses the new image.
UndoForgets(p) ==
  /\ At(p, "rp_undo")
  /\ tmp' = None
  /\ Go(p, "ok") /\ NoFault
  /\ UNCHANGED <<dd, names, nodes, dev, mnt, layout>>

\* The rollback takes the old image for a ploop1 one; after it the call returns
\* 0, as if the image were replaced.  Without it the new name is stored instead.
ReplaceUndo(p) ==
  /\ At(p, "rp_undo")
  /\ LET old == names[call[p].di.base]
         ok == old # None /\ nodes[old].fmt = "ploop1"
     IN  \/ /\ ok
            /\ dev' = [dev EXCEPT !.deltas[1] = old]
            /\ tmp' = None
            /\ Go(p, "ok") /\ NoFault
         \/ ~ok /\ Go(p, "rp_conf") /\ NoFault /\ UNCHANGED <<dev, tmp>>
         \/ Fault /\ Go(p, "rp_conf") /\ UNCHANGED <<dev, tmp, windows>>
  /\ UNCHANGED <<dd, names, nodes, mnt, layout>>

ReplaceConf(p) ==
  /\ At(p, "rp_conf")
  /\ \/ dd' = tmp /\ tmp' = None /\ Go(p, "ok") /\ NoFault
     \/ /\ Fault /\ Go(p, "fail") /\ windows' = windows \cup Half(p) \cup {"tmp kept"}
        /\ UNCHANGED <<dd, tmp>>
  /\ UNCHANGED <<names, nodes, kernel, layout>>

-----------------------------------------------------------------------------
(* ploop_set_max_delta_size and check_dd.                                   *)

SetMaxDevice(p) ==
  /\ Entry(p, "max")
  /\ \/ /\ dev' = IF Found(call[p].di) THEN [dev EXCEPT !.max = 1] ELSE dev
        /\ Go(p, "max_store") /\ NoFault
     \/ Found(call[p].di) /\ Fault /\ Go(p, "fail") /\ UNCHANGED <<dev, windows>>
  /\ UNCHANGED <<store, mnt, layout>>

SetMaxStore(p) ==
  /\ At(p, "max_store")
  /\ \/ dd' = [call[p].di EXCEPT !.max = 1] /\ Go(p, "ok") /\ NoFault
     \/ Fault /\ Go(p, "fail") /\ windows' = windows \cup Half(p) /\ UNCHANGED dd
  /\ UNCHANGED <<tmp, names, nodes, kernel, layout>>

\* A disk in use is refused without giving the lock back.
check_dd(p) ==
  /\ Entry(p, "check")
  /\ \/ /\ ~Found(call[p].di)
        /\ Go(p, IF Checked(call[p].di) THEN "ok" ELSE "fail") /\ NoFault
     \/ /\ Found(call[p].di)
        /\ call' = [call EXCEPT ![p] = Idle]
        /\ windows' = windows \cup {"lock kept"}
        /\ UNCHANGED <<lock, wanted, calls, faults>>
  /\ UNCHANGED <<store, kernel, layout>>

Exit(p) ==
  /\ lock = p /\ call[p] = Idle
  /\ lock' = None
  /\ windows' = windows \ {"lock kept"}
  /\ UNCHANGED <<store, kernel, layout, call, wanted, calls, faults>>

-----------------------------------------------------------------------------
\* No disk, or one that was created with a file system and perhaps has a
\* snapshot.
Empty ==
  /\ dd = None
  /\ names = [f \in Names |-> None]
  /\ nodes = [n \in {} |-> None]
  /\ part = 0 /\ fs = 0

Made ==
  \E s \in CreateSizes, m \in Modes, t \in {None, "delta"} :
    LET file(format) == [fmt |-> format, size |-> round_bdsize(s), whole |-> TRUE] IN
    /\ dd = [mode |-> m, size |-> round_bdsize(s), base |-> "image", top |-> t, max |-> 0]
    /\ names = [f \in Names |-> CASE f = "image" -> 1
                                  [] f = "delta" /\ t = "delta" -> 2
                                  [] OTHER -> None]
    /\ nodes = IF t = None THEN <<file(Format(m))>> ELSE <<file(Format(m)), file("ploop1")>>
    /\ part = CreateEnd(round_bdsize(s))
    /\ fs = CreateEnd(round_bdsize(s)) - B

Init ==
  /\ Empty \/ Made
  /\ tmp = None
  /\ dev = None /\ mnt = "none"
  /\ lock = None
  /\ call = [p \in Proc |-> Idle]
  /\ wanted = FALSE
  /\ calls = 0 /\ faults = 0 /\ windows = {}

Next ==
  \/ AddDelta
  \/ \E p \in Proc :
       \/ ploop_lock_dd(p) \/ Reply(p) \/ Kill(p) \/ Exit(p)
       \/ MountCheck(p) \/ MountAdd(p) \/ MountStart(p) \/ MountUndo(p) \/ MountGpt(p)
       \/ MountFs(p) \/ ploop_mount_image(p) \/ remount_image(p)
       \/ ploop_umount_fs(p) \/ ploop_stop(p) \/ ploop_umount_image(p)
       \/ Create(p) \/ init_dd(p) \/ create_image(p) \/ do_create_delta(p)
       \/ ploop_create_dd(p) \/ ploop_init_image(p) \/ create_gpt_partition(p) \/ make_fs(p)
       \/ CreateErr(p) \/ ploop_unlock_dd(p) \/ ploop_drop_image(p) \/ CreateClean(p)
       \/ ploop_restore_descriptor(p) \/ copy_delta(p)
       \/ GrowStore(p) \/ GrowDevice(p) \/ ploop_grow_device(p)
       \/ ploop_grow_raw_delta_offline(p) \/ GrowRename(p) \/ GrowOut(p)
       \/ ResizeBegin(p) \/ ResizeSize(p) \/ ResizeUmount(p) \/ ResizeStore(p)
       \/ ResizeGrow(p) \/ ResizeRename(p) \/ ResizeGpt(p) \/ ResizeFs(p)
       \/ shrink_device(p) \/ DiscardGpt(p) \/ DiscardStop(p) \/ DiscardTruncate(p)
       \/ DiscardStore(p) \/ ResizeLeave(p)
       \/ ConvertStore(p) \/ expanded2preallocated(p) \/ RawOpen(p) \/ RawRename(p)
       \/ ConvertRename(p)
       \/ ReplaceCheck(p) \/ replace_delta(p) \/ ReplaceLink(p) \/ ReplaceRename(p)
       \/ ReplaceUndo(p) \/ ReplaceConf(p)
       \/ SetMaxDevice(p) \/ SetMaxStore(p) \/ check_dd(p)

Spec == Init /\ [][Next]_vars

-----------------------------------------------------------------------------
AtRest == \A p \in Proc : call[p] = Idle

\* Between calls, after failures and kills too, the images a descriptor lists
\* exist, the base has the format of the descriptor's mode and the top image
\* has the size the descriptor says.
DescriptorFits ==
  AtRest /\ dd # None
  /\ windows \cap {"grown", "converted", "truncated", "unaligned", "replaced", "other", "dropped"} = {} =>
    /\ Checked(dd)
    /\ nodes[names[dd.base]].fmt = Format(dd.mode)
    /\ nodes[TopNode(dd)].size = dd.size

\* At every step the file system lies in its partition and the partition in
\* the disk, before the second partition table.
FsFits ==
  fs # 0 /\ dd # None /\ windows \cap {"raw shrunk", "replaced", "other", "dropped"} = {} =>
    /\ B + fs <= part
    /\ part + Gpt <= nodes[TopNode(dd)].size

\* Between calls a running device is made of the images the descriptor
\* lists, with its size and limit: every later call finds it.
DeviceFound ==
  AtRest /\ dev # None /\ dev.running /\ windows \cap {"replaced", "limited", "swapped", "other", "dropped"} = {} =>
    /\ dd # None
    /\ dev.deltas = Deltas(dd)
    /\ dev.size = nodes[TopNode(dd)].size
    /\ dev.max = dd.max

\* Between calls there is a device exactly if the caller asked for one and
\* nothing else is left of calls that returned: no lock, no temporary mount,
\* file or descriptor.
NothingLeft ==
  AtRest /\ windows \cap {"killed", "left", "dropped", "lock kept", "tmp kept", "grown",
                            "converted"} = {} =>
    /\ (dev # None) = wanted
    /\ mnt # "temp"
    /\ lock = None /\ tmp = None /\ names["image.tmp"] = None

\* A replace that returns success has put the new image in the place of the
\* old one: under the old name or in the descriptor.
KeepName ==
  \A p \in Proc : call[p].op = "replace" /\ At(p, "ok") =>
    names["copy"] = None \/ dd.base = "copy"

\* Bound: after a disk was taken from under its users nothing is promised.
Sound == "dropped" \notin windows
=============================================================================
