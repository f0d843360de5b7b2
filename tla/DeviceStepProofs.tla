-------------------------- MODULE DeviceStepProofs --------------------------
(***************************************************************************)
(* The inductive invariant of Device, for any processes, sizes, block size *)
(* and bounds, and the steps that preserve it: those of creation, mount,   *)
(* umount, growth and of the calls as such (getting the lock, returning,   *)
(* being killed).                                                          *)
(*                                                                         *)
(* Inv says of the call at work, the one that holds the lock, what its     *)
(* step relies on.  Types, Control, Listed and Making hold whatever        *)
(* failed.  Each further part is conditional on the circumstances that do  *)
(* away with it, which windows remembers: a replace that was cut off or    *)
(* put in another image (Placed), a raw disk cut under its file system     *)
(* (Whole), a change cut off between image and descriptor (Stored), a      *)
(* device left without its limit or its images (Followed), a call that was *)
(* killed or failed to clean up (Returned).  Nothing is said once the disk *)
(* was dropped from under its users.                                       *)
(***************************************************************************)
EXTENDS Device, FiniteSetTheorems, SequenceTheorems, TLAPS

-----------------------------------------------------------------------------
(* Types and control: what holds whatever failed.                          *)

Node == [fmt : {"raw", "ploop1"}, size : Int, whole : BOOLEAN]
Targets == {"none", "user", "temp"}

\* The steps of a call, by the call or the helper they belong to.
MountPc == {"m_check", "m_add", "m_start", "m_undo", "m_gpt", "m_fs"}
AddedPc == {"m_start", "m_undo", "m_gpt", "m_fs"}
UmountPc == {"u_fs", "u_stop"}
MakePc == {"c_init", "c_image", "c_fill", "c_store", "c_lock", "c_drop", "c_clean"}
InitPc == {"c_gpt", "c_fs", "c_err"}
GrowPc == {"gi_dev", "gi_grow", "gi_raw", "gi_rename", "gi_out", "gi_nodev"}
EnlargePc == {"g_umount", "g_store", "g_grow", "g_rename", "g_gpt", "g_fs"}
KeepPc == {"s_gpt", "s_umount", "s_fs", "s_online", "s_discard", "d_gpt", "d_stop"}
CutPc == {"d_trunc", "d_store"}
ResizePc == {"r_size", "r_ok", "r_fail"} \cup EnlargePc \cup KeepPc \cup CutPc
ConvertPc == {"cv_fill", "cv_open", "cv_copy", "cv_conf"}
ReplacePc == {"rp_kernel", "rp_link", "rp_rename", "rp_undo", "rp_conf"}
InnerPc == MountPc \cup UmountPc \cup InitPc \cup GrowPc \cup ResizePc \cup ConvertPc
             \cup ReplacePc \cup {"remount", "max_store"}
EndPc == {"ok", "fail"}

Pcs == {"idle", "locked"} \cup MakePc \cup InnerPc \cup EndPc
Thens == {"ok", "fail", "c_gpt", "c_drop", "gi_grow", "r_size"}
Elses == {"ok", "fail", "c_err", "c_drop", "gi_nodev"}
Calls ==
  [op : Locking \cup {"idle", "create"}, pc : Pcs,
   di : Descriptor \cup {None}, size : Nat, mode : Modes, flag : BOOLEAN, own : BOOLEAN,
   umfs : BOOLEAN, target : Targets, then : Thens, else : Elses]

Shapes ==
  /\ dd \in Descriptor \cup {None}
  /\ tmp \in Descriptor \cup {None}
  /\ names \in [Names -> Nat \cup {None}]
  /\ IsFiniteSet(DOMAIN nodes) /\ \A n \in DOMAIN nodes : nodes[n] \in Node
  /\ \A f \in Names : names[f] # None => names[f] \in DOMAIN nodes
  /\ dev \in Kernel \cup {None}
  /\ dev # None => Len(dev.deltas) >= 1 /\ \A i \in DOMAIN dev.deltas : dev.deltas[i] \in DOMAIN nodes
  /\ mnt \in Targets
  /\ part \in Int /\ fs \in Int
  /\ lock \in Proc \cup {None}
  /\ wanted \in BOOLEAN
Types == Shapes /\ call \in [Proc -> Calls]

\* The calls that are at work under the lock of the disk.
Holds(c) == c.pc \in InnerPc \cup {"locked"} \/ (c.pc \in EndPc /\ c.op \in Locking)

\* Which call is at which step, with which arguments and ways on.
Steps(c) ==
  /\ c.pc = "idle" => c = Idle
  /\ c.op = "idle" => c = Idle
  /\ c.op = "mount" => c.target # "temp"
  /\ c.pc = "locked" => c.op \in Locking /\ ~c.own /\ ~c.umfs
  /\ c.pc \in MakePc \cup InitPc => c.op = "create"
  /\ c.pc \in MakePc \ {"c_drop"} => ~c.own /\ ~c.umfs
  /\ c.pc \in MountPc =>
       \/ c.op = "mount" /\ c.then = "ok" /\ c.else = "fail" /\ c.target # "temp"
       \/ c.op = "create" /\ c.then = "c_gpt" /\ c.else = "c_err" /\ c.target = "none"
       \/ c.op = "grow" /\ c.then = "gi_grow" /\ c.else = "gi_nodev" /\ c.target = "none"
       \/ c.op = "resize" /\ c.then = "r_size" /\ c.else = "fail" /\ c.target = "temp"
  /\ c.pc \in UmountPc =>
       \/ c.op = "umount" /\ c.then = "ok" /\ c.else = "fail" /\ ~c.own
       \/ c.op = "create" /\ c.then \in {"ok", "c_drop"} /\ c.else = "c_drop" /\ c.own
       \/ c.op \in {"grow", "resize"} /\ c.then \in EndPc /\ c.else = c.then /\ c.own
  /\ c.pc \in MountPc \cup UmountPc \cup InitPc => ~c.umfs
  /\ c.pc = "remount" => c.op = "mount" /\ c.target # "temp" /\ ~c.own /\ ~c.umfs
  /\ c.pc = "max_store" => c.op = "max" /\ ~c.own /\ ~c.umfs
  /\ c.pc \in GrowPc => c.op = "grow" /\ ~c.umfs
  /\ c.pc \in ResizePc => c.op = "resize" /\ ~(c.own /\ c.umfs)
  /\ c.pc \in ConvertPc => c.op = "convert" /\ ~c.own /\ ~c.umfs
  /\ c.pc \in ReplacePc => c.op = "replace" /\ ~c.umfs
  /\ c.op = "replace" /\ Holds(c) /\ c.pc \notin EndPc => c.di.base = "image"
  /\ c.pc \in {"m_check", "m_add", "gi_dev", "gi_raw"} \cup CutPc => ~c.own
  /\ c.pc \in CutPc => ~c.umfs
  /\ c.pc \in AddedPc \cup {"c_gpt", "c_fs"} => c.own
  /\ c.pc \in {"rp_kernel", "rp_link", "rp_undo"} => c.own
  /\ c.pc \in {"g_umount", "s_umount", "s_fs", "s_discard", "d_gpt", "d_stop"} => c.own
  /\ c.pc \in {"gi_raw", "d_gpt", "d_stop"} \cup CutPc => c.di.mode = "raw" /\ c.di.top = None
  /\ c.pc \in EnlargePc \cup KeepPc => round_bdsize(c.size) > 4 * B
  /\ c.pc \in ConvertPc => c.di.mode # "raw"
  /\ c.pc \in {"cv_open", "cv_copy"} => c.mode = "raw"
  /\ c.pc = "cv_fill" => c.mode # "raw"
  /\ Holds(c) => c.di # None

\* What only the call that holds the lock changes: device, mount point, the new
\* descriptor and the image to put in.
Working(c) ==
  /\ c.own /\ c.op # "replace" /\ c.pc \in InnerPc => dev # None
  /\ c.pc \in UmountPc \cup {"remount", "gi_grow", "rp_kernel", "rp_link", "rp_undo"}
               \cup (ResizePc \ CutPc) => dev # None
  /\ c.pc \in ReplacePc /\ c.own => dev # None
  /\ c.pc \in AddedPc \cup {"c_gpt", "c_fs", "s_fs", "s_discard", "d_gpt", "d_stop", "u_stop"} => mnt = "none"
  /\ c.pc \in CutPc => dev = None
  /\ c.op = "grow" /\ c.pc \in MountPc \cup {"gi_dev", "gi_grow", "gi_raw", "gi_rename"} =>
       tmp = c.di /\ c.di.size = c.size
  /\ c.pc \in {"g_grow", "g_rename"} => tmp = [c.di EXCEPT !.size = round_bdsize(c.size)]
  /\ c.pc \in ConvertPc => tmp = [c.di EXCEPT !.mode = c.mode]
  /\ c.pc \in ReplacePc => tmp = [c.di EXCEPT !.base = "copy"] /\ names["copy"] # None
  /\ dev = None => mnt = "none"

\* The call at work, Idle when there is none.
Now == IF lock # None /\ Holds(call[lock]) THEN call[lock] ELSE Idle

Control == \A p \in Proc : Steps(call[p]) /\ (Holds(call[p]) => lock = p)

-----------------------------------------------------------------------------
(* Names, files, the creator and the descriptor a call has read, as long   *)
(* as nobody took the disk from under its users.                           *)

Distinct(F) == \A f, g \in F : f # g /\ names[f] # None => names[f] # names[g]

Listed ==
  /\ dd # None => /\ names[dd.base] # None /\ names["image"] # None
                  /\ dd.top = None <=> names["delta"] = None
  /\ dd = None => dev = None /\ names["delta"] = None
  /\ Distinct({"image", "delta", "copy", "image.tmp"})
  /\ Distinct({"link", "delta"}) /\ Distinct({"link", "image.tmp"})

\* The creator whose image it is.
Makes(c) == c.op = "create" /\ c.pc \in {"c_fill", "c_store", "c_lock", "c_drop"} \cup InnerPc
Making ==
  /\ \A p \in Proc : Makes(call[p]) => names["image"] # None
  /\ \A p, q \in Proc : Makes(call[p]) /\ Makes(call[q]) => p = q
  /\ \A p \in Proc : call[p].pc = "c_fill" =>
       /\ dd = None /\ ~nodes[names["image"]].whole
       /\ nodes[names["image"]].fmt = Format(call[p].mode)
       /\ nodes[names["image"]].size = round_bdsize(call[p].size)
  /\ \A p \in Proc : call[p].pc = "c_store" /\ dd = None =>
       nodes[names["image"]] = [fmt |-> Format(call[p].mode), size |-> round_bdsize(call[p].size),
                                whole |-> TRUE]

\* The descriptor a call has read is the stored one, up to what it has stored.
Read(c) ==
  /\ Holds(c) => dd # None
  /\ Holds(c) /\ c.pc \notin EndPc =>
       /\ dd.base = c.di.base /\ dd.top = c.di.top
       /\ c.op = "grow" /\ c.pc \in MountPc \cup {"gi_dev", "gi_grow", "gi_raw", "gi_rename"} =>
            c.di = [dd EXCEPT !.size = c.size]
       /\ c.op = "grow" /\ c.pc = "locked" => dd = c.di
       /\ c.op = "resize" /\ c.pc \notin {"g_gpt", "g_fs", "r_ok", "r_fail"} \cup UmountPc => dd = c.di
       /\ c.op \notin {"grow", "resize"} => dd = c.di
  /\ c.pc = "cv_copy" =>
       /\ names["image.tmp"] # None
       /\ nodes[names["image.tmp"]].fmt = "raw"
       /\ nodes[names["image.tmp"]].size = nodes[names[dd.base]].size

-----------------------------------------------------------------------------
(* Device and descriptor.                                                  *)

Size(d) == nodes[TopNode(d)].size
Swapping(c) == c.pc \in ReplacePc \ {"rp_kernel"} /\ c.own

\* A device found by the first image has all images, and nothing else uses the
\* copy and the raw image that are made.
Matched == dd # None /\ dev # None /\ Found(dd) => dev.deltas = Deltas(dd) /\ dev.size = Size(dd)
Apart(c) ==
  dev # None =>
    /\ names["copy"] # None /\ dd.base # "copy" /\ ~Swapping(c) => dev.deltas[1] # names["copy"]
    /\ names["image.tmp"] # None => dev.deltas[1] # names["image.tmp"]
Match(c) ==
  /\ Matched /\ Apart(c)
  /\ c.pc \in AddedPc \cup {"c_gpt", "c_fs", "gi_grow", "rp_kernel"} \cup (ResizePc \ CutPc) => Found(dd)
  /\ c.pc = "gi_raw" => ~Found(dd)
  /\ c.pc \in ReplacePc => nodes[names["copy"]] = nodes[names[dd.base]]
  /\ Swapping(c) => /\ dev.deltas = [Deltas(dd) EXCEPT ![1] = names["copy"]]
                    /\ dev.size = Size(dd)
  /\ c.pc \in ReplacePc /\ ~c.own => ~Found(dd)
  /\ c.pc \in {"g_umount", "g_store", "g_grow"} => dev.size < round_bdsize(c.size)
  /\ c.pc \in {"g_rename", "g_gpt", "g_fs"} => dev.size = round_bdsize(c.size)
  /\ c.pc = "s_gpt" => round_bdsize(c.size) <= dev.size

\* No image was put in whose replace was cut off or whose content differs.
Placed == "replaced" \notin windows /\ "other" \notin windows

-----------------------------------------------------------------------------
(* Partition and file system.                                              *)

Aligned(n) == n % B = 0
Room == Aligned(part) /\ part + B <= Size(dd)

Lies(c) ==
  /\ fs # 0 /\ dd # None => Room /\ B + fs <= part
  /\ dd = None /\ names["image"] # None => fs = 0
  /\ mnt # "none" => fs # 0
  /\ c.pc \in ResizePc => fs # 0
  /\ c.pc \notin {"d_stop", "d_trunc", "d_store"}
  /\ c.pc = "c_fs" => Room
  /\ c.pc = "g_fs" => part > B
  /\ c.pc \in {"s_umount", "s_fs", "s_online"} => round_bdsize(c.size) - 4 * B <= part - B

NoFs(c) == c.op = "create" /\ c.pc \in {"c_fill", "c_store", "c_lock", "c_gpt", "c_fs"} \cup MountPc

Whole == Placed /\ "raw shrunk" \notin windows

-----------------------------------------------------------------------------
(* Descriptor and images.                                                  *)

Formats(d) ==
  /\ nodes[names[d.base]].whole /\ nodes[names[d.base]].fmt = Format(d.mode)
  /\ d.top # None => nodes[names[d.top]].whole /\ nodes[names[d.top]].fmt = "ploop1"
Fits(d) == Formats(d) /\ Size(d) = d.size

Fitting(c) ==
  /\ dd # None /\ c.pc \notin {"g_rename", "gi_rename", "cv_conf", "d_store"} => Fits(dd)
  /\ c.pc \in {"g_rename", "cv_conf"} => Fits(tmp)
  /\ c.pc = "gi_rename" => Formats(tmp) /\ (Aligned(c.size) => Size(tmp) = tmp.size)
  /\ c.pc = "d_store" => Formats(dd) /\ Size(dd) = RoundUp(B + fs, B)

Stored ==
  /\ Placed
  /\ "grown" \notin windows /\ "converted" \notin windows
  /\ "truncated" \notin windows /\ "unaligned" \notin windows

-----------------------------------------------------------------------------
(* The device that runs.                                                   *)

Running(c) ==
  /\ dev # None => Found(dd) \/ Swapping(c)
  /\ dev # None /\ dev.running => dev.max = (IF c.pc = "max_store" THEN 1 ELSE dd.max)
  /\ c.pc = "m_start" => ~dev.running

Followed == Placed /\ "limited" \notin windows /\ "swapped" \notin windows

-----------------------------------------------------------------------------
(* What calls leave behind.                                                *)

Owns(c) == c.own /\ c.op # "replace" /\ c.pc \in InnerPc

Tidy(c) ==
  /\ IF Owns(c) THEN ~wanted
     ELSE IF c.pc = "ok" /\ c.op = "mount" THEN dev # None
     ELSE IF c.pc = "ok" /\ c.op = "umount" THEN dev = None
     ELSE wanted <=> dev # None
  /\ mnt = "temp" => \/ c.pc \in ResizePc /\ (c.own \/ c.umfs)
                     \/ c.op = "resize" /\ c.pc = "u_fs"
  /\ tmp # None => \/ c.op = "grow" /\ c.pc \in MountPc \cup GrowPc
                   \/ c.pc \in {"g_grow", "g_rename"} \cup ConvertPc \cup ReplacePc
  /\ names["image.tmp"] # None => c.pc = "cv_copy"
  /\ c.pc = "gi_nodev" => ~c.own

Returned ==
  /\ "killed" \notin windows /\ "left" \notin windows /\ "tmp kept" \notin windows
  /\ "grown" \notin windows /\ "converted" \notin windows

-----------------------------------------------------------------------------
(* The invariant.                                                          *)

\* What holds of the disk when the call at work is c.
Disk(c) ==
  /\ Working(c) /\ Read(c)
  /\ Placed => Match(c)
  /\ Whole => Lies(c)
  /\ Stored => Fitting(c)
  /\ Followed => Running(c)
  /\ Returned => Tidy(c)

Inv ==
  /\ Types /\ Control /\ Listed /\ Making
  /\ Whole => \A p \in Proc : NoFs(call[p]) => fs = 0
  /\ \A p \in Proc : lock = p /\ call[p] = Idle => "lock kept" \in windows
  /\ Disk(Now)

IInv == "dropped" \notin windows => Inv

-----------------------------------------------------------------------------
(* What the steps of a call have in common.                                *)

USE DEF MountPc, AddedPc, UmountPc, MakePc, InitPc, GrowPc, EnlargePc, KeepPc, CutPc, ResizePc,
        ConvertPc, ReplacePc, InnerPc, EndPc, Pcs, Locking

\* Who is at work holds the lock.
LEMMA NowIs ==
  ASSUME Inv, NEW p \in Proc, Holds(call[p])
  PROVE  Now = call[p] /\ lock = p
BY NoneAssumption DEF Inv, Control, Now

Becomes(p, c2) == call' = [call EXCEPT ![p] = c2]

\* A step of the call at work changes no other call.
LEMMA Frame ==
  ASSUME Inv, NEW p \in Proc, Holds(call[p]), NEW c2 \in Calls,
         Becomes(p, c2), Steps(c2), UNCHANGED lock
  PROVE  /\ call' \in [Proc -> Calls] /\ Control'
         /\ call'[p] = c2
         /\ Now = call[p] /\ Now' = IF Holds(c2) THEN c2 ELSE Idle
         /\ \A q \in Proc : q # p => call'[q] = call[q]
<1>1. call \in [Proc -> Calls] /\ lock = p /\ Now = call[p] /\ lock # None
  BY NowIs, NoneAssumption DEF Inv, Types, Shapes
<1>2. call'[p] = c2 /\ \A q \in Proc : q # p => call'[q] = call[q]
  BY <1>1 DEF Becomes
<1>3. Control'
  <2>1. Control
    BY DEF Inv
  <2> QED
    BY <1>1, <1>2, <2>1 DEF Control, Holds, Steps
<1> QED
  BY <1>1, <1>2, <1>3 DEF Now, Holds, Becomes

\* The images a descriptor lists, without the domains.
LEMMA DeltasIs ==
  ASSUME NEW d
  PROVE  Deltas(d) = IF d.top = None THEN <<names[d.base]>> ELSE <<names[d.base], names[d.top]>>
BY DEF Files, Deltas

\* What check_deltas tells of the images.
LEMMA CheckedIs ==
  ASSUME Types, NEW d \in Descriptor, Checked(d)
  PROVE  /\ Deltas(d) \in Seq(Nat) /\ Len(Deltas(d)) >= 1 /\ Deltas(d)[1] = names[d.base]
         /\ \A i \in DOMAIN Deltas(d) : Deltas(d)[i] \in DOMAIN nodes
         /\ TopNode(d) \in DOMAIN nodes /\ nodes[TopNode(d)].size \in Int
         /\ names[d.base] # None /\ nodes[names[d.base]].whole
         /\ d.mode # "raw" => nodes[names[d.base]].fmt = "ploop1"
         /\ d.top # None => names[d.top] # None /\ nodes[names[d.top]].whole
                            /\ nodes[names[d.top]].fmt = "ploop1"
<1>1. d.base \in Names /\ d.top \in {None, "delta"}
  BY DEF Descriptor, Names
<1>2. /\ names[d.base] # None /\ nodes[names[d.base]].whole
      /\ d.mode # "raw" => nodes[names[d.base]].fmt = "ploop1"
  BY DEF Checked, Files
<1>3. ASSUME d.top # None
      PROVE  names[d.top] # None /\ nodes[names[d.top]].whole /\ nodes[names[d.top]].fmt = "ploop1"
  BY <1>3 DEF Checked, Files
<1>4. /\ names[d.base] \in DOMAIN nodes \cap Nat
      /\ d.top # None => names[d.top] \in DOMAIN nodes \cap Nat
  BY <1>1, <1>2, <1>3 DEF Types, Shapes, Names
<1>5. /\ Deltas(d) \in Seq(Nat) /\ Len(Deltas(d)) >= 1 /\ Deltas(d)[1] = names[d.base]
      /\ \A i \in DOMAIN Deltas(d) : Deltas(d)[i] \in DOMAIN nodes
  <2>1. CASE d.top = None
    <3>1. Deltas(d) = <<names[d.base]>>
      BY <2>1, DeltasIs
    <3> QED
      BY <1>4, <3>1
  <2>2. CASE d.top # None
    <3>1. Deltas(d) = <<names[d.base], names[d.top]>>
      BY <2>2, DeltasIs
    <3> QED
      BY <1>4, <2>2, <3>1
  <2> QED
    BY <2>1, <2>2
<1>6. TopNode(d) \in DOMAIN nodes /\ nodes[TopNode(d)].size \in Int
  BY <1>4 DEF TopNode, Top, Types, Shapes, Node
<1> QED
  BY <1>2, <1>3, <1>5, <1>6

\* Between calls nothing is under way.
LEMMA IdleIs == Idle.pc = "idle" /\ Idle.op = "idle" /\ ~Idle.own /\ ~Idle.umfs
BY DEF Idle

\* a is the call b at another step.
Like(a, b, pc) ==
  /\ a.pc = pc
  /\ a.op = b.op /\ a.size = b.size /\ a.mode = b.mode /\ a.flag = b.flag
Same(a, b, pc) == Like(a, b, pc) /\ a.di = b.di /\ a.umfs = b.umfs
Goes(a, b, pc) ==
  Same(a, b, pc) /\ a.own = b.own /\ a.target = b.target /\ a.then = b.then /\ a.else = b.else
Turns(a, b, pc, own) ==
  Same(a, b, pc) /\ a.own = own /\ a.target = b.target /\ a.then = b.then /\ a.else = b.else
Mounts(a, b, target, then, else) ==
  Same(a, b, "m_check") /\ a.own = b.own /\ a.target = target /\ a.then = then /\ a.else = else
Umounts(a, b, then, else) ==
  Same(a, b, "u_fs") /\ a.own = b.own /\ a.target = b.target /\ a.then = then /\ a.else = else

PcSet(a, b, v) ==
  /\ a.pc = v
  /\ a.op = b.op /\ a.di = b.di /\ a.size = b.size /\ a.mode = b.mode /\ a.flag = b.flag
  /\ a.own = b.own /\ a.umfs = b.umfs /\ a.target = b.target /\ a.then = b.then /\ a.else = b.else

\* Setting a field of a call keeps its type and the other fields.
LEMMA PcIs ==
  \A c \in Calls : \A v \in Pcs :
    [c EXCEPT !.pc = v] \in Calls /\ PcSet([c EXCEPT !.pc = v], c, v)
BY DEF Calls, PcSet

OwnSet(a, b, v) ==
  /\ a.own = v
  /\ a.op = b.op /\ a.pc = b.pc /\ a.di = b.di /\ a.size = b.size /\ a.mode = b.mode
  /\ a.flag = b.flag /\ a.umfs = b.umfs /\ a.target = b.target /\ a.then = b.then /\ a.else = b.else

LEMMA OwnIs ==
  \A c \in Calls : \A v \in BOOLEAN :
    [c EXCEPT !.own = v] \in Calls /\ OwnSet([c EXCEPT !.own = v], c, v)
BY DEF Calls, OwnSet

UmfsSet(a, b, v) ==
  /\ a.umfs = v
  /\ a.op = b.op /\ a.pc = b.pc /\ a.di = b.di /\ a.size = b.size /\ a.mode = b.mode
  /\ a.flag = b.flag /\ a.own = b.own /\ a.target = b.target /\ a.then = b.then /\ a.else = b.else

LEMMA UmfsIs ==
  \A c \in Calls : \A v \in BOOLEAN :
    [c EXCEPT !.umfs = v] \in Calls /\ UmfsSet([c EXCEPT !.umfs = v], c, v)
BY DEF Calls, UmfsSet

TargetSet(a, b, v) ==
  /\ a.target = v
  /\ a.op = b.op /\ a.pc = b.pc /\ a.di = b.di /\ a.size = b.size /\ a.mode = b.mode
  /\ a.flag = b.flag /\ a.own = b.own /\ a.umfs = b.umfs /\ a.then = b.then /\ a.else = b.else

LEMMA TargetIs ==
  \A c \in Calls : \A v \in Targets :
    [c EXCEPT !.target = v] \in Calls /\ TargetSet([c EXCEPT !.target = v], c, v)
BY DEF Calls, TargetSet

ThenSet(a, b, v) ==
  /\ a.then = v
  /\ a.op = b.op /\ a.pc = b.pc /\ a.di = b.di /\ a.size = b.size /\ a.mode = b.mode
  /\ a.flag = b.flag /\ a.own = b.own /\ a.umfs = b.umfs /\ a.target = b.target /\ a.else = b.else

LEMMA ThenIs ==
  \A c \in Calls : \A v \in Thens :
    [c EXCEPT !.then = v] \in Calls /\ ThenSet([c EXCEPT !.then = v], c, v)
BY DEF Calls, ThenSet

ElseSet(a, b, v) ==
  /\ a.else = v
  /\ a.op = b.op /\ a.pc = b.pc /\ a.di = b.di /\ a.size = b.size /\ a.mode = b.mode
  /\ a.flag = b.flag /\ a.own = b.own /\ a.umfs = b.umfs /\ a.target = b.target /\ a.then = b.then

LEMMA ElseIs ==
  \A c \in Calls : \A v \in Elses :
    [c EXCEPT !.else = v] \in Calls /\ ElseSet([c EXCEPT !.else = v], c, v)
BY DEF Calls, ElseSet

\* A step that only moves on.
LEMMA GoIs ==
  ASSUME Types, NEW p \in Proc, NEW pc \in Pcs, Go(p, pc)
  PROVE  /\ \E c2 \in Calls : Becomes(p, c2) /\ Goes(c2, call[p], pc)
         /\ UNCHANGED <<lock, wanted>>
<1> PICK c \in Calls : c = call[p]
  BY DEF Types
<1> DEFINE c2 == [c EXCEPT !.pc = pc]
<1>2. c2 \in Calls /\ Goes(c2, c, pc)
  BY DEF Calls, Goes, Same, Like
<1> QED
  BY <1>2 DEF Go, Becomes

\* A step that moves on and takes or gives up the device.
LEMMA TurnIs ==
  ASSUME Types, NEW p \in Proc, NEW pc \in Pcs, NEW own \in BOOLEAN,
         call' = [call EXCEPT ![p].pc = pc, ![p].own = own]
  PROVE  \E c2 \in Calls : Becomes(p, c2) /\ Turns(c2, call[p], pc, own)
<1> PICK c \in Calls : c = call[p]
  BY DEF Types
<1> PICK d1 \in Calls : d1 = [c EXCEPT !.pc = pc] /\ PcSet(d1, c, pc)
  BY PcIs
<1> PICK c2 \in Calls : c2 = [d1 EXCEPT !.own = own] /\ OwnSet(c2, d1, own)
  BY OwnIs
<1>2. Turns(c2, c, pc, own)
  BY DEF PcSet, OwnSet, Turns, Same, Like
<1>3. call' = [call EXCEPT ![p] = c2]
  BY DEF Types
<1> QED
  BY <1>2, <1>3 DEF Becomes

DiSet(a, b, v) ==
  /\ a.di = v
  /\ a.op = b.op /\ a.pc = b.pc /\ a.size = b.size /\ a.mode = b.mode /\ a.flag = b.flag
  /\ a.own = b.own /\ a.umfs = b.umfs /\ a.target = b.target /\ a.then = b.then /\ a.else = b.else

LEMMA DiIs ==
  \A c \in Calls : \A v \in Descriptor \cup {None} :
    [c EXCEPT !.di = v] \in Calls /\ DiSet([c EXCEPT !.di = v], c, v)
BY DEF Calls, DiSet

\* a is the call b at another step, with another descriptor; with umfs.
Keeps(a, b) == a.own = b.own /\ a.target = b.target /\ a.then = b.then /\ a.else = b.else
Reads(a, b, pc, di) == Like(a, b, pc) /\ a.di = di /\ a.umfs = b.umfs /\ Keeps(a, b)
Lays(a, b, pc, umfs) == Like(a, b, pc) /\ a.di = b.di /\ a.umfs = umfs /\ Keeps(a, b)

\* A step that moves on with another descriptor.
LEMMA ReadsIs ==
  ASSUME Types, NEW p \in Proc, NEW pc \in Pcs, NEW di \in Descriptor \cup {None},
         call' = [call EXCEPT ![p].pc = pc, ![p].di = di]
  PROVE  \E c2 \in Calls : Becomes(p, c2) /\ Reads(c2, call[p], pc, di)
<1> PICK c \in Calls : c = call[p]
  BY DEF Types
<1> PICK d1 \in Calls : d1 = [c EXCEPT !.pc = pc] /\ PcSet(d1, c, pc)
  BY PcIs
<1> PICK c2 \in Calls : c2 = [d1 EXCEPT !.di = di] /\ DiSet(c2, d1, di)
  BY DiIs
<1>2. Reads(c2, c, pc, di)
  BY DEF PcSet, DiSet, Reads, Keeps, Like
<1>3. call' = [call EXCEPT ![p] = c2]
  BY DEF Types
<1> QED
  BY <1>2, <1>3 DEF Becomes

\* A step that moves on and takes or gives up the temporary mount.
LEMMA LaysIs ==
  ASSUME Types, NEW p \in Proc, NEW pc \in Pcs, NEW umfs \in BOOLEAN,
         call' = [call EXCEPT ![p].pc = pc, ![p].umfs = umfs]
  PROVE  \E c2 \in Calls : Becomes(p, c2) /\ Lays(c2, call[p], pc, umfs)
<1> PICK c \in Calls : c = call[p]
  BY DEF Types
<1> PICK d1 \in Calls : d1 = [c EXCEPT !.pc = pc] /\ PcSet(d1, c, pc)
  BY PcIs
<1> PICK c2 \in Calls : c2 = [d1 EXCEPT !.umfs = umfs] /\ UmfsSet(c2, d1, umfs)
  BY UmfsIs
<1>2. Lays(c2, c, pc, umfs)
  BY DEF PcSet, UmfsSet, Lays, Keeps, Like
<1>3. call' = [call EXCEPT ![p] = c2]
  BY DEF Types
<1> QED
  BY <1>2, <1>3 DEF Becomes

\* Handing over to ploop_mount.
LEMMA DoMountIs ==
  ASSUME Types, NEW p \in Proc, NEW target \in Targets, NEW then \in Thens, NEW else \in Elses,
         DoMount(p, target, then, else)
  PROVE  /\ \E c2 \in Calls : Becomes(p, c2) /\ Mounts(c2, call[p], target, then, else)
         /\ UNCHANGED <<lock, wanted>>
<1> PICK c \in Calls : c = call[p]
  BY DEF Types
<1> PICK d1 \in Calls : d1 = [c EXCEPT !.pc = "m_check"] /\ PcSet(d1, c, "m_check")
  BY PcIs
<1> PICK d2 \in Calls : d2 = [d1 EXCEPT !.target = target] /\ TargetSet(d2, d1, target)
  BY TargetIs
<1> PICK d3 \in Calls : d3 = [d2 EXCEPT !.then = then] /\ ThenSet(d3, d2, then)
  BY ThenIs
<1> PICK c2 \in Calls : c2 = [d3 EXCEPT !.else = else] /\ ElseSet(c2, d3, else)
  BY ElseIs
<1>2. Mounts(c2, c, target, then, else)
  BY DEF PcSet, TargetSet, ThenSet, ElseSet, Mounts, Same, Like
<1>3. call' = [call EXCEPT ![p] = c2]
  BY DEF Types, DoMount
<1> QED
  BY <1>2, <1>3 DEF Becomes, DoMount

\* Handing over to ploop_umount.
LEMMA DoUmountIs ==
  ASSUME Types, NEW p \in Proc, NEW then \in Thens, NEW else \in Elses, DoUmount(p, then, else)
  PROVE  /\ \E c2 \in Calls : Becomes(p, c2) /\ Umounts(c2, call[p], then, else)
         /\ UNCHANGED <<lock, wanted>>
<1> PICK c \in Calls : c = call[p]
  BY DEF Types
<1> PICK d1 \in Calls : d1 = [c EXCEPT !.pc = "u_fs"] /\ PcSet(d1, c, "u_fs")
  BY PcIs
<1> PICK d2 \in Calls : d2 = [d1 EXCEPT !.then = then] /\ ThenSet(d2, d1, then)
  BY ThenIs
<1> PICK c2 \in Calls : c2 = [d2 EXCEPT !.else = else] /\ ElseSet(c2, d2, else)
  BY ElseIs
<1>2. Umounts(c2, c, then, else)
  BY DEF PcSet, ThenSet, ElseSet, Umounts, Same, Like
<1>3. call' = [call EXCEPT ![p] = c2]
  BY DEF Types, DoUmount
<1> QED
  BY <1>2, <1>3 DEF Becomes, DoUmount

\* The disk of a stored descriptor.
LEMMA DiskIs ==
  ASSUME Shapes, Listed, dd # None
  PROVE  /\ dd \in Descriptor
         /\ names["image"] # None /\ names["image"] \in DOMAIN nodes
         /\ names[dd.base] # None /\ names[dd.base] \in DOMAIN nodes
         /\ dd.top # None => dd.top = "delta" /\ names["delta"] # None /\ names["delta"] \in DOMAIN nodes
         /\ dd.top = None => names["delta"] = None /\ Top(dd) = dd.base
         /\ TopNode(dd) \in DOMAIN nodes /\ Size(dd) \in Int
<1>1. dd \in Descriptor /\ dd.base \in Names /\ dd.top \in {None, "delta"} /\ "delta" \in Names /\ "image" \in Names
  BY DEF Shapes, Descriptor, Names
<1>2. /\ names["image"] # None /\ names["image"] \in DOMAIN nodes
      /\ names[dd.base] # None /\ names[dd.base] \in DOMAIN nodes
      /\ dd.top # None => dd.top = "delta" /\ names["delta"] # None /\ names["delta"] \in DOMAIN nodes
      /\ dd.top = None => names["delta"] = None /\ Top(dd) = dd.base
  BY <1>1 DEF Listed, Shapes, Top
<1>3. TopNode(dd) \in DOMAIN nodes
  BY <1>2 DEF TopNode, Top
<1> QED
  BY <1>1, <1>2, <1>3 DEF Size, Shapes, Node

\* The circumstance a killed or failing step is remembered as.
LEMMA HalfIs ==
  ASSUME NEW p \in Proc
  PROVE  /\ call[p].pc \in {"g_rename", "gi_rename"} /\ call[p].op # "replace" => Half(p) = {"grown"}
         /\ call[p].pc = "cv_conf" /\ call[p].op # "replace" => Half(p) = {"converted"}
         /\ call[p].pc = "d_store" /\ call[p].op # "replace" => Half(p) = {"truncated"}
         /\ call[p].pc = "max_store" /\ call[p].op # "replace" => Half(p) = {"limited"}
         /\ call[p].pc \in {"rp_conf", "rp_link", "rp_rename", "rp_undo"} /\ call[p].own =>
              Half(p) = {"replaced"}
         /\ call[p].op = "replace" /\ ~call[p].own => Half(p) = {}
         /\ call[p].pc \notin {"rp_conf", "rp_link", "rp_rename", "rp_undo", "g_rename", "gi_rename",
                               "cv_conf", "d_store", "max_store"} => Half(p) = {}
<1>1. /\ DOMAIN Halves = {"rp_conf", "rp_link", "rp_rename", "rp_undo", "g_rename", "gi_rename",
                          "cv_conf", "d_store", "max_store"}
      /\ \A pc \in {"rp_conf", "rp_link", "rp_rename", "rp_undo"} : Halves[pc] = "replaced"
      /\ Halves["g_rename"] = "grown" /\ Halves["gi_rename"] = "grown"
      /\ Halves["cv_conf"] = "converted" /\ Halves["d_store"] = "truncated"
      /\ Halves["max_store"] = "limited"
  BY DEF Halves
<1> QED
  BY <1>1 DEF Half

-----------------------------------------------------------------------------
(* A step of the call at work.                                             *)

\* What is left to show of a step of the call at work that may change the disk.
LEMMA Change ==
  ASSUME Inv, NEW p \in Proc, Holds(call[p]), NEW c2 \in Calls,
         Becomes(p, c2), UNCHANGED lock, windows \subseteq windows',
         Steps(c2), c2.op = call[p].op, c2.pc # "idle", c2.pc # "c_fill", c2.pc # "c_store",
         NoFs(c2) => NoFs(call[p]), fs' # fs => ~NoFs(c2) /\ (Whole => fs # 0 \/ Makes(call[p])),
         Shapes', Listed', dd' # None, Disk(IF Holds(c2) THEN c2 ELSE Idle)'
  PROVE  Inv'
<1>1. lock = p /\ call[p].pc # "idle" /\ Steps(call[p]) /\ Read(call[p]) /\ Making /\ call \in [Proc -> Calls]
  BY NowIs DEF Inv, Holds, Disk, Control, Types
<1>2. /\ call' \in [Proc -> Calls] /\ Control'
      /\ call'[p] = c2
      /\ Now' = IF Holds(c2) THEN c2 ELSE Idle
      /\ \A q \in Proc : q # p => call'[q] = call[q]
  BY Frame
<1>3. Types'
  BY <1>1, <1>2 DEF Types
<1>4. Makes(c2) => Makes(call[p])
  BY <1>1 DEF Makes, Holds, Steps
<1>5. Making'
  <2>1. \A q \in Proc : Makes(call'[q]) => Makes(call[q])
    BY <1>2, <1>4
  <2>2. names'["image"] # None
    BY DEF Listed
  <2>3. \A q \in Proc : call'[q].pc # "c_fill"
    BY <1>1, <1>2 DEF Making, Read
  <2> QED
    BY <1>1, <2>1, <2>2, <2>3 DEF Making
<1>6. Disk(Now)'
  BY <1>2
<1>7. c2 # Idle
  BY IdleIs
<1>8. Whole' => \A q \in Proc : NoFs(call'[q]) => fs' = 0
  <2> SUFFICES ASSUME Whole', NEW q \in Proc, NoFs(call'[q]) PROVE fs' = 0
    OBVIOUS
  <2>1. Whole /\ \A r \in Proc : NoFs(call[r]) => fs = 0
    BY DEF Inv, Whole, Placed
  <2>2. NoFs(call[q])
    BY <1>2
  <2>3. fs' = fs \/ (q # p /\ Makes(call[p]))
    BY <1>2, <2>1, <2>2
  <2>4. Makes(call[q])
    BY <2>2 DEF Makes, NoFs
  <2> QED
    BY <1>1, <2>1, <2>2, <2>3, <2>4 DEF Making
<1>9. \A q \in Proc : lock' = q /\ call'[q] = Idle => "lock kept" \in windows'
  BY <1>1, <1>2, <1>7
<1> QED
  BY <1>2, <1>3, Listed', <1>5, <1>6, <1>8, <1>9 DEF Inv

-----------------------------------------------------------------------------
(* A step of the call at work that changes nothing but the call.           *)

Still == UNCHANGED <<store, kernel, layout>>
Moved(p, c2) ==
  /\ Becomes(p, c2)
  /\ UNCHANGED <<dd, tmp, names, nodes, dev, mnt, part, fs, lock, wanted>>

\* What c2 finds as it was, at least while what it relies on still holds.
Finds(c2) ==
  /\ Working(c2) /\ Read(c2)
  /\ Placed' => Match(c2)
  /\ Whole' => Lies(c2)
  /\ Stored' => Fitting(c2)
  /\ Followed' => Running(c2)
  /\ Returned' => Tidy(c2)

\* What is left to show of a step that changes device or mount point only.
LEMMA Move ==
  ASSUME Inv, NEW p \in Proc, Holds(call[p]), NEW c2 \in Calls, Moved(p, c2),
         Steps(c2), c2.op = call[p].op, c2.pc # "idle", c2.pc # "c_fill", c2.pc # "c_store",
         NoFs(c2) => NoFs(call[p]), windows \subseteq windows',
         Finds(IF Holds(c2) THEN c2 ELSE Idle)
  PROVE  Inv'
<1>1. /\ Now = call[p] /\ Read(call[p])
      /\ Now' = IF Holds(c2) THEN c2 ELSE Idle
  BY NowIs, Frame DEF Inv, Disk, Moved
<1>2. Shapes'
  BY DEF Inv, Types, Shapes, Moved
<1>3. Listed' /\ dd' # None
  BY <1>1 DEF Inv, Listed, Distinct, Moved, Read
<1> DEFINE n == IF Holds(c2) THEN c2 ELSE Idle
<1> HIDE DEF n
<1>4. Disk(n)'
  <2>2. Finds(n)
    BY DEF n
  <2>3. Working(n)' /\ Read(n)'
    BY <2>2 DEF Finds, Working, Read, Moved
  <2>4. Placed' => Match(n)'
    BY <2>2 DEF Finds, Match, Matched, Apart, Found, Deltas, Files, Size, TopNode, Top,
       Swapping, Moved
  <2>5. Whole' => Lies(n)'
    BY <2>2 DEF Finds, Lies, Room, Size, TopNode, Top, Moved
  <2>6. Stored' => Fitting(n)'
    BY <2>2 DEF Finds, Fitting, Fits, Formats, Size, TopNode, Top, Moved
  <2>7. Followed' => Running(n)'
    BY <2>2 DEF Finds, Running, Found, Swapping, Moved
  <2>8. Returned' => Tidy(n)'
    BY <2>2 DEF Finds, Tidy, Moved
  <2> QED
    BY <2>3, <2>4, <2>5, <2>6, <2>7, <2>8 DEF Disk
<1> QED
  BY <1>2, <1>3, <1>4, Change DEF Moved, n

-----------------------------------------------------------------------------
(* Sizes: rounding to blocks and to pages of 4K.                           *)

\* The block holds a table and a sector, and whole pages.
LEMMA BlockIs == B \in Nat /\ B > 34 /\ B % 8 = 0
BY DeviceAssumption DEF Gpt

\* Quotient and remainder.
LEMMA Divided ==
  ASSUME NEW n \in Int, NEW b \in Nat, b > 0
  PROVE  /\ n \div b \in Int /\ n % b \in 0 .. b - 1
         /\ n = b * (n \div b) + (n % b)
<1> DEFINE q == n \div b
           r == n % b
<1>1. n = b * q + r /\ r \in 0 .. b - 1 /\ q \in Int
  BY Z3
<1> QED
  BY <1>1

\* A multiple leaves nothing.
LEMMA Multiple ==
  ASSUME NEW q \in Int, NEW b \in Nat, b > 0
  PROVE  (q * b) % b = 0 /\ (q * b) \div b = q
<1> DEFINE n == q * b
           d == n \div b
           r == n % b
<1>1. n \in Int
  BY Z3
<1>2. d \in Int /\ r \in 0 .. b - 1 /\ q * b = b * d + r
  BY <1>1, Divided
<1> HIDE DEF n, d, r
<1>3. b * q = b * d + r
  BY <1>2, Z3
<1>4. d = q
  <2>1. ASSUME d < q PROVE FALSE
    <3>1. b * q >= b * (d + 1)
      BY <2>1, <1>2, Z3
    <3>2. b * (d + 1) = b * d + b
      BY <1>2, Z3
    <3> QED
      BY <3>1, <3>2, <1>2, <1>3, Z3
  <2>2. ASSUME d > q PROVE FALSE
    <3>1. b * d >= b * (q + 1)
      BY <2>2, <1>2, Z3
    <3>2. b * (q + 1) = b * q + b
      BY Z3
    <3> QED
      BY <3>1, <3>2, <1>2, <1>3, Z3
  <2> QED
    BY <2>1, <2>2, <1>2
<1>5. r = 0
  BY <1>2, <1>3, <1>4, Z3
<1> QED
  BY <1>4, <1>5 DEF n, d, r

\* The largest multiple of b up to n.
LEMMA Floor ==
  ASSUME NEW n \in Int, NEW b \in Nat, b > 0
  PROVE  LET f == (n \div b) * b IN
         /\ f \in Int /\ f % b = 0 /\ f <= n /\ n < f + b
         /\ \A m \in Int : m % b = 0 /\ m <= n => m <= f
         /\ \A m \in Int : m % b = 0 /\ f < m => f + b <= m
<1> DEFINE q == n \div b
           r == n % b
<1>1. q \in Int /\ r \in 0 .. b - 1 /\ n = b * q + r
  BY Divided
<1>2. (q * b) % b = 0
  BY <1>1, Multiple
<1> HIDE DEF q, r
<1>3. q * b \in Int /\ b * q = q * b
  BY <1>1, Z3
<1>4. q * b <= n /\ n < q * b + b
  BY <1>1, <1>3
<1>5. \A m \in Int : m % b = 0 /\ q * b < m => q * b + b <= m
  <2> SUFFICES ASSUME NEW m \in Int, m % b = 0, q * b < m PROVE q * b + b <= m
    OBVIOUS
  <2>1. m = b * (m \div b) /\ m \div b \in Int
    BY Divided
  <2> DEFINE t == m \div b
  <2> HIDE DEF t
  <2>2. t \in Int /\ m = b * t
    BY <2>1 DEF t
  <2>3. q < t
    <3> SUFFICES ASSUME t <= q PROVE FALSE
      BY <1>1, <2>2
    <3>1. b * t <= b * q
      BY <1>1, <2>2, Z3
    <3> QED
      BY <3>1, <2>2, <1>3
  <2>4. b * (q + 1) <= b * t
    BY <2>2, <2>3, <1>1, Z3
  <2>5. b * (q + 1) = b * q + b
    BY <1>1, Z3
  <2> QED
    BY <2>2, <2>4, <2>5, <1>3
<1>6. \A m \in Int : m % b = 0 /\ m <= n => m <= q * b
  BY <1>3, <1>4, <1>5
<1> QED
  BY <1>2, <1>3, <1>4, <1>5, <1>6 DEF q

\* Rounding up to the next multiple.
LEMMA RoundUpIs ==
  ASSUME NEW n \in Int, NEW b \in Nat, b > 0
  PROVE  /\ RoundUp(n, b) \in Int /\ RoundUp(n, b) % b = 0
         /\ n <= RoundUp(n, b) /\ RoundUp(n, b) < n + b
         /\ n % b = 0 => RoundUp(n, b) = n
<1> DEFINE k == n + b - 1
           f == (k \div b) * b
<1>1. k \in Int
  OBVIOUS
<1>2. /\ f \in Int /\ f % b = 0 /\ f <= k /\ k < f + b
      /\ \A m \in Int : m % b = 0 /\ m <= k => m <= f
      /\ \A m \in Int : m % b = 0 /\ f < m => f + b <= m
  BY <1>1, Floor
<1>3. RoundUp(n, b) = f
  BY DEF RoundUp
<1> HIDE DEF f
<1>4. n <= f /\ f < n + b
  BY <1>2
<1>5. n % b = 0 => f = n
  <2> SUFFICES ASSUME n % b = 0, n < f PROVE FALSE
    BY <1>2, <1>4
  <2> DEFINE g == (n \div b) * b
  <2>1. /\ g \in Int /\ g <= n /\ n < g + b /\ n <= g
        /\ \A m \in Int : m % b = 0 /\ g < m => g + b <= m
    BY Floor
  <2> HIDE DEF g
  <2> QED
    BY <2>1, <1>2, <1>4
<1> QED
  BY <1>2, <1>3, <1>4, <1>5

\* Multiples of a block: sums, differences, and the room between them.
LEMMA Sums ==
  ASSUME NEW m \in Int, NEW n \in Int, Aligned(m), Aligned(n)
  PROVE  Aligned(m - n) /\ Aligned(m + n) /\ (m < n => m + B <= n) /\ m % 8 = 0
<1>0. B \in Nat /\ B > 0 /\ m % B = 0 /\ n % B = 0
  BY BlockIs DEF Aligned
<1> DEFINE s == m \div B
           t == n \div B
<1>1. m = B * s /\ n = B * t /\ s \in Int /\ t \in Int
  BY <1>0, Divided
<1> HIDE DEF s, t
<1>2. (m - n) % B = 0
  <2>1. m - n = (s - t) * B
    BY <1>0, <1>1, Z3
  <2> QED
    BY <2>1, <1>0, <1>1, Multiple
<1>3. (m + n) % B = 0
  <2>1. m + n = (s + t) * B
    BY <1>0, <1>1, Z3
  <2> QED
    BY <2>1, <1>0, <1>1, Multiple
<1>4. m < n => m + B <= n
  <2> DEFINE f == (m \div B) * B
  <2>1. f \in Int /\ f <= m /\ m <= f /\ \A k \in Int : k % B = 0 /\ f < k => f + B <= k
    BY <1>0, Floor
  <2> HIDE DEF f
  <2> QED
    BY <1>0, <2>1
<1>5. m % 8 = 0
  <2> DEFINE e == B \div 8
  <2>1. B = 8 * e /\ e \in Int
    BY BlockIs, Divided
  <2> HIDE DEF e
  <2>2. m = (e * s) * 8 /\ e * s \in Int
    BY <1>1, <2>1, Z3
  <2> DEFINE k == e * s
  <2> HIDE DEF k
  <2>3. k \in Int /\ m = k * 8
    BY <2>2 DEF k
  <2> QED
    BY <2>3, Z3
<1> QED
  BY <1>2, <1>3, <1>4, <1>5 DEF Aligned

\* A block is one.
LEMMA BlockAligned == Aligned(B) /\ Aligned(0) /\ Aligned(4 * B) /\ B \in Int
<1>0. B \in Nat /\ B > 0
  BY BlockIs
<1>1. 1 * B = B /\ 0 * B = 0
  BY <1>0
<1> QED
  BY <1>0, <1>1, Multiple DEF Aligned

\* Rounding down to a block.
LEMMA AlignedFloor ==
  ASSUME NEW n \in Int
  PROVE  LET f == (n \div B) * B IN
         /\ f \in Int /\ Aligned(f) /\ f <= n /\ n < f + B
         /\ \A m \in Int : Aligned(m) /\ m <= n => m <= f
<1>0. B \in Nat /\ B > 0
  BY BlockIs
<1> QED
  BY <1>0, Floor DEF Aligned

\* Rounding up to a block (round_bdsize).
LEMMA AlignedUp ==
  ASSUME NEW n \in Int
  PROVE  /\ round_bdsize(n) = RoundUp(n, B) /\ round_bdsize(n) \in Int
         /\ Aligned(round_bdsize(n)) /\ n <= round_bdsize(n) /\ round_bdsize(n) < n + B
         /\ Aligned(n) => round_bdsize(n) = n
<1>0. B \in Nat /\ B > 0
  BY BlockIs
<1> DEFINE f == RoundUp(n, B)
<1>1. f \in Int /\ f % B = 0 /\ n <= f /\ f < n + B /\ (n % B = 0 => f = n)
  BY <1>0, RoundUpIs
<1>2. round_bdsize(n) = f
  BY DEF round_bdsize
<1>3. f = RoundUp(n, B)
  OBVIOUS
<1> HIDE DEF f
<1>4. f \in Int /\ Aligned(f) /\ n <= f /\ f < n + B /\ (Aligned(n) => f = n)
  BY <1>1 DEF Aligned
<1> QED
  BY <1>2, <1>3, <1>4

\* The ends of partitions.
LEMMA CreateEndIs ==
  ASSUME NEW n \in Int
  PROVE  CreateEnd(n) \in Int /\ Aligned(CreateEnd(n)) /\ CreateEnd(n) + B <= n
<1>0. B \in Int /\ n - B \in Int
  BY BlockIs
<1> DEFINE f == ((n - B) \div B) * B
<1>1. f \in Int /\ Aligned(f) /\ f <= n - B
  BY <1>0, AlignedFloor
<1>2. CreateEnd(n) = f
  BY DEF CreateEnd
<1> HIDE DEF f
<1> QED
  BY <1>0, <1>1, <1>2

\* On a disk of whole blocks the partition ends a block before the disk.
LEMMA PartEndIs ==
  ASSUME NEW n \in Int, Aligned(n)
  PROVE  PartEnd(n) = n - B /\ Aligned(n - B)
<1>0. B \in Int /\ B > 34 /\ n - Gpt - 1 \in Int /\ n - Gpt - 1 = n - 34
  BY BlockIs DEF Gpt
<1> DEFINE f == ((n - Gpt - 1) \div B) * B
<1>1. f \in Int /\ Aligned(f) /\ f <= n - 34 /\ \A m \in Int : Aligned(m) /\ m <= n - 34 => m <= f
  BY <1>0, AlignedFloor
<1>2. PartEnd(n) = f
  BY DEF PartEnd
<1> HIDE DEF f
<1>3. Aligned(n - B) /\ n - B \in Int
  BY <1>0, BlockAligned, Sums
<1>4. f < n => f + B <= n
  BY <1>1, Sums
<1> QED
  BY <1>0, <1>1, <1>2, <1>3, <1>4

\* Where a partition ends is a number.
LEMMA PartEndInt ==
  ASSUME NEW n \in Int
  PROVE  PartEnd(n) \in Int
<1>1. n - Gpt - 1 \in Int
  BY DEF Gpt
<1> DEFINE m == n - Gpt - 1
<1>2. (m \div B) * B \in Int
  BY <1>1, AlignedFloor
<1> QED
  BY <1>2 DEF PartEnd

\* The size a raw image grows to, in sectors, is a multiple of 8.
LEMMA PageIs ==
  ASSUME NEW n \in Int
  PROVE  /\ RoundUp(n, 8) \in Int /\ RoundUp(n, 8) % 8 = 0 /\ n <= RoundUp(n, 8)
         /\ Aligned(n) => RoundUp(n, 8) = n
         /\ \A m \in Int : Aligned(m) /\ m < RoundUp(n, 8) => m <= RoundUp(n, 8) - 8
<1> DEFINE f == RoundUp(n, 8)
<1>1. f \in Int /\ f % 8 = 0 /\ n <= f /\ (n % 8 = 0 => f = n)
  <2>1. 8 \in Nat /\ 8 > 0
    OBVIOUS
  <2>2. \A b \in Nat : b > 0 => /\ RoundUp(n, b) \in Int /\ RoundUp(n, b) % b = 0
                               /\ n <= RoundUp(n, b)
                               /\ (n % b = 0 => RoundUp(n, b) = n)
    BY RoundUpIs
  <2> DEFINE P(b) == /\ RoundUp(n, b) \in Int /\ RoundUp(n, b) % b = 0
                     /\ n <= RoundUp(n, b)
                     /\ (n % b = 0 => RoundUp(n, b) = n)
  <2> HIDE DEF P
  <2>3. \A b \in Nat : b > 0 => P(b)
    BY <2>2 DEF P
  <2>4. P(8)
    BY <2>1, <2>3
  <2> QED
    BY <2>4 DEF P
<1>2. \A m \in Int : Aligned(m) => m % 8 = 0
  BY Sums
<1> HIDE DEF f
<1>3. \A m \in Int : m % 8 = 0 /\ m < f => m <= f - 8
  BY <1>1
<1> QED
  BY <1>1, <1>2, <1>3 DEF f
\* What is left of a raw disk that was cut to its file system is a number.
LEMMA CutIs ==
  ASSUME NEW n \in Int
  PROVE  RoundUp(B + n, B) \in Int /\ PartEnd(RoundUp(B + n, B)) \in Int
<1>1. B + n \in Int /\ B \in Nat /\ B > 0
  BY BlockIs
<1>2. RoundUp(B + n, B) \in Int
  BY <1>1, RoundUpIs
<1> QED
  BY <1>2, PartEndInt

-----------------------------------------------------------------------------
(* New files.                                                              *)

\* There is always room for one more image.
LEMMA FreshIs ==
  ASSUME Shapes
  PROVE  Fresh \in Nat /\ Fresh \notin DOMAIN nodes
<1> DEFINE k == Cardinality(DOMAIN nodes)
<1>1. IsFiniteSet(DOMAIN nodes) /\ k \in Nat
  BY FS_CardinalityType DEF Shapes
<1>2. \E n \in 1 .. (k + 1) : n \notin DOMAIN nodes
  <2> SUFFICES ASSUME 1 .. (k + 1) \subseteq DOMAIN nodes PROVE FALSE
    OBVIOUS
  <2>1. Cardinality(1 .. (k + 1)) = k + 1
    <3>1. 1 \in Int /\ k + 1 \in Int /\ k + 1 >= 1
      BY <1>1
    <3>2. Cardinality(1 .. (k + 1)) = (k + 1) - 1 + 1
      BY <3>1, FS_Interval
    <3> QED
      BY <1>1, <3>2
  <2>2. Cardinality(1 .. (k + 1)) <= k
    BY <1>1, FS_Subset
  <2> QED
    BY <1>1, <2>1, <2>2
<1> HIDE DEF k
<1>3. Fresh \in 1 .. (k + 1) /\ Fresh \notin DOMAIN nodes
  BY <1>2 DEF Fresh, k
<1> QED
  BY <1>1, <1>3

\* A new image leaves the others as they are.
LEMMA NewNodeIs ==
  ASSUME Shapes, NEW n \in Nat, n \notin DOMAIN nodes, NEW r \in Node, nodes' = NewNode(n, r)
  PROVE  /\ IsFiniteSet(DOMAIN nodes') /\ DOMAIN nodes' = DOMAIN nodes \cup {n}
         /\ \A m \in DOMAIN nodes : nodes'[m] = nodes[m] /\ m # n
         /\ nodes'[n] = r
         /\ \A m \in DOMAIN nodes' : nodes'[m] \in Node
<1>1. DOMAIN nodes' = DOMAIN nodes \cup {n}
  BY DEF NewNode
<1>2. IsFiniteSet(DOMAIN nodes')
  BY <1>1, FS_AddElement DEF Shapes
<1>3. nodes'[n] = r /\ \A m \in DOMAIN nodes : nodes'[m] = nodes[m] /\ m # n
  BY DEF NewNode
<1> QED
  BY <1>1, <1>2, <1>3 DEF Shapes

-----------------------------------------------------------------------------
(* A device and its top image grow to whole blocks.                        *)

\* Growing a device (PLOOP_IOC_GROW) changes its size and that of the last
\* image only.
LEMMA GrownIs ==
  ASSUME Shapes, dev # None, NEW n \in Int, Grown(n)
  PROVE  /\ dev' \in Kernel /\ dev' # None
         /\ dev'.deltas = dev.deltas /\ dev'.running = dev.running /\ dev'.max = dev.max
         /\ dev'.size = (n \div B) * B
         /\ DOMAIN nodes' = DOMAIN nodes
         /\ \A m \in DOMAIN nodes :
              /\ nodes'[m] \in Node
              /\ nodes'[m].fmt = nodes[m].fmt /\ nodes'[m].whole = nodes[m].whole
              /\ nodes'[m].size = IF m = dev.deltas[Len(dev.deltas)] THEN (n \div B) * B
                                  ELSE nodes[m].size
<1> DEFINE g == (n \div B) * B
           t == dev.deltas[Len(dev.deltas)]
<1>1. g \in Int
  BY AlignedFloor
<1>2. dev \in Kernel /\ dev' = [dev EXCEPT !.size = g] /\ nodes' = [nodes EXCEPT ![t].size = g]
  BY DEF Shapes, Grown
<1> HIDE DEF g
<1>3. dev' \in Kernel /\ dev'.deltas = dev.deltas /\ dev'.running = dev.running
      /\ dev'.max = dev.max /\ dev'.size = g
  BY <1>1, <1>2 DEF Kernel
<1>4. dev' # None
  BY <1>3, NoneAssumption
<1>5. t \in DOMAIN nodes
  <2>1. Len(dev.deltas) \in DOMAIN dev.deltas
    BY <1>2 DEF Shapes, Kernel
  <2> QED
    BY <2>1 DEF Shapes
<1> HIDE DEF t
<1>6. /\ DOMAIN nodes' = DOMAIN nodes
      /\ \A m \in DOMAIN nodes :
           /\ nodes'[m] \in Node
           /\ nodes'[m].fmt = nodes[m].fmt /\ nodes'[m].whole = nodes[m].whole
           /\ nodes'[m].size = IF m = t THEN g ELSE nodes[m].size
  BY <1>1, <1>2, <1>5 DEF Shapes, Node
<1> QED
  BY <1>3, <1>4, <1>6 DEF g, t

\* The last image of the device is the top one of the descriptor.
LEMMA TopIs ==
  ASSUME Shapes, Listed, dd # None, dev.deltas = Deltas(dd)
  PROVE  dev.deltas[Len(dev.deltas)] = TopNode(dd)
<1>1. CASE dd.top = None
  <2>1. dev.deltas = <<names[dd.base]>>
    BY <1>1, DeltasIs
  <2> QED
    BY <2>1, <1>1 DEF TopNode, Top
<1>2. CASE dd.top # None
  <2>1. dev.deltas = <<names[dd.base], names[dd.top]>>
    BY <1>2, DeltasIs
  <2> QED
    BY <2>1, <1>2 DEF TopNode, Top
<1> QED
  BY <1>1, <1>2

-----------------------------------------------------------------------------
(* Mount and umount.                                                       *)

\* A call that fails before it has done anything.
LEMMA Declines ==
  ASSUME Inv, NEW p \in Proc, NEW c \in Calls, c = call[p], Steps(c) /\ Holds(c),
         Disk(c) /\ Types /\ Shapes /\ Listed, c.pc = "locked" /\ c.op # "create",
         Still, windows' = windows, Go(p, "fail")
  PROVE  Inv'
<1>1. PICK c2 \in Calls : Becomes(p, c2) /\ Goes(c2, c, "fail") /\ UNCHANGED <<lock, wanted>>
  BY GoIs
<1>2. Steps(c2) /\ Holds(c2)
  BY <1>1 DEF Steps, Holds, Goes, Same, Like
<1>3. Working(c2)
  BY <1>1, <1>2 DEF Disk, Working, Steps, Goes, Same, Like, Still
<1>4. Read(c2)
  BY <1>1, <1>2 DEF Disk, Read, Holds, Steps, Goes, Same, Like, Still
<1>5. Placed' => Match(c2)
  BY <1>1, <1>2 DEF Disk, Match, Matched, Apart, Swapping, Steps, Goes, Same, Like, Still,
     Placed, When
<1>6. Whole' => Lies(c2)
  BY <1>1, <1>2 DEF Disk, Lies, Steps, Goes, Same, Like, Still, Whole, Placed, When
<1>7. Stored' => Fitting(c2)
  BY <1>1, <1>2 DEF Disk, Fitting, Steps, Goes, Same, Like, Still, Stored, Placed, When
<1>8. Followed' => Running(c2)
  BY <1>1, <1>2 DEF Disk, Running, Swapping, Steps, Goes, Same, Like, Still, Followed,
     Placed, When
<1>9. Returned' => Tidy(c2)
  BY <1>1, <1>2 DEF Disk, Tidy, Owns, Working, Steps, Goes, Same, Like, Still, Returned,
     When
<1>10. Finds(IF Holds(c2) THEN c2 ELSE Idle)
  BY <1>2, <1>3, <1>4, <1>5, <1>6, <1>7, <1>8, <1>9 DEF Finds
<1>11. Moved(p, c2)
  BY <1>1 DEF Moved, Still, store, kernel, layout
<1> QED
  BY <1>1, <1>2, <1>10, <1>11, Move DEF NoFs, Steps, Holds, Goes, Same, Like

\* Checking the images decides where the mount goes on.
LEMMA MountCheckInv ==
  ASSUME Inv, NEW p \in Proc, MountCheck(p), "dropped" \notin windows'
  PROVE  Inv'
<1> PICK c \in Calls : c = call[p]
  BY DEF Inv, Types
<1>1. Steps(c) /\ Holds(c) /\ c.pc = "m_check"
  BY DEF Inv, Control, MountCheck, Holds, At
<1>2. Disk(c) /\ Types /\ Shapes /\ Listed
  BY <1>1, NowIs DEF Inv, Types
<1>3. /\ Still /\ windows' = windows
      /\ Go(p, "m_add") \/ Go(p, c.else)
  BY <1>1, <1>2 DEF MountCheck, NoFault, Go, Still, store, kernel, layout
<1>4. PICK pc \in {"m_add", c.else} : Go(p, pc)
  BY <1>3
<1>5. PICK c2 \in Calls : Becomes(p, c2) /\ Goes(c2, c, pc) /\ UNCHANGED <<lock, wanted>>
  BY <1>1, <1>2, <1>3, <1>4, GoIs DEF Steps
<1>6. Steps(c2) /\ Holds(c2)
  BY <1>1, <1>3, <1>4, <1>5 DEF Steps, Holds, Goes, Same, Like
<1>7. Working(c2)
  BY <1>1, <1>2, <1>3, <1>4, <1>5, <1>6 DEF Disk, Working, Steps, Goes, Same, Like, Still
<1>8. Read(c2)
  BY <1>1, <1>2, <1>3, <1>4, <1>5, <1>6 DEF Disk, Read, Holds, Steps, Goes, Same, Like,
     Still
<1>9. Placed' => Match(c2)
  BY <1>1, <1>2, <1>3, <1>4, <1>5, <1>6 DEF Disk, Match, Matched, Apart, Swapping, Steps,
     Goes, Same, Like, Still, Placed, When
<1>10. Whole' => Lies(c2)
  BY <1>1, <1>2, <1>3, <1>4, <1>5, <1>6 DEF Disk, Lies, Steps, Goes, Same, Like, Still,
     Whole, Placed, When
<1>11. Stored' => Fitting(c2)
  BY <1>1, <1>2, <1>3, <1>4, <1>5, <1>6 DEF Disk, Fitting, Steps, Goes, Same, Like, Still,
     Stored, Placed, When
<1>12. Followed' => Running(c2)
  BY <1>1, <1>2, <1>3, <1>4, <1>5, <1>6 DEF Disk, Running, Swapping, Steps, Goes, Same,
     Like, Still, Followed, Placed, When
<1>13. Returned' => Tidy(c2)
  BY <1>1, <1>2, <1>3, <1>4, <1>5, <1>6 DEF Disk, Tidy, Owns, Working, Steps, Goes, Same,
     Like, Still, Returned, When
<1>14. Finds(IF Holds(c2) THEN c2 ELSE Idle)
  BY <1>6, <1>7, <1>8, <1>9, <1>10, <1>11, <1>12, <1>13 DEF Finds
<1>15. Moved(p, c2)
  BY <1>3, <1>5 DEF Moved, Still, store, kernel, layout
<1> QED
  BY <1>1, <1>3, <1>4, <1>5, <1>6, <1>14, <1>15, Move DEF NoFs, Steps, Holds, Goes, Same,
     Like

\* The device is made of the images.
LEMMA MountAddInv ==
  ASSUME Inv, NEW p \in Proc, MountAdd(p), "dropped" \notin windows'
  PROVE  Inv'
<1> PICK c \in Calls : c = call[p]
  BY DEF Inv, Types
<1>1. Steps(c) /\ Holds(c) /\ c.pc = "m_add"
  BY DEF Inv, Control, MountAdd, Holds, At
<1>2. Disk(c) /\ Types /\ Shapes /\ Listed
  BY <1>1, NowIs DEF Inv, Types
<1>3. \/ /\ Still /\ windows' = windows
         /\ Go(p, c.else)
      \/ /\ dev = None /\ Checked(c.di)
         /\ dev' = [deltas |-> Deltas(c.di), running |-> FALSE, size |-> Size(c.di), max |-> 0]
         /\ call' = [call EXCEPT ![p].pc = "m_start", ![p].own = TRUE]
         /\ UNCHANGED <<dd, tmp, names, nodes, mnt, part, fs, lock, wanted, windows>>
  BY <1>1, <1>2 DEF MountAdd, NoFault, Go, Still, store, kernel, layout, Size
<1>4. CASE /\ Still /\ windows' = windows
           /\ Go(p, c.else)
  <2>1. PICK c2 \in Calls : Becomes(p, c2) /\ Goes(c2, c, c.else) /\ UNCHANGED <<lock, wanted>>
    BY <1>1, <1>2, <1>4, GoIs DEF Steps
  <2>2. Steps(c2) /\ Holds(c2)
    BY <1>1, <1>4, <2>1 DEF Steps, Holds, Goes, Same, Like
  <2>3. Working(c2)
    BY <1>1, <1>2, <1>4, <2>1, <2>2 DEF Disk, Working, Steps, Goes, Same, Like, Still
  <2>4. Read(c2)
    BY <1>1, <1>2, <1>4, <2>1, <2>2 DEF Disk, Read, Holds, Steps, Goes, Same, Like, Still
  <2>5. Placed' => Match(c2)
    BY <1>1, <1>2, <1>4, <2>1, <2>2 DEF Disk, Match, Matched, Apart, Swapping, Steps, Goes,
       Same, Like, Still, Placed, When
  <2>6. Whole' => Lies(c2)
    BY <1>1, <1>2, <1>4, <2>1, <2>2 DEF Disk, Lies, Steps, Goes, Same, Like, Still, Whole,
       Placed, When
  <2>7. Stored' => Fitting(c2)
    BY <1>1, <1>2, <1>4, <2>1, <2>2 DEF Disk, Fitting, Steps, Goes, Same, Like, Still,
       Stored, Placed, When
  <2>8. Followed' => Running(c2)
    BY <1>1, <1>2, <1>4, <2>1, <2>2 DEF Disk, Running, Swapping, Steps, Goes, Same, Like,
       Still, Followed, Placed, When
  <2>9. Returned' => Tidy(c2)
    BY <1>1, <1>2, <1>4, <2>1, <2>2 DEF Disk, Tidy, Owns, Working, Steps, Goes, Same, Like,
       Still, Returned, When
  <2>10. Finds(IF Holds(c2) THEN c2 ELSE Idle)
    BY <2>2, <2>3, <2>4, <2>5, <2>6, <2>7, <2>8, <2>9 DEF Finds
  <2>11. Moved(p, c2)
    BY <1>4, <2>1 DEF Moved, Still, store, kernel, layout
  <2> QED
    BY <1>1, <1>4, <2>1, <2>2, <2>10, <2>11, Move DEF NoFs, Steps, Holds, Goes, Same, Like
<1>5. CASE /\ dev = None /\ Checked(c.di)
           /\ dev' = [deltas |-> Deltas(c.di), running |-> FALSE, size |-> Size(c.di), max |-> 0]
           /\ call' = [call EXCEPT ![p].pc = "m_start", ![p].own = TRUE]
           /\ UNCHANGED <<dd, tmp, names, nodes, mnt, part, fs, lock, wanted, windows>>
  <2>1. PICK c2 \in Calls : Becomes(p, c2) /\ Turns(c2, c, "m_start", TRUE)
    BY <1>1, <1>2, <1>5, TurnIs
  <2>2. Steps(c2) /\ Holds(c2)
    BY <1>1, <1>5, <2>1 DEF Steps, Holds, Turns, Same, Like
  <2>3. c.di.base = dd.base /\ c.di.top = dd.top /\ dd # None /\ c.di \in Descriptor
    BY <1>1, <1>2, <1>5, <2>1, <2>2 DEF Disk, Read, Holds, Steps, Calls
  <2>4. Deltas(c.di) = Deltas(dd) /\ Size(c.di) = Size(dd)
    BY <2>3 DEF Deltas, Files, Size, TopNode, Top
  <2>5. dev'.deltas = Deltas(dd) /\ dev'.size = Size(dd) /\ ~dev'.running /\ dev'.max = 0
    BY <1>5, <2>4
  <2>6. /\ Deltas(c.di) \in Seq(Nat) /\ Len(Deltas(c.di)) >= 1 /\ Deltas(c.di)[1] = names[dd.base]
        /\ \A i \in DOMAIN Deltas(c.di) : Deltas(c.di)[i] \in DOMAIN nodes
        /\ Size(c.di) \in Int
    BY <1>2, <1>5, <2>3, CheckedIs DEF Size
  <2>7. dev' \in Kernel
    BY <1>5, <2>6 DEF Kernel
  <2>8. dev' # None
    BY <2>7, NoneAssumption
  <2>9. TopNode(dd)' = TopNode(dd) /\ Deltas(dd)' = Deltas(dd) /\ Size(dd)' = Size(dd)
    BY <1>5 DEF TopNode, Top, Size, Deltas, Files
  <2>10. Found(dd)'
    BY <1>2, <1>5, <2>3, <2>5, <2>6, <2>8, DiskIs DEF Found
  <2>11. Shapes'
    BY <1>1, <1>2, <1>5, <2>1, <2>2, <2>3, <2>4, <2>5, <2>6, <2>7, <2>8, <2>9, <2>10 DEF
       Shapes
  <2>12. Listed' /\ dd' # None
    BY <1>1, <1>2, <1>5, <2>1, <2>2, <2>3, <2>4, <2>5, <2>6, <2>7, <2>8, <2>9, <2>10 DEF
       Disk, Read, Listed, Distinct, Holds
  <2>13. Working(c2)'
    BY <1>1, <1>2, <1>5, <2>1, <2>2, <2>3, <2>4, <2>5, <2>6, <2>7, <2>8, <2>9, <2>10 DEF
       Disk, Working, Steps, Turns, Same, Like
  <2>14. Read(c2)'
    BY <1>1, <1>2, <1>5, <2>1, <2>2, <2>3, <2>4, <2>5, <2>6, <2>7, <2>8, <2>9, <2>10 DEF
       Disk, Read, Holds, Steps, Turns, Same, Like
  <2>15. Placed' => Match(c2)'
    <3>1. Placed => Match(c)
      BY <1>2 DEF Disk
    <3>2. Placed' => Matched'
      BY <1>1, <1>2, <1>5, <2>1, <2>2, <2>3, <2>4, <2>5, <2>6, <2>7, <2>8, <2>9, <2>10, <3>1
         DEF Match, Matched, Placed
    <3>3. Placed' => Apart(c2)'
      BY <1>1, <1>2, <1>5, <2>1, <2>2, <2>3, <2>4, <2>5, <2>6, <2>7, <2>8, <2>9, <2>10,
         <3>1, DiskIs DEF Match, Apart, Swapping, Placed, Turns, Same, Like, Listed,
         Distinct, Names, Descriptor
    <3> QED
      BY <1>1, <1>2, <1>5, <2>1, <2>2, <2>3, <2>4, <2>5, <2>6, <2>7, <2>8, <2>9, <2>10,
         <3>1, <3>2, <3>3 DEF Match, Swapping, Steps, Placed, Turns, Same, Like
  <2>16. Whole' => Lies(c2)'
    BY <1>1, <1>2, <1>5, <2>1, <2>2, <2>3, <2>4, <2>5, <2>6, <2>7, <2>8, <2>9, <2>10 DEF
       Disk, Lies, Steps, Turns, Same, Like, Whole, Placed, When, Room, Size, TopNode, Top
  <2>17. Stored' => Fitting(c2)'
    BY <1>1, <1>2, <1>5, <2>1, <2>2, <2>3, <2>4, <2>5, <2>6, <2>7, <2>8, <2>9, <2>10 DEF
       Disk, Fitting, Steps, Turns, Same, Like, Stored, Placed, When, Fits, Formats, Size,
       TopNode, Top
  <2>18. Followed' => Running(c2)'
    BY <1>1, <1>2, <1>5, <2>1, <2>2, <2>3, <2>4, <2>5, <2>6, <2>7, <2>8, <2>9, <2>10 DEF
       Disk, Running, Swapping, Steps, Turns, Same, Like, Followed, Placed, When, Found
  <2>19. Returned' => Tidy(c2)'
    BY <1>1, <1>2, <1>5, <2>1, <2>2, <2>3, <2>4, <2>5, <2>6, <2>7, <2>8, <2>9, <2>10 DEF
       Disk, Tidy, Owns, Working, Steps, Turns, Same, Like, Returned, When
  <2>20. Disk(IF Holds(c2) THEN c2 ELSE Idle)'
    BY <2>2, <2>11, <2>12, <2>13, <2>14, <2>15, <2>16, <2>17, <2>18, <2>19 DEF Disk
  <2> QED
    BY <1>1, <1>5, <2>1, <2>2, <2>11, <2>12, <2>20, Change DEF NoFs, Steps, Holds, Turns,
       Same, Like
<1> QED
  BY <1>3, <1>4, <1>5

\* The limit is set and the device started.
LEMMA MountStartInv ==
  ASSUME Inv, NEW p \in Proc, MountStart(p), "dropped" \notin windows'
  PROVE  Inv'
<1> PICK c \in Calls : c = call[p]
  BY DEF Inv, Types
<1>1. Steps(c) /\ Holds(c) /\ c.pc = "m_start"
  BY DEF Inv, Control, MountStart, Holds, At
<1>2. Disk(c) /\ Types /\ Shapes /\ Listed
  BY <1>1, NowIs DEF Inv, Types
<1>3. \/ /\ Still /\ windows' = windows
         /\ Go(p, "m_undo")
      \/ /\ dev' = [dev EXCEPT !.running = TRUE, !.max = c.di.max]
         /\ Go(p, "m_gpt")
         /\ UNCHANGED <<dd, tmp, names, nodes, mnt, part, fs, windows>>
  BY <1>1, <1>2 DEF MountStart, NoFault, Go, Still, store, kernel, layout
<1>4. CASE /\ Still /\ windows' = windows
           /\ Go(p, "m_undo")
  <2>1. PICK c2 \in Calls : Becomes(p, c2) /\ Goes(c2, c, "m_undo") /\ UNCHANGED <<lock, wanted>>
    BY <1>1, <1>2, <1>4, GoIs
  <2>2. Steps(c2) /\ Holds(c2)
    BY <1>1, <1>4, <2>1 DEF Steps, Holds, Goes, Same, Like
  <2>3. Working(c2)
    BY <1>1, <1>2, <1>4, <2>1, <2>2 DEF Disk, Working, Steps, Goes, Same, Like, Still
  <2>4. Read(c2)
    BY <1>1, <1>2, <1>4, <2>1, <2>2 DEF Disk, Read, Holds, Steps, Goes, Same, Like, Still
  <2>5. Placed' => Match(c2)
    BY <1>1, <1>2, <1>4, <2>1, <2>2 DEF Disk, Match, Matched, Apart, Swapping, Steps, Goes,
       Same, Like, Still, Placed, When
  <2>6. Whole' => Lies(c2)
    BY <1>1, <1>2, <1>4, <2>1, <2>2 DEF Disk, Lies, Steps, Goes, Same, Like, Still, Whole,
       Placed, When
  <2>7. Stored' => Fitting(c2)
    BY <1>1, <1>2, <1>4, <2>1, <2>2 DEF Disk, Fitting, Steps, Goes, Same, Like, Still,
       Stored, Placed, When
  <2>8. Followed' => Running(c2)
    BY <1>1, <1>2, <1>4, <2>1, <2>2 DEF Disk, Running, Swapping, Steps, Goes, Same, Like,
       Still, Followed, Placed, When
  <2>9. Returned' => Tidy(c2)
    BY <1>1, <1>2, <1>4, <2>1, <2>2 DEF Disk, Tidy, Owns, Working, Steps, Goes, Same, Like,
       Still, Returned, When
  <2>10. Finds(IF Holds(c2) THEN c2 ELSE Idle)
    BY <2>2, <2>3, <2>4, <2>5, <2>6, <2>7, <2>8, <2>9 DEF Finds
  <2>11. Moved(p, c2)
    BY <1>4, <2>1 DEF Moved, Still, store, kernel, layout
  <2> QED
    BY <1>1, <1>4, <2>1, <2>2, <2>10, <2>11, Move DEF NoFs, Steps, Holds, Goes, Same, Like
<1>5. CASE /\ dev' = [dev EXCEPT !.running = TRUE, !.max = c.di.max]
           /\ Go(p, "m_gpt")
           /\ UNCHANGED <<dd, tmp, names, nodes, mnt, part, fs, windows>>
  <2>1. PICK c2 \in Calls : Becomes(p, c2) /\ Goes(c2, c, "m_gpt") /\ UNCHANGED <<lock, wanted>>
    BY <1>1, <1>2, <1>5, GoIs
  <2>2. Steps(c2) /\ Holds(c2)
    BY <1>1, <1>5, <2>1 DEF Steps, Holds, Goes, Same, Like
  <2>3. dev \in Kernel /\ c.di \in Descriptor /\ c.di.max = dd.max /\ c.di.max \in {0, 1} /\ dev # None
    BY <1>1, <1>2, DiskIs DEF Disk, Shapes, Working, Read, Holds, Calls, Descriptor, Steps
  <2>4. dev' \in Kernel /\ dev'.deltas = dev.deltas /\ dev'.size = dev.size /\ dev'.running /\ dev'.max = dd.max
    BY <1>5, <2>3 DEF Kernel
  <2>5. dev' # None
    BY <2>4, NoneAssumption
  <2>6. TopNode(dd)' = TopNode(dd) /\ Deltas(dd)' = Deltas(dd) /\ Size(dd)' = Size(dd)
    BY <1>5 DEF TopNode, Top, Size, Deltas, Files
  <2>7. Found(dd)' = Found(dd)
    BY <1>5, <2>3, <2>4, <2>5 DEF Found
  <2>8. Shapes'
    BY <1>1, <1>2, <1>5, <2>1, <2>2, <2>3, <2>4, <2>5, <2>6, <2>7 DEF Shapes
  <2>9. Listed' /\ dd' # None
    BY <1>1, <1>2, <1>5, <2>1, <2>2, <2>3, <2>4, <2>5, <2>6, <2>7 DEF Disk, Read, Listed,
       Distinct, Holds
  <2>10. Working(c2)'
    BY <1>1, <1>2, <1>5, <2>1, <2>2, <2>3, <2>4, <2>5, <2>6, <2>7 DEF Disk, Working, Steps,
       Goes, Same, Like
  <2>11. Read(c2)'
    BY <1>1, <1>2, <1>5, <2>1, <2>2, <2>3, <2>4, <2>5, <2>6, <2>7 DEF Disk, Read, Holds,
       Steps, Goes, Same, Like
  <2>12. Placed' => Match(c2)'
    <3>1. Placed => Match(c)
      BY <1>2 DEF Disk
    <3>2. Placed' => Matched'
      BY <1>1, <1>2, <1>5, <2>1, <2>2, <2>3, <2>4, <2>5, <2>6, <2>7, <3>1 DEF Match,
         Matched, Placed
    <3>3. Placed' => Apart(c2)'
      BY <1>1, <1>2, <1>5, <2>1, <2>2, <2>3, <2>4, <2>5, <2>6, <2>7, <3>1 DEF Match, Apart,
         Swapping, Placed, Goes, Same, Like
    <3> QED
      BY <1>1, <1>2, <1>5, <2>1, <2>2, <2>3, <2>4, <2>5, <2>6, <2>7, <3>1, <3>2, <3>3 DEF
         Match, Swapping, Steps, Placed, Goes, Same, Like
  <2>13. Whole' => Lies(c2)'
    BY <1>1, <1>2, <1>5, <2>1, <2>2, <2>3, <2>4, <2>5, <2>6, <2>7 DEF Disk, Lies, Steps,
       Goes, Same, Like, Whole, Placed, When, Room, Size, TopNode, Top
  <2>14. Stored' => Fitting(c2)'
    BY <1>1, <1>2, <1>5, <2>1, <2>2, <2>3, <2>4, <2>5, <2>6, <2>7 DEF Disk, Fitting, Steps,
       Goes, Same, Like, Stored, Placed, When, Fits, Formats, Size, TopNode, Top
  <2>15. Followed' => Running(c2)'
    BY <1>1, <1>2, <1>5, <2>1, <2>2, <2>3, <2>4, <2>5, <2>6, <2>7 DEF Disk, Running,
       Swapping, Steps, Goes, Same, Like, Followed, Placed, When, Found
  <2>16. Returned' => Tidy(c2)'
    BY <1>1, <1>2, <1>5, <2>1, <2>2, <2>3, <2>4, <2>5, <2>6, <2>7 DEF Disk, Tidy, Owns,
       Working, Steps, Goes, Same, Like, Returned, When
  <2>17. Disk(IF Holds(c2) THEN c2 ELSE Idle)'
    BY <2>2, <2>8, <2>9, <2>10, <2>11, <2>12, <2>13, <2>14, <2>15, <2>16 DEF Disk
  <2> QED
    BY <1>1, <1>5, <2>1, <2>2, <2>8, <2>9, <2>17, Change DEF NoFs, Steps, Holds, Goes, Same,
       Like
<1> QED
  BY <1>3, <1>4, <1>5

\* The deltas are deleted again.
LEMMA MountUndoInv ==
  ASSUME Inv, NEW p \in Proc, MountUndo(p), "dropped" \notin windows'
  PROVE  Inv'
<1> PICK c \in Calls : c = call[p]
  BY DEF Inv, Types
<1>1. Steps(c) /\ Holds(c) /\ c.pc = "m_undo"
  BY DEF Inv, Control, MountUndo, Holds, At
<1>2. Disk(c) /\ Types /\ Shapes /\ Listed
  BY <1>1, NowIs DEF Inv, Types
<1>3. \/ /\ Still /\ windows' = windows \cup {"left"}
         /\ Go(p, c.else)
      \/ /\ dev' = None
         /\ call' = [call EXCEPT ![p].pc = c.else, ![p].own = FALSE]
         /\ UNCHANGED <<dd, tmp, names, nodes, mnt, part, fs, lock, wanted, windows>>
  BY <1>1, <1>2 DEF MountUndo, NoFault, Go, Still, store, kernel, layout
<1>4. CASE /\ Still /\ windows' = windows \cup {"left"}
           /\ Go(p, c.else)
  <2>1. PICK c2 \in Calls : Becomes(p, c2) /\ Goes(c2, c, c.else) /\ UNCHANGED <<lock, wanted>>
    BY <1>1, <1>2, <1>4, GoIs DEF Steps
  <2>2. Steps(c2) /\ Holds(c2)
    BY <1>1, <1>4, <2>1 DEF Steps, Holds, Goes, Same, Like
  <2>3. Working(c2)
    BY <1>1, <1>2, <1>4, <2>1, <2>2 DEF Disk, Working, Steps, Goes, Same, Like, Still
  <2>4. Read(c2)
    BY <1>1, <1>2, <1>4, <2>1, <2>2 DEF Disk, Read, Holds, Steps, Goes, Same, Like, Still
  <2>5. Placed' => Match(c2)
    BY <1>1, <1>2, <1>4, <2>1, <2>2 DEF Disk, Match, Matched, Apart, Swapping, Steps, Goes,
       Same, Like, Still, Placed, When
  <2>6. Whole' => Lies(c2)
    BY <1>1, <1>2, <1>4, <2>1, <2>2 DEF Disk, Lies, Steps, Goes, Same, Like, Still, Whole,
       Placed, When
  <2>7. Stored' => Fitting(c2)
    BY <1>1, <1>2, <1>4, <2>1, <2>2 DEF Disk, Fitting, Steps, Goes, Same, Like, Still,
       Stored, Placed, When
  <2>8. Followed' => Running(c2)
    BY <1>1, <1>2, <1>4, <2>1, <2>2 DEF Disk, Running, Swapping, Steps, Goes, Same, Like,
       Still, Followed, Placed, When
  <2>9. Returned' => Tidy(c2)
    BY <1>1, <1>2, <1>4, <2>1, <2>2 DEF Disk, Tidy, Owns, Working, Steps, Goes, Same, Like,
       Still, Returned, When
  <2>10. Finds(IF Holds(c2) THEN c2 ELSE Idle)
    BY <2>2, <2>3, <2>4, <2>5, <2>6, <2>7, <2>8, <2>9 DEF Finds
  <2>11. Moved(p, c2)
    BY <1>4, <2>1 DEF Moved, Still, store, kernel, layout
  <2> QED
    BY <1>1, <1>4, <2>1, <2>2, <2>10, <2>11, Move DEF NoFs, Steps, Holds, Goes, Same, Like
<1>5. CASE /\ dev' = None
           /\ call' = [call EXCEPT ![p].pc = c.else, ![p].own = FALSE]
           /\ UNCHANGED <<dd, tmp, names, nodes, mnt, part, fs, lock, wanted, windows>>
  <2>1. PICK c2 \in Calls : Becomes(p, c2) /\ Turns(c2, c, c.else, FALSE)
    BY <1>1, <1>2, <1>5, TurnIs DEF Steps
  <2>2. Steps(c2) /\ Holds(c2)
    BY <1>1, <1>5, <2>1 DEF Steps, Holds, Turns, Same, Like
  <2>3. TopNode(dd)' = TopNode(dd) /\ Deltas(dd)' = Deltas(dd) /\ Size(dd)' = Size(dd)
    BY <1>5 DEF TopNode, Top, Size, Deltas, Files
  <2>4. Shapes'
    BY <1>1, <1>2, <1>5, <2>1, <2>2, <2>3 DEF Shapes
  <2>5. Listed' /\ dd' # None
    BY <1>1, <1>2, <1>5, <2>1, <2>2, <2>3 DEF Disk, Read, Listed, Distinct, Holds
  <2>6. Working(c2)'
    BY <1>1, <1>2, <1>5, <2>1, <2>2, <2>3 DEF Disk, Working, Steps, Turns, Same, Like
  <2>7. Read(c2)'
    BY <1>1, <1>2, <1>5, <2>1, <2>2, <2>3 DEF Disk, Read, Holds, Steps, Turns, Same, Like
  <2>8. Placed' => Match(c2)'
    <3>1. Placed => Match(c)
      BY <1>2 DEF Disk
    <3>2. Placed' => Matched'
      BY <1>1, <1>2, <1>5, <2>1, <2>2, <2>3, <3>1 DEF Match, Matched, Placed
    <3>3. Placed' => Apart(c2)'
      BY <1>1, <1>2, <1>5, <2>1, <2>2, <2>3, <3>1 DEF Match, Apart, Swapping, Placed, Turns,
         Same, Like
    <3> QED
      BY <1>1, <1>2, <1>5, <2>1, <2>2, <2>3, <3>1, <3>2, <3>3 DEF Match, Swapping, Steps,
         Placed, Turns, Same, Like
  <2>9. Whole' => Lies(c2)'
    BY <1>1, <1>2, <1>5, <2>1, <2>2, <2>3 DEF Disk, Lies, Steps, Turns, Same, Like, Whole,
       Placed, When, Room, Size, TopNode, Top
  <2>10. Stored' => Fitting(c2)'
    BY <1>1, <1>2, <1>5, <2>1, <2>2, <2>3 DEF Disk, Fitting, Steps, Turns, Same, Like,
       Stored, Placed, When, Fits, Formats, Size, TopNode, Top
  <2>11. Followed' => Running(c2)'
    BY <1>1, <1>2, <1>5, <2>1, <2>2, <2>3 DEF Disk, Running, Swapping, Steps, Turns, Same,
       Like, Followed, Placed, When, Found
  <2>12. Returned' => Tidy(c2)'
    BY <1>1, <1>2, <1>5, <2>1, <2>2, <2>3 DEF Disk, Tidy, Owns, Working, Steps, Turns, Same,
       Like, Returned, When
  <2>13. Disk(IF Holds(c2) THEN c2 ELSE Idle)'
    BY <2>2, <2>4, <2>5, <2>6, <2>7, <2>8, <2>9, <2>10, <2>11, <2>12 DEF Disk
  <2> QED
    BY <1>1, <1>5, <2>1, <2>2, <2>4, <2>5, <2>13, Change DEF NoFs, Steps, Holds, Turns,
       Same, Like
<1> QED
  BY <1>3, <1>4, <1>5

\* The partition table is checked.
LEMMA MountGptInv ==
  ASSUME Inv, NEW p \in Proc, MountGpt(p), "dropped" \notin windows'
  PROVE  Inv'
<1> PICK c \in Calls : c = call[p]
  BY DEF Inv, Types
<1>1. Steps(c) /\ Holds(c) /\ c.pc = "m_gpt"
  BY DEF Inv, Control, MountGpt, Holds, At
<1>2. Disk(c) /\ Types /\ Shapes /\ Listed
  BY <1>1, NowIs DEF Inv, Types
<1>3. \/ /\ Still /\ windows' = windows
         /\ Go(p, "m_fs")
      \/ /\ Still /\ windows' = windows \cup {"left"}
         /\ Go(p, c.else)
  BY <1>1, <1>2 DEF MountGpt, NoFault, Go, Still, store, kernel, layout
<1>4. CASE /\ Still /\ windows' = windows
           /\ Go(p, "m_fs")
  <2>1. PICK c2 \in Calls : Becomes(p, c2) /\ Goes(c2, c, "m_fs") /\ UNCHANGED <<lock, wanted>>
    BY <1>1, <1>2, <1>4, GoIs
  <2>2. Steps(c2) /\ Holds(c2)
    BY <1>1, <1>4, <2>1 DEF Steps, Holds, Goes, Same, Like
  <2>3. Working(c2)
    BY <1>1, <1>2, <1>4, <2>1, <2>2 DEF Disk, Working, Steps, Goes, Same, Like, Still
  <2>4. Read(c2)
    BY <1>1, <1>2, <1>4, <2>1, <2>2 DEF Disk, Read, Holds, Steps, Goes, Same, Like, Still
  <2>5. Placed' => Match(c2)
    BY <1>1, <1>2, <1>4, <2>1, <2>2 DEF Disk, Match, Matched, Apart, Swapping, Steps, Goes,
       Same, Like, Still, Placed, When
  <2>6. Whole' => Lies(c2)
    BY <1>1, <1>2, <1>4, <2>1, <2>2 DEF Disk, Lies, Steps, Goes, Same, Like, Still, Whole,
       Placed, When
  <2>7. Stored' => Fitting(c2)
    BY <1>1, <1>2, <1>4, <2>1, <2>2 DEF Disk, Fitting, Steps, Goes, Same, Like, Still,
       Stored, Placed, When
  <2>8. Followed' => Running(c2)
    BY <1>1, <1>2, <1>4, <2>1, <2>2 DEF Disk, Running, Swapping, Steps, Goes, Same, Like,
       Still, Followed, Placed, When
  <2>9. Returned' => Tidy(c2)
    BY <1>1, <1>2, <1>4, <2>1, <2>2 DEF Disk, Tidy, Owns, Working, Steps, Goes, Same, Like,
       Still, Returned, When
  <2>10. Finds(IF Holds(c2) THEN c2 ELSE Idle)
    BY <2>2, <2>3, <2>4, <2>5, <2>6, <2>7, <2>8, <2>9 DEF Finds
  <2>11. Moved(p, c2)
    BY <1>4, <2>1 DEF Moved, Still, store, kernel, layout
  <2> QED
    BY <1>1, <1>4, <2>1, <2>2, <2>10, <2>11, Move DEF NoFs, Steps, Holds, Goes, Same, Like
<1>5. CASE /\ Still /\ windows' = windows \cup {"left"}
           /\ Go(p, c.else)
  <2>1. PICK c2 \in Calls : Becomes(p, c2) /\ Goes(c2, c, c.else) /\ UNCHANGED <<lock, wanted>>
    BY <1>1, <1>2, <1>5, GoIs DEF Steps
  <2>2. Steps(c2) /\ Holds(c2)
    BY <1>1, <1>5, <2>1 DEF Steps, Holds, Goes, Same, Like
  <2>3. Working(c2)
    BY <1>1, <1>2, <1>5, <2>1, <2>2 DEF Disk, Working, Steps, Goes, Same, Like, Still
  <2>4. Read(c2)
    BY <1>1, <1>2, <1>5, <2>1, <2>2 DEF Disk, Read, Holds, Steps, Goes, Same, Like, Still
  <2>5. Placed' => Match(c2)
    BY <1>1, <1>2, <1>5, <2>1, <2>2 DEF Disk, Match, Matched, Apart, Swapping, Steps, Goes,
       Same, Like, Still, Placed, When
  <2>6. Whole' => Lies(c2)
    BY <1>1, <1>2, <1>5, <2>1, <2>2 DEF Disk, Lies, Steps, Goes, Same, Like, Still, Whole,
       Placed, When
  <2>7. Stored' => Fitting(c2)
    BY <1>1, <1>2, <1>5, <2>1, <2>2 DEF Disk, Fitting, Steps, Goes, Same, Like, Still,
       Stored, Placed, When
  <2>8. Followed' => Running(c2)
    BY <1>1, <1>2, <1>5, <2>1, <2>2 DEF Disk, Running, Swapping, Steps, Goes, Same, Like,
       Still, Followed, Placed, When
  <2>9. Returned' => Tidy(c2)
    BY <1>1, <1>2, <1>5, <2>1, <2>2 DEF Disk, Tidy, Owns, Working, Steps, Goes, Same, Like,
       Still, Returned, When
  <2>10. Finds(IF Holds(c2) THEN c2 ELSE Idle)
    BY <2>2, <2>3, <2>4, <2>5, <2>6, <2>7, <2>8, <2>9 DEF Finds
  <2>11. Moved(p, c2)
    BY <1>5, <2>1 DEF Moved, Still, store, kernel, layout
  <2> QED
    BY <1>1, <1>5, <2>1, <2>2, <2>10, <2>11, Move DEF NoFs, Steps, Holds, Goes, Same, Like
<1> QED
  BY <1>3, <1>4, <1>5

\* The file system is mounted, or the device stopped.
LEMMA MountFsInv ==
  ASSUME Inv, NEW p \in Proc, MountFs(p), "dropped" \notin windows'
  PROVE  Inv'
<1> PICK c \in Calls : c = call[p]
  BY DEF Inv, Types
<1>1. Steps(c) /\ Holds(c) /\ c.pc = "m_fs"
  BY DEF Inv, Control, MountFs, Holds, At
<1>2. Disk(c) /\ Types /\ Shapes /\ Listed
  BY <1>1, NowIs DEF Inv, Types
<1>3. \/ /\ c.target = "none"
         /\ Still /\ windows' = windows
         /\ Go(p, c.then)
      \/ /\ c.target # "none" /\ fs # 0
         /\ mnt' = c.target
         /\ Go(p, c.then)
         /\ UNCHANGED <<dd, tmp, names, nodes, dev, part, fs, windows>>
      \/ /\ dev' = None
         /\ call' = [call EXCEPT ![p].pc = c.else, ![p].own = FALSE]
         /\ UNCHANGED <<dd, tmp, names, nodes, mnt, part, fs, lock, wanted, windows>>
  BY <1>1, <1>2 DEF MountFs, NoFault, Go, Still, store, kernel, layout
<1>4. CASE /\ c.target = "none"
           /\ Still /\ windows' = windows
           /\ Go(p, c.then)
  <2>1. PICK c2 \in Calls : Becomes(p, c2) /\ Goes(c2, c, c.then) /\ UNCHANGED <<lock, wanted>>
    BY <1>1, <1>2, <1>4, GoIs DEF Steps
  <2>2. Steps(c2) /\ Holds(c2)
    BY <1>1, <1>4, <2>1 DEF Steps, Holds, Goes, Same, Like
  <2>3. /\ c2.own /\ dev # None /\ mnt = "none" /\ Owns(c)
        /\ \/ c2.op = "mount" /\ c2.pc = "ok" /\ c2.target # "temp"
           \/ Owns(c2) /\ (c2.op = "grow" => c2.pc \in GrowPc) /\ (c2.op = "resize" => c2.pc \in ResizePc)
              /\ (c2.target = "temp" => c2.op = "resize")
    BY <1>1, <1>2, <1>4, <2>1, <2>2 DEF Disk, Working, Steps, Goes, Same, Like, Owns
  <2>4. Working(c2)
    BY <1>1, <1>2, <1>4, <2>1, <2>2, <2>3 DEF Disk, Working, Steps, Goes, Same, Like, Still
  <2>5. Read(c2)
    BY <1>1, <1>2, <1>4, <2>1, <2>2, <2>3 DEF Disk, Read, Holds, Steps, Goes, Same, Like,
       Still
  <2>6. Placed' => Match(c2)
    BY <1>1, <1>2, <1>4, <2>1, <2>2, <2>3 DEF Disk, Match, Matched, Apart, Swapping, Steps,
       Goes, Same, Like, Still, Placed, When
  <2>7. Whole' => Lies(c2)
    BY <1>1, <1>2, <1>4, <2>1, <2>2, <2>3 DEF Disk, Lies, Steps, Goes, Same, Like, Still,
       Whole, Placed, When
  <2>8. Stored' => Fitting(c2)
    BY <1>1, <1>2, <1>4, <2>1, <2>2, <2>3 DEF Disk, Fitting, Steps, Goes, Same, Like, Still,
       Stored, Placed, When
  <2>9. Followed' => Running(c2)
    BY <1>1, <1>2, <1>4, <2>1, <2>2, <2>3 DEF Disk, Running, Swapping, Steps, Goes, Same,
       Like, Still, Followed, Placed, When
  <2>10. Returned' => Tidy(c2)
    BY <1>1, <1>2, <1>4, <2>1, <2>2, <2>3 DEF Disk, Tidy, Owns, Working, Steps, Goes, Same,
       Like, Still, Returned, When
  <2>11. Finds(IF Holds(c2) THEN c2 ELSE Idle)
    BY <2>2, <2>4, <2>5, <2>6, <2>7, <2>8, <2>9, <2>10 DEF Finds
  <2>12. Moved(p, c2)
    BY <1>4, <2>1 DEF Moved, Still, store, kernel, layout
  <2> QED
    BY <1>1, <1>4, <2>1, <2>2, <2>11, <2>12, Move DEF NoFs, Steps, Holds, Goes, Same, Like
<1>5. CASE /\ c.target # "none" /\ fs # 0
           /\ mnt' = c.target
           /\ Go(p, c.then)
           /\ UNCHANGED <<dd, tmp, names, nodes, dev, part, fs, windows>>
  <2>1. PICK c2 \in Calls : Becomes(p, c2) /\ Goes(c2, c, c.then) /\ UNCHANGED <<lock, wanted>>
    BY <1>1, <1>2, <1>5, GoIs DEF Steps
  <2>2. Steps(c2) /\ Holds(c2)
    BY <1>1, <1>5, <2>1 DEF Steps, Holds, Goes, Same, Like
  <2>3. /\ TopNode(dd)' = TopNode(dd) /\ Deltas(dd)' = Deltas(dd) /\ Size(dd)' = Size(dd)
        /\ Found(dd)' = Found(dd)
    BY <1>5 DEF TopNode, Top, Size, Deltas, Files, Found
  <2>4. /\ c2.own /\ dev # None /\ mnt = "none" /\ Owns(c)
        /\ \/ c2.op = "mount" /\ c2.pc = "ok" /\ c2.target # "temp"
           \/ Owns(c2) /\ (c2.op = "grow" => c2.pc \in GrowPc) /\ (c2.op = "resize" => c2.pc \in ResizePc)
              /\ (c2.target = "temp" => c2.op = "resize")
    BY <1>1, <1>2, <1>5, <2>1, <2>2, <2>3 DEF Disk, Working, Steps, Goes, Same, Like, Owns
  <2>5. Shapes'
    BY <1>1, <1>2, <1>5, <2>1, <2>2, <2>3, <2>4 DEF Shapes, Calls, Targets
  <2>6. Listed' /\ dd' # None
    BY <1>1, <1>2, <1>5, <2>1, <2>2, <2>3, <2>4 DEF Disk, Read, Listed, Distinct, Holds
  <2>7. Working(c2)'
    BY <1>1, <1>2, <1>5, <2>1, <2>2, <2>3, <2>4 DEF Disk, Working, Steps, Goes, Same, Like
  <2>8. Read(c2)'
    BY <1>1, <1>2, <1>5, <2>1, <2>2, <2>3, <2>4 DEF Disk, Read, Holds, Steps, Goes, Same,
       Like
  <2>9. Placed' => Match(c2)'
    <3>1. Placed => Match(c)
      BY <1>2 DEF Disk
    <3>2. Placed' => Matched'
      BY <1>1, <1>2, <1>5, <2>1, <2>2, <2>3, <2>4, <3>1 DEF Match, Matched, Placed
    <3>3. Placed' => Apart(c2)'
      BY <1>1, <1>2, <1>5, <2>1, <2>2, <2>3, <2>4, <3>1 DEF Match, Apart, Swapping, Placed,
         Goes, Same, Like
    <3> QED
      BY <1>1, <1>2, <1>5, <2>1, <2>2, <2>3, <2>4, <3>1, <3>2, <3>3 DEF Match, Swapping,
         Steps, Placed, Goes, Same, Like
  <2>10. Whole' => Lies(c2)'
    BY <1>1, <1>2, <1>5, <2>1, <2>2, <2>3, <2>4 DEF Disk, Lies, Steps, Goes, Same, Like,
       Whole, Placed, When, Room, Size, TopNode, Top
  <2>11. Stored' => Fitting(c2)'
    BY <1>1, <1>2, <1>5, <2>1, <2>2, <2>3, <2>4 DEF Disk, Fitting, Steps, Goes, Same, Like,
       Stored, Placed, When, Fits, Formats, Size, TopNode, Top
  <2>12. Followed' => Running(c2)'
    BY <1>1, <1>2, <1>5, <2>1, <2>2, <2>3, <2>4 DEF Disk, Running, Swapping, Steps, Goes,
       Same, Like, Followed, Placed, When, Found
  <2>13. Returned' => Tidy(c2)'
    BY <1>1, <1>2, <1>5, <2>1, <2>2, <2>3, <2>4 DEF Disk, Tidy, Owns, Working, Steps, Goes,
       Same, Like, Returned, When
  <2>14. Disk(IF Holds(c2) THEN c2 ELSE Idle)'
    BY <2>2, <2>5, <2>6, <2>7, <2>8, <2>9, <2>10, <2>11, <2>12, <2>13 DEF Disk
  <2> QED
    BY <1>1, <1>5, <2>1, <2>2, <2>5, <2>6, <2>14, Change DEF NoFs, Steps, Holds, Goes, Same,
       Like
<1>6. CASE /\ dev' = None
           /\ call' = [call EXCEPT ![p].pc = c.else, ![p].own = FALSE]
           /\ UNCHANGED <<dd, tmp, names, nodes, mnt, part, fs, lock, wanted, windows>>
  <2>1. PICK c2 \in Calls : Becomes(p, c2) /\ Turns(c2, c, c.else, FALSE)
    BY <1>1, <1>2, <1>6, TurnIs DEF Steps
  <2>2. Steps(c2) /\ Holds(c2)
    BY <1>1, <1>6, <2>1 DEF Steps, Holds, Turns, Same, Like
  <2>3. TopNode(dd)' = TopNode(dd) /\ Deltas(dd)' = Deltas(dd) /\ Size(dd)' = Size(dd)
    BY <1>6 DEF TopNode, Top, Size, Deltas, Files
  <2>4. Shapes'
    BY <1>1, <1>2, <1>6, <2>1, <2>2, <2>3 DEF Shapes
  <2>5. Listed' /\ dd' # None
    BY <1>1, <1>2, <1>6, <2>1, <2>2, <2>3 DEF Disk, Read, Listed, Distinct, Holds
  <2>6. Working(c2)'
    BY <1>1, <1>2, <1>6, <2>1, <2>2, <2>3 DEF Disk, Working, Steps, Turns, Same, Like
  <2>7. Read(c2)'
    BY <1>1, <1>2, <1>6, <2>1, <2>2, <2>3 DEF Disk, Read, Holds, Steps, Turns, Same, Like
  <2>8. Placed' => Match(c2)'
    <3>1. Placed => Match(c)
      BY <1>2 DEF Disk
    <3>2. Placed' => Matched'
      BY <1>1, <1>2, <1>6, <2>1, <2>2, <2>3, <3>1 DEF Match, Matched, Placed
    <3>3. Placed' => Apart(c2)'
      BY <1>1, <1>2, <1>6, <2>1, <2>2, <2>3, <3>1 DEF Match, Apart, Swapping, Placed, Turns,
         Same, Like
    <3> QED
      BY <1>1, <1>2, <1>6, <2>1, <2>2, <2>3, <3>1, <3>2, <3>3 DEF Match, Swapping, Steps,
         Placed, Turns, Same, Like
  <2>9. Whole' => Lies(c2)'
    BY <1>1, <1>2, <1>6, <2>1, <2>2, <2>3 DEF Disk, Lies, Steps, Turns, Same, Like, Whole,
       Placed, When, Room, Size, TopNode, Top
  <2>10. Stored' => Fitting(c2)'
    BY <1>1, <1>2, <1>6, <2>1, <2>2, <2>3 DEF Disk, Fitting, Steps, Turns, Same, Like,
       Stored, Placed, When, Fits, Formats, Size, TopNode, Top
  <2>11. Followed' => Running(c2)'
    BY <1>1, <1>2, <1>6, <2>1, <2>2, <2>3 DEF Disk, Running, Swapping, Steps, Turns, Same,
       Like, Followed, Placed, When, Found
  <2>12. Returned' => Tidy(c2)'
    BY <1>1, <1>2, <1>6, <2>1, <2>2, <2>3 DEF Disk, Tidy, Owns, Working, Steps, Turns, Same,
       Like, Returned, When
  <2>13. Disk(IF Holds(c2) THEN c2 ELSE Idle)'
    BY <2>2, <2>4, <2>5, <2>6, <2>7, <2>8, <2>9, <2>10, <2>11, <2>12 DEF Disk
  <2> QED
    BY <1>1, <1>6, <2>1, <2>2, <2>4, <2>5, <2>13, Change DEF NoFs, Steps, Holds, Turns,
       Same, Like
<1> QED
  BY <1>3, <1>4, <1>5, <1>6

\* A device that is found is refused, or remounted.
LEMMA ploop_mount_imageInv ==
  ASSUME Inv, NEW p \in Proc, ploop_mount_image(p), "dropped" \notin windows'
  PROVE  Inv'
<1> PICK c \in Calls : c = call[p]
  BY DEF Inv, Types
<1>1. Steps(c) /\ Holds(c) /\ c.pc = "locked" /\ c.op = "mount"
  BY DEF Inv, Control, ploop_mount_image, Holds, Entry, At
<1>2. Disk(c) /\ Types /\ Shapes /\ Listed
  BY <1>1, NowIs DEF Inv, Types
<1>3. \/ /\ ~Found(c.di) /\ Still /\ windows' = windows
         /\ DoMount(p, c.target, "ok", "fail")
      \/ /\ Still /\ windows' = windows
         /\ Go(p, "fail")
      \/ /\ Found(c.di) /\ c.flag
         /\ mnt' = "none"
         /\ Go(p, "remount")
         /\ UNCHANGED <<dd, tmp, names, nodes, dev, part, fs, windows>>
  BY <1>1, <1>2 DEF ploop_mount_image, NoFault, Go, Still, store, kernel, layout
<1>4. CASE /\ ~Found(c.di) /\ Still /\ windows' = windows
           /\ DoMount(p, c.target, "ok", "fail")
  <2>1. PICK c2 \in Calls : Becomes(p, c2) /\ Mounts(c2, c, c.target, "ok", "fail") /\ UNCHANGED <<lock, wanted>>
    BY <1>1, <1>2, <1>4, DoMountIs DEF Steps, Calls, Thens, Elses, Targets
  <2>2. Steps(c2) /\ Holds(c2)
    BY <1>1, <1>4, <2>1 DEF Steps, Holds, Mounts, Same, Like
  <2>3. Working(c2)
    BY <1>1, <1>2, <1>4, <2>1, <2>2 DEF Disk, Working, Steps, Mounts, Same, Like, Still
  <2>4. Read(c2)
    BY <1>1, <1>2, <1>4, <2>1, <2>2 DEF Disk, Read, Holds, Steps, Mounts, Same, Like, Still
  <2>5. Placed' => Match(c2)
    BY <1>1, <1>2, <1>4, <2>1, <2>2 DEF Disk, Match, Matched, Apart, Swapping, Steps,
       Mounts, Same, Like, Still, Placed, When
  <2>6. Whole' => Lies(c2)
    BY <1>1, <1>2, <1>4, <2>1, <2>2 DEF Disk, Lies, Steps, Mounts, Same, Like, Still, Whole,
       Placed, When
  <2>7. Stored' => Fitting(c2)
    BY <1>1, <1>2, <1>4, <2>1, <2>2 DEF Disk, Fitting, Steps, Mounts, Same, Like, Still,
       Stored, Placed, When
  <2>8. Followed' => Running(c2)
    BY <1>1, <1>2, <1>4, <2>1, <2>2 DEF Disk, Running, Swapping, Steps, Mounts, Same, Like,
       Still, Followed, Placed, When
  <2>9. Returned' => Tidy(c2)
    BY <1>1, <1>2, <1>4, <2>1, <2>2 DEF Disk, Tidy, Owns, Working, Steps, Mounts, Same,
       Like, Still, Returned, When
  <2>10. Finds(IF Holds(c2) THEN c2 ELSE Idle)
    BY <2>2, <2>3, <2>4, <2>5, <2>6, <2>7, <2>8, <2>9 DEF Finds
  <2>11. Moved(p, c2)
    BY <1>4, <2>1 DEF Moved, Still, store, kernel, layout
  <2> QED
    BY <1>1, <1>4, <2>1, <2>2, <2>10, <2>11, Move DEF NoFs, Steps, Holds, Mounts, Same, Like
<1>5. CASE /\ Still /\ windows' = windows
           /\ Go(p, "fail")
  BY <1>1, <1>2, <1>5, Declines
<1>6. CASE /\ Found(c.di) /\ c.flag
           /\ mnt' = "none"
           /\ Go(p, "remount")
           /\ UNCHANGED <<dd, tmp, names, nodes, dev, part, fs, windows>>
  <2>1. PICK c2 \in Calls : Becomes(p, c2) /\ Goes(c2, c, "remount") /\ UNCHANGED <<lock, wanted>>
    BY <1>1, <1>2, <1>6, GoIs
  <2>2. Steps(c2) /\ Holds(c2)
    BY <1>1, <1>6, <2>1 DEF Steps, Holds, Goes, Same, Like
  <2>3. /\ TopNode(dd)' = TopNode(dd) /\ Deltas(dd)' = Deltas(dd) /\ Size(dd)' = Size(dd)
        /\ Found(dd)' = Found(dd)
    BY <1>6 DEF TopNode, Top, Size, Deltas, Files, Found
  <2>4. Shapes'
    BY <1>1, <1>2, <1>6, <2>1, <2>2, <2>3 DEF Shapes, Targets
  <2>5. Listed' /\ dd' # None
    BY <1>1, <1>2, <1>6, <2>1, <2>2, <2>3 DEF Disk, Read, Listed, Distinct, Holds
  <2>6. Working(c2)'
    BY <1>1, <1>2, <1>6, <2>1, <2>2, <2>3 DEF Disk, Working, Steps, Goes, Same, Like, Found
  <2>7. Read(c2)'
    BY <1>1, <1>2, <1>6, <2>1, <2>2, <2>3 DEF Disk, Read, Holds, Steps, Goes, Same, Like
  <2>8. Placed' => Match(c2)'
    <3>1. Placed => Match(c)
      BY <1>2 DEF Disk
    <3>2. Placed' => Matched'
      BY <1>1, <1>2, <1>6, <2>1, <2>2, <2>3, <3>1 DEF Match, Matched, Placed
    <3>3. Placed' => Apart(c2)'
      BY <1>1, <1>2, <1>6, <2>1, <2>2, <2>3, <3>1 DEF Match, Apart, Swapping, Placed, Goes,
         Same, Like
    <3> QED
      BY <1>1, <1>2, <1>6, <2>1, <2>2, <2>3, <3>1, <3>2, <3>3 DEF Match, Swapping, Steps,
         Placed, Goes, Same, Like
  <2>9. Whole' => Lies(c2)'
    BY <1>1, <1>2, <1>6, <2>1, <2>2, <2>3 DEF Disk, Lies, Steps, Goes, Same, Like, Whole,
       Placed, When, Room, Size, TopNode, Top
  <2>10. Stored' => Fitting(c2)'
    BY <1>1, <1>2, <1>6, <2>1, <2>2, <2>3 DEF Disk, Fitting, Steps, Goes, Same, Like,
       Stored, Placed, When, Fits, Formats, Size, TopNode, Top
  <2>11. Followed' => Running(c2)'
    BY <1>1, <1>2, <1>6, <2>1, <2>2, <2>3 DEF Disk, Running, Swapping, Steps, Goes, Same,
       Like, Followed, Placed, When, Found
  <2>12. Returned' => Tidy(c2)'
    BY <1>1, <1>2, <1>6, <2>1, <2>2, <2>3 DEF Disk, Tidy, Owns, Working, Steps, Goes, Same,
       Like, Returned, When
  <2>13. Disk(IF Holds(c2) THEN c2 ELSE Idle)'
    BY <2>2, <2>4, <2>5, <2>6, <2>7, <2>8, <2>9, <2>10, <2>11, <2>12 DEF Disk
  <2> QED
    BY <1>1, <1>6, <2>1, <2>2, <2>4, <2>5, <2>13, Change DEF NoFs, Steps, Holds, Goes, Same,
       Like
<1> QED
  BY <1>3, <1>4, <1>5, <1>6

\* The file system of a device that runs is mounted elsewhere.
LEMMA remount_imageInv ==
  ASSUME Inv, NEW p \in Proc, remount_image(p), "dropped" \notin windows'
  PROVE  Inv'
<1> PICK c \in Calls : c = call[p]
  BY DEF Inv, Types
<1>1. Steps(c) /\ Holds(c) /\ c.pc = "remount"
  BY DEF Inv, Control, remount_image, Holds, At
<1>2. Disk(c) /\ Types /\ Shapes /\ Listed
  BY <1>1, NowIs DEF Inv, Types
<1>3. \/ /\ Still /\ windows' = windows
         /\ Go(p, "ok") \/ Go(p, "fail")
      \/ /\ fs # 0
         /\ mnt' = c.target
         /\ Go(p, "ok")
         /\ UNCHANGED <<dd, tmp, names, nodes, dev, part, fs, windows>>
  BY <1>1, <1>2 DEF remount_image, NoFault, Go, Still, store, kernel, layout
<1>4. CASE /\ Still /\ windows' = windows
           /\ Go(p, "ok") \/ Go(p, "fail")
  <2>1. PICK pc \in {"ok", "fail"} : Go(p, pc)
    BY <1>4
  <2>2. PICK c2 \in Calls : Becomes(p, c2) /\ Goes(c2, c, pc) /\ UNCHANGED <<lock, wanted>>
    BY <1>1, <1>2, <1>4, <2>1, GoIs
  <2>3. Steps(c2) /\ Holds(c2)
    BY <1>1, <1>4, <2>1, <2>2 DEF Steps, Holds, Goes, Same, Like
  <2>4. Working(c2)
    BY <1>1, <1>2, <1>4, <2>1, <2>2, <2>3 DEF Disk, Working, Steps, Goes, Same, Like, Still
  <2>5. Read(c2)
    BY <1>1, <1>2, <1>4, <2>1, <2>2, <2>3 DEF Disk, Read, Holds, Steps, Goes, Same, Like,
       Still
  <2>6. Placed' => Match(c2)
    BY <1>1, <1>2, <1>4, <2>1, <2>2, <2>3 DEF Disk, Match, Matched, Apart, Swapping, Steps,
       Goes, Same, Like, Still, Placed, When
  <2>7. Whole' => Lies(c2)
    BY <1>1, <1>2, <1>4, <2>1, <2>2, <2>3 DEF Disk, Lies, Steps, Goes, Same, Like, Still,
       Whole, Placed, When
  <2>8. Stored' => Fitting(c2)
    BY <1>1, <1>2, <1>4, <2>1, <2>2, <2>3 DEF Disk, Fitting, Steps, Goes, Same, Like, Still,
       Stored, Placed, When
  <2>9. Followed' => Running(c2)
    BY <1>1, <1>2, <1>4, <2>1, <2>2, <2>3 DEF Disk, Running, Swapping, Steps, Goes, Same,
       Like, Still, Followed, Placed, When
  <2>10. Returned' => Tidy(c2)
    BY <1>1, <1>2, <1>4, <2>1, <2>2, <2>3 DEF Disk, Tidy, Owns, Working, Steps, Goes, Same,
       Like, Still, Returned, When
  <2>11. Finds(IF Holds(c2) THEN c2 ELSE Idle)
    BY <2>3, <2>4, <2>5, <2>6, <2>7, <2>8, <2>9, <2>10 DEF Finds
  <2>12. Moved(p, c2)
    BY <1>4, <2>2 DEF Moved, Still, store, kernel, layout
  <2> QED
    BY <1>1, <1>4, <2>1, <2>2, <2>3, <2>11, <2>12, Move DEF NoFs, Steps, Holds, Goes, Same,
       Like
<1>5. CASE /\ fs # 0
           /\ mnt' = c.target
           /\ Go(p, "ok")
           /\ UNCHANGED <<dd, tmp, names, nodes, dev, part, fs, windows>>
  <2>1. PICK c2 \in Calls : Becomes(p, c2) /\ Goes(c2, c, "ok") /\ UNCHANGED <<lock, wanted>>
    BY <1>1, <1>2, <1>5, GoIs
  <2>2. Steps(c2) /\ Holds(c2)
    BY <1>1, <1>5, <2>1 DEF Steps, Holds, Goes, Same, Like
  <2>3. /\ TopNode(dd)' = TopNode(dd) /\ Deltas(dd)' = Deltas(dd) /\ Size(dd)' = Size(dd)
        /\ Found(dd)' = Found(dd)
    BY <1>5 DEF TopNode, Top, Size, Deltas, Files, Found
  <2>4. Shapes'
    BY <1>1, <1>2, <1>5, <2>1, <2>2, <2>3 DEF Shapes, Calls, Targets
  <2>5. Listed' /\ dd' # None
    BY <1>1, <1>2, <1>5, <2>1, <2>2, <2>3 DEF Disk, Read, Listed, Distinct, Holds
  <2>6. Working(c2)'
    BY <1>1, <1>2, <1>5, <2>1, <2>2, <2>3 DEF Disk, Working, Steps, Goes, Same, Like
  <2>7. Read(c2)'
    BY <1>1, <1>2, <1>5, <2>1, <2>2, <2>3 DEF Disk, Read, Holds, Steps, Goes, Same, Like
  <2>8. Placed' => Match(c2)'
    <3>1. Placed => Match(c)
      BY <1>2 DEF Disk
    <3>2. Placed' => Matched'
      BY <1>1, <1>2, <1>5, <2>1, <2>2, <2>3, <3>1 DEF Match, Matched, Placed
    <3>3. Placed' => Apart(c2)'
      BY <1>1, <1>2, <1>5, <2>1, <2>2, <2>3, <3>1 DEF Match, Apart, Swapping, Placed, Goes,
         Same, Like
    <3> QED
      BY <1>1, <1>2, <1>5, <2>1, <2>2, <2>3, <3>1, <3>2, <3>3 DEF Match, Swapping, Steps,
         Placed, Goes, Same, Like
  <2>9. Whole' => Lies(c2)'
    BY <1>1, <1>2, <1>5, <2>1, <2>2, <2>3 DEF Disk, Lies, Steps, Goes, Same, Like, Whole,
       Placed, When, Room, Size, TopNode, Top
  <2>10. Stored' => Fitting(c2)'
    BY <1>1, <1>2, <1>5, <2>1, <2>2, <2>3 DEF Disk, Fitting, Steps, Goes, Same, Like,
       Stored, Placed, When, Fits, Formats, Size, TopNode, Top
  <2>11. Followed' => Running(c2)'
    BY <1>1, <1>2, <1>5, <2>1, <2>2, <2>3 DEF Disk, Running, Swapping, Steps, Goes, Same,
       Like, Followed, Placed, When, Found
  <2>12. Returned' => Tidy(c2)'
    BY <1>1, <1>2, <1>5, <2>1, <2>2, <2>3 DEF Disk, Tidy, Owns, Working, Steps, Goes, Same,
       Like, Returned, When
  <2>13. Disk(IF Holds(c2) THEN c2 ELSE Idle)'
    BY <2>2, <2>4, <2>5, <2>6, <2>7, <2>8, <2>9, <2>10, <2>11, <2>12 DEF Disk
  <2> QED
    BY <1>1, <1>5, <2>1, <2>2, <2>4, <2>5, <2>13, Change DEF NoFs, Steps, Holds, Goes, Same,
       Like
<1> QED
  BY <1>3, <1>4, <1>5

\* The file system is unmounted, or stays busy.
LEMMA ploop_umount_fsInv ==
  ASSUME Inv, NEW p \in Proc, ploop_umount_fs(p), "dropped" \notin windows'
  PROVE  Inv'
<1> PICK c \in Calls : c = call[p]
  BY DEF Inv, Types
<1>1. Steps(c) /\ Holds(c) /\ c.pc = "u_fs"
  BY DEF Inv, Control, ploop_umount_fs, Holds, At
<1>2. Disk(c) /\ Types /\ Shapes /\ Listed
  BY <1>1, NowIs DEF Inv, Types
<1>3. \/ /\ mnt' = "none"
         /\ Go(p, "u_stop")
         /\ UNCHANGED <<dd, tmp, names, nodes, dev, part, fs, windows>>
      \/ /\ c.op # "create"
         /\ Still /\ windows' = windows \cup When(c.op # "umount", "left")
         /\ Go(p, c.else)
      \/ /\ c.op = "create"
         /\ Still /\ windows' = windows \cup {"left"}
         /\ Go(p, c.else)
  BY <1>1, <1>2 DEF ploop_umount_fs, NoFault, Go, Still, store, kernel, layout, When
<1>4. CASE /\ mnt' = "none"
           /\ Go(p, "u_stop")
           /\ UNCHANGED <<dd, tmp, names, nodes, dev, part, fs, windows>>
  <2>1. PICK c2 \in Calls : Becomes(p, c2) /\ Goes(c2, c, "u_stop") /\ UNCHANGED <<lock, wanted>>
    BY <1>1, <1>2, <1>4, GoIs
  <2>2. Steps(c2) /\ Holds(c2)
    BY <1>1, <1>4, <2>1 DEF Steps, Holds, Goes, Same, Like
  <2>3. /\ TopNode(dd)' = TopNode(dd) /\ Deltas(dd)' = Deltas(dd) /\ Size(dd)' = Size(dd)
        /\ Found(dd)' = Found(dd)
    BY <1>4 DEF TopNode, Top, Size, Deltas, Files, Found
  <2>4. Shapes'
    BY <1>1, <1>2, <1>4, <2>1, <2>2, <2>3 DEF Shapes, Targets
  <2>5. Listed' /\ dd' # None
    BY <1>1, <1>2, <1>4, <2>1, <2>2, <2>3 DEF Disk, Read, Listed, Distinct, Holds
  <2>6. Working(c2)'
    BY <1>1, <1>2, <1>4, <2>1, <2>2, <2>3 DEF Disk, Working, Steps, Goes, Same, Like
  <2>7. Read(c2)'
    BY <1>1, <1>2, <1>4, <2>1, <2>2, <2>3 DEF Disk, Read, Holds, Steps, Goes, Same, Like
  <2>8. Placed' => Match(c2)'
    <3>1. Placed => Match(c)
      BY <1>2 DEF Disk
    <3>2. Placed' => Matched'
      BY <1>1, <1>2, <1>4, <2>1, <2>2, <2>3, <3>1 DEF Match, Matched, Placed
    <3>3. Placed' => Apart(c2)'
      BY <1>1, <1>2, <1>4, <2>1, <2>2, <2>3, <3>1 DEF Match, Apart, Swapping, Placed, Goes,
         Same, Like
    <3> QED
      BY <1>1, <1>2, <1>4, <2>1, <2>2, <2>3, <3>1, <3>2, <3>3 DEF Match, Swapping, Steps,
         Placed, Goes, Same, Like
  <2>9. Whole' => Lies(c2)'
    BY <1>1, <1>2, <1>4, <2>1, <2>2, <2>3 DEF Disk, Lies, Steps, Goes, Same, Like, Whole,
       Placed, When, Room, Size, TopNode, Top
  <2>10. Stored' => Fitting(c2)'
    BY <1>1, <1>2, <1>4, <2>1, <2>2, <2>3 DEF Disk, Fitting, Steps, Goes, Same, Like,
       Stored, Placed, When, Fits, Formats, Size, TopNode, Top
  <2>11. Followed' => Running(c2)'
    BY <1>1, <1>2, <1>4, <2>1, <2>2, <2>3 DEF Disk, Running, Swapping, Steps, Goes, Same,
       Like, Followed, Placed, When, Found
  <2>12. Returned' => Tidy(c2)'
    BY <1>1, <1>2, <1>4, <2>1, <2>2, <2>3 DEF Disk, Tidy, Owns, Working, Steps, Goes, Same,
       Like, Returned, When
  <2>13. Disk(IF Holds(c2) THEN c2 ELSE Idle)'
    BY <2>2, <2>4, <2>5, <2>6, <2>7, <2>8, <2>9, <2>10, <2>11, <2>12 DEF Disk
  <2> QED
    BY <1>1, <1>4, <2>1, <2>2, <2>4, <2>5, <2>13, Change DEF NoFs, Steps, Holds, Goes, Same,
       Like
<1>5. CASE /\ c.op # "create"
           /\ Still /\ windows' = windows \cup When(c.op # "umount", "left")
           /\ Go(p, c.else)
  <2>1. PICK c2 \in Calls : Becomes(p, c2) /\ Goes(c2, c, c.else) /\ UNCHANGED <<lock, wanted>>
    BY <1>1, <1>2, <1>5, GoIs DEF Steps
  <2>2. Steps(c2) /\ Holds(c2)
    BY <1>1, <1>5, <2>1 DEF Steps, Holds, Goes, Same, Like
  <2>3. Working(c2)
    BY <1>1, <1>2, <1>5, <2>1, <2>2 DEF Disk, Working, Steps, Goes, Same, Like, Still
  <2>4. Read(c2)
    BY <1>1, <1>2, <1>5, <2>1, <2>2 DEF Disk, Read, Holds, Steps, Goes, Same, Like, Still
  <2>5. Placed' => Match(c2)
    BY <1>1, <1>2, <1>5, <2>1, <2>2 DEF Disk, Match, Matched, Apart, Swapping, Steps, Goes,
       Same, Like, Still, Placed, When
  <2>6. Whole' => Lies(c2)
    BY <1>1, <1>2, <1>5, <2>1, <2>2 DEF Disk, Lies, Steps, Goes, Same, Like, Still, Whole,
       Placed, When
  <2>7. Stored' => Fitting(c2)
    BY <1>1, <1>2, <1>5, <2>1, <2>2 DEF Disk, Fitting, Steps, Goes, Same, Like, Still,
       Stored, Placed, When
  <2>8. Followed' => Running(c2)
    BY <1>1, <1>2, <1>5, <2>1, <2>2 DEF Disk, Running, Swapping, Steps, Goes, Same, Like,
       Still, Followed, Placed, When
  <2>9. Returned' => Tidy(c2)
    BY <1>1, <1>2, <1>5, <2>1, <2>2 DEF Disk, Tidy, Owns, Working, Steps, Goes, Same, Like,
       Still, Returned, When
  <2>10. Finds(IF Holds(c2) THEN c2 ELSE Idle)
    BY <2>2, <2>3, <2>4, <2>5, <2>6, <2>7, <2>8, <2>9 DEF Finds
  <2>11. Moved(p, c2)
    BY <1>5, <2>1 DEF Moved, Still, store, kernel, layout
  <2> QED
    BY <1>1, <1>5, <2>1, <2>2, <2>10, <2>11, Move DEF NoFs, Steps, Holds, Goes, Same, Like
<1>6. CASE /\ c.op = "create"
           /\ Still /\ windows' = windows \cup {"left"}
           /\ Go(p, c.else)
  <2>1. PICK c2 \in Calls : Becomes(p, c2) /\ Goes(c2, c, c.else) /\ UNCHANGED <<lock, wanted>>
    BY <1>1, <1>2, <1>6, GoIs DEF Steps
  <2>2. Steps(c2) /\ ~Holds(c2)
    BY <1>1, <1>6, <2>1 DEF Steps, Holds, Goes, Same, Like
  <2>3. Working(Idle)
    BY <1>1, <1>2, <1>6, <2>1, <2>2, IdleIs DEF Disk, Working, Steps, Goes, Same, Like,
       Still
  <2>4. Read(Idle)
    BY <1>1, <1>2, <1>6, <2>1, <2>2, IdleIs DEF Disk, Read, Holds, Steps, Goes, Same, Like,
       Still
  <2>5. Placed' => Match(Idle)
    BY <1>1, <1>2, <1>6, <2>1, <2>2, IdleIs DEF Disk, Match, Matched, Apart, Swapping,
       Steps, Goes, Same, Like, Still, Placed, When
  <2>6. Whole' => Lies(Idle)
    BY <1>1, <1>2, <1>6, <2>1, <2>2, IdleIs DEF Disk, Lies, Steps, Goes, Same, Like, Still,
       Whole, Placed, When
  <2>7. Stored' => Fitting(Idle)
    BY <1>1, <1>2, <1>6, <2>1, <2>2, IdleIs DEF Disk, Fitting, Steps, Goes, Same, Like,
       Still, Stored, Placed, When
  <2>8. Followed' => Running(Idle)
    BY <1>1, <1>2, <1>6, <2>1, <2>2, IdleIs DEF Disk, Running, Swapping, Steps, Goes, Same,
       Like, Still, Followed, Placed, When
  <2>9. Returned' => Tidy(Idle)
    BY <1>1, <1>2, <1>6, <2>1, <2>2, IdleIs DEF Disk, Tidy, Owns, Working, Steps, Goes,
       Same, Like, Still, Returned, When
  <2>10. Finds(IF Holds(c2) THEN c2 ELSE Idle)
    BY <2>2, <2>3, <2>4, <2>5, <2>6, <2>7, <2>8, <2>9 DEF Finds
  <2>11. Moved(p, c2)
    BY <1>6, <2>1 DEF Moved, Still, store, kernel, layout
  <2> QED
    BY <1>1, <1>6, <2>1, <2>2, <2>10, <2>11, Move DEF NoFs, Steps, Holds, Goes, Same, Like
<1> QED
  BY <1>3, <1>4, <1>5, <1>6

\* The device is stopped, or goes on.
LEMMA ploop_stopInv ==
  ASSUME Inv, NEW p \in Proc, ploop_stop(p), "dropped" \notin windows'
  PROVE  Inv'
<1> PICK c \in Calls : c = call[p]
  BY DEF Inv, Types
<1>1. Steps(c) /\ Holds(c) /\ c.pc = "u_stop"
  BY DEF Inv, Control, ploop_stop, Holds, At
<1>2. Disk(c) /\ Types /\ Shapes /\ Listed
  BY <1>1, NowIs DEF Inv, Types
<1>3. \/ /\ c.op # "create"
         /\ dev' = None
         /\ Go(p, c.then)
         /\ UNCHANGED <<dd, tmp, names, nodes, mnt, part, fs, windows>>
      \/ /\ c.op = "create"
         /\ dev' = None
         /\ Go(p, c.then)
         /\ UNCHANGED <<dd, tmp, names, nodes, mnt, part, fs, windows>>
      \/ /\ c.op # "create"
         /\ Still /\ windows' = windows \cup When(c.op # "umount", "left")
         /\ Go(p, c.else)
      \/ /\ c.op = "create"
         /\ Still /\ windows' = windows \cup {"left"}
         /\ Go(p, c.else)
  BY <1>1, <1>2 DEF ploop_stop, NoFault, Go, Still, store, kernel, layout, When
<1>4. CASE /\ c.op # "create"
           /\ dev' = None
           /\ Go(p, c.then)
           /\ UNCHANGED <<dd, tmp, names, nodes, mnt, part, fs, windows>>
  <2>1. PICK c2 \in Calls : Becomes(p, c2) /\ Goes(c2, c, c.then) /\ UNCHANGED <<lock, wanted>>
    BY <1>1, <1>2, <1>4, GoIs DEF Steps
  <2>2. Steps(c2) /\ Holds(c2)
    BY <1>1, <1>4, <2>1 DEF Steps, Holds, Goes, Same, Like
  <2>3. TopNode(dd)' = TopNode(dd) /\ Deltas(dd)' = Deltas(dd) /\ Size(dd)' = Size(dd)
    BY <1>4 DEF TopNode, Top, Size, Deltas, Files
  <2>4. c2.pc \in EndPc /\ ~Owns(c2) /\ ((c.op = "umount" /\ c2.pc = "ok") \/ Owns(c)) /\ c.op # "mount"
    BY <1>1, <1>2, <1>4, <2>1, <2>2, <2>3 DEF Owns, Steps, Goes, Same, Like
  <2>5. mnt = "none" /\ (Returned => tmp = None /\ names["image.tmp"] = None /\ (Owns(c) => ~wanted))
    BY <1>1, <1>2, <1>4, <2>1, <2>2, <2>3, <2>4 DEF Disk, Working, Tidy
  <2>6. Shapes'
    BY <1>1, <1>2, <1>4, <2>1, <2>2, <2>3, <2>4, <2>5 DEF Shapes
  <2>7. Listed' /\ dd' # None
    BY <1>1, <1>2, <1>4, <2>1, <2>2, <2>3, <2>4, <2>5 DEF Disk, Read, Listed, Distinct,
       Holds
  <2>8. Working(c2)'
    BY <1>1, <1>2, <1>4, <2>1, <2>2, <2>3, <2>4, <2>5 DEF Disk, Working, Steps, Goes, Same,
       Like
  <2>9. Read(c2)'
    BY <1>1, <1>2, <1>4, <2>1, <2>2, <2>3, <2>4, <2>5 DEF Disk, Read, Holds, Steps, Goes,
       Same, Like
  <2>10. Placed' => Match(c2)'
    <3>1. Placed => Match(c)
      BY <1>2 DEF Disk
    <3>2. Placed' => Matched'
      BY <1>1, <1>2, <1>4, <2>1, <2>2, <2>3, <2>4, <2>5, <3>1 DEF Match, Matched, Placed
    <3>3. Placed' => Apart(c2)'
      BY <1>1, <1>2, <1>4, <2>1, <2>2, <2>3, <2>4, <2>5, <3>1 DEF Match, Apart, Swapping,
         Placed, Goes, Same, Like
    <3> QED
      BY <1>1, <1>2, <1>4, <2>1, <2>2, <2>3, <2>4, <2>5, <3>1, <3>2, <3>3 DEF Match,
         Swapping, Steps, Placed, Goes, Same, Like
  <2>11. Whole' => Lies(c2)'
    BY <1>1, <1>2, <1>4, <2>1, <2>2, <2>3, <2>4, <2>5 DEF Disk, Lies, Steps, Goes, Same,
       Like, Whole, Placed, When, Room, Size, TopNode, Top
  <2>12. Stored' => Fitting(c2)'
    BY <1>1, <1>2, <1>4, <2>1, <2>2, <2>3, <2>4, <2>5 DEF Disk, Fitting, Steps, Goes, Same,
       Like, Stored, Placed, When, Fits, Formats, Size, TopNode, Top
  <2>13. Followed' => Running(c2)'
    BY <1>1, <1>2, <1>4, <2>1, <2>2, <2>3, <2>4, <2>5 DEF Disk, Running, Swapping, Steps,
       Goes, Same, Like, Followed, Placed, When, Found
  <2>14. Returned' => Tidy(c2)'
      BY <1>1, <1>4, <2>1, <2>4, <2>5 DEF Tidy, Returned, Goes, Same, Like, Owns
  <2>15. Disk(IF Holds(c2) THEN c2 ELSE Idle)'
    BY <2>2, <2>6, <2>7, <2>8, <2>9, <2>10, <2>11, <2>12, <2>13, <2>14 DEF Disk
  <2> QED
    BY <1>1, <1>4, <2>1, <2>2, <2>6, <2>7, <2>15, Change DEF NoFs, Steps, Holds, Goes, Same,
       Like
<1>5. CASE /\ c.op = "create"
           /\ dev' = None
           /\ Go(p, c.then)
           /\ UNCHANGED <<dd, tmp, names, nodes, mnt, part, fs, windows>>
  <2>1. PICK c2 \in Calls : Becomes(p, c2) /\ Goes(c2, c, c.then) /\ UNCHANGED <<lock, wanted>>
    BY <1>1, <1>2, <1>5, GoIs DEF Steps
  <2>2. Steps(c2) /\ ~Holds(c2)
    BY <1>1, <1>5, <2>1 DEF Steps, Holds, Goes, Same, Like
  <2>3. TopNode(dd)' = TopNode(dd) /\ Deltas(dd)' = Deltas(dd) /\ Size(dd)' = Size(dd)
    BY <1>5 DEF TopNode, Top, Size, Deltas, Files
  <2>4. Shapes'
    BY <1>1, <1>2, <1>5, <2>1, <2>2, <2>3 DEF Shapes
  <2>5. Listed' /\ dd' # None
    BY <1>1, <1>2, <1>5, <2>1, <2>2, <2>3 DEF Disk, Read, Listed, Distinct, Holds
  <2>6. Working(Idle)'
    BY <1>1, <1>2, <1>5, <2>1, <2>2, IdleIs, <2>3 DEF Disk, Working, Steps, Goes, Same, Like
  <2>7. Read(Idle)'
    BY <1>1, <1>2, <1>5, <2>1, <2>2, IdleIs, <2>3 DEF Disk, Read, Holds, Steps, Goes, Same,
       Like
  <2>8. Placed' => Match(Idle)'
    <3>1. Placed => Match(c)
      BY <1>2 DEF Disk
    <3>2. Placed' => Matched'
      BY <1>1, <1>2, <1>5, <2>1, <2>2, IdleIs, <2>3, <3>1 DEF Match, Matched, Placed
    <3>3. Placed' => Apart(Idle)'
      BY <1>1, <1>2, <1>5, <2>1, <2>2, IdleIs, <2>3, <3>1 DEF Match, Apart, Swapping,
         Placed, Goes, Same, Like
    <3> QED
      BY <1>1, <1>2, <1>5, <2>1, <2>2, IdleIs, <2>3, <3>1, <3>2, <3>3 DEF Match, Swapping,
         Steps, Placed, Goes, Same, Like
  <2>9. Whole' => Lies(Idle)'
    BY <1>1, <1>2, <1>5, <2>1, <2>2, IdleIs, <2>3 DEF Disk, Lies, Steps, Goes, Same, Like,
       Whole, Placed, When, Room, Size, TopNode, Top
  <2>10. Stored' => Fitting(Idle)'
    BY <1>1, <1>2, <1>5, <2>1, <2>2, IdleIs, <2>3 DEF Disk, Fitting, Steps, Goes, Same,
       Like, Stored, Placed, When, Fits, Formats, Size, TopNode, Top
  <2>11. Followed' => Running(Idle)'
    BY <1>1, <1>2, <1>5, <2>1, <2>2, IdleIs, <2>3 DEF Disk, Running, Swapping, Steps, Goes,
       Same, Like, Followed, Placed, When, Found
  <2>12. Returned' => Tidy(Idle)'
    BY <1>1, <1>2, <1>5, <2>1, <2>2, IdleIs, <2>3 DEF Disk, Tidy, Owns, Working, Steps,
       Goes, Same, Like, Returned, When
  <2>13. Disk(IF Holds(c2) THEN c2 ELSE Idle)'
    BY <2>2, <2>4, <2>5, <2>6, <2>7, <2>8, <2>9, <2>10, <2>11, <2>12 DEF Disk
  <2> QED
    BY <1>1, <1>5, <2>1, <2>2, <2>4, <2>5, <2>13, Change DEF NoFs, Steps, Holds, Goes, Same,
       Like
<1>6. CASE /\ c.op # "create"
           /\ Still /\ windows' = windows \cup When(c.op # "umount", "left")
           /\ Go(p, c.else)
  <2>1. PICK c2 \in Calls : Becomes(p, c2) /\ Goes(c2, c, c.else) /\ UNCHANGED <<lock, wanted>>
    BY <1>1, <1>2, <1>6, GoIs DEF Steps
  <2>2. Steps(c2) /\ Holds(c2)
    BY <1>1, <1>6, <2>1 DEF Steps, Holds, Goes, Same, Like
  <2>3. Working(c2)
    BY <1>1, <1>2, <1>6, <2>1, <2>2 DEF Disk, Working, Steps, Goes, Same, Like, Still
  <2>4. Read(c2)
    BY <1>1, <1>2, <1>6, <2>1, <2>2 DEF Disk, Read, Holds, Steps, Goes, Same, Like, Still
  <2>5. Placed' => Match(c2)
    BY <1>1, <1>2, <1>6, <2>1, <2>2 DEF Disk, Match, Matched, Apart, Swapping, Steps, Goes,
       Same, Like, Still, Placed, When
  <2>6. Whole' => Lies(c2)
    BY <1>1, <1>2, <1>6, <2>1, <2>2 DEF Disk, Lies, Steps, Goes, Same, Like, Still, Whole,
       Placed, When
  <2>7. Stored' => Fitting(c2)
    BY <1>1, <1>2, <1>6, <2>1, <2>2 DEF Disk, Fitting, Steps, Goes, Same, Like, Still,
       Stored, Placed, When
  <2>8. Followed' => Running(c2)
    BY <1>1, <1>2, <1>6, <2>1, <2>2 DEF Disk, Running, Swapping, Steps, Goes, Same, Like,
       Still, Followed, Placed, When
  <2>9. Returned' => Tidy(c2)
    BY <1>1, <1>2, <1>6, <2>1, <2>2 DEF Disk, Tidy, Owns, Working, Steps, Goes, Same, Like,
       Still, Returned, When
  <2>10. Finds(IF Holds(c2) THEN c2 ELSE Idle)
    BY <2>2, <2>3, <2>4, <2>5, <2>6, <2>7, <2>8, <2>9 DEF Finds
  <2>11. Moved(p, c2)
    BY <1>6, <2>1 DEF Moved, Still, store, kernel, layout
  <2> QED
    BY <1>1, <1>6, <2>1, <2>2, <2>10, <2>11, Move DEF NoFs, Steps, Holds, Goes, Same, Like
<1>7. CASE /\ c.op = "create"
           /\ Still /\ windows' = windows \cup {"left"}
           /\ Go(p, c.else)
  <2>1. PICK c2 \in Calls : Becomes(p, c2) /\ Goes(c2, c, c.else) /\ UNCHANGED <<lock, wanted>>
    BY <1>1, <1>2, <1>7, GoIs DEF Steps
  <2>2. Steps(c2) /\ ~Holds(c2)
    BY <1>1, <1>7, <2>1 DEF Steps, Holds, Goes, Same, Like
  <2>3. Working(Idle)
    BY <1>1, <1>2, <1>7, <2>1, <2>2, IdleIs DEF Disk, Working, Steps, Goes, Same, Like,
       Still
  <2>4. Read(Idle)
    BY <1>1, <1>2, <1>7, <2>1, <2>2, IdleIs DEF Disk, Read, Holds, Steps, Goes, Same, Like,
       Still
  <2>5. Placed' => Match(Idle)
    BY <1>1, <1>2, <1>7, <2>1, <2>2, IdleIs DEF Disk, Match, Matched, Apart, Swapping,
       Steps, Goes, Same, Like, Still, Placed, When
  <2>6. Whole' => Lies(Idle)
    BY <1>1, <1>2, <1>7, <2>1, <2>2, IdleIs DEF Disk, Lies, Steps, Goes, Same, Like, Still,
       Whole, Placed, When
  <2>7. Stored' => Fitting(Idle)
    BY <1>1, <1>2, <1>7, <2>1, <2>2, IdleIs DEF Disk, Fitting, Steps, Goes, Same, Like,
       Still, Stored, Placed, When
  <2>8. Followed' => Running(Idle)
    BY <1>1, <1>2, <1>7, <2>1, <2>2, IdleIs DEF Disk, Running, Swapping, Steps, Goes, Same,
       Like, Still, Followed, Placed, When
  <2>9. Returned' => Tidy(Idle)
    BY <1>1, <1>2, <1>7, <2>1, <2>2, IdleIs DEF Disk, Tidy, Owns, Working, Steps, Goes,
       Same, Like, Still, Returned, When
  <2>10. Finds(IF Holds(c2) THEN c2 ELSE Idle)
    BY <2>2, <2>3, <2>4, <2>5, <2>6, <2>7, <2>8, <2>9 DEF Finds
  <2>11. Moved(p, c2)
    BY <1>7, <2>1 DEF Moved, Still, store, kernel, layout
  <2> QED
    BY <1>1, <1>7, <2>1, <2>2, <2>10, <2>11, Move DEF NoFs, Steps, Holds, Goes, Same, Like
<1> QED
  BY <1>3, <1>4, <1>5, <1>6, <1>7

\* A device that is found is stopped.
LEMMA ploop_umount_imageInv ==
  ASSUME Inv, NEW p \in Proc, ploop_umount_image(p), "dropped" \notin windows'
  PROVE  Inv'
<1> PICK c \in Calls : c = call[p]
  BY DEF Inv, Types
<1>1. Steps(c) /\ Holds(c) /\ c.pc = "locked" /\ c.op = "umount"
  BY DEF Inv, Control, ploop_umount_image, Holds, Entry, At
<1>2. Disk(c) /\ Types /\ Shapes /\ Listed
  BY <1>1, NowIs DEF Inv, Types
<1>3. \/ /\ Found(c.di) /\ Still /\ windows' = windows
         /\ DoUmount(p, "ok", "fail")
      \/ /\ Still /\ windows' = windows
         /\ Go(p, "fail")
  BY <1>1, <1>2 DEF ploop_umount_image, NoFault, Go, Still, store, kernel, layout
<1>4. CASE /\ Found(c.di) /\ Still /\ windows' = windows
           /\ DoUmount(p, "ok", "fail")
  <2>1. PICK c2 \in Calls : Becomes(p, c2) /\ Umounts(c2, c, "ok", "fail") /\ UNCHANGED <<lock, wanted>>
    BY <1>1, <1>2, <1>4, DoUmountIs DEF Thens, Elses, Targets
  <2>2. Steps(c2) /\ Holds(c2)
    BY <1>1, <1>4, <2>1 DEF Steps, Holds, Umounts, Same, Like
  <2>3. Working(c2)
    BY <1>1, <1>2, <1>4, <2>1, <2>2 DEF Disk, Working, Steps, Umounts, Same, Like, Still,
       Found
  <2>4. Read(c2)
    BY <1>1, <1>2, <1>4, <2>1, <2>2 DEF Disk, Read, Holds, Steps, Umounts, Same, Like, Still
  <2>5. Placed' => Match(c2)
    BY <1>1, <1>2, <1>4, <2>1, <2>2 DEF Disk, Match, Matched, Apart, Swapping, Steps,
       Umounts, Same, Like, Still, Placed, When
  <2>6. Whole' => Lies(c2)
    BY <1>1, <1>2, <1>4, <2>1, <2>2 DEF Disk, Lies, Steps, Umounts, Same, Like, Still,
       Whole, Placed, When
  <2>7. Stored' => Fitting(c2)
    BY <1>1, <1>2, <1>4, <2>1, <2>2 DEF Disk, Fitting, Steps, Umounts, Same, Like, Still,
       Stored, Placed, When
  <2>8. Followed' => Running(c2)
    BY <1>1, <1>2, <1>4, <2>1, <2>2 DEF Disk, Running, Swapping, Steps, Umounts, Same, Like,
       Still, Followed, Placed, When
  <2>9. Returned' => Tidy(c2)
    BY <1>1, <1>2, <1>4, <2>1, <2>2 DEF Disk, Tidy, Owns, Working, Steps, Umounts, Same,
       Like, Still, Returned, When
  <2>10. Finds(IF Holds(c2) THEN c2 ELSE Idle)
    BY <2>2, <2>3, <2>4, <2>5, <2>6, <2>7, <2>8, <2>9 DEF Finds
  <2>11. Moved(p, c2)
    BY <1>4, <2>1 DEF Moved, Still, store, kernel, layout
  <2> QED
    BY <1>1, <1>4, <2>1, <2>2, <2>10, <2>11, Move DEF NoFs, Steps, Holds, Umounts, Same,
       Like
<1>5. CASE /\ Still /\ windows' = windows
           /\ Go(p, "fail")
  BY <1>1, <1>2, <1>5, Declines
<1> QED
  BY <1>3, <1>4, <1>5

-----------------------------------------------------------------------------
(* The partition and the file system of a new disk.                        *)

\* The new device gets a partition.
LEMMA create_gpt_partitionInv ==
  ASSUME Inv, NEW p \in Proc, create_gpt_partition(p), "dropped" \notin windows'
  PROVE  Inv'
<1> PICK c \in Calls : c = call[p]
  BY DEF Inv, Types
<1>1. Steps(c) /\ Holds(c) /\ c.pc = "c_gpt"
  BY DEF Inv, Control, create_gpt_partition, Holds, At
<1>2. Disk(c) /\ Types /\ Shapes /\ Listed
  BY <1>1, NowIs DEF Inv, Types
<1>3. \/ /\ Still /\ windows' = windows
         /\ Go(p, "c_err")
      \/ /\ part' = CreateEnd(dev.size)
         /\ Go(p, "c_fs")
         /\ UNCHANGED <<dd, tmp, names, nodes, dev, mnt, fs, windows>>
  BY <1>1, <1>2 DEF create_gpt_partition, NoFault, Go, Still, store, kernel, layout
<1>4. CASE /\ Still /\ windows' = windows
           /\ Go(p, "c_err")
  <2>1. PICK c2 \in Calls : Becomes(p, c2) /\ Goes(c2, c, "c_err") /\ UNCHANGED <<lock, wanted>>
    BY <1>1, <1>2, <1>4, GoIs
  <2>2. Steps(c2) /\ Holds(c2)
    BY <1>1, <1>4, <2>1 DEF Steps, Holds, Goes, Same, Like
  <2>3. Working(c2)
    BY <1>1, <1>2, <1>4, <2>1, <2>2 DEF Disk, Working, Steps, Goes, Same, Like, Still
  <2>4. Read(c2)
    BY <1>1, <1>2, <1>4, <2>1, <2>2 DEF Disk, Read, Holds, Steps, Goes, Same, Like, Still
  <2>5. Placed' => Match(c2)
    BY <1>1, <1>2, <1>4, <2>1, <2>2 DEF Disk, Match, Matched, Apart, Swapping, Steps, Goes,
       Same, Like, Still, Placed, When
  <2>6. Whole' => Lies(c2)
    BY <1>1, <1>2, <1>4, <2>1, <2>2 DEF Disk, Lies, Steps, Goes, Same, Like, Still, Whole,
       Placed, When
  <2>7. Stored' => Fitting(c2)
    BY <1>1, <1>2, <1>4, <2>1, <2>2 DEF Disk, Fitting, Steps, Goes, Same, Like, Still,
       Stored, Placed, When
  <2>8. Followed' => Running(c2)
    BY <1>1, <1>2, <1>4, <2>1, <2>2 DEF Disk, Running, Swapping, Steps, Goes, Same, Like,
       Still, Followed, Placed, When
  <2>9. Returned' => Tidy(c2)
    BY <1>1, <1>2, <1>4, <2>1, <2>2 DEF Disk, Tidy, Owns, Working, Steps, Goes, Same, Like,
       Still, Returned, When
  <2>10. Finds(IF Holds(c2) THEN c2 ELSE Idle)
    BY <2>2, <2>3, <2>4, <2>5, <2>6, <2>7, <2>8, <2>9 DEF Finds
  <2>11. Moved(p, c2)
    BY <1>4, <2>1 DEF Moved, Still, store, kernel, layout
  <2> QED
    BY <1>1, <1>4, <2>1, <2>2, <2>10, <2>11, Move DEF NoFs, Steps, Holds, Goes, Same, Like
<1>5. CASE /\ part' = CreateEnd(dev.size)
           /\ Go(p, "c_fs")
           /\ UNCHANGED <<dd, tmp, names, nodes, dev, mnt, fs, windows>>
  <2>1. PICK c2 \in Calls : Becomes(p, c2) /\ Goes(c2, c, "c_fs") /\ UNCHANGED <<lock, wanted>>
    BY <1>1, <1>2, <1>5, GoIs
  <2>2. Steps(c2) /\ Holds(c2)
    BY <1>1, <1>5, <2>1 DEF Steps, Holds, Goes, Same, Like
  <2>3. /\ TopNode(dd)' = TopNode(dd) /\ Deltas(dd)' = Deltas(dd) /\ Size(dd)' = Size(dd)
        /\ Found(dd)' = Found(dd)
    BY <1>5 DEF TopNode, Top, Size, Deltas, Files, Found
  <2>4. Whole => fs = 0
    BY <1>1 DEF Inv, NoFs, Steps
  <2>5. dev \in Kernel /\ dev.size \in Int
    BY <1>1, <1>2 DEF Disk, Working, Shapes, Kernel, Steps
  <2>6. part' \in Int /\ Aligned(part') /\ part' + B <= dev.size
    BY <1>5, <2>5, CreateEndIs
  <2>7. Placed => dev.size = Size(dd)
    BY <1>1, <1>2 DEF Disk, Match, Matched, Working, Read, Holds, Steps
  <2>8. Shapes'
    BY <1>1, <1>2, <1>5, <2>1, <2>2, <2>3, <2>4, <2>5, <2>6, <2>7 DEF Shapes
  <2>9. Listed' /\ dd' # None
    BY <1>1, <1>2, <1>5, <2>1, <2>2, <2>3, <2>4, <2>5, <2>6, <2>7 DEF Disk, Read, Listed,
       Distinct, Holds
  <2>10. Working(c2)'
    BY <1>1, <1>2, <1>5, <2>1, <2>2, <2>3, <2>4, <2>5, <2>6, <2>7 DEF Disk, Working, Steps,
       Goes, Same, Like
  <2>11. Read(c2)'
    BY <1>1, <1>2, <1>5, <2>1, <2>2, <2>3, <2>4, <2>5, <2>6, <2>7 DEF Disk, Read, Holds,
       Steps, Goes, Same, Like
  <2>12. Placed' => Match(c2)'
    <3>1. Placed => Match(c)
      BY <1>2 DEF Disk
    <3>2. Placed' => Matched'
      BY <1>1, <1>2, <1>5, <2>1, <2>2, <2>3, <2>4, <2>5, <2>6, <2>7, <3>1 DEF Match,
         Matched, Placed
    <3>3. Placed' => Apart(c2)'
      BY <1>1, <1>2, <1>5, <2>1, <2>2, <2>3, <2>4, <2>5, <2>6, <2>7, <3>1 DEF Match, Apart,
         Swapping, Placed, Goes, Same, Like
    <3> QED
      BY <1>1, <1>2, <1>5, <2>1, <2>2, <2>3, <2>4, <2>5, <2>6, <2>7, <3>1, <3>2, <3>3 DEF
         Match, Swapping, Steps, Placed, Goes, Same, Like
  <2>13. Whole' => Lies(c2)'
    BY <1>1, <1>2, <1>5, <2>1, <2>2, <2>3, <2>4, <2>5, <2>6, <2>7 DEF Disk, Lies, Steps,
       Goes, Same, Like, Whole, Placed, When, Room, Size, TopNode, Top
  <2>14. Stored' => Fitting(c2)'
    BY <1>1, <1>2, <1>5, <2>1, <2>2, <2>3, <2>4, <2>5, <2>6, <2>7 DEF Disk, Fitting, Steps,
       Goes, Same, Like, Stored, Placed, When, Fits, Formats, Size, TopNode, Top
  <2>15. Followed' => Running(c2)'
    BY <1>1, <1>2, <1>5, <2>1, <2>2, <2>3, <2>4, <2>5, <2>6, <2>7 DEF Disk, Running,
       Swapping, Steps, Goes, Same, Like, Followed, Placed, When, Found
  <2>16. Returned' => Tidy(c2)'
    BY <1>1, <1>2, <1>5, <2>1, <2>2, <2>3, <2>4, <2>5, <2>6, <2>7 DEF Disk, Tidy, Owns,
       Working, Steps, Goes, Same, Like, Returned, When
  <2>17. Disk(IF Holds(c2) THEN c2 ELSE Idle)'
    BY <2>2, <2>8, <2>9, <2>10, <2>11, <2>12, <2>13, <2>14, <2>15, <2>16 DEF Disk
  <2> QED
    BY <1>1, <1>5, <2>1, <2>2, <2>8, <2>9, <2>17, Change DEF NoFs, Steps, Holds, Goes, Same,
       Like
<1> QED
  BY <1>3, <1>4, <1>5

\* The file system is made and the device stopped.
LEMMA make_fsInv ==
  ASSUME Inv, NEW p \in Proc, make_fs(p), "dropped" \notin windows'
  PROVE  Inv'
<1> PICK c \in Calls : c = call[p]
  BY DEF Inv, Types
<1>1. Steps(c) /\ Holds(c) /\ c.pc = "c_fs"
  BY DEF Inv, Control, make_fs, Holds, At
<1>2. Disk(c) /\ Types /\ Shapes /\ Listed
  BY <1>1, NowIs DEF Inv, Types
<1>3. \/ /\ Still /\ windows' = windows
         /\ Go(p, "c_err")
      \/ /\ fs' = part - B
         /\ DoUmount(p, "ok", "c_drop")
         /\ UNCHANGED <<dd, tmp, names, nodes, dev, mnt, part, windows>>
  BY <1>1, <1>2 DEF make_fs, NoFault, Go, Still, store, kernel, layout
<1>4. CASE /\ Still /\ windows' = windows
           /\ Go(p, "c_err")
  <2>1. PICK c2 \in Calls : Becomes(p, c2) /\ Goes(c2, c, "c_err") /\ UNCHANGED <<lock, wanted>>
    BY <1>1, <1>2, <1>4, GoIs
  <2>2. Steps(c2) /\ Holds(c2)
    BY <1>1, <1>4, <2>1 DEF Steps, Holds, Goes, Same, Like
  <2>3. Working(c2)
    BY <1>1, <1>2, <1>4, <2>1, <2>2 DEF Disk, Working, Steps, Goes, Same, Like, Still
  <2>4. Read(c2)
    BY <1>1, <1>2, <1>4, <2>1, <2>2 DEF Disk, Read, Holds, Steps, Goes, Same, Like, Still
  <2>5. Placed' => Match(c2)
    BY <1>1, <1>2, <1>4, <2>1, <2>2 DEF Disk, Match, Matched, Apart, Swapping, Steps, Goes,
       Same, Like, Still, Placed, When
  <2>6. Whole' => Lies(c2)
    BY <1>1, <1>2, <1>4, <2>1, <2>2 DEF Disk, Lies, Steps, Goes, Same, Like, Still, Whole,
       Placed, When
  <2>7. Stored' => Fitting(c2)
    BY <1>1, <1>2, <1>4, <2>1, <2>2 DEF Disk, Fitting, Steps, Goes, Same, Like, Still,
       Stored, Placed, When
  <2>8. Followed' => Running(c2)
    BY <1>1, <1>2, <1>4, <2>1, <2>2 DEF Disk, Running, Swapping, Steps, Goes, Same, Like,
       Still, Followed, Placed, When
  <2>9. Returned' => Tidy(c2)
    BY <1>1, <1>2, <1>4, <2>1, <2>2 DEF Disk, Tidy, Owns, Working, Steps, Goes, Same, Like,
       Still, Returned, When
  <2>10. Finds(IF Holds(c2) THEN c2 ELSE Idle)
    BY <2>2, <2>3, <2>4, <2>5, <2>6, <2>7, <2>8, <2>9 DEF Finds
  <2>11. Moved(p, c2)
    BY <1>4, <2>1 DEF Moved, Still, store, kernel, layout
  <2> QED
    BY <1>1, <1>4, <2>1, <2>2, <2>10, <2>11, Move DEF NoFs, Steps, Holds, Goes, Same, Like
<1>5. CASE /\ fs' = part - B
           /\ DoUmount(p, "ok", "c_drop")
           /\ UNCHANGED <<dd, tmp, names, nodes, dev, mnt, part, windows>>
  <2>1. PICK c2 \in Calls : Becomes(p, c2) /\ Umounts(c2, c, "ok", "c_drop") /\ UNCHANGED <<lock, wanted>>
    BY <1>1, <1>2, <1>5, DoUmountIs DEF Thens, Elses, Targets
  <2>2. Steps(c2) /\ Holds(c2)
    BY <1>1, <1>5, <2>1 DEF Steps, Holds, Umounts, Same, Like
  <2>3. /\ TopNode(dd)' = TopNode(dd) /\ Deltas(dd)' = Deltas(dd) /\ Size(dd)' = Size(dd)
        /\ Found(dd)' = Found(dd)
    BY <1>5 DEF TopNode, Top, Size, Deltas, Files, Found
  <2>4. B \in Int /\ part \in Int /\ fs' \in Int /\ B + fs' <= part
    BY <1>2, <1>5, BlockIs DEF Shapes
  <2>5. mnt = "none" /\ dd # None
    BY <1>1, <1>2 DEF Disk, Working, Read, Holds
  <2>6. Shapes'
    BY <1>1, <1>2, <1>5, <2>1, <2>2, <2>3, <2>4, <2>5 DEF Shapes
  <2>7. Listed' /\ dd' # None
    BY <1>1, <1>2, <1>5, <2>1, <2>2, <2>3, <2>4, <2>5 DEF Disk, Read, Listed, Distinct,
       Holds
  <2>8. Working(c2)'
    BY <1>1, <1>2, <1>5, <2>1, <2>2, <2>3, <2>4, <2>5 DEF Disk, Working, Steps, Umounts,
       Same, Like
  <2>9. Read(c2)'
    BY <1>1, <1>2, <1>5, <2>1, <2>2, <2>3, <2>4, <2>5 DEF Disk, Read, Holds, Steps, Umounts,
       Same, Like
  <2>10. Placed' => Match(c2)'
    <3>1. Placed => Match(c)
      BY <1>2 DEF Disk
    <3>2. Placed' => Matched'
      BY <1>1, <1>2, <1>5, <2>1, <2>2, <2>3, <2>4, <2>5, <3>1 DEF Match, Matched, Placed
    <3>3. Placed' => Apart(c2)'
      BY <1>1, <1>2, <1>5, <2>1, <2>2, <2>3, <2>4, <2>5, <3>1 DEF Match, Apart, Swapping,
         Placed, Umounts, Same, Like
    <3> QED
      BY <1>1, <1>2, <1>5, <2>1, <2>2, <2>3, <2>4, <2>5, <3>1, <3>2, <3>3 DEF Match,
         Swapping, Steps, Placed, Umounts, Same, Like
  <2>11. Whole' => Lies(c2)'
    BY <1>1, <1>2, <1>5, <2>1, <2>2, <2>3, <2>4, <2>5 DEF Disk, Lies, Steps, Umounts, Same,
       Like, Whole, Placed, When, Room, Size, TopNode, Top
  <2>12. Stored' => Fitting(c2)'
    BY <1>1, <1>2, <1>5, <2>1, <2>2, <2>3, <2>4, <2>5 DEF Disk, Fitting, Steps, Umounts,
       Same, Like, Stored, Placed, When, Fits, Formats, Size, TopNode, Top
  <2>13. Followed' => Running(c2)'
    BY <1>1, <1>2, <1>5, <2>1, <2>2, <2>3, <2>4, <2>5 DEF Disk, Running, Swapping, Steps,
       Umounts, Same, Like, Followed, Placed, When, Found
  <2>14. Returned' => Tidy(c2)'
    BY <1>1, <1>2, <1>5, <2>1, <2>2, <2>3, <2>4, <2>5 DEF Disk, Tidy, Owns, Working, Steps,
       Umounts, Same, Like, Returned, When
  <2>15. Disk(IF Holds(c2) THEN c2 ELSE Idle)'
    BY <2>2, <2>6, <2>7, <2>8, <2>9, <2>10, <2>11, <2>12, <2>13, <2>14 DEF Disk
  <2> QED
    BY <1>1, <1>5, <2>1, <2>2, <2>6, <2>7, <2>15, Change DEF NoFs, Steps, Holds, Umounts,
       Same, Like, Makes
<1> QED
  BY <1>3, <1>4, <1>5

\* A creator that fails stops the device it made.
LEMMA CreateErrInv ==
  ASSUME Inv, NEW p \in Proc, CreateErr(p), "dropped" \notin windows'
  PROVE  Inv'
<1> PICK c \in Calls : c = call[p]
  BY DEF Inv, Types
<1>1. Steps(c) /\ Holds(c) /\ c.pc = "c_err"
  BY DEF Inv, Control, CreateErr, Holds, At
<1>2. Disk(c) /\ Types /\ Shapes /\ Listed
  BY <1>1, NowIs DEF Inv, Types
<1>3. \/ /\ c.own /\ Still /\ windows' = windows
         /\ DoUmount(p, "c_drop", "c_drop")
      \/ /\ ~c.own
         /\ Still /\ windows' = windows
         /\ Go(p, "c_drop")
  BY <1>1, <1>2 DEF CreateErr, NoFault, Go, Still, store, kernel, layout
<1>4. CASE /\ c.own /\ Still /\ windows' = windows
           /\ DoUmount(p, "c_drop", "c_drop")
  <2>1. PICK c2 \in Calls : Becomes(p, c2) /\ Umounts(c2, c, "c_drop", "c_drop") /\ UNCHANGED <<lock, wanted>>
    BY <1>1, <1>2, <1>4, DoUmountIs DEF Thens, Elses, Targets
  <2>2. Steps(c2) /\ Holds(c2)
    BY <1>1, <1>4, <2>1 DEF Steps, Holds, Umounts, Same, Like
  <2>3. Working(c2)
    BY <1>1, <1>2, <1>4, <2>1, <2>2 DEF Disk, Working, Steps, Umounts, Same, Like, Still
  <2>4. Read(c2)
    BY <1>1, <1>2, <1>4, <2>1, <2>2 DEF Disk, Read, Holds, Steps, Umounts, Same, Like, Still
  <2>5. Placed' => Match(c2)
    BY <1>1, <1>2, <1>4, <2>1, <2>2 DEF Disk, Match, Matched, Apart, Swapping, Steps,
       Umounts, Same, Like, Still, Placed, When
  <2>6. Whole' => Lies(c2)
    BY <1>1, <1>2, <1>4, <2>1, <2>2 DEF Disk, Lies, Steps, Umounts, Same, Like, Still,
       Whole, Placed, When
  <2>7. Stored' => Fitting(c2)
    BY <1>1, <1>2, <1>4, <2>1, <2>2 DEF Disk, Fitting, Steps, Umounts, Same, Like, Still,
       Stored, Placed, When
  <2>8. Followed' => Running(c2)
    BY <1>1, <1>2, <1>4, <2>1, <2>2 DEF Disk, Running, Swapping, Steps, Umounts, Same, Like,
       Still, Followed, Placed, When
  <2>9. Returned' => Tidy(c2)
    BY <1>1, <1>2, <1>4, <2>1, <2>2 DEF Disk, Tidy, Owns, Working, Steps, Umounts, Same,
       Like, Still, Returned, When
  <2>10. Finds(IF Holds(c2) THEN c2 ELSE Idle)
    BY <2>2, <2>3, <2>4, <2>5, <2>6, <2>7, <2>8, <2>9 DEF Finds
  <2>11. Moved(p, c2)
    BY <1>4, <2>1 DEF Moved, Still, store, kernel, layout
  <2> QED
    BY <1>1, <1>4, <2>1, <2>2, <2>10, <2>11, Move DEF NoFs, Steps, Holds, Umounts, Same,
       Like
<1>5. CASE /\ ~c.own
           /\ Still /\ windows' = windows
           /\ Go(p, "c_drop")
  <2>1. PICK c2 \in Calls : Becomes(p, c2) /\ Goes(c2, c, "c_drop") /\ UNCHANGED <<lock, wanted>>
    BY <1>1, <1>2, <1>5, GoIs
  <2>2. Steps(c2) /\ ~Holds(c2)
    BY <1>1, <1>5, <2>1 DEF Steps, Holds, Goes, Same, Like
  <2>3. Working(Idle)
    BY <1>1, <1>2, <1>5, <2>1, <2>2, IdleIs DEF Disk, Working, Steps, Goes, Same, Like,
       Still
  <2>4. Read(Idle)
    BY <1>1, <1>2, <1>5, <2>1, <2>2, IdleIs DEF Disk, Read, Holds, Steps, Goes, Same, Like,
       Still
  <2>5. Placed' => Match(Idle)
    BY <1>1, <1>2, <1>5, <2>1, <2>2, IdleIs DEF Disk, Match, Matched, Apart, Swapping,
       Steps, Goes, Same, Like, Still, Placed, When
  <2>6. Whole' => Lies(Idle)
    BY <1>1, <1>2, <1>5, <2>1, <2>2, IdleIs DEF Disk, Lies, Steps, Goes, Same, Like, Still,
       Whole, Placed, When
  <2>7. Stored' => Fitting(Idle)
    BY <1>1, <1>2, <1>5, <2>1, <2>2, IdleIs DEF Disk, Fitting, Steps, Goes, Same, Like,
       Still, Stored, Placed, When
  <2>8. Followed' => Running(Idle)
    BY <1>1, <1>2, <1>5, <2>1, <2>2, IdleIs DEF Disk, Running, Swapping, Steps, Goes, Same,
       Like, Still, Followed, Placed, When
  <2>9. Returned' => Tidy(Idle)
    BY <1>1, <1>2, <1>5, <2>1, <2>2, IdleIs DEF Disk, Tidy, Owns, Working, Steps, Goes,
       Same, Like, Still, Returned, When
  <2>10. Finds(IF Holds(c2) THEN c2 ELSE Idle)
    BY <2>2, <2>3, <2>4, <2>5, <2>6, <2>7, <2>8, <2>9 DEF Finds
  <2>11. Moved(p, c2)
    BY <1>5, <2>1 DEF Moved, Still, store, kernel, layout
  <2> QED
    BY <1>1, <1>5, <2>1, <2>2, <2>10, <2>11, Move DEF NoFs, Steps, Holds, Goes, Same, Like
<1> QED
  BY <1>3, <1>4, <1>5

-----------------------------------------------------------------------------
(* ploop_grow_image.                                                       *)

\* The descriptor with the new size is written beside the stored one.
LEMMA GrowStoreInv ==
  ASSUME Inv, NEW p \in Proc, GrowStore(p), "dropped" \notin windows'
  PROVE  Inv'
<1> PICK c \in Calls : c = call[p]
  BY DEF Inv, Types
<1>1. Steps(c) /\ Holds(c) /\ c.pc = "locked" /\ c.op = "grow"
  BY DEF Inv, Control, GrowStore, Holds, Entry, At
<1>2. Disk(c) /\ Types /\ Shapes /\ Listed
  BY <1>1, NowIs DEF Inv, Types
<1>3. \/ /\ tmp' = [c.di EXCEPT !.size = c.size]
         /\ call' = [call EXCEPT ![p].pc = "gi_dev", ![p].di = tmp']
         /\ UNCHANGED <<dd, names, nodes, dev, mnt, part, fs, lock, wanted, windows>>
      \/ /\ tmp' = None
         /\ Go(p, "fail")
         /\ UNCHANGED <<dd, names, nodes, dev, mnt, part, fs, windows>>
  BY <1>1, <1>2 DEF GrowStore, NoFault, Go, Still, store, kernel, layout
<1>4. CASE /\ tmp' = [c.di EXCEPT !.size = c.size]
           /\ call' = [call EXCEPT ![p].pc = "gi_dev", ![p].di = tmp']
           /\ UNCHANGED <<dd, names, nodes, dev, mnt, part, fs, lock, wanted, windows>>
  <2>1. PICK c2 \in Calls : Becomes(p, c2) /\ Reads(c2, c, "gi_dev", tmp') /\ c2.di # None
    <3>1. c.di \in Descriptor /\ c.di = dd
      BY <1>1, <1>2, DiskIs DEF Disk, Read, Holds, Steps
    <3>2. tmp' \in Descriptor /\ c.size \in Nat
      BY <3>1, <1>4 DEF Descriptor, Calls
    <3>3. tmp' # None
      BY <3>2, NoneAssumption
    <3>4. PICK d \in Calls : Becomes(p, d) /\ Reads(d, c, "gi_dev", tmp')
      BY <1>2, <1>4, <3>2, ReadsIs
    <3> QED
      BY <3>3, <3>4 DEF Reads
  <2>2. Steps(c2) /\ Holds(c2)
    BY <1>1, <1>4, <2>1 DEF Steps, Holds, Reads, Keeps, Same, Like
  <2>3. /\ TopNode(dd)' = TopNode(dd) /\ Deltas(dd)' = Deltas(dd) /\ Size(dd)' = Size(dd)
        /\ Found(dd)' = Found(dd)
    BY <1>4 DEF TopNode, Top, Size, Deltas, Files, Found
  <2>4. /\ c.di = dd /\ dd \in Descriptor /\ c2.size = c.size
    BY <1>1, <1>2, <2>1, DiskIs DEF Disk, Read, Holds, Steps, Reads, Like
  <2>5. tmp' \in Descriptor /\ tmp'.size = c.size /\ tmp'.base = dd.base /\ tmp'.top = dd.top /\ tmp'.mode = dd.mode /\ c2.di = tmp' /\ tmp' = [dd EXCEPT !.size = c.size]
    BY <1>4, <2>1, <2>4 DEF Descriptor, Calls, Reads
  <2>6. tmp' # None
    BY <2>5, NoneAssumption
  <2>7. Shapes'
    BY <1>1, <1>2, <1>4, <2>1, <2>2, <2>3, <2>4, <2>5, <2>6 DEF Shapes
  <2>8. Listed' /\ dd' # None
    BY <1>1, <1>2, <1>4, <2>1, <2>2, <2>3, <2>4, <2>5, <2>6 DEF Disk, Read, Listed,
       Distinct, Holds
  <2>9. Working(c2)'
    BY <1>1, <1>2, <1>4, <2>1, <2>2, <2>3, <2>4, <2>5, <2>6 DEF Disk, Working, Steps, Reads,
       Keeps, Same, Like
  <2>10. Read(c2)'
    BY <1>1, <1>2, <1>4, <2>1, <2>2, <2>3, <2>4, <2>5, <2>6 DEF Disk, Read, Holds, Steps,
       Reads, Keeps, Same, Like
  <2>11. Placed' => Match(c2)'
    <3>1. Placed => Match(c)
      BY <1>2 DEF Disk
    <3>2. Placed' => Matched'
      BY <1>1, <1>2, <1>4, <2>1, <2>2, <2>3, <2>4, <2>5, <2>6, <3>1 DEF Match, Matched,
         Placed
    <3>3. Placed' => Apart(c2)'
      BY <1>1, <1>2, <1>4, <2>1, <2>2, <2>3, <2>4, <2>5, <2>6, <3>1 DEF Match, Apart,
         Swapping, Placed, Reads, Keeps, Same, Like
    <3> QED
      BY <1>1, <1>2, <1>4, <2>1, <2>2, <2>3, <2>4, <2>5, <2>6, <3>1, <3>2, <3>3 DEF Match,
         Swapping, Steps, Placed, Reads, Keeps, Same, Like
  <2>12. Whole' => Lies(c2)'
    BY <1>1, <1>2, <1>4, <2>1, <2>2, <2>3, <2>4, <2>5, <2>6 DEF Disk, Lies, Steps, Reads,
       Keeps, Same, Like, Whole, Placed, When, Room, Size, TopNode, Top
  <2>13. Stored' => Fitting(c2)'
    BY <1>1, <1>2, <1>4, <2>1, <2>2, <2>3, <2>4, <2>5, <2>6 DEF Disk, Fitting, Steps, Reads,
       Keeps, Same, Like, Stored, Placed, When, Fits, Formats, Size, TopNode, Top
  <2>14. Followed' => Running(c2)'
    BY <1>1, <1>2, <1>4, <2>1, <2>2, <2>3, <2>4, <2>5, <2>6 DEF Disk, Running, Swapping,
       Steps, Reads, Keeps, Same, Like, Followed, Placed, When, Found
  <2>15. Returned' => Tidy(c2)'
    BY <1>1, <1>2, <1>4, <2>1, <2>2, <2>3, <2>4, <2>5, <2>6 DEF Disk, Tidy, Owns, Working,
       Steps, Reads, Keeps, Same, Like, Returned, When
  <2>16. Disk(IF Holds(c2) THEN c2 ELSE Idle)'
    BY <2>2, <2>7, <2>8, <2>9, <2>10, <2>11, <2>12, <2>13, <2>14, <2>15 DEF Disk
  <2> QED
    BY <1>1, <1>4, <2>1, <2>2, <2>7, <2>8, <2>16, Change DEF NoFs, Steps, Holds, Reads,
       Keeps, Same, Like
<1>5. CASE /\ tmp' = None
           /\ Go(p, "fail")
           /\ UNCHANGED <<dd, names, nodes, dev, mnt, part, fs, windows>>
  <2>1. PICK c2 \in Calls : Becomes(p, c2) /\ Goes(c2, c, "fail") /\ UNCHANGED <<lock, wanted>>
    BY <1>1, <1>2, <1>5, GoIs
  <2>2. Steps(c2) /\ Holds(c2)
    BY <1>1, <1>5, <2>1 DEF Steps, Holds, Goes, Same, Like
  <2>3. /\ TopNode(dd)' = TopNode(dd) /\ Deltas(dd)' = Deltas(dd) /\ Size(dd)' = Size(dd)
        /\ Found(dd)' = Found(dd)
    BY <1>5 DEF TopNode, Top, Size, Deltas, Files, Found
  <2>4. Shapes'
    BY <1>1, <1>2, <1>5, <2>1, <2>2, <2>3 DEF Shapes
  <2>5. Listed' /\ dd' # None
    BY <1>1, <1>2, <1>5, <2>1, <2>2, <2>3 DEF Disk, Read, Listed, Distinct, Holds
  <2>6. Working(c2)'
    BY <1>1, <1>2, <1>5, <2>1, <2>2, <2>3 DEF Disk, Working, Steps, Goes, Same, Like
  <2>7. Read(c2)'
    BY <1>1, <1>2, <1>5, <2>1, <2>2, <2>3 DEF Disk, Read, Holds, Steps, Goes, Same, Like
  <2>8. Placed' => Match(c2)'
    <3>1. Placed => Match(c)
      BY <1>2 DEF Disk
    <3>2. Placed' => Matched'
      BY <1>1, <1>2, <1>5, <2>1, <2>2, <2>3, <3>1 DEF Match, Matched, Placed
    <3>3. Placed' => Apart(c2)'
      BY <1>1, <1>2, <1>5, <2>1, <2>2, <2>3, <3>1 DEF Match, Apart, Swapping, Placed, Goes,
         Same, Like
    <3> QED
      BY <1>1, <1>2, <1>5, <2>1, <2>2, <2>3, <3>1, <3>2, <3>3 DEF Match, Swapping, Steps,
         Placed, Goes, Same, Like
  <2>9. Whole' => Lies(c2)'
    BY <1>1, <1>2, <1>5, <2>1, <2>2, <2>3 DEF Disk, Lies, Steps, Goes, Same, Like, Whole,
       Placed, When, Room, Size, TopNode, Top
  <2>10. Stored' => Fitting(c2)'
    BY <1>1, <1>2, <1>5, <2>1, <2>2, <2>3 DEF Disk, Fitting, Steps, Goes, Same, Like,
       Stored, Placed, When, Fits, Formats, Size, TopNode, Top
  <2>11. Followed' => Running(c2)'
    BY <1>1, <1>2, <1>5, <2>1, <2>2, <2>3 DEF Disk, Running, Swapping, Steps, Goes, Same,
       Like, Followed, Placed, When, Found
  <2>12. Returned' => Tidy(c2)'
    BY <1>1, <1>2, <1>5, <2>1, <2>2, <2>3 DEF Disk, Tidy, Owns, Working, Steps, Goes, Same,
       Like, Returned, When
  <2>13. Disk(IF Holds(c2) THEN c2 ELSE Idle)'
    BY <2>2, <2>4, <2>5, <2>6, <2>7, <2>8, <2>9, <2>10, <2>11, <2>12 DEF Disk
  <2> QED
    BY <1>1, <1>5, <2>1, <2>2, <2>4, <2>5, <2>13, Change DEF NoFs, Steps, Holds, Goes, Same,
       Like
<1> QED
  BY <1>3, <1>4, <1>5

\* Grown on line, as a file, or with a device made for it.
LEMMA GrowDeviceInv ==
  ASSUME Inv, NEW p \in Proc, GrowDevice(p), "dropped" \notin windows'
  PROVE  Inv'
<1> PICK c \in Calls : c = call[p]
  BY DEF Inv, Types
<1>1. Steps(c) /\ Holds(c) /\ c.pc = "gi_dev"
  BY DEF Inv, Control, GrowDevice, Holds, At
<1>2. Disk(c) /\ Types /\ Shapes /\ Listed
  BY <1>1, NowIs DEF Inv, Types
<1>3. \/ /\ Found(dd)
         /\ Still /\ windows' = windows
         /\ Go(p, "gi_grow")
      \/ /\ ~Found(dd) /\ c.di.mode = "raw" /\ c.di.top = None
         /\ Still /\ windows' = windows
         /\ Go(p, "gi_raw")
      \/ /\ ~Found(dd) /\ Still /\ windows' = windows
         /\ DoMount(p, "none", "gi_grow", "gi_nodev")
  BY <1>1, <1>2 DEF GrowDevice, NoFault, Go, Still, store, kernel, layout, Found, Disk,
     Read, Holds, Steps
<1>4. CASE /\ Found(dd)
           /\ Still /\ windows' = windows
           /\ Go(p, "gi_grow")
  <2>1. PICK c2 \in Calls : Becomes(p, c2) /\ Goes(c2, c, "gi_grow") /\ UNCHANGED <<lock, wanted>>
    BY <1>1, <1>2, <1>4, GoIs
  <2>2. Steps(c2) /\ Holds(c2)
    BY <1>1, <1>4, <2>1 DEF Steps, Holds, Goes, Same, Like
  <2>3. Working(c2)
    BY <1>1, <1>2, <1>4, <2>1, <2>2 DEF Disk, Working, Steps, Goes, Same, Like, Still, Found
  <2>4. Read(c2)
    BY <1>1, <1>2, <1>4, <2>1, <2>2 DEF Disk, Read, Holds, Steps, Goes, Same, Like, Still
  <2>5. Placed' => Match(c2)
    BY <1>1, <1>2, <1>4, <2>1, <2>2 DEF Disk, Match, Matched, Apart, Swapping, Steps, Goes,
       Same, Like, Still, Placed, When
  <2>6. Whole' => Lies(c2)
    BY <1>1, <1>2, <1>4, <2>1, <2>2 DEF Disk, Lies, Steps, Goes, Same, Like, Still, Whole,
       Placed, When
  <2>7. Stored' => Fitting(c2)
    BY <1>1, <1>2, <1>4, <2>1, <2>2 DEF Disk, Fitting, Steps, Goes, Same, Like, Still,
       Stored, Placed, When
  <2>8. Followed' => Running(c2)
    BY <1>1, <1>2, <1>4, <2>1, <2>2 DEF Disk, Running, Swapping, Steps, Goes, Same, Like,
       Still, Followed, Placed, When
  <2>9. Returned' => Tidy(c2)
    BY <1>1, <1>2, <1>4, <2>1, <2>2 DEF Disk, Tidy, Owns, Working, Steps, Goes, Same, Like,
       Still, Returned, When
  <2>10. Finds(IF Holds(c2) THEN c2 ELSE Idle)
    BY <2>2, <2>3, <2>4, <2>5, <2>6, <2>7, <2>8, <2>9 DEF Finds
  <2>11. Moved(p, c2)
    BY <1>4, <2>1 DEF Moved, Still, store, kernel, layout
  <2> QED
    BY <1>1, <1>4, <2>1, <2>2, <2>10, <2>11, Move DEF NoFs, Steps, Holds, Goes, Same, Like
<1>5. CASE /\ ~Found(dd) /\ c.di.mode = "raw" /\ c.di.top = None
           /\ Still /\ windows' = windows
           /\ Go(p, "gi_raw")
  <2>1. PICK c2 \in Calls : Becomes(p, c2) /\ Goes(c2, c, "gi_raw") /\ UNCHANGED <<lock, wanted>>
    BY <1>1, <1>2, <1>5, GoIs
  <2>2. Steps(c2) /\ Holds(c2)
    BY <1>1, <1>5, <2>1 DEF Steps, Holds, Goes, Same, Like
  <2>3. Working(c2)
    BY <1>1, <1>2, <1>5, <2>1, <2>2 DEF Disk, Working, Steps, Goes, Same, Like, Still
  <2>4. Read(c2)
    BY <1>1, <1>2, <1>5, <2>1, <2>2 DEF Disk, Read, Holds, Steps, Goes, Same, Like, Still
  <2>5. Placed' => Match(c2)
    BY <1>1, <1>2, <1>5, <2>1, <2>2 DEF Disk, Match, Matched, Apart, Swapping, Steps, Goes,
       Same, Like, Still, Placed, When
  <2>6. Whole' => Lies(c2)
    BY <1>1, <1>2, <1>5, <2>1, <2>2 DEF Disk, Lies, Steps, Goes, Same, Like, Still, Whole,
       Placed, When
  <2>7. Stored' => Fitting(c2)
    BY <1>1, <1>2, <1>5, <2>1, <2>2 DEF Disk, Fitting, Steps, Goes, Same, Like, Still,
       Stored, Placed, When
  <2>8. Followed' => Running(c2)
    BY <1>1, <1>2, <1>5, <2>1, <2>2 DEF Disk, Running, Swapping, Steps, Goes, Same, Like,
       Still, Followed, Placed, When
  <2>9. Returned' => Tidy(c2)
    BY <1>1, <1>2, <1>5, <2>1, <2>2 DEF Disk, Tidy, Owns, Working, Steps, Goes, Same, Like,
       Still, Returned, When
  <2>10. Finds(IF Holds(c2) THEN c2 ELSE Idle)
    BY <2>2, <2>3, <2>4, <2>5, <2>6, <2>7, <2>8, <2>9 DEF Finds
  <2>11. Moved(p, c2)
    BY <1>5, <2>1 DEF Moved, Still, store, kernel, layout
  <2> QED
    BY <1>1, <1>5, <2>1, <2>2, <2>10, <2>11, Move DEF NoFs, Steps, Holds, Goes, Same, Like
<1>6. CASE /\ ~Found(dd) /\ Still /\ windows' = windows
           /\ DoMount(p, "none", "gi_grow", "gi_nodev")
  <2>1. PICK c2 \in Calls : Becomes(p, c2) /\ Mounts(c2, c, "none", "gi_grow", "gi_nodev") /\ UNCHANGED <<lock, wanted>>
    BY <1>1, <1>2, <1>6, DoMountIs DEF Thens, Elses, Targets
  <2>2. Steps(c2) /\ Holds(c2)
    BY <1>1, <1>6, <2>1 DEF Steps, Holds, Mounts, Same, Like
  <2>3. Working(c2)
    BY <1>1, <1>2, <1>6, <2>1, <2>2 DEF Disk, Working, Steps, Mounts, Same, Like, Still
  <2>4. Read(c2)
    BY <1>1, <1>2, <1>6, <2>1, <2>2 DEF Disk, Read, Holds, Steps, Mounts, Same, Like, Still
  <2>5. Placed' => Match(c2)
    BY <1>1, <1>2, <1>6, <2>1, <2>2 DEF Disk, Match, Matched, Apart, Swapping, Steps,
       Mounts, Same, Like, Still, Placed, When
  <2>6. Whole' => Lies(c2)
    BY <1>1, <1>2, <1>6, <2>1, <2>2 DEF Disk, Lies, Steps, Mounts, Same, Like, Still, Whole,
       Placed, When
  <2>7. Stored' => Fitting(c2)
    BY <1>1, <1>2, <1>6, <2>1, <2>2 DEF Disk, Fitting, Steps, Mounts, Same, Like, Still,
       Stored, Placed, When
  <2>8. Followed' => Running(c2)
    BY <1>1, <1>2, <1>6, <2>1, <2>2 DEF Disk, Running, Swapping, Steps, Mounts, Same, Like,
       Still, Followed, Placed, When
  <2>9. Returned' => Tidy(c2)
    BY <1>1, <1>2, <1>6, <2>1, <2>2 DEF Disk, Tidy, Owns, Working, Steps, Mounts, Same,
       Like, Still, Returned, When
  <2>10. Finds(IF Holds(c2) THEN c2 ELSE Idle)
    BY <2>2, <2>3, <2>4, <2>5, <2>6, <2>7, <2>8, <2>9 DEF Finds
  <2>11. Moved(p, c2)
    BY <1>6, <2>1 DEF Moved, Still, store, kernel, layout
  <2> QED
    BY <1>1, <1>6, <2>1, <2>2, <2>10, <2>11, Move DEF NoFs, Steps, Holds, Mounts, Same, Like
<1> QED
  BY <1>3, <1>4, <1>5, <1>6

\* The device grows, or already has the size.
LEMMA ploop_grow_deviceInv ==
  ASSUME Inv, NEW p \in Proc, ploop_grow_device(p), "dropped" \notin windows'
  PROVE  Inv'
<1> PICK c \in Calls : c = call[p]
  BY DEF Inv, Types
<1>1. Steps(c) /\ Holds(c) /\ c.pc = "gi_grow"
  BY DEF Inv, Control, ploop_grow_device, Holds, At
<1>2. Disk(c) /\ Types /\ Shapes /\ Listed
  BY <1>1, NowIs DEF Inv, Types
<1>3. \/ /\ dev.running /\ c.size > dev.size
         /\ Grown(c.size)
         /\ Go(p, "gi_rename")
         /\ UNCHANGED <<dd, tmp, names, mnt, part, fs, lock, wanted, windows>>
      \/ /\ c.size = dev.size
         /\ Still /\ windows' = windows
         /\ Go(p, "gi_rename")
      \/ /\ Still /\ windows' = windows
         /\ Go(p, "gi_out")
  BY <1>1, <1>2 DEF ploop_grow_device, NoFault, Go, Still, store, kernel, layout
<1>4. CASE /\ dev.running /\ c.size > dev.size
           /\ Grown(c.size)
           /\ Go(p, "gi_rename")
           /\ UNCHANGED <<dd, tmp, names, mnt, part, fs, lock, wanted, windows>>
  <2>1. PICK c2 \in Calls : Becomes(p, c2) /\ Goes(c2, c, "gi_rename") /\ UNCHANGED <<lock, wanted>>
    BY <1>1, <1>2, <1>4, GoIs
  <2>2. Steps(c2) /\ Holds(c2)
    BY <1>1, <1>4, <2>1 DEF Steps, Holds, Goes, Same, Like
  <2>3. /\ tmp \in Descriptor /\ tmp # None /\ tmp.base = dd.base /\ tmp.top = dd.top /\ tmp.max = dd.max /\ tmp.mode = dd.mode
        /\ tmp = c.di /\ tmp.size = c.size /\ dd # None /\ c.size \in Int /\ Size(tmp) = Size(dd) /\ (Formats(dd) => Formats(tmp))
    BY <1>1, <1>2, DiskIs DEF Disk, Working, Read, Holds, Steps, Descriptor, Calls, Shapes,
       Size, TopNode, Top, Formats
  <2>4. Stored => Fits(dd)
    BY <1>1, <1>2, <2>3 DEF Disk, Fitting
  <2>5. Placed => Found(dd) /\ dev.deltas = Deltas(dd) /\ dev.size = Size(dd)
    BY <1>1, <1>2, <2>3 DEF Disk, Match, Matched, Working
  <2>6. dev \in Kernel /\ dev # None /\ dev.size \in Int
    BY <1>1, <1>2 DEF Disk, Working, Shapes, Kernel
  <2>7. /\ dev' \in Kernel /\ dev' # None
        /\ dev'.deltas = dev.deltas /\ dev'.running = dev.running /\ dev'.max = dev.max
        /\ dev'.size = (c.size \div B) * B
        /\ DOMAIN nodes' = DOMAIN nodes
        /\ \A m \in DOMAIN nodes :
             /\ nodes'[m] \in Node
             /\ nodes'[m].fmt = nodes[m].fmt /\ nodes'[m].whole = nodes[m].whole
             /\ nodes'[m].size = IF m = dev.deltas[Len(dev.deltas)] THEN (c.size \div B) * B
                                 ELSE nodes[m].size
    BY <1>2, <1>4, <2>3, <2>6, GrownIs
  <2>8. TopNode(dd)' = TopNode(dd) /\ Deltas(dd)' = Deltas(dd) /\ Found(dd)' = Found(dd) /\ TopNode(tmp)' = TopNode(dd)
    BY <1>4, <2>3, <2>6, <2>7 DEF TopNode, Top, Deltas, Files, Found
  <2>9. /\ TopNode(dd) \in DOMAIN nodes /\ Size(dd) \in Int
        /\ Size(dd)' = nodes'[TopNode(dd)].size /\ Size(tmp)' = nodes'[TopNode(dd)].size
    BY <1>2, <1>4, <2>3, <2>8, DiskIs DEF Size
  <2>10. Placed => Size(dd)' = dev'.size
    BY <1>2, <2>3, <2>5, <2>7, <2>9, TopIs
  <2>11. /\ dev'.size \in Int /\ (Aligned(c.size) => dev'.size = c.size)
        /\ \A m \in Int : Aligned(m) /\ m <= c.size => m <= dev'.size
    BY <2>3, <2>7, AlignedFloor
  <2>12. Aligned(part) /\ part \in Int => Aligned(part + B) /\ part + B \in Int
    BY BlockAligned, Sums
  <2>13. Placed /\ Room => Room'
    BY <1>2, <1>4, <2>3, <2>5, <2>6, <2>10, <2>11, <2>12 DEF Room, Shapes
  <2>14. Stored => Formats(tmp)' /\ (Aligned(c.size) => Size(tmp)' = c.size)
    BY <1>2, <1>4, <2>3, <2>4, <2>7, <2>9, <2>10, <2>11, DiskIs DEF Fits, Formats, Stored
  <2>15. Shapes'
    BY <1>1, <1>2, <1>4, <2>1, <2>2, <2>3, <2>4, <2>5, <2>6, <2>7, <2>8, <2>9, <2>10, <2>11,
       <2>12, <2>13, <2>14 DEF Shapes
  <2>16. Listed' /\ dd' # None
    BY <1>1, <1>2, <1>4, <2>1, <2>2, <2>3, <2>4, <2>5, <2>6, <2>7, <2>8, <2>9, <2>10, <2>11,
       <2>12, <2>13, <2>14 DEF Disk, Read, Listed, Distinct, Holds
  <2>17. Working(c2)'
    BY <1>1, <1>2, <1>4, <2>1, <2>2, <2>3, <2>4, <2>5, <2>6, <2>7, <2>8, <2>9, <2>10, <2>11,
       <2>12, <2>13, <2>14 DEF Disk, Working, Steps, Goes, Same, Like
  <2>18. Read(c2)'
    BY <1>1, <1>2, <1>4, <2>1, <2>2, <2>3, <2>4, <2>5, <2>6, <2>7, <2>8, <2>9, <2>10, <2>11,
       <2>12, <2>13, <2>14 DEF Disk, Read, Holds, Steps, Goes, Same, Like
  <2>19. Placed' => Match(c2)'
    <3>1. Placed => Match(c)
      BY <1>2 DEF Disk
    <3>2. Placed' => Matched'
      BY <1>1, <1>2, <1>4, <2>1, <2>2, <2>3, <2>4, <2>5, <2>6, <2>7, <2>8, <2>9, <2>10,
         <2>11, <2>12, <2>13, <2>14, <3>1 DEF Match, Matched, Placed
    <3>3. Placed' => Apart(c2)'
      BY <1>1, <1>2, <1>4, <2>1, <2>2, <2>3, <2>4, <2>5, <2>6, <2>7, <2>8, <2>9, <2>10,
         <2>11, <2>12, <2>13, <2>14, <3>1 DEF Match, Apart, Swapping, Placed, Goes, Same,
         Like
    <3> QED
      BY <1>1, <1>2, <1>4, <2>1, <2>2, <2>3, <2>4, <2>5, <2>6, <2>7, <2>8, <2>9, <2>10,
         <2>11, <2>12, <2>13, <2>14, <3>1, <3>2, <3>3 DEF Match, Swapping, Steps, Placed,
         Goes, Same, Like, Placed
  <2>20. Whole' => Lies(c2)'
    BY <1>1, <1>2, <1>4, <2>1, <2>2, <2>3, <2>4, <2>5, <2>6, <2>7, <2>8, <2>9, <2>10, <2>11,
       <2>12, <2>13, <2>14 DEF Disk, Lies, Steps, Goes, Same, Like, Whole, Placed, When,
       Room, Size, TopNode, Top
  <2>21. Stored' => Fitting(c2)'
    BY <1>1, <1>2, <1>4, <2>1, <2>2, <2>3, <2>4, <2>5, <2>6, <2>7, <2>8, <2>9, <2>10, <2>11,
       <2>12, <2>13, <2>14 DEF Disk, Fitting, Steps, Goes, Same, Like, Stored, Placed, When,
       Fits, Formats, Size, TopNode, Top
  <2>22. Followed' => Running(c2)'
    BY <1>1, <1>2, <1>4, <2>1, <2>2, <2>3, <2>4, <2>5, <2>6, <2>7, <2>8, <2>9, <2>10, <2>11,
       <2>12, <2>13, <2>14 DEF Disk, Running, Swapping, Steps, Goes, Same, Like, Followed,
       Placed, When, Found
  <2>23. Returned' => Tidy(c2)'
      <3>1. dev # None /\ dev' # None
        BY <2>6, <2>7
      <3>2. Owns(c2) <=> Owns(c)
        BY <1>1, <2>1 DEF Owns, Goes, Same, Like
      <3>3. c.op = "grow"
        BY <1>1 DEF Steps
      <3>4. Returned' => Tidy(c)
        BY <1>2, <1>4 DEF Disk, Returned
      <3>5. c2.pc = "gi_rename" /\ c2.op = "grow"
        BY <3>3, <2>1 DEF Goes, Same, Like
      <3>6. mnt' = mnt /\ tmp' = tmp /\ names' = names /\ wanted' = wanted
        BY <1>4
      <3> QED
        BY <1>1, <3>1, <3>2, <3>3, <3>4, <3>5, <3>6 DEF Tidy
  <2>24. Disk(IF Holds(c2) THEN c2 ELSE Idle)'
    BY <2>2, <2>15, <2>16, <2>17, <2>18, <2>19, <2>20, <2>21, <2>22, <2>23 DEF Disk
  <2> QED
    BY <1>1, <1>4, <2>1, <2>2, <2>15, <2>16, <2>24, Change DEF NoFs, Steps, Holds, Goes,
       Same, Like
<1>5. CASE /\ c.size = dev.size
           /\ Still /\ windows' = windows
           /\ Go(p, "gi_rename")
  <2>1. PICK c2 \in Calls : Becomes(p, c2) /\ Goes(c2, c, "gi_rename") /\ UNCHANGED <<lock, wanted>>
    BY <1>1, <1>2, <1>5, GoIs
  <2>2. Steps(c2) /\ Holds(c2)
    BY <1>1, <1>5, <2>1 DEF Steps, Holds, Goes, Same, Like
  <2>3. /\ tmp \in Descriptor /\ tmp # None /\ tmp.base = dd.base /\ tmp.top = dd.top /\ tmp.max = dd.max /\ tmp.mode = dd.mode
        /\ tmp = c.di /\ tmp.size = c.size /\ dd # None /\ c.size \in Int /\ Size(tmp) = Size(dd) /\ (Formats(dd) => Formats(tmp))
    BY <1>1, <1>2, DiskIs DEF Disk, Working, Read, Holds, Steps, Descriptor, Calls, Shapes,
       Size, TopNode, Top, Formats
  <2>4. Stored => Fits(dd)
    BY <1>1, <1>2, <2>3 DEF Disk, Fitting
  <2>5. Placed => Found(dd) /\ dev.deltas = Deltas(dd) /\ dev.size = Size(dd)
    BY <1>1, <1>2, <2>3 DEF Disk, Match, Matched, Working
  <2>6. Working(c2)
    BY <1>1, <1>2, <1>5, <2>1, <2>2, <2>3, <2>4, <2>5 DEF Disk, Working, Steps, Goes, Same,
       Like, Still
  <2>7. Read(c2)
    BY <1>1, <1>2, <1>5, <2>1, <2>2, <2>3, <2>4, <2>5 DEF Disk, Read, Holds, Steps, Goes,
       Same, Like, Still
  <2>8. Placed' => Match(c2)
    BY <1>1, <1>2, <1>5, <2>1, <2>2, <2>3, <2>4, <2>5 DEF Disk, Match, Matched, Apart,
       Swapping, Steps, Goes, Same, Like, Still, Placed, When
  <2>9. Whole' => Lies(c2)
    BY <1>1, <1>2, <1>5, <2>1, <2>2, <2>3, <2>4, <2>5 DEF Disk, Lies, Steps, Goes, Same,
       Like, Still, Whole, Placed, When
  <2>10. Stored' => Fitting(c2)
    BY <1>1, <1>2, <1>5, <2>1, <2>2, <2>3, <2>4, <2>5 DEF Disk, Fitting, Steps, Goes, Same,
       Like, Still, Stored, Placed, When, Fits
  <2>11. Followed' => Running(c2)
    BY <1>1, <1>2, <1>5, <2>1, <2>2, <2>3, <2>4, <2>5 DEF Disk, Running, Swapping, Steps,
       Goes, Same, Like, Still, Followed, Placed, When
  <2>12. Returned' => Tidy(c2)
    BY <1>1, <1>2, <1>5, <2>1, <2>2, <2>3, <2>4, <2>5 DEF Disk, Tidy, Owns, Working, Steps,
       Goes, Same, Like, Still, Returned, When
  <2>13. Finds(IF Holds(c2) THEN c2 ELSE Idle)
    BY <2>2, <2>6, <2>7, <2>8, <2>9, <2>10, <2>11, <2>12 DEF Finds
  <2>14. Moved(p, c2)
    BY <1>5, <2>1 DEF Moved, Still, store, kernel, layout
  <2> QED
    BY <1>1, <1>5, <2>1, <2>2, <2>13, <2>14, Move DEF NoFs, Steps, Holds, Goes, Same, Like
<1>6. CASE /\ Still /\ windows' = windows
           /\ Go(p, "gi_out")
  <2>1. PICK c2 \in Calls : Becomes(p, c2) /\ Goes(c2, c, "gi_out") /\ UNCHANGED <<lock, wanted>>
    BY <1>1, <1>2, <1>6, GoIs
  <2>2. Steps(c2) /\ Holds(c2)
    BY <1>1, <1>6, <2>1 DEF Steps, Holds, Goes, Same, Like
  <2>3. Working(c2)
    BY <1>1, <1>2, <1>6, <2>1, <2>2 DEF Disk, Working, Steps, Goes, Same, Like, Still
  <2>4. Read(c2)
    BY <1>1, <1>2, <1>6, <2>1, <2>2 DEF Disk, Read, Holds, Steps, Goes, Same, Like, Still
  <2>5. Placed' => Match(c2)
    BY <1>1, <1>2, <1>6, <2>1, <2>2 DEF Disk, Match, Matched, Apart, Swapping, Steps, Goes,
       Same, Like, Still, Placed, When
  <2>6. Whole' => Lies(c2)
    BY <1>1, <1>2, <1>6, <2>1, <2>2 DEF Disk, Lies, Steps, Goes, Same, Like, Still, Whole,
       Placed, When
  <2>7. Stored' => Fitting(c2)
    BY <1>1, <1>2, <1>6, <2>1, <2>2 DEF Disk, Fitting, Steps, Goes, Same, Like, Still,
       Stored, Placed, When
  <2>8. Followed' => Running(c2)
    BY <1>1, <1>2, <1>6, <2>1, <2>2 DEF Disk, Running, Swapping, Steps, Goes, Same, Like,
       Still, Followed, Placed, When
  <2>9. Returned' => Tidy(c2)
    BY <1>1, <1>2, <1>6, <2>1, <2>2 DEF Disk, Tidy, Owns, Working, Steps, Goes, Same, Like,
       Still, Returned, When
  <2>10. Finds(IF Holds(c2) THEN c2 ELSE Idle)
    BY <2>2, <2>3, <2>4, <2>5, <2>6, <2>7, <2>8, <2>9 DEF Finds
  <2>11. Moved(p, c2)
    BY <1>6, <2>1 DEF Moved, Still, store, kernel, layout
  <2> QED
    BY <1>1, <1>6, <2>1, <2>2, <2>10, <2>11, Move DEF NoFs, Steps, Holds, Goes, Same, Like
<1> QED
  BY <1>3, <1>4, <1>5, <1>6

\* A raw image without a device grows as a file.
LEMMA ploop_grow_raw_delta_offlineInv ==
  ASSUME Inv, NEW p \in Proc, ploop_grow_raw_delta_offline(p), "dropped" \notin windows'
  PROVE  Inv'
<1> PICK c \in Calls : c = call[p]
  BY DEF Inv, Types
<1>1. Steps(c) /\ Holds(c) /\ c.pc = "gi_raw"
  BY DEF Inv, Control, ploop_grow_raw_delta_offline, Holds, At
<1>2. Disk(c) /\ Types /\ Shapes /\ Listed
  BY <1>1, NowIs DEF Inv, Types
<1>3. TopNode(c.di) = TopNode(dd)
  BY <1>1, <1>2 DEF Disk, Read, TopNode, Top
<1>4. \/ /\ RoundUp(c.size, 8) >= Size(dd)
         /\ nodes' = [nodes EXCEPT ![TopNode(dd)].size = RoundUp(c.size, 8)]
         /\ Go(p, "gi_rename")
         /\ UNCHANGED <<dd, tmp, names, dev, mnt, part, fs, windows>>
      \/ /\ Still /\ windows' = windows
         /\ Go(p, "gi_out")
      \/ /\ \E k \in {Size(dd), RoundUp(c.size, 8) - 8} : nodes' = [nodes EXCEPT ![TopNode(dd)].size = k]
         /\ RoundUp(c.size, 8) > Size(dd)
         /\ windows' = windows \cup {"grown"}
         /\ Go(p, "gi_out")
         /\ UNCHANGED <<dd, tmp, names, dev, mnt, part, fs>>
  BY <1>1, <1>2, <1>3 DEF ploop_grow_raw_delta_offline, NoFault, Go, Still, store, kernel,
     layout, Size
<1>5. CASE /\ RoundUp(c.size, 8) >= Size(dd)
           /\ nodes' = [nodes EXCEPT ![TopNode(dd)].size = RoundUp(c.size, 8)]
           /\ Go(p, "gi_rename")
           /\ UNCHANGED <<dd, tmp, names, dev, mnt, part, fs, windows>>
  <2>1. PICK c2 \in Calls : Becomes(p, c2) /\ Goes(c2, c, "gi_rename") /\ UNCHANGED <<lock, wanted>>
    BY <1>1, <1>2, <1>5, GoIs
  <2>2. Steps(c2) /\ Holds(c2)
    BY <1>1, <1>5, <2>1 DEF Steps, Holds, Goes, Same, Like
  <2>3. /\ tmp \in Descriptor /\ tmp # None /\ tmp.base = dd.base /\ tmp.top = dd.top /\ tmp.max = dd.max /\ tmp.mode = dd.mode
        /\ tmp = c.di /\ tmp.size = c.size /\ dd # None /\ c.size \in Int /\ Size(tmp) = Size(dd) /\ (Formats(dd) => Formats(tmp))
        /\ TopNode(c.di) = TopNode(dd)
    BY <1>1, <1>2, DiskIs DEF Disk, Working, Read, Holds, Steps, Descriptor, Calls, Shapes,
       Size, TopNode, Top, Formats
  <2>4. Stored => Fits(dd)
    BY <1>1, <1>2, <2>3 DEF Disk, Fitting
  <2>5. /\ TopNode(dd) \in DOMAIN nodes /\ Size(dd) \in Int /\ RoundUp(c.size, 8) \in Int
        /\ DOMAIN nodes' = DOMAIN nodes
        /\ \A m \in DOMAIN nodes :
             /\ nodes'[m] \in Node
             /\ nodes'[m].fmt = nodes[m].fmt /\ nodes'[m].whole = nodes[m].whole
             /\ nodes'[m].size = IF m = TopNode(dd) THEN RoundUp(c.size, 8)
                                 ELSE nodes[m].size
    BY <1>2, <1>5, <2>3, DiskIs, PageIs DEF Shapes, Node, Size
  <2>6. TopNode(dd)' = TopNode(dd) /\ Deltas(dd)' = Deltas(dd) /\ Found(dd)' = Found(dd) /\ TopNode(tmp)' = TopNode(dd)
    BY <1>5, <2>3 DEF TopNode, Top, Deltas, Files, Found
  <2>7. Size(dd)' = RoundUp(c.size, 8) /\ Size(tmp)' = RoundUp(c.size, 8)
    BY <2>3, <2>5, <2>6 DEF Size
  <2>8. Room => Room'
    BY <1>2, <1>5, <2>5, <2>7, BlockAligned DEF Room, Shapes
  <2>9. Stored => Formats(tmp)' /\ (Aligned(c.size) => Size(tmp)' = c.size)
    BY <1>2, <1>5, <2>3, <2>4, <2>5, <2>7, DiskIs, PageIs DEF Fits, Formats
  <2>10. Placed => ~Found(dd)
    BY <1>1, <1>2 DEF Disk, Match
  <2>11. Shapes'
    BY <1>1, <1>2, <1>5, <1>3, <2>1, <2>2, <2>3, <2>4, <2>5, <2>6, <2>7, <2>8, <2>9, <2>10
       DEF Shapes
  <2>12. Listed' /\ dd' # None
    BY <1>1, <1>2, <1>5, <1>3, <2>1, <2>2, <2>3, <2>4, <2>5, <2>6, <2>7, <2>8, <2>9, <2>10
       DEF Disk, Read, Listed, Distinct, Holds
  <2>13. Working(c2)'
    BY <1>1, <1>2, <1>5, <1>3, <2>1, <2>2, <2>3, <2>4, <2>5, <2>6, <2>7, <2>8, <2>9, <2>10
       DEF Disk, Working, Steps, Goes, Same, Like
  <2>14. Read(c2)'
    BY <1>1, <1>2, <1>5, <1>3, <2>1, <2>2, <2>3, <2>4, <2>5, <2>6, <2>7, <2>8, <2>9, <2>10
       DEF Disk, Read, Holds, Steps, Goes, Same, Like
  <2>15. Placed' => Match(c2)'
    <3>1. Placed => Match(c)
      BY <1>2 DEF Disk
    <3>2. Placed' => Matched'
      BY <1>1, <1>2, <1>5, <1>3, <2>1, <2>2, <2>3, <2>4, <2>5, <2>6, <2>7, <2>8, <2>9,
         <2>10, <3>1 DEF Match, Matched, Placed
    <3>3. Placed' => Apart(c2)'
      BY <1>1, <1>2, <1>5, <1>3, <2>1, <2>2, <2>3, <2>4, <2>5, <2>6, <2>7, <2>8, <2>9,
         <2>10, <3>1 DEF Match, Apart, Swapping, Placed, Goes, Same, Like
    <3> QED
      BY <1>1, <1>2, <1>5, <1>3, <2>1, <2>2, <2>3, <2>4, <2>5, <2>6, <2>7, <2>8, <2>9,
         <2>10, <3>1, <3>2, <3>3 DEF Match, Swapping, Steps, Placed, Goes, Same, Like
  <2>16. Whole' => Lies(c2)'
    BY <1>1, <1>2, <1>5, <1>3, <2>1, <2>2, <2>3, <2>4, <2>5, <2>6, <2>7, <2>8, <2>9, <2>10
       DEF Disk, Lies, Steps, Goes, Same, Like, Whole, Placed, When, Room, Size, TopNode,
       Top
  <2>17. Stored' => Fitting(c2)'
    BY <1>1, <1>2, <1>5, <1>3, <2>1, <2>2, <2>3, <2>4, <2>5, <2>6, <2>7, <2>8, <2>9, <2>10
       DEF Disk, Fitting, Steps, Goes, Same, Like, Stored, Placed, When, Fits, Formats,
       Size, TopNode, Top
  <2>18. Followed' => Running(c2)'
    BY <1>1, <1>2, <1>5, <1>3, <2>1, <2>2, <2>3, <2>4, <2>5, <2>6, <2>7, <2>8, <2>9, <2>10
       DEF Disk, Running, Swapping, Steps, Goes, Same, Like, Followed, Placed, When, Found
  <2>19. Returned' => Tidy(c2)'
    BY <1>1, <1>2, <1>5, <1>3, <2>1, <2>2, <2>3, <2>4, <2>5, <2>6, <2>7, <2>8, <2>9, <2>10
       DEF Disk, Tidy, Owns, Working, Steps, Goes, Same, Like, Returned, When
  <2>20. Disk(IF Holds(c2) THEN c2 ELSE Idle)'
    BY <2>2, <2>11, <2>12, <2>13, <2>14, <2>15, <2>16, <2>17, <2>18, <2>19 DEF Disk
  <2> QED
    BY <1>1, <1>5, <2>1, <2>2, <2>11, <2>12, <2>20, Change DEF NoFs, Steps, Holds, Goes,
       Same, Like
<1>6. CASE /\ Still /\ windows' = windows
           /\ Go(p, "gi_out")
  <2>1. PICK c2 \in Calls : Becomes(p, c2) /\ Goes(c2, c, "gi_out") /\ UNCHANGED <<lock, wanted>>
    BY <1>1, <1>2, <1>6, GoIs
  <2>2. Steps(c2) /\ Holds(c2)
    BY <1>1, <1>6, <2>1 DEF Steps, Holds, Goes, Same, Like
  <2>3. Working(c2)
    BY <1>1, <1>2, <1>6, <1>3, <2>1, <2>2 DEF Disk, Working, Steps, Goes, Same, Like, Still
  <2>4. Read(c2)
    BY <1>1, <1>2, <1>6, <1>3, <2>1, <2>2 DEF Disk, Read, Holds, Steps, Goes, Same, Like,
       Still
  <2>5. Placed' => Match(c2)
    BY <1>1, <1>2, <1>6, <1>3, <2>1, <2>2 DEF Disk, Match, Matched, Apart, Swapping, Steps,
       Goes, Same, Like, Still, Placed, When
  <2>6. Whole' => Lies(c2)
    BY <1>1, <1>2, <1>6, <1>3, <2>1, <2>2 DEF Disk, Lies, Steps, Goes, Same, Like, Still,
       Whole, Placed, When
  <2>7. Stored' => Fitting(c2)
    BY <1>1, <1>2, <1>6, <1>3, <2>1, <2>2 DEF Disk, Fitting, Steps, Goes, Same, Like, Still,
       Stored, Placed, When
  <2>8. Followed' => Running(c2)
    BY <1>1, <1>2, <1>6, <1>3, <2>1, <2>2 DEF Disk, Running, Swapping, Steps, Goes, Same,
       Like, Still, Followed, Placed, When
  <2>9. Returned' => Tidy(c2)
    BY <1>1, <1>2, <1>6, <1>3, <2>1, <2>2 DEF Disk, Tidy, Owns, Working, Steps, Goes, Same,
       Like, Still, Returned, When
  <2>10. Finds(IF Holds(c2) THEN c2 ELSE Idle)
    BY <2>2, <2>3, <2>4, <2>5, <2>6, <2>7, <2>8, <2>9 DEF Finds
  <2>11. Moved(p, c2)
    BY <1>6, <2>1 DEF Moved, Still, store, kernel, layout
  <2> QED
    BY <1>1, <1>6, <2>1, <2>2, <2>10, <2>11, Move DEF NoFs, Steps, Holds, Goes, Same, Like
<1>7. CASE /\ \E k \in {Size(dd), RoundUp(c.size, 8) - 8} : nodes' = [nodes EXCEPT ![TopNode(dd)].size = k]
           /\ RoundUp(c.size, 8) > Size(dd)
           /\ windows' = windows \cup {"grown"}
           /\ Go(p, "gi_out")
           /\ UNCHANGED <<dd, tmp, names, dev, mnt, part, fs>>
  <2>1. PICK c2 \in Calls : Becomes(p, c2) /\ Goes(c2, c, "gi_out") /\ UNCHANGED <<lock, wanted>>
    BY <1>1, <1>2, <1>7, GoIs
  <2>2. Steps(c2) /\ Holds(c2)
    BY <1>1, <1>7, <2>1 DEF Steps, Holds, Goes, Same, Like
  <2>3. /\ tmp \in Descriptor /\ tmp # None /\ tmp.base = dd.base /\ tmp.top = dd.top /\ tmp.max = dd.max /\ tmp.mode = dd.mode
        /\ tmp = c.di /\ tmp.size = c.size /\ dd # None /\ c.size \in Int /\ Size(tmp) = Size(dd) /\ (Formats(dd) => Formats(tmp))
        /\ TopNode(c.di) = TopNode(dd)
    BY <1>1, <1>2, DiskIs DEF Disk, Working, Read, Holds, Steps, Descriptor, Calls, Shapes,
       Size, TopNode, Top, Formats
  <2>4. PICK v \in {Size(dd), RoundUp(c.size, 8) - 8} : nodes' = [nodes EXCEPT ![TopNode(dd)].size = v]
    BY <1>7
  <2>5. v \in Int
    BY <1>2, <2>3, <2>4, DiskIs, PageIs
  <2>6. /\ TopNode(dd) \in DOMAIN nodes /\ Size(dd) \in Int /\ v \in Int
        /\ DOMAIN nodes' = DOMAIN nodes
        /\ \A m \in DOMAIN nodes :
             /\ nodes'[m] \in Node
             /\ nodes'[m].fmt = nodes[m].fmt /\ nodes'[m].whole = nodes[m].whole
             /\ nodes'[m].size = IF m = TopNode(dd) THEN v ELSE nodes[m].size
    BY <1>2, <2>3, <2>4, <2>5, DiskIs DEF Shapes, Node
  <2>7. TopNode(dd)' = TopNode(dd) /\ Deltas(dd)' = Deltas(dd) /\ Found(dd)' = Found(dd) /\ TopNode(tmp)' = TopNode(dd)
    BY <1>7, <2>3 DEF TopNode, Top, Deltas, Files, Found
  <2>8. Size(dd)' = v
    BY <2>3, <2>6, <2>7 DEF Size
  <2>9. RoundUp(c.size, 8) \in Int /\ \A k \in Int : Aligned(k) /\ k < RoundUp(c.size, 8) => k <= RoundUp(c.size, 8) - 8
    BY <2>3, PageIs
  <2>10. Aligned(part) /\ part \in Int => Aligned(part + B) /\ part + B \in Int
    BY BlockAligned, Sums
  <2>11. Room => Room'
    BY <1>2, <1>7, <2>4, <2>6, <2>8, <2>9, <2>10 DEF Room, Shapes
  <2>12. Placed => ~Found(dd)
    BY <1>1, <1>2 DEF Disk, Match
  <2>13. Shapes'
    BY <1>1, <1>2, <1>7, <1>3, <2>1, <2>2, <2>3, <2>4, <2>5, <2>6, <2>7, <2>8, <2>9, <2>10,
       <2>11, <2>12 DEF Shapes
  <2>14. Listed' /\ dd' # None
    BY <1>1, <1>2, <1>7, <1>3, <2>1, <2>2, <2>3, <2>4, <2>5, <2>6, <2>7, <2>8, <2>9, <2>10,
       <2>11, <2>12 DEF Disk, Read, Listed, Distinct, Holds
  <2>15. Working(c2)'
    BY <1>1, <1>2, <1>7, <1>3, <2>1, <2>2, <2>3, <2>4, <2>5, <2>6, <2>7, <2>8, <2>9, <2>10,
       <2>11, <2>12 DEF Disk, Working, Steps, Goes, Same, Like
  <2>16. Read(c2)'
    BY <1>1, <1>2, <1>7, <1>3, <2>1, <2>2, <2>3, <2>4, <2>5, <2>6, <2>7, <2>8, <2>9, <2>10,
       <2>11, <2>12 DEF Disk, Read, Holds, Steps, Goes, Same, Like
  <2>17. Placed' => Match(c2)'
    <3>1. Placed => Match(c)
      BY <1>2 DEF Disk
    <3>2. Placed' => Matched'
      BY <1>1, <1>2, <1>7, <1>3, <2>1, <2>2, <2>3, <2>4, <2>5, <2>6, <2>7, <2>8, <2>9,
         <2>10, <2>11, <2>12, <3>1 DEF Match, Matched, Placed
    <3>3. Placed' => Apart(c2)'
      BY <1>1, <1>2, <1>7, <1>3, <2>1, <2>2, <2>3, <2>4, <2>5, <2>6, <2>7, <2>8, <2>9,
         <2>10, <2>11, <2>12, <3>1 DEF Match, Apart, Swapping, Placed, Goes, Same, Like
    <3> QED
      BY <1>1, <1>2, <1>7, <1>3, <2>1, <2>2, <2>3, <2>4, <2>5, <2>6, <2>7, <2>8, <2>9,
         <2>10, <2>11, <2>12, <3>1, <3>2, <3>3 DEF Match, Swapping, Steps, Placed, Goes,
         Same, Like
  <2>18. Whole' => Lies(c2)'
    BY <1>1, <1>2, <1>7, <1>3, <2>1, <2>2, <2>3, <2>4, <2>5, <2>6, <2>7, <2>8, <2>9, <2>10,
       <2>11, <2>12 DEF Disk, Lies, Steps, Goes, Same, Like, Whole, Placed, When, Room,
       Size, TopNode, Top
  <2>19. Stored' => Fitting(c2)'
    BY <1>1, <1>2, <1>7, <1>3, <2>1, <2>2, <2>3, <2>4, <2>5, <2>6, <2>7, <2>8, <2>9, <2>10,
       <2>11, <2>12 DEF Disk, Fitting, Steps, Goes, Same, Like, Stored, Placed, When, Fits,
       Formats, Size, TopNode, Top
  <2>20. Followed' => Running(c2)'
    BY <1>1, <1>2, <1>7, <1>3, <2>1, <2>2, <2>3, <2>4, <2>5, <2>6, <2>7, <2>8, <2>9, <2>10,
       <2>11, <2>12 DEF Disk, Running, Swapping, Steps, Goes, Same, Like, Followed, Placed,
       When, Found
  <2>21. Returned' => Tidy(c2)'
    BY <1>1, <1>2, <1>7, <1>3, <2>1, <2>2, <2>3, <2>4, <2>5, <2>6, <2>7, <2>8, <2>9, <2>10,
       <2>11, <2>12 DEF Disk, Tidy, Owns, Working, Steps, Goes, Same, Like, Returned, When
  <2>22. Disk(IF Holds(c2) THEN c2 ELSE Idle)'
    BY <2>2, <2>13, <2>14, <2>15, <2>16, <2>17, <2>18, <2>19, <2>20, <2>21 DEF Disk
  <2> QED
    BY <1>1, <1>7, <2>1, <2>2, <2>13, <2>14, <2>22, Change DEF NoFs, Steps, Holds, Goes,
       Same, Like
<1> QED
  BY <1>4, <1>5, <1>6, <1>7

\* The descriptor with the new size takes the place of the old one.
LEMMA GrowRenameInv ==
  ASSUME Inv, NEW p \in Proc, GrowRename(p), "dropped" \notin windows'
  PROVE  Inv'
<1> PICK c \in Calls : c = call[p]
  BY DEF Inv, Types
<1>1. Steps(c) /\ Holds(c) /\ c.pc = "gi_rename"
  BY DEF Inv, Control, GrowRename, Holds, At
<1>2. Disk(c) /\ Types /\ Shapes /\ Listed
  BY <1>1, NowIs DEF Inv, Types
<1>3. \/ /\ c.own
         /\ dd' = tmp /\ tmp' = None
         /\ DoUmount(p, "ok", "ok")
         /\ windows' = windows \cup When(c.size % B # 0, "unaligned")
         /\ UNCHANGED <<names, nodes, dev, mnt, part, fs>>
      \/ /\ ~c.own
         /\ dd' = tmp /\ tmp' = None
         /\ Go(p, "ok")
         /\ windows' = windows \cup When(c.size % B # 0, "unaligned")
         /\ UNCHANGED <<names, nodes, dev, mnt, part, fs, lock, wanted>>
      \/ /\ Still /\ windows' = windows \cup {"grown"}
         /\ Go(p, "gi_out")
  BY <1>1, <1>2, HalfIs DEF GrowRename, NoFault, Go, Still, store, kernel, layout, Steps
<1>4. CASE /\ c.own
           /\ dd' = tmp /\ tmp' = None
           /\ DoUmount(p, "ok", "ok")
           /\ windows' = windows \cup When(c.size % B # 0, "unaligned")
           /\ UNCHANGED <<names, nodes, dev, mnt, part, fs>>
  <2>1. PICK c2 \in Calls : Becomes(p, c2) /\ Umounts(c2, c, "ok", "ok") /\ UNCHANGED <<lock, wanted>>
    BY <1>1, <1>2, <1>4, DoUmountIs DEF Thens, Elses, Targets
  <2>2. Steps(c2) /\ Holds(c2)
    BY <1>1, <1>4, <2>1 DEF Steps, Holds, Umounts, Same, Like
  <2>3. /\ tmp \in Descriptor /\ tmp # None /\ tmp.base = dd.base /\ tmp.top = dd.top /\ tmp.max = dd.max /\ tmp.mode = dd.mode
        /\ tmp = c.di /\ tmp.size = c.size /\ dd # None /\ c.size \in Int
    BY <1>1, <1>2, DiskIs DEF Disk, Working, Read, Holds, Steps, Descriptor, Calls, Shapes
  <2>4. /\ dd' = tmp /\ names' = names /\ nodes' = nodes /\ TopNode(dd)' = TopNode(dd) /\ Deltas(dd)' = Deltas(dd) /\ Size(dd)' = Size(dd)
        /\ Found(dd)' = Found(dd)
    BY <1>4, <2>3 DEF TopNode, Top, Size, Deltas, Files, Found
  <2>5. (Fits(tmp) => Fits(dd)') /\ (Formats(tmp) /\ Size(tmp) = tmp.size => Fits(tmp))
    BY <1>4, <2>3, <2>4 DEF Fits, Formats, Size, TopNode, Top
  <2>6. Stored' => Fits(dd)'
    BY <1>1, <1>2, <1>4, <2>3, <2>5 DEF Disk, Fitting, Stored, Placed, When, Aligned
  <2>7. Shapes'
    BY <1>1, <1>2, <1>4, <2>1, <2>2, <2>3, <2>4, <2>5, <2>6 DEF Shapes
  <2>8. Listed' /\ dd' # None
    BY <1>1, <1>2, <1>4, <2>1, <2>2, <2>3, <2>4, <2>5, <2>6 DEF Disk, Read, Listed,
       Distinct, Holds
  <2>9. Working(c2)'
    BY <1>1, <1>2, <1>4, <2>1, <2>2, <2>3, <2>4, <2>5, <2>6 DEF Disk, Working, Steps,
       Umounts, Same, Like
  <2>10. Read(c2)'
    BY <1>1, <1>2, <1>4, <2>1, <2>2, <2>3, <2>4, <2>5, <2>6 DEF Disk, Read, Holds, Steps,
       Umounts, Same, Like
  <2>11. Placed' => Match(c2)'
    <3>1. Placed => Match(c)
      BY <1>2 DEF Disk
    <3>2. Placed' => Matched'
      BY <1>1, <1>2, <1>4, <2>1, <2>2, <2>3, <2>4, <2>5, <2>6, <3>1 DEF Match, Matched,
         Placed
    <3>3. Placed' => Apart(c2)'
      BY <1>1, <1>2, <1>4, <2>1, <2>2, <2>3, <2>4, <2>5, <2>6, <3>1 DEF Match, Apart,
         Swapping, Placed, Umounts, Same, Like
    <3> QED
      BY <1>1, <1>2, <1>4, <2>1, <2>2, <2>3, <2>4, <2>5, <2>6, <3>1, <3>2, <3>3 DEF Match,
         Swapping, Steps, Placed, Umounts, Same, Like
  <2>12. Whole' => Lies(c2)'
    BY <1>1, <1>2, <1>4, <2>1, <2>2, <2>3, <2>4, <2>5, <2>6 DEF Disk, Lies, Steps, Umounts,
       Same, Like, Whole, Placed, When, Room, Size, TopNode, Top
  <2>13. Stored' => Fitting(c2)'
    BY <1>1, <1>2, <1>4, <2>1, <2>2, <2>3, <2>4, <2>5, <2>6 DEF Disk, Fitting, Steps,
       Umounts, Same, Like, Stored, Placed, When, Fits, Formats, Size, TopNode, Top
  <2>14. Followed' => Running(c2)'
    BY <1>1, <1>2, <1>4, <2>1, <2>2, <2>3, <2>4, <2>5, <2>6 DEF Disk, Running, Swapping,
       Steps, Umounts, Same, Like, Followed, Placed, When, Found
  <2>15. Returned' => Tidy(c2)'
    BY <1>1, <1>2, <1>4, <2>1, <2>2, <2>3, <2>4, <2>5, <2>6 DEF Disk, Tidy, Owns, Working,
       Steps, Umounts, Same, Like, Returned, When
  <2>16. Disk(IF Holds(c2) THEN c2 ELSE Idle)'
    BY <2>2, <2>7, <2>8, <2>9, <2>10, <2>11, <2>12, <2>13, <2>14, <2>15 DEF Disk
  <2> QED
    BY <1>1, <1>4, <2>1, <2>2, <2>7, <2>8, <2>16, Change DEF NoFs, Steps, Holds, Umounts,
       Same, Like
<1>5. CASE /\ ~c.own
           /\ dd' = tmp /\ tmp' = None
           /\ Go(p, "ok")
           /\ windows' = windows \cup When(c.size % B # 0, "unaligned")
           /\ UNCHANGED <<names, nodes, dev, mnt, part, fs, lock, wanted>>
  <2>1. PICK c2 \in Calls : Becomes(p, c2) /\ Goes(c2, c, "ok") /\ UNCHANGED <<lock, wanted>>
    BY <1>1, <1>2, <1>5, GoIs
  <2>2. Steps(c2) /\ Holds(c2)
    BY <1>1, <1>5, <2>1 DEF Steps, Holds, Goes, Same, Like
  <2>3. /\ tmp \in Descriptor /\ tmp # None /\ tmp.base = dd.base /\ tmp.top = dd.top /\ tmp.max = dd.max /\ tmp.mode = dd.mode
        /\ tmp = c.di /\ tmp.size = c.size /\ dd # None /\ c.size \in Int
    BY <1>1, <1>2, DiskIs DEF Disk, Working, Read, Holds, Steps, Descriptor, Calls, Shapes
  <2>4. /\ dd' = tmp /\ names' = names /\ nodes' = nodes /\ TopNode(dd)' = TopNode(dd) /\ Deltas(dd)' = Deltas(dd) /\ Size(dd)' = Size(dd)
        /\ Found(dd)' = Found(dd)
    BY <1>5, <2>3 DEF TopNode, Top, Size, Deltas, Files, Found
  <2>5. (Fits(tmp) => Fits(dd)') /\ (Formats(tmp) /\ Size(tmp) = tmp.size => Fits(tmp))
    BY <1>5, <2>3, <2>4 DEF Fits, Formats, Size, TopNode, Top
  <2>6. Stored' => Fits(dd)'
    BY <1>1, <1>2, <1>5, <2>3, <2>5 DEF Disk, Fitting, Stored, Placed, When, Aligned
  <2>7. Returned => Tidy(c)
    BY <1>2 DEF Disk
  <2>8. ~Owns(c) /\ c.op \notin {"mount", "umount"}
    BY <1>1, <1>5 DEF Owns, Steps
  <2>9. Returned => mnt # "temp" /\ (wanted <=> dev # None) /\ names["image.tmp"] = None
    BY <1>1, <2>7, <2>8 DEF Tidy
  <2>10. Shapes'
    BY <1>1, <1>2, <1>5, <2>1, <2>2, <2>3, <2>4, <2>5, <2>6, <2>7, <2>8, <2>9 DEF Shapes
  <2>11. Listed' /\ dd' # None
    BY <1>1, <1>2, <1>5, <2>1, <2>2, <2>3, <2>4, <2>5, <2>6, <2>7, <2>8, <2>9 DEF Disk,
       Read, Listed, Distinct, Holds
  <2>12. Working(c2)'
    BY <1>1, <1>2, <1>5, <2>1, <2>2, <2>3, <2>4, <2>5, <2>6, <2>7, <2>8, <2>9 DEF Disk,
       Working, Steps, Goes, Same, Like
  <2>13. Read(c2)'
    BY <1>1, <1>2, <1>5, <2>1, <2>2, <2>3, <2>4, <2>5, <2>6, <2>7, <2>8, <2>9 DEF Disk,
       Read, Holds, Steps, Goes, Same, Like
  <2>14. Placed' => Match(c2)'
    <3>1. Placed => Match(c)
      BY <1>2 DEF Disk
    <3>2. Placed' => Matched'
      BY <1>1, <1>2, <1>5, <2>1, <2>2, <2>3, <2>4, <2>5, <2>6, <2>7, <2>8, <2>9, <3>1 DEF
         Match, Matched, Placed
    <3>3. Placed' => Apart(c2)'
      BY <1>1, <1>2, <1>5, <2>1, <2>2, <2>3, <2>4, <2>5, <2>6, <2>7, <2>8, <2>9, <3>1 DEF
         Match, Apart, Swapping, Placed, Goes, Same, Like
    <3> QED
      BY <1>1, <1>2, <1>5, <2>1, <2>2, <2>3, <2>4, <2>5, <2>6, <2>7, <2>8, <2>9, <3>1, <3>2,
         <3>3 DEF Match, Swapping, Steps, Placed, Goes, Same, Like
  <2>15. Whole' => Lies(c2)'
    BY <1>1, <1>2, <1>5, <2>1, <2>2, <2>3, <2>4, <2>5, <2>6, <2>7, <2>8, <2>9 DEF Disk,
       Lies, Steps, Goes, Same, Like, Whole, Placed, When, Room, Size, TopNode, Top
  <2>16. Stored' => Fitting(c2)'
    BY <1>1, <1>2, <1>5, <2>1, <2>2, <2>3, <2>4, <2>5, <2>6, <2>7, <2>8, <2>9 DEF Disk,
       Fitting, Steps, Goes, Same, Like, Stored, Placed, When, Fits, Formats, Size, TopNode,
       Top
  <2>17. Followed' => Running(c2)'
    BY <1>1, <1>2, <1>5, <2>1, <2>2, <2>3, <2>4, <2>5, <2>6, <2>7, <2>8, <2>9 DEF Disk,
       Running, Swapping, Steps, Goes, Same, Like, Followed, Placed, When, Found
  <2>18. Returned' => Tidy(c2)'
      <3>1. c2.op = c.op /\ c2.pc \in EndPc /\ ~Owns(c2)
        BY <2>1, <1>5 DEF Goes, Same, Like, Owns
      <3>2. UNCHANGED <<dev, mnt, names, wanted>> /\ tmp' \in {tmp, None} /\ windows \subseteq windows'
        BY <1>5
      <3>3. Returned' => Returned
        BY <3>2 DEF Returned
      <3> QED
        BY <1>1, <2>7, <2>8, <2>9, <1>5, <3>1, <3>2, <3>3 DEF Tidy
  <2>19. Disk(IF Holds(c2) THEN c2 ELSE Idle)'
    BY <2>2, <2>10, <2>11, <2>12, <2>13, <2>14, <2>15, <2>16, <2>17, <2>18 DEF Disk
  <2> QED
    BY <1>1, <1>5, <2>1, <2>2, <2>10, <2>11, <2>19, Change DEF NoFs, Steps, Holds, Goes,
       Same, Like
<1>6. CASE /\ Still /\ windows' = windows \cup {"grown"}
           /\ Go(p, "gi_out")
  <2>1. PICK c2 \in Calls : Becomes(p, c2) /\ Goes(c2, c, "gi_out") /\ UNCHANGED <<lock, wanted>>
    BY <1>1, <1>2, <1>6, GoIs
  <2>2. Steps(c2) /\ Holds(c2)
    BY <1>1, <1>6, <2>1 DEF Steps, Holds, Goes, Same, Like
  <2>3. Working(c2)
    BY <1>1, <1>2, <1>6, <2>1, <2>2 DEF Disk, Working, Steps, Goes, Same, Like, Still
  <2>4. Read(c2)
    BY <1>1, <1>2, <1>6, <2>1, <2>2 DEF Disk, Read, Holds, Steps, Goes, Same, Like, Still
  <2>5. Placed' => Match(c2)
    BY <1>1, <1>2, <1>6, <2>1, <2>2 DEF Disk, Match, Matched, Apart, Swapping, Steps, Goes,
       Same, Like, Still, Placed, When
  <2>6. Whole' => Lies(c2)
    BY <1>1, <1>2, <1>6, <2>1, <2>2 DEF Disk, Lies, Steps, Goes, Same, Like, Still, Whole,
       Placed, When
  <2>7. Stored' => Fitting(c2)
    BY <1>1, <1>2, <1>6, <2>1, <2>2 DEF Disk, Fitting, Steps, Goes, Same, Like, Still,
       Stored, Placed, When
  <2>8. Followed' => Running(c2)
    BY <1>1, <1>2, <1>6, <2>1, <2>2 DEF Disk, Running, Swapping, Steps, Goes, Same, Like,
       Still, Followed, Placed, When
  <2>9. Returned' => Tidy(c2)
    BY <1>1, <1>2, <1>6, <2>1, <2>2 DEF Disk, Tidy, Owns, Working, Steps, Goes, Same, Like,
       Still, Returned, When
  <2>10. Finds(IF Holds(c2) THEN c2 ELSE Idle)
    BY <2>2, <2>3, <2>4, <2>5, <2>6, <2>7, <2>8, <2>9 DEF Finds
  <2>11. Moved(p, c2)
    BY <1>6, <2>1 DEF Moved, Still, store, kernel, layout
  <2> QED
    BY <1>1, <1>6, <2>1, <2>2, <2>10, <2>11, Move DEF NoFs, Steps, Holds, Goes, Same, Like
<1> QED
  BY <1>3, <1>4, <1>5, <1>6

\* The failing end removes the new descriptor.
LEMMA GrowOutInv ==
  ASSUME Inv, NEW p \in Proc, GrowOut(p), "dropped" \notin windows'
  PROVE  Inv'
<1> PICK c \in Calls : c = call[p]
  BY DEF Inv, Types
<1>1. Steps(c) /\ Holds(c) /\ c.pc \in {"gi_out", "gi_nodev"}
  BY DEF Inv, Control, GrowOut, Holds
<1>2. Disk(c) /\ Types /\ Shapes /\ Listed
  BY <1>1, NowIs DEF Inv, Types
<1>3. \/ /\ c.own /\ c.pc = "gi_out"
         /\ tmp' = None
         /\ DoUmount(p, "fail", "fail")
         /\ windows' = windows
         /\ UNCHANGED <<dd, names, nodes, dev, mnt, part, fs>>
      \/ /\ ~c.own \/ c.pc = "gi_nodev"
         /\ tmp' = None
         /\ Go(p, "fail")
         /\ UNCHANGED <<dd, names, nodes, dev, mnt, part, fs, windows>>
  BY <1>1, <1>2 DEF GrowOut, NoFault, Go, Still, store, kernel, layout, At
<1>4. CASE /\ c.own /\ c.pc = "gi_out"
           /\ tmp' = None
           /\ DoUmount(p, "fail", "fail")
           /\ windows' = windows
           /\ UNCHANGED <<dd, names, nodes, dev, mnt, part, fs>>
  <2>1. PICK c2 \in Calls : Becomes(p, c2) /\ Umounts(c2, c, "fail", "fail") /\ UNCHANGED <<lock, wanted>>
    BY <1>1, <1>2, <1>4, DoUmountIs DEF Thens, Elses, Targets
  <2>2. Steps(c2) /\ Holds(c2)
    BY <1>1, <1>4, <2>1 DEF Steps, Holds, Umounts, Same, Like
  <2>3. /\ TopNode(dd)' = TopNode(dd) /\ Deltas(dd)' = Deltas(dd) /\ Size(dd)' = Size(dd)
        /\ Found(dd)' = Found(dd)
    BY <1>4 DEF TopNode, Top, Size, Deltas, Files, Found
  <2>4. Shapes'
    BY <1>1, <1>2, <1>4, <2>1, <2>2, <2>3 DEF Shapes
  <2>5. Listed' /\ dd' # None
    BY <1>1, <1>2, <1>4, <2>1, <2>2, <2>3 DEF Disk, Read, Listed, Distinct, Holds
  <2>6. Working(c2)'
    BY <1>1, <1>2, <1>4, <2>1, <2>2, <2>3 DEF Disk, Working, Steps, Umounts, Same, Like
  <2>7. Read(c2)'
    BY <1>1, <1>2, <1>4, <2>1, <2>2, <2>3 DEF Disk, Read, Holds, Steps, Umounts, Same, Like
  <2>8. Placed' => Match(c2)'
    <3>1. Placed => Match(c)
      BY <1>2 DEF Disk
    <3>2. Placed' => Matched'
      BY <1>1, <1>2, <1>4, <2>1, <2>2, <2>3, <3>1 DEF Match, Matched, Placed
    <3>3. Placed' => Apart(c2)'
      BY <1>1, <1>2, <1>4, <2>1, <2>2, <2>3, <3>1 DEF Match, Apart, Swapping, Placed,
         Umounts, Same, Like
    <3> QED
      BY <1>1, <1>2, <1>4, <2>1, <2>2, <2>3, <3>1, <3>2, <3>3 DEF Match, Swapping, Steps,
         Placed, Umounts, Same, Like
  <2>9. Whole' => Lies(c2)'
    BY <1>1, <1>2, <1>4, <2>1, <2>2, <2>3 DEF Disk, Lies, Steps, Umounts, Same, Like, Whole,
       Placed, When, Room, Size, TopNode, Top
  <2>10. Stored' => Fitting(c2)'
    BY <1>1, <1>2, <1>4, <2>1, <2>2, <2>3 DEF Disk, Fitting, Steps, Umounts, Same, Like,
       Stored, Placed, When, Fits, Formats, Size, TopNode, Top
  <2>11. Followed' => Running(c2)'
    BY <1>1, <1>2, <1>4, <2>1, <2>2, <2>3 DEF Disk, Running, Swapping, Steps, Umounts, Same,
       Like, Followed, Placed, When, Found
  <2>12. Returned' => Tidy(c2)'
    BY <1>1, <1>2, <1>4, <2>1, <2>2, <2>3 DEF Disk, Tidy, Owns, Working, Steps, Umounts,
       Same, Like, Returned, When
  <2>13. Disk(IF Holds(c2) THEN c2 ELSE Idle)'
    BY <2>2, <2>4, <2>5, <2>6, <2>7, <2>8, <2>9, <2>10, <2>11, <2>12 DEF Disk
  <2> QED
    BY <1>1, <1>4, <2>1, <2>2, <2>4, <2>5, <2>13, Change DEF NoFs, Steps, Holds, Umounts,
       Same, Like
<1>5. CASE /\ ~c.own \/ c.pc = "gi_nodev"
           /\ tmp' = None
           /\ Go(p, "fail")
           /\ UNCHANGED <<dd, names, nodes, dev, mnt, part, fs, windows>>
  <2>1. PICK c2 \in Calls : Becomes(p, c2) /\ Goes(c2, c, "fail") /\ UNCHANGED <<lock, wanted>>
    BY <1>1, <1>2, <1>5, GoIs
  <2>2. Steps(c2) /\ Holds(c2)
    BY <1>1, <1>5, <2>1 DEF Steps, Holds, Goes, Same, Like
  <2>3. /\ TopNode(dd)' = TopNode(dd) /\ Deltas(dd)' = Deltas(dd) /\ Size(dd)' = Size(dd)
        /\ Found(dd)' = Found(dd)
    BY <1>5 DEF TopNode, Top, Size, Deltas, Files, Found
  <2>4. Returned => ~c.own /\ Tidy(c)
    BY <1>1, <1>2, <1>5 DEF Disk, Tidy
  <2>5. Returned => mnt # "temp" /\ (wanted <=> dev # None) /\ names["image.tmp"] = None
    BY <1>1, <2>4 DEF Tidy, Owns, Steps
  <2>6. Shapes'
    BY <1>1, <1>2, <1>5, <2>1, <2>2, <2>3, <2>4, <2>5 DEF Shapes
  <2>7. Listed' /\ dd' # None
    BY <1>1, <1>2, <1>5, <2>1, <2>2, <2>3, <2>4, <2>5 DEF Disk, Read, Listed, Distinct,
       Holds
  <2>8. Working(c2)'
    BY <1>1, <1>2, <1>5, <2>1, <2>2, <2>3, <2>4, <2>5 DEF Disk, Working, Steps, Goes, Same,
       Like
  <2>9. Read(c2)'
    BY <1>1, <1>2, <1>5, <2>1, <2>2, <2>3, <2>4, <2>5 DEF Disk, Read, Holds, Steps, Goes,
       Same, Like
  <2>10. Placed' => Match(c2)'
    <3>1. Placed => Match(c)
      BY <1>2 DEF Disk
    <3>2. Placed' => Matched'
      BY <1>1, <1>2, <1>5, <2>1, <2>2, <2>3, <2>4, <2>5, <3>1 DEF Match, Matched, Placed
    <3>3. Placed' => Apart(c2)'
      BY <1>1, <1>2, <1>5, <2>1, <2>2, <2>3, <2>4, <2>5, <3>1 DEF Match, Apart, Swapping,
         Placed, Goes, Same, Like
    <3> QED
      BY <1>1, <1>2, <1>5, <2>1, <2>2, <2>3, <2>4, <2>5, <3>1, <3>2, <3>3 DEF Match,
         Swapping, Steps, Placed, Goes, Same, Like
  <2>11. Whole' => Lies(c2)'
    BY <1>1, <1>2, <1>5, <2>1, <2>2, <2>3, <2>4, <2>5 DEF Disk, Lies, Steps, Goes, Same,
       Like, Whole, Placed, When, Room, Size, TopNode, Top
  <2>12. Stored' => Fitting(c2)'
    BY <1>1, <1>2, <1>5, <2>1, <2>2, <2>3, <2>4, <2>5 DEF Disk, Fitting, Steps, Goes, Same,
       Like, Stored, Placed, When, Fits, Formats, Size, TopNode, Top
  <2>13. Followed' => Running(c2)'
    BY <1>1, <1>2, <1>5, <2>1, <2>2, <2>3, <2>4, <2>5 DEF Disk, Running, Swapping, Steps,
       Goes, Same, Like, Followed, Placed, When, Found
  <2>14. Returned' => Tidy(c2)'
      BY <1>1, <1>5, <2>1, <2>4, <2>5 DEF Tidy, Returned, Goes, Same, Like, Owns
  <2>15. Disk(IF Holds(c2) THEN c2 ELSE Idle)'
    BY <2>2, <2>6, <2>7, <2>8, <2>9, <2>10, <2>11, <2>12, <2>13, <2>14 DEF Disk
  <2> QED
    BY <1>1, <1>5, <2>1, <2>2, <2>6, <2>7, <2>15, Change DEF NoFs, Steps, Holds, Goes, Same,
       Like
<1> QED
  BY <1>3, <1>4, <1>5

-----------------------------------------------------------------------------
(* Steps that are not those of the call at work: callers that come and go, *)
(* the creator, and what happens to the disk beside them.                  *)

\* What holds of the disk lasts while nothing changes but the circumstances.
LEMMA Lasts ==
  ASSUME NEW n, Disk(n), Still, UNCHANGED wanted, windows \subseteq windows'
  PROVE  Disk(n)'
<1>1. UNCHANGED <<dd, tmp, names, nodes, dev, mnt, part, fs, wanted>>
  BY DEF Still, store, kernel, layout
<1>2. Working(n)' /\ Read(n)'
  BY <1>1 DEF Disk, Working, Read
<1>3. Placed' => Match(n)'
  BY <1>1 DEF Disk, Match, Matched, Apart, Found, Deltas, Files, Size, TopNode, Top,
     Swapping, Placed
<1>4. Whole' => Lies(n)'
  BY <1>1 DEF Disk, Lies, Room, Size, TopNode, Top, Whole, Placed
<1>5. Stored' => Fitting(n)'
  BY <1>1 DEF Disk, Fitting, Fits, Formats, Size, TopNode, Top, Stored, Placed
<1>6. Followed' => Running(n)'
  BY <1>1 DEF Disk, Running, Found, Swapping, Followed, Placed
<1>7. Returned' => Tidy(n)'
  <2>1. Returned' => Tidy(n)
    BY DEF Disk, Returned
  <2>2. Tidy(n) => Tidy(n)'
    BY <1>1 DEF Tidy, Owns
  <2> QED
    BY <2>1, <2>2
<1> QED
  BY <1>2, <1>3, <1>4, <1>5, <1>6, <1>7 DEF Disk

\* Nothing that a call works with is there before the disk is.
LEMMA NoDisk ==
  ASSUME Inv, dd = None
  PROVE  /\ Now = Idle /\ dev = None /\ mnt = "none" /\ names["delta"] = None
         /\ \A p \in Proc : ~Holds(call[p])
<1>1. Disk(Now) /\ Listed /\ Control
  BY DEF Inv
<1>2. ~Holds(Now)
  BY <1>1 DEF Disk, Read
<1>3. Now = Idle
  BY <1>2 DEF Now
<1>4. dev = None /\ names["delta"] = None /\ mnt = "none"
  BY <1>1 DEF Listed, Disk, Working
<1>5. \A p \in Proc : ~Holds(call[p])
  BY <1>2, NowIs
<1> QED
  BY <1>3, <1>4, <1>5

\* The call at work, or none.
LEMMA NowHolds == Now = Idle \/ Holds(Now)
BY DEF Now

\* The step of a call that is not at work under the lock.
LEMMA Aside ==
  ASSUME Inv, NEW p \in Proc, ~Holds(call[p]), NEW c2 \in Calls, Becomes(p, c2),
         Steps(c2), ~Holds(c2), c2 = Idle => call[p] = Idle,
         UNCHANGED lock, windows \subseteq windows',
         Shapes', Listed', Making',
         Whole' => \A q \in Proc : NoFs(call'[q]) => fs' = 0,
         NEW n, n = Now, Disk(n)'
  PROVE  Inv'
<1>1. /\ call' \in [Proc -> Calls] /\ call'[p] = c2
      /\ \A q \in Proc : q # p => call'[q] = call[q]
  BY DEF Becomes, Inv, Types
<1>2. Control'
  BY <1>1 DEF Inv, Control
<1>3. lock \in Proc \cup {None}
  BY DEF Inv, Types, Shapes
<1>4. Now' = n
  BY <1>1, <1>3 DEF Now
<1>5. \A q \in Proc : lock' = q /\ call'[q] = Idle => "lock kept" \in windows'
  BY <1>1 DEF Inv
<1> QED
  BY <1>1, <1>2, <1>4, <1>5 DEF Inv, Types

\* A step beside the calls.
LEMMA Beside ==
  ASSUME Inv, UNCHANGED <<call, lock, windows>>,
         Shapes', Listed', Making',
         Whole => \A p \in Proc : NoFs(call[p]) => fs' = 0,
         NEW n, n = Now, Disk(n)'
  PROVE  Inv'
<1>1. Control' /\ Types' /\ Now' = n
  BY DEF Inv, Types, Control, Now
<1>2. \A q \in Proc : lock' = q /\ call'[q] = Idle => "lock kept" \in windows'
  BY DEF Inv
<1> QED
  BY <1>1, <1>2 DEF Inv, Whole, Placed

\* A call ends: it returns, its caller is killed, or it forgets its lock.
LEMMA Quit ==
  ASSUME Inv, NEW p \in Proc, Becomes(p, Idle), Still, windows \subseteq windows',
         lock' = lock \/ (lock = p /\ lock' = None),
         lock' = p => "lock kept" \in windows',
         wanted' \in BOOLEAN,
         ~Holds(call[p]) => UNCHANGED wanted,
         Holds(call[p]) => Disk(Idle)'
  PROVE  Inv'
<1>1. Idle \in Calls /\ Steps(Idle) /\ ~Holds(Idle) /\ ~Makes(Idle) /\ ~NoFs(Idle)
      /\ Idle.pc # "c_fill" /\ Idle.pc # "c_store"
  BY DEF Idle, Calls, Steps, Holds, Makes, NoFs, Modes, Targets, Thens, Elses
<1>2. /\ call' \in [Proc -> Calls] /\ call'[p] = Idle
      /\ \A q \in Proc : q # p => call'[q] = call[q]
  BY <1>1 DEF Becomes, Inv, Types
<1>3. UNCHANGED <<dd, tmp, names, nodes, dev, mnt, part, fs>>
  BY DEF Still, store, kernel, layout
<1>4. lock \in Proc \cup {None} /\ lock' \in Proc \cup {None} /\ None \notin Proc
  BY NoneAssumption DEF Inv, Types, Shapes
<1>5. Shapes'
  BY <1>3, <1>4 DEF Inv, Types, Shapes
<1>6. Listed'
  BY <1>3 DEF Inv, Listed, Distinct
<1>7. Making'
  <2>1. Making
    BY DEF Inv
  <2>2. \A q \in Proc : Makes(call'[q]) => Makes(call[q])
    BY <1>1, <1>2
  <2> QED
    BY <1>1, <1>2, <1>3, <2>1, <2>2 DEF Making
<1>8. Control'
  <2>1. Control
    BY DEF Inv
  <2> QED
    BY <1>1, <1>2, <1>4, <2>1 DEF Control
<1>9. Disk(Now)'
  <2>1. CASE Holds(call[p])
    <3>1. Now' = Idle
      BY <1>1, <1>2, <1>4, <2>1, NowIs DEF Now
    <3> QED
      BY <2>1, <3>1
  <2>2. CASE ~Holds(call[p])
    <3> PICK n : n = Now
      OBVIOUS
    <3>1. Now' = n
      BY <1>1, <1>2, <1>4, <2>2 DEF Now
    <3>2. Disk(n)
      BY DEF Inv
    <3>3. Disk(n)'
      BY <2>2, <3>2, Lasts
    <3> QED
      BY <3>1, <3>3
  <2> QED
    BY <2>1, <2>2
<1>10. Whole' => \A q \in Proc : NoFs(call'[q]) => fs' = 0
  BY <1>1, <1>2, <1>3 DEF Inv, Whole, Placed
<1>11. \A q \in Proc : lock' = q /\ call'[q] = Idle => "lock kept" \in windows'
  BY <1>2, <1>4 DEF Inv
<1> QED
  BY <1>2, <1>5, <1>6, <1>7, <1>8, <1>9, <1>10, <1>11 DEF Inv, Types

\* A disk in use is refused and the lock stays with the process.
LEMMA check_ddInv ==
  ASSUME Inv, NEW p \in Proc, check_dd(p), "dropped" \notin windows'
  PROVE  Inv'
<1> PICK c \in Calls : c = call[p]
  BY DEF Inv, Types
<1>1. Steps(c) /\ Holds(c) /\ c.pc = "locked" /\ c.op = "check" /\ Now = c /\ lock = p
  BY NowIs DEF Inv, Control, check_dd, Holds, Entry, At
<1>2. Disk(c) /\ Types
  BY <1>1 DEF Inv
<1>3. \/ /\ Still /\ windows' = windows
         /\ Go(p, "ok") \/ Go(p, "fail")
      \/ /\ Still /\ windows' = windows \cup {"lock kept"} /\ UNCHANGED <<lock, wanted>>
         /\ Becomes(p, Idle)
  BY DEF check_dd, NoFault, Still, Becomes
<1>4. CASE /\ Still /\ windows' = windows
           /\ Go(p, "ok") \/ Go(p, "fail")
  <2>1. PICK pc \in EndPc : Go(p, pc)
    BY <1>4
  <2>2. PICK c2 \in Calls : Becomes(p, c2) /\ Goes(c2, c, pc) /\ UNCHANGED <<lock, wanted>>
    BY <1>2, <2>1, GoIs
  <2>3. /\ c2.op = "check" /\ c2.pc = pc /\ c2.di = c.di /\ ~c2.own /\ ~c2.umfs
        /\ Steps(c2) /\ Holds(c2)
    BY <1>1, <2>2 DEF Goes, Same, Like, Steps, Holds
  <2>4. Working(c2) /\ Read(c2)
    BY <1>1, <1>2, <2>3 DEF Disk, Working, Read, Holds
  <2>5. Placed' => Match(c2)
    BY <1>1, <1>2, <1>4, <2>3 DEF Disk, Match, Apart, Swapping, Placed
  <2>6. Whole' => Lies(c2)
    BY <1>1, <1>2, <1>4, <2>3 DEF Disk, Lies, Whole, Placed
  <2>7. Stored' => Fitting(c2)
    BY <1>1, <1>2, <1>4, <2>3 DEF Disk, Fitting, Stored, Placed
  <2>8. Followed' => Running(c2)
    BY <1>1, <1>2, <1>4, <2>3 DEF Disk, Running, Swapping, Followed, Placed
  <2>9. Returned' => Tidy(c2)
    BY <1>1, <1>2, <1>4, <2>3 DEF Disk, Tidy, Owns, Returned
  <2>10. Finds(IF Holds(c2) THEN c2 ELSE Idle)
    BY <2>3, <2>4, <2>5, <2>6, <2>7, <2>8, <2>9 DEF Finds
  <2>11. Moved(p, c2) /\ ~NoFs(c2)
    BY <1>4, <2>2, <2>3 DEF Moved, Still, store, kernel, layout, NoFs
  <2> QED
    BY <1>1, <1>4, <2>3, <2>10, <2>11, Move
<1>5. CASE /\ Still /\ windows' = windows \cup {"lock kept"} /\ UNCHANGED <<lock, wanted>>
           /\ Becomes(p, Idle)
  <2>1. Working(Idle) /\ Read(Idle)
    BY <1>2, IdleIs DEF Disk, Working, Read, Holds
  <2>2. Placed => Match(Idle)
    BY <1>1, <1>2, IdleIs DEF Disk, Match, Apart, Swapping
  <2>3. Whole => Lies(Idle)
    BY <1>1, <1>2, IdleIs DEF Disk, Lies
  <2>4. Stored => Fitting(Idle)
    BY <1>1, <1>2, IdleIs DEF Disk, Fitting
  <2>5. Followed => Running(Idle)
    BY <1>1, <1>2, IdleIs DEF Disk, Running, Swapping
  <2>6. Returned => Tidy(Idle)
    BY <1>1, <1>2, IdleIs DEF Disk, Tidy, Owns
  <2>7. Disk(Idle)
    BY <2>1, <2>2, <2>3, <2>4, <2>5, <2>6 DEF Disk
  <2>8. wanted' \in BOOLEAN
    BY <1>2, <1>5 DEF Types, Shapes
  <2>9. PICK n : n = Idle
    OBVIOUS
  <2>10. Disk(n)'
    BY <1>5, <2>7, <2>9, Lasts
  <2>11. Disk(Idle)'
    BY <2>9, <2>10
  <2> QED
    BY <1>1, <1>5, <2>8, <2>11, Quit
<1> QED
  BY <1>3, <1>4, <1>5

\* A call returns.
LEMMA ReplyInv ==
  ASSUME Inv, NEW p \in Proc, Reply(p), "dropped" \notin windows'
  PROVE  Inv'
<1> PICK c \in Calls : c = call[p]
  BY DEF Inv, Types
<1>1. /\ c.pc \in EndPc /\ Steps(c) /\ Still /\ windows' = windows /\ Becomes(p, Idle)
      /\ lock' = IF lock = p THEN None ELSE lock
      /\ wanted' = IF c.pc = "ok" /\ c.op = "mount" THEN TRUE
                   ELSE IF c.pc = "ok" /\ c.op = "umount" THEN FALSE ELSE wanted
  BY DEF Reply, Inv, Control, Still, Becomes
<1>2. lock' # p /\ wanted' \in BOOLEAN
  BY <1>1, NoneAssumption DEF Inv, Types, Shapes
<1>3. ~Holds(c) => UNCHANGED wanted
  BY <1>1 DEF Holds
<1>4. Holds(c) => Disk(Idle)'
  <2> SUFFICES ASSUME Holds(c) PROVE Disk(Idle)'
    OBVIOUS
  <2>1. Disk(c)
    BY NowIs DEF Inv
  <2>2. UNCHANGED <<dd, tmp, names, nodes, dev, mnt, part, fs, windows>>
    BY <1>1 DEF Still, store, kernel, layout
  <2>3. Working(Idle)' /\ Read(Idle)'
    BY <2>1, <2>2, IdleIs DEF Disk, Working, Read, Holds
  <2>4. Placed' => Match(Idle)'
    BY <1>1, <2>1, <2>2, IdleIs
       DEF Disk, Match, Matched, Apart, Found, Deltas, Files, Size, TopNode, Top, Swapping, Placed
  <2>5. Whole' => Lies(Idle)'
    BY <1>1, <2>1, <2>2, IdleIs DEF Disk, Lies, Room, Size, TopNode, Top, Whole, Placed
  <2>6. Stored' => Fitting(Idle)'
    BY <1>1, <2>1, <2>2, IdleIs DEF Disk, Fitting, Fits, Formats, Size, TopNode, Top,
       Stored, Placed
  <2>7. Followed' => Running(Idle)'
    BY <1>1, <2>1, <2>2, IdleIs DEF Disk, Running, Found, Swapping, Followed, Placed
  <2>8. Returned' => Tidy(Idle)'
    <3>1. Returned' => Tidy(c)
      BY <2>1, <2>2 DEF Disk, Returned
    <3>2. ~Owns(c) /\ ~Owns(Idle) /\ ~Owns(Idle)'
      BY <1>1, IdleIs DEF Owns
    <3>3. Tidy(c) => (wanted' <=> dev' # None)
      BY <1>1, <2>2, <3>2 DEF Tidy
    <3>4. Tidy(c) => mnt' # "temp" /\ tmp' = None /\ names'["image.tmp"] = None
      BY <1>1, <2>2 DEF Tidy
    <3> QED
      BY <3>1, <3>2, <3>3, <3>4, IdleIs DEF Tidy
  <2> QED
    BY <2>3, <2>4, <2>5, <2>6, <2>7, <2>8 DEF Disk
<1> QED
  BY <1>1, <1>2, <1>3, <1>4, Quit

\* A caller is killed.
LEMMA KillInv ==
  ASSUME Inv, NEW p \in Proc, Kill(p), "dropped" \notin windows'
  PROVE  Inv'
<1> PICK c \in Calls : c = call[p]
  BY DEF Inv, Types
<1>1. /\ Steps(c) /\ Still /\ windows' = windows \cup {"killed"} \cup Half(p) /\ Becomes(p, Idle)
      /\ lock' = IF lock = p THEN None ELSE lock
      /\ wanted' = wanted
  BY DEF Kill, Inv, Control, Still, Becomes
<1>2. lock' # p /\ wanted' \in BOOLEAN
  BY <1>1, NoneAssumption DEF Inv, Types, Shapes
<1>3. Holds(c) => Disk(Idle)'
  <2> SUFFICES ASSUME Holds(c) PROVE Disk(Idle)'
    OBVIOUS
  <2>1. Disk(c)
    BY NowIs DEF Inv
  <2>2. UNCHANGED <<dd, tmp, names, nodes, dev, mnt, part, fs>>
    BY <1>1 DEF Still, store, kernel, layout
  <2>3. Working(Idle)' /\ Read(Idle)'
    BY <2>1, <2>2, IdleIs DEF Disk, Working, Read, Holds
  <2>4. Placed' => Placed /\ ~Swapping(c)
    BY <1>1, HalfIs DEF Placed, Swapping
  <2>5. Placed' => Match(Idle)'
    BY <2>1, <2>2, <2>4, IdleIs
       DEF Disk, Match, Matched, Apart, Found, Deltas, Files, Size, TopNode, Top, Swapping
  <2>6. Whole' => Lies(Idle)'
    BY <1>1, <2>1, <2>2, IdleIs DEF Disk, Lies, Room, Size, TopNode, Top, Whole, Placed
  <2>7. Stored' => Stored /\ c.pc \notin {"g_rename", "gi_rename", "cv_conf", "d_store"}
    BY <1>1, HalfIs DEF Stored, Placed, Steps
  <2>8. Stored' => Fitting(Idle)'
    BY <2>1, <2>2, <2>7, IdleIs DEF Disk, Fitting, Fits, Formats, Size, TopNode, Top
  <2>9. Followed' => Followed /\ c.pc # "max_store"
    BY <1>1, HalfIs DEF Followed, Placed, Steps
  <2>10. Followed' => ~Swapping(c)
    BY <2>4 DEF Followed
  <2>11. Followed' => Running(Idle)'
    BY <2>1, <2>2, <2>9, <2>10, IdleIs DEF Disk, Running, Found, Swapping
  <2>12. ~Returned'
    BY <1>1 DEF Returned
  <2> QED
    BY <2>3, <2>5, <2>6, <2>8, <2>11, <2>12 DEF Disk
<1> QED
  BY <1>1, <1>2, <1>3, Quit

\* A process that kept the lock ends.
LEMMA ExitInv ==
  ASSUME Inv, NEW p \in Proc, Exit(p), "dropped" \notin windows'
  PROVE  Inv'
<1>1. /\ lock = p /\ call[p] = Idle /\ lock' = None /\ windows' = windows \ {"lock kept"}
      /\ UNCHANGED <<dd, tmp, names, nodes, dev, mnt, part, fs, call, wanted>>
  BY DEF Exit, store, kernel, layout
<1>2. (Placed' <=> Placed) /\ (Whole' <=> Whole) /\ (Stored' <=> Stored)
  BY <1>1 DEF Placed, Whole, Stored
<1>3. (Followed' <=> Followed) /\ (Returned' <=> Returned)
  BY <1>1, <1>2 DEF Followed, Placed, Returned
<1>4. Now = Idle /\ Now' = Idle
  BY <1>1, IdleIs DEF Now, Holds
<1>5. Disk(Idle)'
  <2>1. Working(Idle)' /\ Read(Idle)'
    BY <1>1, <1>4, IdleIs DEF Inv, Disk, Working, Read, Holds
  <2>2. Placed' => Match(Idle)'
    BY <1>1, <1>2, <1>4
       DEF Inv, Disk, Match, Matched, Apart, Found, Deltas, Files, Size, TopNode, Top, Swapping
  <2>3. Whole' => Lies(Idle)'
    BY <1>1, <1>2, <1>4 DEF Inv, Disk, Lies, Room, Size, TopNode, Top
  <2>4. Stored' => Fitting(Idle)'
    BY <1>1, <1>2, <1>4 DEF Inv, Disk, Fitting, Fits, Formats, Size, TopNode, Top
  <2>5. Followed' => Running(Idle)'
    BY <1>1, <1>3, <1>4 DEF Inv, Disk, Running, Found, Swapping
  <2>6. Returned' => Tidy(Idle)'
    <3>1. Returned' => Tidy(Idle)
      BY <1>3, <1>4 DEF Inv, Disk
    <3>2. Tidy(Idle) => Tidy(Idle)'
      BY <1>1 DEF Tidy, Owns
    <3> QED
      BY <3>1, <3>2
  <2> QED
    BY <2>1, <2>2, <2>3, <2>4, <2>5, <2>6 DEF Disk
<1>6. Types' /\ Listed' /\ Making'
  BY <1>1 DEF Inv, Types, Shapes, Listed, Distinct, Making
<1>7. Control'
  BY <1>1, IdleIs DEF Inv, Control, Holds
<1>8. \A q \in Proc : lock' # q
  BY <1>1, NoneAssumption
<1> QED
  BY <1>1, <1>2, <1>4, <1>5, <1>6, <1>7, <1>8 DEF Inv

-----------------------------------------------------------------------------
(* A call gets the lock.                                                   *)

LEMMA Enter ==
  ASSUME Inv, NEW p \in Proc, lock = None, lock' = p, NEW c2 \in Calls, Becomes(p, c2),
         Still, UNCHANGED <<wanted, windows>>, dd # None,
         Steps(c2), ~c2.own, c2.di = dd, c2.op # "idle",
         \/ c2.pc = "locked"
         \/ c2.pc = "m_check" /\ c2.op = "create" /\ Makes(call[p]) /\ NoFs(call[p])
  PROVE  Inv'
<1>1. UNCHANGED <<dd, tmp, names, nodes, dev, mnt, part, fs, windows, wanted>>
  BY DEF Still, store, kernel, layout
<1>2. /\ call' \in [Proc -> Calls] /\ call'[p] = c2
      /\ \A q \in Proc : q # p => call'[q] = call[q]
  BY DEF Becomes, Inv, Types
<1>3. Holds(c2) /\ Now = Idle /\ Now' = c2
  BY <1>2, NoneAssumption DEF Now, Holds
<1>4. \A q \in Proc : ~Holds(call[q])
  BY NoneAssumption DEF Inv, Control
<1>5. Control'
  BY <1>2, <1>4 DEF Inv, Control
<1>6. Shapes'
  BY <1>1 DEF Inv, Types, Shapes
<1>7. Listed'
  BY <1>1 DEF Inv, Listed, Distinct
<1>8. Makes(c2) => Makes(call[p])
  BY DEF Makes, Steps
<1>9. Making'
  <2>1. Making
    BY DEF Inv
  <2>2. \A q \in Proc : Makes(call'[q]) => Makes(call[q])
    BY <1>2, <1>8
  <2>3. \A q \in Proc : call'[q].pc # "c_fill" /\ (call'[q].pc = "c_store" => dd' # None)
    BY <1>1, <1>2, <2>1 DEF Making
  <2> QED
    BY <1>1, <2>1, <2>2, <2>3 DEF Making
<1>10. Whole' => \A q \in Proc : NoFs(call'[q]) => fs' = 0
  <2>1. NoFs(c2) => NoFs(call[p])
    BY DEF NoFs, Steps
  <2> QED
    BY <1>1, <1>2, <2>1 DEF Inv, Whole, Placed
<1>11. \A q \in Proc : lock' = q /\ call'[q] = Idle => "lock kept" \in windows'
  BY <1>2, IdleIs
<1>12. Disk(c2)'
  <2>1. Disk(Idle)
    BY <1>3 DEF Inv
  <2>2. Working(c2) /\ Read(c2)
    BY <2>1, IdleIs DEF Disk, Working, Read, Steps
  <2>3. Placed => Match(c2)
    BY <2>1, IdleIs DEF Disk, Match, Apart, Swapping
  <2>4. Whole => Lies(c2)
    BY <2>1, IdleIs DEF Disk, Lies
  <2>5. Stored => Fitting(c2)
    BY <2>1, IdleIs DEF Disk, Fitting
  <2>6. Followed => Running(c2)
    BY <2>1, IdleIs DEF Disk, Running, Swapping
  <2>7. Returned => Tidy(c2)
    BY <2>1, IdleIs DEF Disk, Tidy, Owns
  <2>8. Disk(c2)
    BY <2>2, <2>3, <2>4, <2>5, <2>6, <2>7 DEF Disk
  <2> QED
    BY <2>8, Lasts
<1> QED
  BY <1>1, <1>2, <1>3, <1>5, <1>6, <1>7, <1>9, <1>10, <1>11, <1>12 DEF Inv, Types

\* The arguments of a call.
LEMMA ArgumentsIs ==
  \A op \in Locking : \A a \in Arguments(op) :
    a \in Calls /\ ~a.own /\ ~a.umfs /\ a.target # "temp"
<1> SUFFICES ASSUME NEW op \in Locking, NEW a \in Arguments(op)
             PROVE  a \in Calls /\ ~a.own /\ ~a.umfs /\ a.target # "temp"
  OBVIOUS
<1>1. Idle \in Calls /\ ~Idle.own /\ ~Idle.umfs /\ Idle.target = "none"
  BY DEF Idle, Calls, Modes, Targets, Thens, Elses
<1>2. NewSizes \subseteq Nat
  BY DeviceAssumption
<1>3. CASE op = "mount"
  <2>1. CASE \E t \in {"none", "user"} : a = [Idle EXCEPT !.target = t]
    <3>1. PICK t \in {"none", "user"} : a = [Idle EXCEPT !.target = t]
      BY <2>1
    <3>2. t \in Targets /\ t # "temp"
      BY DEF Targets
    <3>3. a \in Calls /\ TargetSet(a, Idle, t)
      BY <1>1, <3>1, <3>2, TargetIs
    <3> QED
      BY <1>1, <3>2, <3>3 DEF TargetSet
  <2>2. CASE a = [Idle EXCEPT !.target = "user", !.flag = TRUE]
    <3>1. a = [[Idle EXCEPT !.target = "user"] EXCEPT !.flag = TRUE]
      BY <1>1, <2>2 DEF Calls
    <3> QED
      BY <1>1, <2>2 DEF Calls, Targets
  <2> QED
    BY <1>3, <2>1, <2>2 DEF Arguments
<1>4. CASE op = "resize"
  <2>1. CASE \E s \in NewSizes : a = [Idle EXCEPT !.size = s]
    BY <1>1, <1>2, <2>1 DEF Calls
  <2>2. CASE \E s \in NewSizes : a = [Idle EXCEPT !.size = s, !.flag = TRUE]
    <3>1. PICK s \in Nat : a = [Idle EXCEPT !.size = s, !.flag = TRUE]
      BY <1>2, <2>2
    <3> PICK d : d = [Idle EXCEPT !.size = s]
      OBVIOUS
    <3>3. d \in Calls /\ ~d.own /\ ~d.umfs /\ d.target = "none"
      BY <1>1 DEF Calls
    <3>2. a = [d EXCEPT !.flag = TRUE]
      BY <1>1, <3>1 DEF Calls
    <3> QED
      BY <3>2, <3>3 DEF Calls
  <2> QED
    BY <1>4, <2>1, <2>2 DEF Arguments
<1>5. CASE op = "grow"
  <2>1. PICK s \in Nat : a = [Idle EXCEPT !.size = s]
    BY <1>2, <1>5 DEF Arguments
  <2> QED
    BY <1>1, <2>1 DEF Calls
<1>6. CASE op = "replace"
  <2>1. PICK k \in BOOLEAN : a = [Idle EXCEPT !.flag = k]
    BY <1>6 DEF Arguments
  <2> QED
    BY <1>1, <2>1 DEF Calls
<1>7. CASE op = "convert"
  <2>1. PICK m \in Modes : a = [Idle EXCEPT !.mode = m]
    BY <1>7 DEF Arguments
  <2> QED
    BY <1>1, <2>1 DEF Calls
<1>8. CASE op = "umount"
  <2>1. a = Idle
    BY <1>8 DEF Arguments
  <2> QED
    BY <1>1, <2>1
<1>9. CASE op = "max"
  <2>1. a = Idle
    BY <1>9 DEF Arguments
  <2> QED
    BY <1>1, <2>1
<1>10. CASE op = "check"
  <2>1. a = Idle
    BY <1>10 DEF Arguments
  <2> QED
    BY <1>1, <2>1
<1> QED
  BY <1>3, <1>4, <1>5, <1>6, <1>7, <1>8, <1>9, <1>10

OpSet(a, b, v) ==
  /\ a.op = v
  /\ a.pc = b.pc /\ a.di = b.di /\ a.size = b.size /\ a.mode = b.mode /\ a.flag = b.flag
  /\ a.own = b.own /\ a.umfs = b.umfs /\ a.target = b.target /\ a.then = b.then /\ a.else = b.else

LEMMA OpIs ==
  \A c \in Calls : \A v \in Locking :
    [c EXCEPT !.op = v] \in Calls /\ OpSet([c EXCEPT !.op = v], c, v)
BY DEF Calls, OpSet

CallSet(c2, a, op, d) ==
  /\ c2 \in Calls /\ c2.op = op /\ c2.di = d /\ c2.pc = "locked"
  /\ c2.own = a.own /\ c2.umfs = a.umfs /\ c2.target = a.target

LEMMA CallIs ==
  \A a \in Calls : \A op \in Locking : \A d \in Descriptor :
    CallSet([a EXCEPT !.op = op, !.di = d, !.pc = "locked"], a, op, d)
<1> SUFFICES ASSUME NEW a \in Calls, NEW op \in Locking, NEW d \in Descriptor
             PROVE  CallSet([a EXCEPT !.op = op, !.di = d, !.pc = "locked"], a, op, d)
  OBVIOUS
<1> PICK d1 \in Calls : d1 = [a EXCEPT !.op = op] /\ OpSet(d1, a, op)
  BY OpIs
<1> PICK d2 \in Calls : d2 = [d1 EXCEPT !.di = d] /\ DiSet(d2, d1, d)
  BY DiIs
<1> PICK d3 \in Calls : d3 = [d2 EXCEPT !.pc = "locked"] /\ PcSet(d3, d2, "locked")
  BY PcIs
<1>1. d3 = [a EXCEPT !.op = op, !.di = d, !.pc = "locked"]
  BY DEF Calls
<1> QED
  BY <1>1 DEF CallSet, OpSet, DiSet, PcSet

\* A call reads the descriptor under the lock.
LEMMA ploop_lock_ddInv ==
  ASSUME Inv, NEW p \in Proc, ploop_lock_dd(p), "dropped" \notin windows'
  PROVE  Inv'
<1>1. dd # None /\ Still /\ UNCHANGED <<wanted, windows>>
  BY DEF ploop_lock_dd, Still
<1>2. dd \in Descriptor /\ Types
  BY <1>1 DEF Inv, Types, Shapes
<1> DEFINE Begins(op, a) ==
      /\ lock = None
      /\ lock' = p
      /\ call' = [call EXCEPT ![p] = [a EXCEPT !.op = op, !.di = dd, !.pc = "locked"]]
<1>3. \E op \in Locking : \E a \in Arguments(op) :
        /\ call[p] = Idle
        /\ op = "replace" => dd.base # "copy"
        /\ Begins(op, a) \/ UNCHANGED <<lock, call>>
  BY DEF ploop_lock_dd
<1>4. CASE UNCHANGED <<lock, call>>
  <2> PICK n : n = Now
    OBVIOUS
  <2>1. Disk(n)'
    BY <1>1, Lasts DEF Inv
  <2>2. Shapes' /\ Listed' /\ Making'
    BY <1>1, <1>4 DEF Inv, Types, Shapes, Listed, Distinct, Making, Still, store, kernel, layout
  <2>3. Whole => \A q \in Proc : NoFs(call[q]) => fs' = 0
    BY <1>1 DEF Inv, Still, layout
  <2> QED
    BY <1>1, <1>4, <2>1, <2>2, <2>3, Beside
<1>5. ASSUME NEW op \in Locking, NEW a \in Arguments(op), Begins(op, a),
             op = "replace" => dd.base # "copy"
      PROVE  Inv'
  <2>1. a \in Calls /\ ~a.own /\ ~a.umfs /\ a.target # "temp"
    BY <1>5, ArgumentsIs
  <2> PICK c2 : c2 = [a EXCEPT !.op = op, !.di = dd, !.pc = "locked"]
    OBVIOUS
  <2>2. /\ c2 \in Calls /\ c2.op = op /\ c2.di = dd /\ c2.pc = "locked"
        /\ ~c2.own /\ ~c2.umfs /\ c2.target # "temp"
    <3>1. CallSet([a EXCEPT !.op = op, !.di = dd, !.pc = "locked"], a, op, dd)
      BY <1>2, <2>1, CallIs
    <3>2. CallSet(c2, a, op, dd)
      BY <3>1
    <3> QED
      BY <2>1, <3>2 DEF CallSet
  <2>3. Becomes(p, c2) /\ c2.op # "idle"
    BY <1>5, <2>2 DEF Becomes
  <2>4. op = "replace" => dd.base = "image"
    BY <1>2, <1>5 DEF Descriptor
  <2>5. Steps(c2)
    BY <1>1, <2>2, <2>4 DEF Steps, Holds
  <2> QED
    BY <1>1, <1>5, <2>2, <2>3, <2>5, Enter
<1> QED
  BY <1>3, <1>4, <1>5

-----------------------------------------------------------------------------
(* The creator.                                                            *)

\* A step of it that changes nothing but the call.
LEMMA Waits ==
  ASSUME Inv, NEW p \in Proc, ~Holds(call[p]), NEW c2 \in Calls, Becomes(p, c2),
         Steps(c2), ~Holds(c2), c2 = Idle => call[p] = Idle,
         Still, UNCHANGED <<lock, wanted>>, windows \subseteq windows',
         Makes(c2) => Makes(call[p]), NoFs(c2) => NoFs(call[p]),
         c2.pc \notin {"c_fill", "c_store"}
  PROVE  Inv'
<1> PICK n : n = Now
  OBVIOUS
<1>1. UNCHANGED <<dd, tmp, names, nodes, dev, mnt, part, fs>>
  BY DEF Still, store, kernel, layout
<1>2. /\ call'[p] = c2
      /\ \A q \in Proc : q # p => call'[q] = call[q]
  BY DEF Becomes, Inv, Types
<1>3. Shapes' /\ Listed'
  BY <1>1 DEF Inv, Types, Shapes, Listed, Distinct
<1>4. Making'
  <2>1. Making
    BY DEF Inv
  <2>2. \A q \in Proc : Makes(call'[q]) => Makes(call[q])
    BY <1>2
  <2>3. \A q \in Proc : call'[q].pc \in {"c_fill", "c_store"} => call'[q] = call[q]
    BY <1>2
  <2> QED
    BY <1>1, <2>1, <2>2, <2>3 DEF Making
<1>5. Whole' => \A q \in Proc : NoFs(call'[q]) => fs' = 0
  BY <1>1, <1>2 DEF Inv, Whole, Placed
<1>6. Disk(n)'
  BY Lasts DEF Inv
<1> QED
  BY <1>3, <1>4, <1>5, <1>6, Aside

\* A call that makes an image is not at work under the lock, nor is one that begins.
LEMMA OutsideIs ==
  ASSUME Inv, NEW p \in Proc, call[p].pc \in MakePc
  PROVE  ~Holds(call[p]) /\ call[p].op = "create" /\ Steps(call[p]) /\ call[p] \in Calls
         /\ call[p] # Idle /\ (call[p].pc # "c_drop" => ~call[p].own /\ ~call[p].umfs)
<1>1. Steps(call[p]) /\ call[p] \in Calls
  BY DEF Inv, Control, Types
<1>2. call[p].op = "create"
  BY <1>1 DEF Steps
<1>3. ~Holds(call[p])
  BY <1>2 DEF Holds
<1>4. call[p] # Idle
  BY IdleIs
<1>5. call[p].pc # "c_drop" => ~call[p].own /\ ~call[p].umfs
  BY <1>1 DEF Steps
<1> QED
  BY <1>1, <1>2, <1>3, <1>4, <1>5

\* The creator gives back its lock before it removes what it made.
LEMMA ploop_unlock_ddInv ==
  ASSUME Inv, NEW p \in Proc, ploop_unlock_dd(p), "dropped" \notin windows'
  PROVE  Inv'
<1>1. /\ lock = p /\ call[p].pc = "c_drop" /\ lock' = None /\ windows' = windows
      /\ UNCHANGED <<dd, tmp, names, nodes, dev, mnt, part, fs, call, wanted>>
  BY DEF ploop_unlock_dd, At, NoFault, store, kernel, layout
<1>2. (Placed' <=> Placed) /\ (Whole' <=> Whole) /\ (Stored' <=> Stored)
  BY <1>1 DEF Placed, Whole, Stored
<1>3. (Followed' <=> Followed) /\ (Returned' <=> Returned)
  BY <1>1, <1>2 DEF Followed, Placed, Returned
<1>4. Now = Idle /\ Now' = Idle /\ ~Holds(call[p])
  <2>1. ~Holds(call[p])
    BY <1>1, OutsideIs DEF MakePc
  <2> QED
    BY <1>1, <2>1 DEF Now
<1>5. Disk(Idle)'
  <2>1. Working(Idle)' /\ Read(Idle)'
    BY <1>1, <1>4, IdleIs DEF Inv, Disk, Working, Read, Holds
  <2>2. Placed' => Match(Idle)'
    BY <1>1, <1>2, <1>4
       DEF Inv, Disk, Match, Matched, Apart, Found, Deltas, Files, Size, TopNode, Top, Swapping
  <2>3. Whole' => Lies(Idle)'
    BY <1>1, <1>2, <1>4 DEF Inv, Disk, Lies, Room, Size, TopNode, Top
  <2>4. Stored' => Fitting(Idle)'
    BY <1>1, <1>2, <1>4 DEF Inv, Disk, Fitting, Fits, Formats, Size, TopNode, Top
  <2>5. Followed' => Running(Idle)'
    BY <1>1, <1>3, <1>4 DEF Inv, Disk, Running, Found, Swapping
  <2>6. Returned' => Tidy(Idle)'
    <3>1. Returned' => Tidy(Idle)
      BY <1>3, <1>4 DEF Inv, Disk
    <3>2. Tidy(Idle) => Tidy(Idle)'
      BY <1>1 DEF Tidy, Owns
    <3> QED
      BY <3>1, <3>2
  <2> QED
    BY <2>1, <2>2, <2>3, <2>4, <2>5, <2>6 DEF Disk
<1>6. Types' /\ Listed' /\ Making'
  BY <1>1 DEF Inv, Types, Shapes, Listed, Distinct, Making
<1>7. Control'
  BY <1>1, <1>4 DEF Inv, Control
<1>8. \A q \in Proc : lock' # q
  BY <1>1, NoneAssumption
<1> QED
  BY <1>1, <1>2, <1>4, <1>5, <1>6, <1>7, <1>8 DEF Inv

LEMMA FieldsIs ==
  /\ \A c \in Calls : [c EXCEPT !.op = "create"] \in Calls
  /\ \A c \in Calls : \A v \in Nat : [c EXCEPT !.size = v] \in Calls
  /\ \A c \in Calls : \A v \in Modes : [c EXCEPT !.mode = v] \in Calls
  /\ \A c \in Calls : \A v \in BOOLEAN : [c EXCEPT !.flag = v] \in Calls
<1>1. \A c \in Calls : [c EXCEPT !.op = "create"] \in Calls
  BY DEF Calls
<1>2. \A c \in Calls : \A v \in Nat : [c EXCEPT !.size = v] \in Calls
  BY DEF Calls
<1>3. \A c \in Calls : \A v \in Modes : [c EXCEPT !.mode = v] \in Calls
  BY DEF Calls
<1>4. \A c \in Calls : \A v \in BOOLEAN : [c EXCEPT !.flag = v] \in Calls
  BY DEF Calls
<1> QED
  BY <1>1, <1>2, <1>3, <1>4

LEMMA CreateInv ==
  ASSUME Inv, NEW p \in Proc, Create(p), "dropped" \notin windows'
  PROVE  Inv'
<1> DEFINE First(s, m, withfs) ==
      [Idle EXCEPT !.op = "create", !.pc = "c_init", !.size = s, !.mode = m, !.flag = withfs]
<1>1. PICK s \in Nat : \E m \in Modes, withfs \in BOOLEAN : Call(p, First(s, m, withfs))
  BY DeviceAssumption DEF Create
<1>2. PICK m \in Modes : \E withfs \in BOOLEAN : Call(p, First(s, m, withfs))
  BY <1>1
<1>3. PICK withfs \in BOOLEAN : Call(p, First(s, m, withfs))
  BY <1>2
<1> PICK c2 : c2 = First(s, m, withfs)
  OBVIOUS
<1>4. /\ call[p] = Idle /\ Becomes(p, c2) /\ Still /\ UNCHANGED <<lock, wanted, windows>>
  BY <1>3 DEF Call, Becomes, Still
<1>5. /\ c2.op = "create" /\ c2.pc = "c_init" /\ c2.size = s /\ c2.mode = m /\ c2.flag = withfs
      /\ ~c2.own /\ ~c2.umfs /\ c2.target = "none" /\ c2.then = "ok" /\ c2.else = "fail" /\ c2.di = None
  BY DEF Idle
<1>6. c2 = [op |-> "create", pc |-> "c_init", di |-> None, size |-> s, mode |-> m,
            flag |-> withfs, own |-> FALSE, umfs |-> FALSE, target |-> "none",
            then |-> "ok", else |-> "fail"]
  BY DEF Idle
<1>7. c2 \in Calls
  <2>1. Idle \in Calls
    BY DEF Idle, Calls, Modes, Targets, Thens, Elses
  <2> PICK d1 : d1 = [Idle EXCEPT !.pc = "c_init"]
    OBVIOUS
  <2> PICK d2 : d2 = [d1 EXCEPT !.op = "create"]
    OBVIOUS
  <2> PICK d3 : d3 = [d2 EXCEPT !.size = s]
    OBVIOUS
  <2> PICK d4 : d4 = [d3 EXCEPT !.mode = m]
    OBVIOUS
  <2> PICK d5 : d5 = [d4 EXCEPT !.flag = withfs]
    OBVIOUS
  <2>2. d1 \in Calls
    BY <2>1, PcIs
  <2>3. d2 \in Calls
    BY <2>2, FieldsIs
  <2>4. d3 \in Calls
    BY <1>1, <2>3, FieldsIs
  <2>5. d4 \in Calls
    BY <1>2, <2>4, FieldsIs
  <2>6. d5 \in Calls
    BY <1>3, <2>5, FieldsIs
  <2>7. c2 = d5
    BY <1>6 DEF Idle
  <2> QED
    BY <2>6, <2>7
<1>8. Steps(c2) /\ ~Holds(c2) /\ c2 # Idle /\ ~Makes(c2) /\ ~NoFs(c2)
  BY <1>5, IdleIs DEF Steps, Holds, Makes, NoFs
<1>9. ~Holds(call[p])
  BY <1>4, IdleIs DEF Holds
<1> QED
  BY <1>4, <1>5, <1>7, <1>8, <1>9, Waits

LEMMA init_ddInv ==
  ASSUME Inv, NEW p \in Proc, init_dd(p), "dropped" \notin windows'
  PROVE  Inv'
<1>1. call[p].pc = "c_init" /\ Still /\ windows' = windows /\ Types
  BY DEF init_dd, At, NoFault, Still, Inv
<1>2. PICK pc \in {"fail", "c_image"} : Go(p, pc)
  BY DEF init_dd
<1>3. PICK c2 \in Calls : Becomes(p, c2) /\ Goes(c2, call[p], pc) /\ UNCHANGED <<lock, wanted>>
  BY <1>1, <1>2, GoIs
<1>4. c2.pc = pc /\ c2.op = "create" /\ ~c2.own /\ ~c2.umfs
  BY <1>1, <1>3, OutsideIs DEF Goes, Same, Like
<1>5. Steps(c2) /\ ~Holds(c2) /\ c2 # Idle /\ ~Makes(c2) /\ ~NoFs(c2)
  BY <1>4, IdleIs DEF Steps, Holds, Makes, NoFs
<1> QED
  BY <1>1, <1>3, <1>4, <1>5, OutsideIs, Waits

LEMMA CreateCleanInv ==
  ASSUME Inv, NEW p \in Proc, CreateClean(p), "dropped" \notin windows'
  PROVE  Inv'
<1>1. call[p].pc = "c_clean" /\ Types /\ Go(p, "fail") /\ dd' = None
      /\ windows' = windows \cup When(dd # None, "dropped")
  BY DEF CreateClean, At, Inv
<1>2. dd = None /\ windows' = windows
  BY <1>1 DEF When
<1>3. Still
  BY <1>1, <1>2 DEF CreateClean, Still, store
<1>4. PICK c2 \in Calls : Becomes(p, c2) /\ Goes(c2, call[p], "fail") /\ UNCHANGED <<lock, wanted>>
  BY <1>1, GoIs
<1>5. c2.pc = "fail" /\ c2.op = "create" /\ ~c2.own /\ ~c2.umfs
  BY <1>1, <1>4, OutsideIs DEF Goes, Same, Like
<1>6. Steps(c2) /\ ~Holds(c2) /\ c2 # Idle /\ ~Makes(c2) /\ ~NoFs(c2)
  BY <1>5, IdleIs DEF Steps, Holds, Makes, NoFs
<1> QED
  BY <1>1, <1>2, <1>3, <1>4, <1>5, <1>6, OutsideIs, Waits

LEMMA ploop_init_imageInv ==
  ASSUME Inv, NEW p \in Proc, ploop_init_image(p), "dropped" \notin windows'
  PROVE  Inv'
<1> PICK c \in Calls : c = call[p]
  BY DEF Inv, Types
<1>1. c.pc = "c_lock" /\ Still /\ windows' = windows /\ Types
  BY DEF ploop_init_image, At, NoFault, Still, Inv
<1>2. ~Holds(c) /\ c.op = "create" /\ Steps(c) /\ c # Idle /\ ~c.own /\ ~c.umfs
  BY <1>1, OutsideIs
<1>3. \/ /\ lock = None /\ dd # None /\ lock' = p /\ UNCHANGED wanted
         /\ call' = [call EXCEPT ![p].di = dd, ![p].pc = "m_check", ![p].target = "none",
                                 ![p].then = "c_gpt", ![p].else = "c_err"]
      \/ Go(p, "c_drop")
  BY DEF ploop_init_image
<1>4. Makes(c) /\ NoFs(c)
  BY <1>1, <1>2 DEF Makes, NoFs
<1>5. CASE Go(p, "c_drop")
  <2>1. PICK c2 \in Calls : Becomes(p, c2) /\ Goes(c2, c, "c_drop") /\ UNCHANGED <<lock, wanted>>
    BY <1>1, <1>5, GoIs
  <2>2. c2.pc = "c_drop" /\ c2.op = "create" /\ ~c2.own /\ ~c2.umfs
    BY <1>2, <2>1 DEF Goes, Same, Like
  <2>3. Steps(c2) /\ ~Holds(c2) /\ c2 # Idle
    BY <2>2, IdleIs DEF Steps, Holds
  <2> QED
    BY <1>1, <1>2, <1>4, <2>1, <2>2, <2>3, Waits
<1>6. CASE /\ lock = None /\ dd # None /\ lock' = p /\ UNCHANGED wanted
           /\ call' = [call EXCEPT ![p].di = dd, ![p].pc = "m_check", ![p].target = "none",
                                   ![p].then = "c_gpt", ![p].else = "c_err"]
  <2>1. dd \in Descriptor
    BY <1>6 DEF Inv, Types, Shapes
  <2> PICK d1 \in Calls : d1 = [c EXCEPT !.di = dd] /\ DiSet(d1, c, dd)
    BY <2>1, DiIs
  <2> PICK d2 \in Calls : d2 = [d1 EXCEPT !.pc = "m_check"] /\ PcSet(d2, d1, "m_check")
    BY PcIs
  <2> PICK d3 \in Calls : d3 = [d2 EXCEPT !.target = "none"] /\ TargetSet(d3, d2, "none")
    BY TargetIs DEF Targets
  <2> PICK d4 \in Calls : d4 = [d3 EXCEPT !.then = "c_gpt"] /\ ThenSet(d4, d3, "c_gpt")
    BY ThenIs DEF Thens
  <2> PICK c2 \in Calls : c2 = [d4 EXCEPT !.else = "c_err"] /\ ElseSet(c2, d4, "c_err")
    BY ElseIs DEF Elses
  <2>2. Becomes(p, c2)
    BY <1>1, <1>6 DEF Becomes, Types
  <2>3. /\ c2.pc = "m_check" /\ c2.op = "create" /\ c2.di = dd /\ ~c2.own /\ ~c2.umfs
        /\ c2.target = "none" /\ c2.then = "c_gpt" /\ c2.else = "c_err"
    BY <1>2 DEF DiSet, PcSet, TargetSet, ThenSet, ElseSet
  <2>4. Steps(c2)
    BY <1>6, <2>3 DEF Steps, Holds
  <2> QED
    BY <1>1, <1>4, <1>6, <2>2, <2>3, <2>4, Enter
<1> QED
  BY <1>3, <1>5, <1>6

\* Without a disk there is nothing that could be wrong with it, apart from what
\* a creator left.
LEMMA EmptyDisk ==
  ASSUME Inv, dd = None, dd' = None, UNCHANGED <<tmp, dev, mnt, wanted, windows>>,
         Whole /\ names'["image"] # None => fs' = 0,
         names'["image.tmp"] = names["image.tmp"]
  PROVE  Disk(Idle)'
<1>1. Disk(Idle) /\ dev = None /\ mnt = "none"
  BY NoDisk DEF Inv
<1>2. Working(Idle)' /\ Read(Idle)'
  BY <1>1, IdleIs DEF Disk, Working, Read, Holds
<1>3. Placed' => Match(Idle)'
  BY <1>1, IdleIs DEF Match, Matched, Apart, Swapping
<1>4. Whole' => Lies(Idle)'
  BY <1>1, IdleIs DEF Lies, Whole, Placed
<1>5. Stored' => Fitting(Idle)'
  BY IdleIs DEF Fitting
<1>6. Followed' => Running(Idle)'
  BY <1>1, IdleIs DEF Running
<1>7. Returned' => Tidy(Idle)'
  <2>1. Returned' => Tidy(Idle)
    BY <1>1 DEF Disk, Returned
  <2>2. Tidy(Idle) => Tidy(Idle)'
    BY DEF Tidy, Owns
  <2> QED
    BY <2>1, <2>2
<1> QED
  BY <1>2, <1>3, <1>4, <1>5, <1>6, <1>7 DEF Disk

\* Nobody else makes an image where one is made.
LEMMA OneMaker ==
  ASSUME Inv, NEW p \in Proc, Makes(call[p]), NEW q \in Proc, q # p
  PROVE  ~Makes(call[q]) /\ call[q].pc \notin {"c_fill", "c_store"} /\ ~NoFs(call[q])
<1>1. ~Makes(call[q]) /\ Steps(call[q])
  BY DEF Inv, Making, Control
<1>2. call[q].pc \notin {"c_fill", "c_store"}
  BY <1>1 DEF Makes, Steps
<1> QED
  BY <1>1, <1>2 DEF Makes, NoFs

\* An image file is made, or another creator has it.
LEMMA create_imageInv ==
  ASSUME Inv, NEW p \in Proc, create_image(p), "dropped" \notin windows'
  PROVE  Inv'
<1> PICK c \in Calls : c = call[p]
  BY DEF Inv, Types
<1> DEFINE New == [fmt |-> Format(c.mode), size |-> round_bdsize(c.size), whole |-> FALSE]
<1>1. c.pc = "c_image" /\ UNCHANGED <<dd, tmp, dev, mnt, windows>> /\ Types /\ Shapes /\ Listed
      /\ Making /\ call \in [Proc -> Calls]
  BY DEF create_image, At, NoFault, kernel, Inv, Types
<1>2. ~Holds(c) /\ c.op = "create" /\ Steps(c) /\ c # Idle /\ ~c.own /\ ~c.umfs /\ c.mode \in Modes /\ c.size \in Nat
  BY <1>1, OutsideIs DEF Calls
<1>3. \/ /\ names["image"] = None /\ nodes' = NewNode(Fresh, New)
         /\ names' = [names EXCEPT !["image"] = Fresh]
         /\ part' = 0 /\ fs' = 0
         /\ Go(p, "c_fill")
      \/ UNCHANGED <<names, nodes, part, fs>> /\ Go(p, "c_clean")
  BY DEF create_image, layout
<1>4. CASE UNCHANGED <<names, nodes, part, fs>> /\ Go(p, "c_clean")
  <2>1. PICK c2 \in Calls : Becomes(p, c2) /\ Goes(c2, c, "c_clean") /\ UNCHANGED <<lock, wanted>>
    BY <1>1, <1>4, GoIs
  <2>2. c2.pc = "c_clean" /\ c2.op = "create" /\ ~c2.own /\ ~c2.umfs
    BY <1>2, <2>1 DEF Goes, Same, Like
  <2>3. Steps(c2) /\ ~Holds(c2) /\ c2 # Idle /\ ~Makes(c2) /\ ~NoFs(c2)
    BY <2>2, IdleIs DEF Steps, Holds, Makes, NoFs
  <2>4. Still
    BY <1>1, <1>4 DEF Still, store, kernel, layout
  <2> QED
    BY <1>1, <1>2, <2>1, <2>2, <2>3, <2>4, Waits
<1>5. CASE /\ names["image"] = None /\ nodes' = NewNode(Fresh, New)
           /\ names' = [names EXCEPT !["image"] = Fresh]
           /\ part' = 0 /\ fs' = 0
           /\ Go(p, "c_fill")
  <2>1. PICK c2 \in Calls : Becomes(p, c2) /\ Goes(c2, c, "c_fill") /\ UNCHANGED <<lock, wanted>>
    BY <1>1, <1>5, GoIs
  <2>2. c2.pc = "c_fill" /\ c2.op = "create" /\ ~c2.own /\ ~c2.umfs /\ c2.mode = c.mode /\ c2.size = c.size
    BY <1>2, <2>1 DEF Goes, Same, Like
  <2>3. Steps(c2) /\ ~Holds(c2) /\ c2 # Idle
    BY <2>2, IdleIs DEF Steps, Holds
  <2>4. Fresh \in Nat /\ Fresh \notin DOMAIN nodes /\ Fresh # None
    BY <1>1, FreshIs, NoneAssumption
  <2>5. New \in Node
    <3>1. round_bdsize(c.size) \in Int /\ Format(c.mode) \in {"raw", "ploop1"}
      BY <1>2, AlignedUp DEF Format
    <3> QED
      BY <3>1 DEF Node
  <2>6. /\ IsFiniteSet(DOMAIN nodes') /\ DOMAIN nodes' = DOMAIN nodes \cup {Fresh}
        /\ \A m \in DOMAIN nodes : nodes'[m] = nodes[m] /\ m # Fresh
        /\ nodes'[Fresh] = New
        /\ \A m \in DOMAIN nodes' : nodes'[m] \in Node
    BY <1>1, <1>5, <2>4, <2>5, NewNodeIs
  <2>7. /\ names'["image"] = Fresh /\ names' \in [Names -> Nat \cup {None}]
        /\ \A f \in Names : f # "image" => names'[f] = names[f]
        /\ \A f \in Names : names[f] # None => names[f] \in DOMAIN nodes
    BY <1>1, <1>5, <2>4 DEF Shapes, Names
  <2>8. dd = None /\ dd' = None /\ dev = None /\ dev' = None /\ Now = Idle /\ names["delta"] = None
    BY <1>1, <1>5, NoDisk DEF Listed
  <2>9. Shapes'
    <3>1. \A f \in Names : names'[f] # None => names'[f] \in DOMAIN nodes'
      BY <2>6, <2>7
    <3>2. /\ dd' \in Descriptor \cup {None} /\ tmp' \in Descriptor \cup {None} /\ mnt' \in Targets
          /\ lock' \in Proc \cup {None} /\ wanted' \in BOOLEAN /\ dev' = None
      BY <1>1, <2>1, <2>8 DEF Shapes
    <3>3. part' \in Int /\ fs' \in Int
      BY <1>5
    <3>4. names' \in [Names -> Nat \cup {None}] /\ IsFiniteSet(DOMAIN nodes')
          /\ \A n \in DOMAIN nodes' : nodes'[n] \in Node
      BY <2>6, <2>7
    <3> QED
      BY <3>1, <3>2, <3>3, <3>4 DEF Shapes
  <2>10. Listed'
    <3>1. \A f \in Names : names[f] # Fresh
      BY <2>4, <2>7
    <3>2. Distinct({"image", "delta", "copy", "image.tmp"})'
      BY <1>1, <2>7, <3>1 DEF Listed, Distinct, Names
    <3>3. Distinct({"link", "delta"})' /\ Distinct({"link", "image.tmp"})'
      BY <1>1, <2>7 DEF Listed, Distinct, Names
    <3> QED
      BY <2>7, <2>8, <3>2, <3>3 DEF Listed, Names
  <2>11. /\ call'[p] = c2
         /\ \A q \in Proc : q # p => call'[q] = call[q] /\ ~Makes(call[q]) /\ call[q].pc \notin {"c_fill", "c_store"}
    <3>1. \A q \in Proc : ~Makes(call[q]) /\ Steps(call[q])
      BY <1>1, <1>5 DEF Making, Inv, Control
    <3>2. \A q \in Proc : call[q].pc \notin {"c_fill", "c_store"}
      BY <3>1 DEF Makes, Steps
    <3> QED
      BY <1>1, <2>1, <3>1, <3>2 DEF Becomes
  <2>12. Making'
    <3>1. nodes'[names'["image"]] = New /\ names'["image"] # None
      BY <2>4, <2>6, <2>7
    <3> QED
      BY <2>2, <2>8, <2>11, <3>1 DEF Making
  <2>13. Disk(Idle)'
    <3>1. names'["image.tmp"] = names["image.tmp"]
      BY <2>7 DEF Names
    <3> QED
      BY <1>1, <1>5, <2>1, <2>8, <3>1, EmptyDisk
  <2>14. Whole' => \A q \in Proc : NoFs(call'[q]) => fs' = 0
    BY <1>5
  <2> PICK n : n = Idle
    OBVIOUS
  <2>15. n = Now /\ Disk(n)'
    BY <2>8, <2>13
  <2> QED
    BY <1>1, <1>2, <2>1, <2>3, <2>9, <2>10, <2>12, <2>14, <2>15, Aside
<1> QED
  BY <1>3, <1>4, <1>5

\* What is not in use can be removed.
LEMMA Unlinked ==
  ASSUME Shapes, dev = None, NEW f \in Names
  PROVE  /\ Unlink(f) \in [Names -> Nat \cup {None}] /\ Unlink(f)[f] = None
         /\ \A g \in Names : g # f => Unlink(f)[g] = names[g]
<1>1. names \in [Names -> Nat \cup {None}]
  BY DEF Shapes
<1>2. MayRemove(f)
  BY DEF MayRemove, InUse
<1> QED
  BY <1>1, <1>2 DEF Unlink

\* The image is filled, or removed again.
LEMMA do_create_deltaInv ==
  ASSUME Inv, NEW p \in Proc, do_create_delta(p), "dropped" \notin windows'
  PROVE  Inv'
<1> PICK c \in Calls : c = call[p]
  BY DEF Inv, Types
<1>1. c.pc = "c_fill" /\ UNCHANGED <<dd, tmp, dev, mnt, part, fs, windows>> /\ Types /\ Shapes /\ Listed
      /\ Making /\ call \in [Proc -> Calls]
  BY DEF do_create_delta, At, NoFault, kernel, layout, Inv, Types
<1>2. ~Holds(c) /\ c.op = "create" /\ Steps(c) /\ c # Idle /\ ~c.own /\ ~c.umfs
  BY <1>1, OutsideIs
<1>3. Makes(c) /\ NoFs(c)
  BY <1>1, <1>2 DEF Makes, NoFs
<1>4. /\ names["image"] # None /\ dd = None /\ dd' = None
      /\ nodes[names["image"]].fmt = Format(c.mode)
      /\ nodes[names["image"]].size = round_bdsize(c.size)
  BY <1>1, <1>3 DEF Making
<1>5. Now = Idle /\ dev = None /\ dev' = None
  BY <1>1, <1>4, NoDisk
<1>6. Whole => fs' = 0
  BY <1>1, <1>3 DEF Inv
<1>7. \A q \in Proc : q # p =>
        ~Makes(call[q]) /\ call[q].pc \notin {"c_fill", "c_store"} /\ ~NoFs(call[q])
  BY <1>3, OneMaker
<1>8. names["image"] \in DOMAIN nodes /\ nodes[names["image"]] \in Node
  BY <1>1, <1>4 DEF Shapes, Names
<1>9. \/ /\ nodes' = [nodes EXCEPT ![names["image"]].whole = TRUE]
         /\ Go(p, "c_store") /\ names' = names
      \/ /\ names' = Unlink("image") /\ Go(p, "c_clean") /\ nodes' = nodes
  BY <1>4 DEF do_create_delta
<1> PICK n : n = Idle
  OBVIOUS
<1>10. CASE /\ nodes' = [nodes EXCEPT ![names["image"]].whole = TRUE]
            /\ Go(p, "c_store") /\ names' = names
  <2>1. PICK c2 \in Calls : Becomes(p, c2) /\ Goes(c2, c, "c_store") /\ UNCHANGED <<lock, wanted>>
    BY <1>1, <1>10, GoIs
  <2>2. c2.pc = "c_store" /\ c2.op = "create" /\ ~c2.own /\ ~c2.umfs /\ c2.mode = c.mode /\ c2.size = c.size
    BY <1>2, <2>1 DEF Goes, Same, Like
  <2>3. Steps(c2) /\ ~Holds(c2) /\ c2 # Idle
    BY <2>2, IdleIs DEF Steps, Holds
  <2>4. /\ DOMAIN nodes' = DOMAIN nodes
        /\ \A m \in DOMAIN nodes : nodes'[m] \in Node
    BY <1>1, <1>8, <1>10 DEF Shapes, Node
  <2>5. nodes'[names["image"]] =
          [fmt |-> Format(c.mode), size |-> round_bdsize(c.size), whole |-> TRUE]
    BY <1>4, <1>8, <1>10 DEF Node
  <2>6. Shapes'
    BY <1>1, <1>5, <1>10, <2>1, <2>4 DEF Shapes
  <2>7. Listed'
    BY <1>1, <1>10 DEF Listed, Distinct
  <2>8. /\ call'[p] = c2
        /\ \A q \in Proc : q # p => call'[q] = call[q]
    BY <1>1, <2>1 DEF Becomes
  <2>9. Making'
    BY <1>4, <1>7, <1>10, <2>2, <2>5, <2>8 DEF Making
  <2>10. Disk(n)'
    BY <1>1, <1>4, <1>6, <1>10, <2>1, EmptyDisk
  <2>11. Whole' => \A q \in Proc : NoFs(call'[q]) => fs' = 0
    BY <1>1, <1>6 DEF Whole, Placed
  <2> QED
    BY <1>1, <1>2, <1>5, <2>1, <2>3, <2>6, <2>7, <2>9, <2>10, <2>11, Aside
<1>11. CASE /\ names' = Unlink("image") /\ Go(p, "c_clean") /\ nodes' = nodes
  <2>1. PICK c2 \in Calls : Becomes(p, c2) /\ Goes(c2, c, "c_clean") /\ UNCHANGED <<lock, wanted>>
    BY <1>1, <1>11, GoIs
  <2>2. c2.pc = "c_clean" /\ c2.op = "create" /\ ~c2.own /\ ~c2.umfs
    BY <1>2, <2>1 DEF Goes, Same, Like
  <2>3. Steps(c2) /\ ~Holds(c2) /\ c2 # Idle /\ ~Makes(c2)
    BY <2>2, IdleIs DEF Steps, Holds, Makes
  <2>4. "image" \in Names
    BY DEF Names
  <2>5. /\ names' \in [Names -> Nat \cup {None}] /\ names'["image"] = None
        /\ \A g \in Names : g # "image" => names'[g] = names[g]
    BY <1>1, <1>5, <1>11, <2>4, Unlinked
  <2>6. Shapes'
    BY <1>1, <1>5, <1>11, <2>1, <2>5 DEF Shapes
  <2>7. Listed'
    BY <1>1, <1>4, <1>5, <2>5 DEF Listed, Distinct, Names
  <2>8. /\ call'[p] = c2
        /\ \A q \in Proc : q # p => call'[q] = call[q]
    BY <1>1, <2>1 DEF Becomes
  <2>9. Making'
    BY <1>7, <2>2, <2>3, <2>8 DEF Making
  <2>10. names'["image.tmp"] = names["image.tmp"]
    BY <2>5 DEF Names
  <2>11. Disk(n)'
    BY <1>1, <1>4, <1>6, <2>1, <2>10, EmptyDisk
  <2>12. Whole' => \A q \in Proc : NoFs(call'[q]) => fs' = 0
    BY <1>1, <1>6 DEF Whole, Placed
  <2> QED
    BY <1>1, <1>2, <1>5, <2>1, <2>3, <2>6, <2>7, <2>9, <2>11, <2>12, Aside
<1> QED
  BY <1>9, <1>10, <1>11

\* The descriptor is stored.
LEMMA ploop_create_ddInv ==
  ASSUME Inv, NEW p \in Proc, ploop_create_dd(p), "dropped" \notin windows'
  PROVE  Inv'
<1> PICK c \in Calls : c = call[p]
  BY DEF Inv, Types
<1> DEFINE New == [mode |-> c.mode, size |-> round_bdsize(c.size), base |-> "image",
                   top |-> None, max |-> 0]
<1>1. c.pc = "c_store" /\ UNCHANGED <<tmp, names, nodes, dev, mnt, part, fs>> /\ Types /\ Shapes
      /\ Listed /\ Making /\ call \in [Proc -> Calls]
  BY DEF ploop_create_dd, At, kernel, layout, Inv, Types
<1>2. ~Holds(c) /\ c.op = "create" /\ Steps(c) /\ c # Idle /\ ~c.own /\ ~c.umfs /\ c.mode \in Modes /\ c.size \in Nat
  BY <1>1, OutsideIs DEF Calls
<1>3. Makes(c) /\ NoFs(c)
  BY <1>1, <1>2 DEF Makes, NoFs
<1>4. \/ /\ dd' = New /\ Go(p, IF c.flag THEN "c_lock" ELSE "ok")
         /\ windows' = windows \cup When(dd # None, "dropped")
      \/ dd' = dd /\ windows' = windows /\ Go(p, "c_drop")
  BY DEF ploop_create_dd
<1>5. CASE dd' = dd /\ windows' = windows /\ Go(p, "c_drop")
  <2>1. PICK c2 \in Calls : Becomes(p, c2) /\ Goes(c2, c, "c_drop") /\ UNCHANGED <<lock, wanted>>
    BY <1>1, <1>5, GoIs
  <2>2. c2.pc = "c_drop" /\ c2.op = "create" /\ ~c2.own /\ ~c2.umfs
    BY <1>2, <2>1 DEF Goes, Same, Like
  <2>3. Steps(c2) /\ ~Holds(c2) /\ c2 # Idle
    BY <2>2, IdleIs DEF Steps, Holds
  <2>4. Still
    BY <1>1, <1>5 DEF Still, store, kernel, layout
  <2> QED
    BY <1>2, <1>3, <1>5, <2>1, <2>2, <2>3, <2>4, Waits
<1>6. CASE /\ dd' = New /\ Go(p, IF c.flag THEN "c_lock" ELSE "ok")
           /\ windows' = windows \cup When(dd # None, "dropped")
  <2>0. dd = None /\ windows' = windows
    BY <1>6 DEF When
  <2> PICK pc \in {"c_lock", "ok"} : Go(p, pc)
    BY <1>6
  <2>1. PICK c2 \in Calls : Becomes(p, c2) /\ Goes(c2, c, pc) /\ UNCHANGED <<lock, wanted>>
    BY <1>1, GoIs
  <2>2. c2.pc = pc /\ c2.op = "create" /\ ~c2.own /\ ~c2.umfs
    BY <1>2, <2>1 DEF Goes, Same, Like
  <2>3. Steps(c2) /\ ~Holds(c2) /\ c2 # Idle /\ c2.pc \notin {"c_fill", "c_store"}
    BY <2>2, IdleIs DEF Steps, Holds
  <2>4. Now = Idle /\ dev = None /\ mnt = "none" /\ names["delta"] = None /\ Disk(Idle)
    BY <2>0, NoDisk DEF Inv
  <2>5. /\ names["image"] # None /\ names["image"] \in DOMAIN nodes
        /\ nodes[names["image"]] = [fmt |-> Format(c.mode), size |-> round_bdsize(c.size), whole |-> TRUE]
    BY <1>1, <1>3, <2>0 DEF Making, Shapes, Names
  <2>6. dd' \in Descriptor
    <3>1. round_bdsize(c.size) \in Int
      BY <1>2, AlignedUp
    <3> QED
      BY <1>2, <1>6, <3>1 DEF Descriptor
  <2>7. dd' # None
    BY <2>6, NoneAssumption
  <2>8. dd'.mode = c.mode /\ dd'.size = round_bdsize(c.size) /\ dd'.base = "image" /\ dd'.top = None
    BY <1>6
  <2>9. Shapes'
    BY <1>1, <2>1, <2>4, <2>6 DEF Shapes
  <2>10. Listed'
    BY <1>1, <2>4, <2>5, <2>7, <2>8 DEF Listed, Distinct
  <2>11. /\ call'[p] = c2
         /\ \A q \in Proc : q # p => call'[q] = call[q]
    BY <1>1, <2>1 DEF Becomes
  <2>12. \A q \in Proc : q # p =>
           ~Makes(call[q]) /\ call[q].pc \notin {"c_fill", "c_store"} /\ ~NoFs(call[q])
    BY <1>3, OneMaker
  <2>13. Making'
    BY <1>1, <2>3, <2>5, <2>11, <2>12 DEF Making
  <2>14. Whole => fs' = 0
    BY <1>1, <1>3 DEF Inv
  <2>15. Disk(Idle)'
    <3>1. Working(Idle)' /\ Read(Idle)'
      BY <1>1, <2>4, IdleIs DEF Working, Read, Holds
    <3>2. Placed' => Match(Idle)'
      BY <1>1, <2>4, IdleIs DEF Match, Matched, Apart, Swapping
    <3>3. Whole' => Lies(Idle)'
      BY <1>1, <2>0, <2>4, <2>7, <2>14, IdleIs DEF Lies, Whole, Placed
    <3>4. Stored' => Fitting(Idle)'
      BY <1>1, <2>5, <2>8, IdleIs DEF Fitting, Fits, Formats, Size, TopNode, Top
    <3>5. Followed' => Running(Idle)'
      BY <1>1, <2>4, IdleIs DEF Running
    <3>6. Returned' => Tidy(Idle)'
      <4>1. Returned' => Tidy(Idle)
        BY <2>0, <2>4 DEF Disk, Returned
      <4>2. Tidy(Idle) => Tidy(Idle)'
        BY <1>1, <2>1 DEF Tidy, Owns
      <4> QED
        BY <4>1, <4>2
    <3> QED
      BY <3>1, <3>2, <3>3, <3>4, <3>5, <3>6 DEF Disk
  <2>16. Whole' => \A q \in Proc : NoFs(call'[q]) => fs' = 0
    BY <2>0, <2>14 DEF Whole, Placed
  <2> PICK n : n = Idle
    OBVIOUS
  <2>17. n = Now /\ Disk(n)'
    BY <2>4, <2>15
  <2> QED
    BY <1>2, <2>0, <2>1, <2>3, <2>9, <2>10, <2>13, <2>16, <2>17, Aside
<1> QED
  BY <1>4, <1>5, <1>6

\* Descriptor and image are removed.
LEMMA ploop_drop_imageInv ==
  ASSUME Inv, NEW p \in Proc, ploop_drop_image(p), "dropped" \notin windows'
  PROVE  Inv'
<1> PICK c \in Calls : c = call[p]
  BY DEF Inv, Types
<1>1. c.pc = "c_drop" /\ UNCHANGED <<tmp, nodes, dev, mnt, part, fs>> /\ Types /\ Shapes
      /\ Listed /\ Making /\ call \in [Proc -> Calls] /\ names' = Unlink("image") /\ dd' = None
      /\ Go(p, "fail")
  BY DEF ploop_drop_image, At, kernel, layout, Inv, Types
<1>2. ~Holds(c) /\ c.op = "create" /\ Steps(c) /\ c # Idle /\ Makes(c)
  BY <1>1, OutsideIs DEF Makes
<1>3. /\ windows' = windows /\ dev = None /\ (dd # None => Top(dd) = "image")
      /\ \A q \in Proc : q # p => call[q].op \in {"idle", "create"}
  BY DEF ploop_drop_image, When
<1>4. \A q \in Proc : q # p =>
        ~Makes(call[q]) /\ call[q].pc \notin {"c_fill", "c_store"} /\ ~NoFs(call[q])
  BY <1>2, OneMaker
<1>5. \A q \in Proc : ~Holds(call[q])
  <2> SUFFICES ASSUME NEW q \in Proc, Holds(call[q]) PROVE FALSE
    OBVIOUS
  <2>1. q # p /\ Steps(call[q])
    BY <1>2 DEF Inv, Control
  <2>2. call[q].op = "create"
    BY <1>3, <2>1, IdleIs DEF Steps, Holds
  <2>3. Makes(call[q])
    BY <2>1, <2>2 DEF Holds, Makes, Steps
  <2> QED
    BY <1>4, <2>1, <2>3
<1>6. Now = Idle /\ Disk(Idle)
  BY <1>1, <1>5 DEF Inv, Now, Shapes
<1>7. mnt = "none"
  BY <1>3, <1>6 DEF Disk, Working
<1>8. PICK c2 \in Calls : Becomes(p, c2) /\ Goes(c2, c, "fail") /\ UNCHANGED <<lock, wanted>>
  BY <1>1, GoIs
<1>9. c2.pc = "fail" /\ c2.op = "create"
  BY <1>2, <1>8 DEF Goes, Same, Like
<1>10. Steps(c2) /\ ~Holds(c2) /\ c2 # Idle /\ ~Makes(c2) /\ ~NoFs(c2)
  BY <1>9, IdleIs DEF Steps, Holds, Makes, NoFs
<1>11. "image" \in Names
  BY DEF Names
<1>12. /\ names' \in [Names -> Nat \cup {None}] /\ names'["image"] = None
       /\ \A g \in Names : g # "image" => names'[g] = names[g]
  BY <1>1, <1>3, <1>11, Unlinked
<1>13. names["delta"] = None
  BY <1>1, <1>3 DEF Listed, Top, Shapes, Descriptor
<1>14. Shapes'
  BY <1>1, <1>3, <1>8, <1>12 DEF Shapes
<1>15. Listed'
  BY <1>1, <1>3, <1>12, <1>13 DEF Listed, Distinct, Names
<1>16. /\ call'[p] = c2
       /\ \A q \in Proc : q # p => call'[q] = call[q]
  BY <1>1, <1>8 DEF Becomes
<1>17. Making'
  BY <1>4, <1>9, <1>10, <1>16 DEF Making
<1>18. Disk(Idle)'
  <2>1. Working(Idle)' /\ Read(Idle)'
    BY <1>1, <1>3, <1>7, IdleIs DEF Working, Read, Holds
  <2>2. Placed' => Match(Idle)'
    BY <1>1, <1>3, IdleIs DEF Match, Matched, Apart, Swapping
  <2>3. Whole' => Lies(Idle)'
    BY <1>1, <1>7, <1>12, IdleIs DEF Lies
  <2>4. Stored' => Fitting(Idle)'
    BY <1>1, IdleIs DEF Fitting
  <2>5. Followed' => Running(Idle)'
    BY <1>1, <1>3, IdleIs DEF Running
  <2>6. Returned' => Tidy(Idle)'
    <3>1. Returned' => Tidy(Idle)
      BY <1>3, <1>6 DEF Disk, Returned
    <3>2. names'["image.tmp"] = names["image.tmp"]
      BY <1>12 DEF Names
    <3>3. Tidy(Idle) => Tidy(Idle)'
      BY <1>1, <1>8, <3>2 DEF Tidy, Owns
    <3> QED
      BY <3>1, <3>3
  <2> QED
    BY <2>1, <2>2, <2>3, <2>4, <2>5, <2>6 DEF Disk
<1>19. \A q \in Proc : ~NoFs(call'[q])
  BY <1>4, <1>10, <1>16
<1> PICK n : n = Idle
  OBVIOUS
<1>20. n = Now /\ Disk(n)'
  BY <1>6, <1>18
<1> QED
  BY <1>2, <1>3, <1>8, <1>10, <1>14, <1>15, <1>17, <1>19, <1>20, Aside

-----------------------------------------------------------------------------
(* Steps beside the calls that lock the disk.                              *)

\* An image without a descriptor gets one.
LEMMA ploop_restore_descriptorInv ==
  ASSUME Inv, NEW p \in Proc, ploop_restore_descriptor(p), "dropped" \notin windows'
  PROVE  Inv'
<1>1. /\ UNCHANGED <<tmp, names, nodes, dev, mnt, part, fs, lock, call, wanted, windows>>
      /\ dd = None /\ names["image"] # None /\ names["delta"] = None
      /\ nodes[names["image"]].whole
      /\ dd' = [mode |-> IF nodes[names["image"]].fmt = "raw" THEN "raw" ELSE "expanded",
                size |-> nodes[names["image"]].size, base |-> "image", top |-> None, max |-> 0]
  BY DEF ploop_restore_descriptor, kernel, layout, control
<1>2. Types /\ Shapes /\ Listed /\ Making /\ Now = Idle /\ dev = None /\ mnt = "none" /\ Disk(Idle)
  BY <1>1, NoDisk DEF Inv, Types
<1>3. nodes[names["image"]] \in Node
  BY <1>1, <1>2 DEF Shapes, Names
<1>4. dd' \in Descriptor
  BY <1>1, <1>3 DEF Descriptor, Modes, Node
<1>5. dd' # None
  BY <1>4, NoneAssumption
<1>6. /\ dd'.size = nodes[names["image"]].size /\ dd'.base = "image" /\ dd'.top = None
      /\ Format(dd'.mode) = nodes[names["image"]].fmt
  BY <1>1, <1>3 DEF Format, Node
<1>7. Shapes'
  BY <1>1, <1>2, <1>4 DEF Shapes
<1>8. Listed'
  BY <1>1, <1>2, <1>5, <1>6 DEF Listed, Distinct
<1>9. Making'
  BY <1>1, <1>2, <1>5 DEF Making
<1>10. Disk(Idle)'
  <2>1. Working(Idle)' /\ Read(Idle)'
    BY <1>1, <1>2, IdleIs DEF Working, Read, Holds
  <2>2. Placed' => Match(Idle)'
    BY <1>1, <1>2, IdleIs DEF Match, Matched, Apart, Swapping
  <2>3. Whole' => Lies(Idle)'
    <3>1. Whole' => fs = 0
      BY <1>1, <1>2 DEF Disk, Lies, Whole, Placed
    <3> QED
      BY <1>1, <1>2, <1>5, <3>1, IdleIs DEF Lies
  <2>4. Stored' => Fitting(Idle)'
    BY <1>1, <1>6, IdleIs DEF Fitting, Fits, Formats, Size, TopNode, Top
  <2>5. Followed' => Running(Idle)'
    BY <1>1, <1>2, IdleIs DEF Running
  <2>6. Returned' => Tidy(Idle)'
    <3>1. Returned' => Tidy(Idle)
      BY <1>1, <1>2 DEF Disk, Returned
    <3>2. Tidy(Idle) => Tidy(Idle)'
      BY <1>1 DEF Tidy, Owns
    <3> QED
      BY <3>1, <3>2
  <2> QED
    BY <2>1, <2>2, <2>3, <2>4, <2>5, <2>6 DEF Disk
<1>11. Whole => \A q \in Proc : NoFs(call[q]) => fs' = 0
  BY <1>1 DEF Inv
<1> PICK n : n = Idle
  OBVIOUS
<1>12. n = Now /\ Disk(n)'
  BY <1>2, <1>10
<1> QED
  BY <1>1, <1>7, <1>8, <1>9, <1>11, <1>12, Beside

\* Making an image does not touch the creator's.
LEMMA MakingLasts ==
  ASSUME Inv, UNCHANGED call, dd # None, dd' # None, names'["image"] = names["image"]
  PROVE  Making'
BY DEF Inv, Making

LEMMA PairIs ==
  ASSUME NEW a \in Nat, NEW b \in Nat
  PROVE  Append(<<a>>, b) = <<a, b>>
<1> DEFINE s == Append(<<a>>, b)
           t == <<a, b>>
<1>1. s \in Seq(Nat) /\ Len(s) = 2 /\ s[1] = a /\ s[2] = b
  <2>1. <<a>> \in Seq(Nat) /\ Len(<<a>>) = 1 /\ <<a>>[1] = a
    OBVIOUS
  <2> QED
    BY <2>1, AppendProperties
<1>2. t \in Seq(Nat) /\ Len(t) = 2 /\ t[1] = a /\ t[2] = b
  OBVIOUS
<1> HIDE DEF s, t
<1>3. \A i \in 1 .. Len(s) : s[i] = t[i]
  BY <1>1, <1>2
<1>4. s = t
  BY <1>1, <1>2, <1>3, SeqEqual
<1> QED
  BY <1>4 DEF s, t

\* A snapshot puts an image on top.
LEMMA AddDeltaInv ==
  ASSUME Inv, AddDelta, "dropped" \notin windows'
  PROVE  Inv'
<1> PICK n : n = Fresh
  OBVIOUS
<1> DEFINE New == [nodes[TopNode(dd)] EXCEPT !.fmt = "ploop1"]
<1>1. /\ UNCHANGED <<tmp, mnt, part, fs, lock, call, wanted, windows>>
      /\ dd # None /\ lock = None /\ dd.top = None /\ names["delta"] = None /\ Checked(dd)
      /\ names' = [names EXCEPT !["delta"] = n]
      /\ nodes' = NewNode(n, New)
      /\ dev' = IF Found(dd) THEN [dev EXCEPT !.deltas = Append(dev.deltas, n)] ELSE dev
      /\ dd' = [dd EXCEPT !.top = "delta"]
  BY DEF AddDelta, layout, control
<1>2. Types /\ Shapes /\ Listed /\ Making /\ Now = Idle /\ Disk(Idle)
  <2>1. Now = Idle
    BY <1>1 DEF Now
  <2> QED
    BY <2>1 DEF Inv, Types
<1>3. /\ dd \in Descriptor /\ dd.base \in {"image", "copy"}
      /\ names[dd.base] # None /\ names[dd.base] \in DOMAIN nodes
      /\ TopNode(dd) = names[dd.base] /\ names["image"] # None
  BY <1>1, <1>2, DiskIs DEF TopNode, Descriptor
<1>4. n \in Nat /\ n \notin DOMAIN nodes /\ n # None
  BY <1>2, FreshIs, NoneAssumption
<1>5. New \in Node /\ New.size = nodes[names[dd.base]].size /\ New.whole /\ New.fmt = "ploop1"
  <2>1. nodes[names[dd.base]].whole
    BY <1>1, <1>2, <1>3, CheckedIs
  <2>2. nodes[names[dd.base]] \in Node
    BY <1>2, <1>3 DEF Shapes
  <2> QED
    BY <1>3, <2>1, <2>2 DEF Node
<1> HIDE DEF New
<1>6. /\ IsFiniteSet(DOMAIN nodes') /\ DOMAIN nodes' = DOMAIN nodes \cup {n}
      /\ \A m \in DOMAIN nodes : nodes'[m] = nodes[m] /\ m # n
      /\ nodes'[n] = New
      /\ \A m \in DOMAIN nodes' : nodes'[m] \in Node
  BY <1>1, <1>2, <1>4, <1>5, NewNodeIs
<1>7. /\ names'["delta"] = n /\ names' \in [Names -> Nat \cup {None}]
      /\ \A f \in Names : f # "delta" => names'[f] = names[f]
      /\ \A f \in Names : names[f] # None => names[f] \in DOMAIN nodes
  BY <1>1, <1>2, <1>4 DEF Shapes, Names
<1>8. dd' \in Descriptor /\ dd'.top = "delta" /\ dd'.base = dd.base /\ dd'.mode = dd.mode
      /\ dd'.size = dd.size /\ dd'.max = dd.max
  BY <1>1, <1>3 DEF Descriptor
<1>9. dd' # None /\ "delta" # None
  BY <1>8, NoneAssumption DEF Names
<1>10. names'[dd.base] = names[dd.base] /\ names'["image"] = names["image"]
       /\ names'["copy"] = names["copy"] /\ names'["image.tmp"] = names["image.tmp"]
       /\ names'["link"] = names["link"]
  BY <1>3, <1>7 DEF Names
<1>11. TopNode(dd)' = n /\ Deltas(dd)' = <<names[dd.base], n>> /\ Size(dd)' = Size(dd)
  <2>1. TopNode(dd)' = n
    BY <1>7, <1>8, <1>9 DEF TopNode, Top
  <2>2. Deltas(dd)' = <<names[dd.base], n>>
    BY <1>7, <1>8, <1>9, <1>10 DEF Deltas, Files
  <2>3. Size(dd)' = nodes'[TopNode(dd)'].size
    BY DEF Size
  <2> QED
    BY <1>3, <1>5, <1>6, <2>1, <2>2, <2>3 DEF Size
<1>12. /\ dev' \in Kernel \cup {None} /\ (dev' = None <=> dev = None)
       /\ dev # None => /\ dev'.running = dev.running /\ dev'.size = dev.size /\ dev'.max = dev.max
                        /\ dev'.deltas = IF Found(dd) THEN Append(dev.deltas, n) ELSE dev.deltas
                        /\ dev'.deltas[1] = dev.deltas[1]
                        /\ Len(dev'.deltas) >= 1
                        /\ \A i \in DOMAIN dev'.deltas : dev'.deltas[i] \in DOMAIN nodes'
  <2>1. CASE ~Found(dd)
    <3>1. dev' = dev
      BY <1>1, <2>1
    <3> QED
      BY <1>2, <1>6, <2>1, <3>1 DEF Shapes
  <2>2. CASE Found(dd)
    <3>1. dev \in Kernel /\ dev # None /\ dev.deltas \in Seq(Nat) /\ Len(dev.deltas) >= 1
          /\ \A i \in DOMAIN dev.deltas : dev.deltas[i] \in DOMAIN nodes
      BY <1>2, <2>2 DEF Shapes, Found, Kernel
    <3> DEFINE e == Append(dev.deltas, n)
    <3>2. /\ e \in Seq(Nat) /\ Len(e) = Len(dev.deltas) + 1 /\ e[1] = dev.deltas[1]
          /\ \A i \in 1 .. Len(dev.deltas) : e[i] = dev.deltas[i]
          /\ e[Len(dev.deltas) + 1] = n
      BY <1>4, <3>1
    <3>3. Len(dev.deltas) \in Nat /\ DOMAIN dev.deltas = 1 .. Len(dev.deltas)
          /\ DOMAIN e = 1 .. Len(dev.deltas) + 1
      BY <3>1, <3>2
    <3>4. \A i \in DOMAIN e : e[i] \in DOMAIN nodes'
      <4> SUFFICES ASSUME NEW i \in DOMAIN e PROVE e[i] \in DOMAIN nodes'
        OBVIOUS
      <4>1. i \in 1 .. Len(dev.deltas) \/ i = Len(dev.deltas) + 1
        BY <3>3
      <4> QED
        BY <1>6, <3>1, <3>2, <3>3, <4>1
    <3>5. dev' = [dev EXCEPT !.deltas = e]
      BY <1>1, <2>2
    <3> HIDE DEF e
    <3>6. dev' \in Kernel /\ dev'.deltas = e /\ dev'.size = dev.size
          /\ dev'.running = dev.running /\ dev'.max = dev.max
      BY <3>1, <3>2, <3>5 DEF Kernel
    <3>7. dev' # None
      BY <3>6, NoneAssumption
    <3>8. e = Append(dev.deltas, n)
      BY DEF e
    <3>9. Len(e) >= 1
      BY <3>2, <3>3
    <3> QED
      BY <2>2, <3>1, <3>2, <3>4, <3>6, <3>7, <3>8, <3>9
  <2> QED
    BY <2>1, <2>2
<1>13. Shapes'
  <2>1. \A f \in Names : names'[f] # None => names'[f] \in DOMAIN nodes'
    BY <1>6, <1>7
  <2>2. /\ tmp' \in Descriptor \cup {None} /\ mnt' \in Targets
        /\ lock' \in Proc \cup {None} /\ wanted' \in BOOLEAN /\ part' \in Int /\ fs' \in Int
    BY <1>1, <1>2 DEF Shapes
  <2> QED
    BY <1>6, <1>7, <1>8, <1>12, <2>1, <2>2 DEF Shapes
<1>14. Listed'
  <2>1. \A f \in Names : names[f] # n
    BY <1>4, <1>7
  <2>2. Distinct({"image", "delta", "copy", "image.tmp"})'
    BY <1>2, <1>7, <1>10, <2>1 DEF Listed, Distinct, Names
  <2>3. Distinct({"link", "delta"})' /\ Distinct({"link", "image.tmp"})'
    BY <1>2, <1>7, <1>10, <2>1 DEF Listed, Distinct, Names
  <2> QED
    BY <1>3, <1>4, <1>7, <1>8, <1>9, <1>10, <2>2, <2>3 DEF Listed
<1>15. Making'
  BY <1>1, <1>9, <1>10, MakingLasts
<1>16. Found(dd)' <=> Found(dd)
  BY <1>8, <1>10, <1>12 DEF Found
<1>17. Disk(Idle)'
  <2>1. Working(Idle)' /\ Read(Idle)'
    BY <1>1, <1>2, <1>12, IdleIs DEF Disk, Working, Read, Holds
  <2>2. Placed' => Match(Idle)'
    <3>1. Placed' => Matched /\ Apart(Idle)
      BY <1>1, <1>2 DEF Disk, Match, Placed
    <3>2. Placed' => Matched'
      <4> SUFFICES ASSUME Placed', Found(dd), dev # None
                   PROVE  dev'.deltas = Deltas(dd)' /\ dev'.size = Size(dd)'
        BY <1>12, <1>16 DEF Matched
      <4>1. dev.deltas = Deltas(dd) /\ dev.size = Size(dd)
        BY <1>1, <3>1 DEF Matched
      <4>2. Deltas(dd) = <<names[dd.base]>>
        BY <1>1, DeltasIs
      <4>3. Append(<<names[dd.base]>>, n) = <<names[dd.base], n>>
        <5>1. names[dd.base] \in Nat /\ n \in Nat
          BY <1>3, <1>2, <1>4 DEF Shapes, Names
        <5> QED
          BY <5>1, PairIs
      <4> QED
        BY <1>11, <1>12, <4>1, <4>2, <4>3
    <3>3. Placed' => Apart(Idle)'
      BY <1>8, <1>10, <1>12, <3>1, IdleIs DEF Apart, Swapping
    <3> QED
      BY <3>2, <3>3, IdleIs DEF Match, Swapping
  <2>3. Whole' => Lies(Idle)'
    <3>1. Whole' => Lies(Idle)
      BY <1>1, <1>2 DEF Disk, Whole, Placed
    <3> QED
      BY <1>1, <1>9, <1>11, <3>1, IdleIs DEF Lies, Room
  <2>4. Stored' => Fitting(Idle)'
    <3>1. Stored' => Fits(dd)
      BY <1>1, <1>2, IdleIs DEF Disk, Stored, Placed, Fitting
    <3>2. Fits(dd) => Fits(dd)'
      BY <1>3, <1>5, <1>6, <1>7, <1>8, <1>10, <1>11 DEF Fits, Formats
    <3> QED
      BY <3>1, <3>2, IdleIs DEF Fitting
  <2>5. Followed' => Running(Idle)'
    BY <1>1, <1>2, <1>8, <1>12, <1>16, IdleIs DEF Disk, Running, Swapping, Followed, Placed
  <2>6. Returned' => Tidy(Idle)'
    <3>1. Returned' => Tidy(Idle)
      BY <1>1, <1>2 DEF Disk, Returned
    <3>2. Tidy(Idle) => Tidy(Idle)'
      BY <1>1, <1>10, <1>12 DEF Tidy, Owns
    <3> QED
      BY <3>1, <3>2
  <2> QED
    BY <2>1, <2>2, <2>3, <2>4, <2>5, <2>6 DEF Disk
<1>18. Whole => \A q \in Proc : NoFs(call[q]) => fs' = 0
  BY <1>1 DEF Inv
<1> PICK i : i = Idle
  OBVIOUS
<1>19. i = Now /\ Disk(i)'
  BY <1>2, <1>17
<1> QED
  BY <1>1, <1>13, <1>14, <1>15, <1>18, <1>19, Beside

\* A copy of the base image is made, beside any call.
LEMMA copy_deltaInv ==
  ASSUME Inv, NEW p \in Proc, copy_delta(p), "dropped" \notin windows'
  PROVE  Inv'
<1> PICK n : n = Fresh
  OBVIOUS
<1> PICK c : c = Now
  OBVIOUS
<1> DEFINE New == nodes[names[dd.base]]
<1>1. /\ UNCHANGED <<dd, tmp, dev, mnt, part, fs, lock, call, wanted, windows>>
      /\ dd # None /\ names["copy"] = None /\ names[dd.base] # None
      /\ nodes' = NewNode(n, New)
  BY DEF copy_delta, kernel, layout, control
<1>2. PICK linked \in BOOLEAN :
        names' = [names EXCEPT !["copy"] = n, !["link"] = IF linked THEN n ELSE None]
  BY DEF copy_delta
<1>3. Types /\ Shapes /\ Listed /\ Making /\ Disk(c)
  BY DEF Inv, Types
<1>4. /\ dd \in Descriptor /\ dd.base = "image" /\ dd.top \in {None, "delta"}
      /\ names[dd.base] \in DOMAIN nodes /\ names["image"] # None
      /\ dd.top # None => names[dd.top] \in DOMAIN nodes
      /\ TopNode(dd) \in DOMAIN nodes
  BY <1>1, <1>3, DiskIs DEF Descriptor
<1>5. n \in Nat /\ n \notin DOMAIN nodes /\ n # None
  BY <1>3, FreshIs, NoneAssumption
<1>6. New \in Node
  BY <1>3, <1>4 DEF Shapes
<1>7. /\ IsFiniteSet(DOMAIN nodes') /\ DOMAIN nodes' = DOMAIN nodes \cup {n}
      /\ \A m \in DOMAIN nodes : nodes'[m] = nodes[m] /\ m # n
      /\ nodes'[n] = New
      /\ \A m \in DOMAIN nodes' : nodes'[m] \in Node
  BY <1>1, <1>3, <1>5, <1>6, NewNodeIs
<1>8. /\ names'["copy"] = n /\ names'["link"] \in {n, None} /\ names' \in [Names -> Nat \cup {None}]
      /\ \A f \in Names : f \notin {"copy", "link"} => names'[f] = names[f]
      /\ \A f \in Names : names[f] # None => names[f] \in DOMAIN nodes
  BY <1>2, <1>3, <1>5 DEF Shapes, Names
<1>9. names'["image"] = names["image"] /\ names'["delta"] = names["delta"]
      /\ names'["image.tmp"] = names["image.tmp"]
  BY <1>8 DEF Names
<1>10. /\ TopNode(dd)' = TopNode(dd) /\ Deltas(dd)' = Deltas(dd) /\ Size(dd)' = Size(dd)
       /\ Found(dd)' <=> Found(dd)
  <2>1. TopNode(dd)' = TopNode(dd)
    BY <1>1, <1>4, <1>9 DEF TopNode, Top
  <2>2. Deltas(dd)' = Deltas(dd)
    BY <1>1, <1>4, <1>9 DEF Deltas, Files
  <2>3. Found(dd)' <=> Found(dd)
    BY <1>1, <1>4, <1>9 DEF Found
  <2>4. Size(dd)' = Size(dd)
    BY <1>4, <1>7, <2>1 DEF Size
  <2> QED
    BY <2>1, <2>2, <2>3, <2>4
<1>11. Shapes'
  <2>1. \A f \in Names : names'[f] # None => names'[f] \in DOMAIN nodes'
    BY <1>5, <1>7, <1>8
  <2> QED
    BY <1>1, <1>3, <1>7, <1>8, <2>1 DEF Shapes
<1>12. Listed'
  <2>1. \A f \in Names : names[f] # n
    BY <1>5, <1>8
  <2>2. Distinct({"image", "delta", "copy", "image.tmp"})'
    BY <1>3, <1>8, <1>9, <2>1 DEF Listed, Distinct, Names
  <2>3. Distinct({"link", "delta"})' /\ Distinct({"link", "image.tmp"})'
    BY <1>3, <1>8, <1>9, <2>1 DEF Listed, Distinct, Names
  <2> QED
    BY <1>1, <1>3, <1>4, <1>9, <2>2, <2>3 DEF Listed
<1>13. Making'
  BY <1>1, <1>9, MakingLasts
<1>14. c.pc \notin ReplacePc /\ ~Swapping(c)
  BY <1>1, <1>3 DEF Disk, Working, Swapping
<1>15. c = Idle \/ (Holds(c) /\ Steps(c) /\ c.di \in Descriptor)
  <2>1. CASE ~(lock # None /\ Holds(call[lock]))
    BY <2>1 DEF Now
  <2>2. CASE lock # None /\ Holds(call[lock])
    <3>1. lock \in Proc /\ c = call[lock]
      BY <1>3, <2>2 DEF Now, Shapes
    <3>2. c \in Calls /\ Holds(c) /\ Steps(c)
      BY <2>2, <3>1 DEF Inv, Control, Types
    <3>3. c.di # None
      BY <3>2 DEF Steps
    <3> QED
      BY <3>2, <3>3 DEF Calls
  <2> QED
    BY <2>1, <2>2
<1>16. ASSUME c.pc \in {"g_rename", "gi_rename", "cv_conf"}
       PROVE  tmp.base = "image" /\ tmp.top = dd.top
  <2>1. Holds(c) /\ Steps(c) /\ c.pc \notin EndPc /\ c.di \in Descriptor
    BY <1>15, <1>16, IdleIs
  <2>2. c.di.base = "image" /\ c.di.top = dd.top
    BY <1>3, <1>4, <2>1 DEF Disk, Read
  <2>3. CASE c.pc = "g_rename"
    <3>1. tmp = [c.di EXCEPT !.size = round_bdsize(c.size)]
      BY <1>3, <2>3 DEF Disk, Working
    <3> QED
      BY <2>1, <2>2, <3>1 DEF Descriptor
  <2>4. CASE c.pc = "gi_rename"
    <3>1. tmp = c.di
      BY <1>3, <2>1, <2>4 DEF Disk, Working, Steps
    <3> QED
      BY <2>2, <3>1
  <2>5. CASE c.pc = "cv_conf"
    <3>1. tmp = [c.di EXCEPT !.mode = c.mode]
      BY <1>3, <2>5 DEF Disk, Working
    <3> QED
      BY <2>1, <2>2, <3>1 DEF Descriptor
  <2> QED
    BY <1>16, <2>3, <2>4, <2>5
<1>17. Working(c)'
  BY <1>1, <1>3, <1>14 DEF Disk, Working
<1>18. Read(c)'
  <2>1. Read(c)
    BY <1>3 DEF Disk
  <2>2. c.pc = "cv_copy" => nodes'[names'["image.tmp"]] = nodes[names["image.tmp"]]
    BY <1>7, <1>8, <1>9, <2>1 DEF Read, Names
  <2>3. nodes'[names'[dd.base]] = nodes[names[dd.base]]
    BY <1>4, <1>7, <1>9
  <2> QED
    BY <1>1, <1>9, <2>1, <2>2, <2>3 DEF Read
<1>19. Placed' => Match(c)'
  <2>1. Placed' => Match(c)
    BY <1>1, <1>3 DEF Disk, Placed
  <2>2. Matched => Matched'
    BY <1>1, <1>10 DEF Matched
  <2>3. Apart(c) => Apart(c)'
    <3>1. dev # None => dev.deltas[1] # n
      BY <1>3, <1>5 DEF Shapes, Kernel
    <3> QED
      BY <1>1, <1>8, <1>9, <1>14, <3>1 DEF Apart
  <2> QED
    BY <1>1, <1>10, <1>14, <2>1, <2>2, <2>3 DEF Match
<1>20. Whole' => Lies(c)'
  <2>1. Whole' => Lies(c)
    BY <1>1, <1>3 DEF Disk, Whole, Placed
  <2> QED
    BY <1>1, <1>9, <1>10, <2>1 DEF Lies, Room
<1>21. Stored' => Fitting(c)'
  <2>1. Stored' => Fitting(c)
    BY <1>1, <1>3 DEF Disk, Stored, Placed
  <2>2. nodes'[names'[dd.base]] = nodes[names[dd.base]] /\ names'[dd.base] = names[dd.base]
    BY <1>4, <1>7, <1>9
  <2>3. dd.top # None => nodes'[names'[dd.top]] = nodes[names[dd.top]] /\ names'[dd.top] = names[dd.top]
    BY <1>4, <1>7, <1>9
  <2>4. (Formats(dd)' <=> Formats(dd)) /\ (Fits(dd)' <=> Fits(dd))
    BY <1>1, <1>10, <2>2, <2>3 DEF Formats, Fits
  <2>5. c.pc \in {"g_rename", "gi_rename", "cv_conf"} =>
          (Formats(tmp)' <=> Formats(tmp)) /\ (Size(tmp)' = Size(tmp))
    <3> SUFFICES ASSUME c.pc \in {"g_rename", "gi_rename", "cv_conf"}
                 PROVE  (Formats(tmp)' <=> Formats(tmp)) /\ (Size(tmp)' = Size(tmp))
      OBVIOUS
    <3>1. tmp.base = dd.base /\ tmp.top = dd.top /\ tmp' = tmp
      BY <1>1, <1>4, <1>16
    <3>2. Formats(tmp)' <=> Formats(tmp)
      BY <2>2, <2>3, <3>1 DEF Formats
    <3>3. Size(tmp)' = Size(tmp)
      BY <2>2, <2>3, <3>1 DEF Size, TopNode, Top
    <3> QED
      BY <3>2, <3>3
  <2> QED
    BY <1>1, <1>10, <2>1, <2>4, <2>5 DEF Fitting, Fits
<1>22. Followed' => Running(c)'
  <2>1. Followed' => Running(c)
    BY <1>1, <1>3 DEF Disk, Followed, Placed
  <2> QED
    BY <1>1, <1>10, <2>1 DEF Running
<1>23. Returned' => Tidy(c)'
  <2>1. Returned' => Tidy(c)
    BY <1>1, <1>3 DEF Disk, Returned
  <2>2. Tidy(c) => Tidy(c)'
    BY <1>1, <1>9 DEF Tidy, Owns
  <2> QED
    BY <2>1, <2>2
<1>24. Disk(c)'
  BY <1>17, <1>18, <1>19, <1>20, <1>21, <1>22, <1>23 DEF Disk
<1>25. Whole => \A q \in Proc : NoFs(call[q]) => fs' = 0
  BY <1>1 DEF Inv
<1> QED
  BY <1>1, <1>11, <1>12, <1>13, <1>24, <1>25, Beside

=============================================================================
