------------------------------ MODULE Balloon ------------------------------
(* The hidden balloon, discard and the completion of what they left         *)
(* unfinished (balloon.c, balloon_util.c), on one mounted device.           *)
(*                                                                          *)
(* The top image is an index from clusters of the device to blocks of the   *)
(* file.  Inflating the balloon, or trimming the file system, finds         *)
(* clusters nobody needs; their blocks are loaded into the kernel, the live *)
(* blocks at the end of the file are moved into them and the file is cut.   *)
(* Calls race with the guest, with each other and with calls that complete  *)
(* them; a caller may be killed at any step.                                *)
EXTENDS Integers, Sequences, FiniteSets, FiniteSetsExt, SequencesExt

CONSTANTS
  Proc,        \* callers
  None,        \* no holder, and PLOOP_ZERO_INDEX in a reverse map
  N,           \* bound: clusters of the device
  L1,          \* blocks of header and index
  Layouts,     \* bound: the indexes a run begins with, as sequences of blocks
  Ops,         \* operations a run exercises
  MaxCalls,    \* bound: calls
  MaxFaults,   \* bound: failing steps, kills and lost children
  MaxWrites    \* bound: allocations of the guest, and trims

ASSUME BalloonAssumption ==
  /\ N \in Nat \ {0} /\ L1 \in Nat \ {0} /\ None \notin Proc
  /\ Layouts \subseteq [1..N -> {0} \cup L1..(L1 + N - 1)]
  /\ MaxCalls \in Nat /\ MaxFaults \in Nat /\ MaxWrites \in Nat

VARIABLES
  map,     \* the index: block of each cluster, 0 if it has none
  own,     \* the cluster whose data each block of the file holds
  head,    \* alloc_head: the first block after the end of the file
  use,     \* what the file system keeps in each cluster
  mntn,    \* the kernel's maintenance state
  disc,    \* the kernel answers discard requests
  fb,      \* the free blocks the kernel has, as <<cluster, block>>
  moves,   \* the relocation the kernel is at
  lock,    \* the holder of the descriptor's lock
  flock,   \* the holder of the balloon
  call,    \* call[p]: the call p is in, with its locals
  trim,    \* trim[p]: the child of p that trims
  calls, faults, writes,
  windows  \* the circumstances met in which something is known to be left

image == <<map, own, head>>
kernel == <<mntn, disc, fb, moves>>
vars == <<image, use, kernel, lock, flock, call, trim, calls, faults, writes, windows>>

Clu == 0..(N - 1)
Rlen == 2 * N

Idle == [op |-> "idle", pc |-> "idle", type |-> "OFF", fm |-> <<>>, ah |-> 0, plan |-> {},
         new |-> {}, then |-> "ok", else |-> "fail"]

-----------------------------------------------------------------------------
(* Extents: runs of clusters in runs of blocks (balloon_util.c).            *)

Extent(clu, iblk, len) == [clu |-> clu, iblk |-> iblk, len |-> len]
Points(ext) ==
  UNION {{<<ext[i].clu + k, ext[i].iblk + k>> : k \in 0..(ext[i].len - 1)} : i \in DOMAIN ext}
Total(ext) == Cardinality(Points(ext))

\* The reverse map of the clusters in S, restricted to blocks a..b-1.
build_rmap(S, a, b) ==
  [i \in 0..Rlen |-> IF i # 0 /\ a <= i /\ i < b /\ \E c \in S : map[c] = i
                     THEN CHOOSE c \in S : map[c] = i ELSE None]

\* An extent that is extended whenever the block is the next one.
CollectByBlock(e, rmap, i) ==
  LET clu == rmap[i]
      joins(x) == x.on /\ i = x.iblk + x.len
      f == IF e.on /\ (clu = None \/ ~joins(e))
           THEN [e EXCEPT !.out = Append(@, Extent(e.clu, e.iblk, e.len)), !.on = FALSE] ELSE e
  IN  IF clu = None THEN f
      ELSE IF joins(f) THEN [f EXCEPT !.len = @ + 1]
      ELSE [f EXCEPT !.clu = clu, !.iblk = i, !.len = 1, !.on = TRUE]

\* One block of rmap2freemap: e is the extent being collected.
Collect(e, rmap, i) ==
  LET clu == rmap[i]
      joins(x) == i = x.iblk + x.len /\ clu = x.clu + x.len
      closed == e.on /\ (IF clu = None THEN TRUE ELSE ~joins(e))
      f == IF closed THEN [e EXCEPT !.out = Append(@, Extent(e.clu, e.iblk, e.len)),
                                    !.clu = 0, !.iblk = 0, !.on = FALSE]
           ELSE e
  IN  IF clu = None THEN f
      ELSE IF joins(f) THEN [f EXCEPT !.len = @ + 1]
      ELSE [f EXCEPT !.clu = clu, !.iblk = i, !.len = 1, !.on = TRUE]

rmap2freemap(rmap, a, b) ==
  LET start == [out |-> <<>>, clu |-> 0, iblk |-> 0, len |-> 0, on |-> FALSE]
      upto[i \in a..b] == IF i = a THEN start ELSE Collect(upto[i - 1], rmap, i - 1)
      e == upto[b]
  IN  IF e.on THEN Append(e.out, Extent(e.clu, e.iblk, e.len)) ELSE e.out

\* Blocks of the range that no cluster maps but the free list names.
range_fix_gaps(freemap, rmap, a, b) ==
  [i \in DOMAIN rmap |->
     IF a <= i /\ i < b /\ rmap[i] = None /\ \E p \in Points(freemap) : p[2] = i
     THEN (CHOOSE p \in Points(freemap) : p[2] = i)[1] ELSE rmap[i]]

\* A range extent is cut where free extents begin and end.
Split(r, freemap) ==
  LET end == r.iblk + r.len
      piece(i, l, free) == [clu |-> r.clu + (i - r.iblk), iblk |-> i, len |-> l, free |-> free]
      from[i \in r.iblk..end] ==
        LET later == {j \in DOMAIN freemap : freemap[j].iblk + freemap[j].len > i}
            f == freemap[Min(later)]
            l == IF f.iblk <= i THEN Min({end, f.iblk + f.len}) - i ELSE Min({end, f.iblk}) - i
        IN  IF i = end THEN <<>>
            ELSE IF later = {} THEN <<piece(i, end - i, FALSE)>>
            ELSE <<piece(i, l, f.iblk <= i)>> \o from[i + l]
  IN  from[r.iblk]

Moving(relocmap) == Points(SelectSeq(relocmap, LAMBDA e : ~e.free))

range_split(rangemap, freemap) ==
  FlattenSeq([i \in DOMAIN rangemap |-> Split(rangemap[i], freemap)])

\* The blocks at the end of the file, as many as are free, each marked free or
\* to be moved.
range_build(ah, freemap) ==
  LET s == ah - Total(freemap)
      rmap == build_rmap(Clu, s, ah)
  IN  range_split(rmap2freemap(range_fix_gaps(freemap, rmap, s, ah), s, ah), freemap)

-----------------------------------------------------------------------------
(* The kernel.                                                              *)

\* PLOOP_IOC_BALLOON: asks for the state, begins or ends ballooning, and turns
\* a list that discards have filled into a loaded one.
BalloonIoctl(inflate, keep) ==
  IF mntn = "DISCARD" /\ fb # {} THEN "FBLOADED"
  ELSE IF keep \/ mntn \notin {"OFF", "BALLOON"} THEN mntn
  ELSE IF inflate THEN "BALLOON" ELSE "OFF"

\* PLOOP_IOC_DISCARD_FINI, refused (EBUSY) while a list is loaded: the mode
\* ends all the same.
FiniOk == mntn \notin {"FBLOADED", "RELOC"}
DiscardFini ==
  /\ disc' = FALSE
  /\ mntn' = IF mntn = "DISCARD" THEN "OFF" ELSE mntn
  /\ fb' = IF mntn = "DISCARD" THEN {} ELSE fb
  /\ UNCHANGED moves

\* It ends for good, or the relocation is left to the next completion.
Finalized == windows' = IF FiniOk THEN windows ELSE windows \cup {"unfinished"}

\* The discard requests the kernel was sent are answered.
Answered == fb = {} /\ mntn \notin {"FBLOADED", "RELOC"}

\* PLOOP_IOC_RELOCBLKS is accepted for the frozen alloc_head; while blocks are
\* listed the file does not grow.
Accepted(ah) == mntn = "RELOC" \/ (mntn = "FBLOADED" /\ (fb = {} \/ ah = head))

\* The listed blocks beyond the cut go to the free blocks below it; a block
\* that is not listed goes with the end of the file.
Relocated ==
  LET cut == head - Cardinality(fb)
      free == {p[2] : p \in fb}
      from == {p \in moves : p[2] >= cut /\ map[p[1]] = p[2]}
      src == SetToSortSeq(from, LAMBDA p, q : p[2] < q[2])
      dst == SetToSortSeq({b \in free : b < cut}, LAMBDA a, b : a < b)
      k == Min({Len(src), Len(dst)})
      to(c) == {i \in 1..k : src[i][1] = c}
  IN  /\ map' = [c \in Clu |-> IF c \in {p[1] : p \in fb} THEN 0
                               ELSE IF to(c) # {} THEN dst[Min(to(c))] ELSE map[c]]
      /\ own' = [b \in DOMAIN own |->
                   IF \E i \in 1..k : dst[i] = b THEN own[src[CHOOSE i \in 1..k : dst[i] = b][2]]
                   ELSE IF b >= cut \/ b \in free THEN None ELSE own[b]]
      /\ head' = cut
      /\ fb' = {} /\ moves' = {}
      /\ mntn' = IF disc THEN "DISCARD" ELSE "OFF"
      /\ UNCHANGED disc

-----------------------------------------------------------------------------
(* The guest.  While a list is loaded new clusters get its blocks, lowest   *)
(* first; a cluster whose discard is not answered stays with its file       *)
(* system, which does not give it to a file.                                *)

Discarding(c) ==
  /\ \E p \in Proc : trim[p] \in {"sent", "stop", "killed"}
  /\ \E q \in fb : q[1] = c

Write(c) ==
  /\ writes < MaxWrites /\ writes' = writes + 1
  /\ use[c] = "free" /\ use' = [use EXCEPT ![c] = "data"]
  /\ ~Discarding(c)
  /\ LET loaded == mntn \in {"FBLOADED", "RELOC"} /\ fb # {}
         p == CHOOSE q \in fb : \A r \in fb : q[2] <= r[2]
     IN  \/ /\ map[c] # 0
            /\ own' = [own EXCEPT ![map[c]] = c]
            /\ UNCHANGED <<map, head, fb>>
         \/ /\ map[c] = 0 /\ loaded
            /\ map' = [map EXCEPT ![p[1]] = 0, ![c] = p[2]]
            /\ own' = [own EXCEPT ![p[2]] = c]
            /\ fb' = fb \ {p}
            /\ UNCHANGED head
         \/ /\ map[c] = 0 /\ ~loaded /\ head < Rlen
            /\ map' = [map EXCEPT ![c] = head]
            /\ own' = [own EXCEPT ![head] = c]
            /\ head' = head + 1
            /\ UNCHANGED fb
  /\ UNCHANGED <<mntn, disc, moves, lock, flock, call, trim, calls, faults, windows>>

-----------------------------------------------------------------------------
(* Control.                                                                 *)

At(p, pc) == call[p].pc = pc
Set(p, c) == call' = [call EXCEPT ![p] = c]
Go(p, pc) == Set(p, [call[p] EXCEPT !.pc = pc])
\* The call is over but for its result: its locals are of no use any more.
Over(p, pc) == Set(p, [Idle EXCEPT !.op = call[p].op, !.pc = pc, !.new = call[p].new,
                                   !.type = IF call[p].op = "discard" THEN call[p].type ELSE @,
                                   !.then = call[p].then, !.else = call[p].else])
Quiet == UNCHANGED <<calls, faults, writes, windows>>
Fault == faults < MaxFaults /\ faults' = faults + 1 /\ UNCHANGED <<calls, writes>>
FaultAt(w) == Fault /\ windows' = windows \cup {w}
Locks == UNCHANGED <<lock, flock>>

Begin(p, c) ==
  /\ c.op \in Ops /\ call[p] = Idle /\ trim[p] = "none"
  /\ calls < MaxCalls /\ calls' = calls + 1
  /\ Set(p, c)
  /\ UNCHANGED <<image, use, faults, writes, windows>>


\* The balloon of the file system: its whole clusters and, because its size is
\* not a multiple of a cluster, one it shares with files.
Balloon == {c \in Clu : use[c] \in {"balloon", "part"}}

\* get_balloon: the lock of the balloon is not waited for.  A check of an empty
\* balloon has nothing to do.
get_balloon(p) ==
  /\ flock = None
  /\ \E op \in {"inflate", "deflate", "clear", "check", "repair", "complete"} :
       /\ op \in {"check", "repair"} => Balloon # {}
       /\ Begin(p, [Idle EXCEPT !.op = op, !.pc = IF op = "complete" THEN "c_fini" ELSE "b_ctl"])
       /\ flock' = p
  /\ UNCHANGED <<kernel, trim, lock>>

\* A call that holds the lock of the descriptor completes what runs on the
\* device, or is itself a tracked copy or a resize.
ploop_lock_dd(p) ==
  /\ lock = None
  /\ \E op \in {"running", "track"} :
       Begin(p, [Idle EXCEPT !.op = op, !.pc = IF op = "running" THEN "c_state" ELSE "t_begin"])
  /\ lock' = p
  /\ UNCHANGED <<kernel, trim, flock>>

\* The call returns; a child that still trims is left to itself.
Reply(p) ==
  /\ call[p].pc \in {"ok", "fail"}
  /\ Set(p, Idle)
  /\ lock' = IF lock = p THEN None ELSE lock
  /\ flock' = IF flock = p THEN None ELSE flock
  /\ trim' = [trim EXCEPT ![p] = IF @ \in {"done", "dead"} THEN "none" ELSE @]
  /\ Quiet
  /\ UNCHANGED <<image, use, kernel>>

\* A killed caller keeps nothing but its child.
Kill(p) ==
  /\ call[p] # Idle
  /\ FaultAt("killed")
  /\ Set(p, Idle)
  /\ lock' = IF lock = p THEN None ELSE lock
  /\ flock' = IF flock = p THEN None ELSE flock
  /\ trim' = [trim EXCEPT ![p] = IF @ \in {"done", "dead"} THEN "none" ELSE @]
  /\ UNCHANGED <<image, use, kernel>>

-----------------------------------------------------------------------------
(* ploop_balloon_change_size, _clear_state, _check_and_repair.              *)

\* The maintenance state is asked for and, if nothing runs, taken.
BalloonCtl(p) ==
  /\ At(p, "b_ctl")
  /\ LET op == call[p].op
         type == BalloonIoctl(op \notin {"deflate", "clear"}, FALSE)
     IN  /\ mntn' = type
         /\ Set(p, [call[p] EXCEPT !.type = type,
                                   !.pc = CASE op = "clear" -> IF type = "OFF" THEN "ok" ELSE "fail"
                                            [] op = "deflate" -> "b_trunc"
                                            [] op = "inflate" -> "b_alloc"
                                            [] OTHER -> IF type = "BALLOON" THEN "b_load" ELSE "fail",
                                   !.new = {c \in Clu : use[c] = "balloon"}])
  /\ Quiet /\ Locks
  /\ UNCHANGED <<image, use, disc, fb, moves, trim>>

\* The state is dropped before the call returns, also by one that took none.
ToDrop(p, result) == Set(p, [Idle EXCEPT !.op = call[p].op, !.pc = "b_drop", !.then = result])

\* A truncation that only looks at BALLOON.
TruncateBusy(p) ==
  /\ At(p, "b_trunc")
  /\ IF call[p].type # "BALLOON"
     THEN \E S \in SUBSET Balloon :
            /\ use' = [c \in Clu |-> IF c \notin S THEN use[c]
                                     ELSE IF use[c] = "part" THEN "data" ELSE "free"]
            /\ ToDrop(p, "ok")
     ELSE UNCHANGED use /\ ToDrop(p, "fail")
  /\ Quiet /\ Locks
  /\ UNCHANGED <<image, kernel, trim>>

\* do_truncate: not while freed blocks of the balloon are being used.
do_truncate(p) ==
  /\ At(p, "b_trunc")
  /\ IF call[p].type \in {"OFF", "TRACK"}
     THEN \E S \in SUBSET Balloon :
            /\ use' = [c \in Clu |-> IF c \notin S THEN use[c]
                                     ELSE IF use[c] = "part" THEN "data" ELSE "free"]
            /\ ToDrop(p, "ok")
     ELSE UNCHANGED use /\ ToDrop(p, "fail")
  /\ Quiet /\ Locks
  /\ UNCHANGED <<image, kernel, trim>>

\* do_inflate: the balloon grows by whole clusters and perhaps a part of one
\* that files use.  A fallocate that fails drops the state only if it
\* had changed the size; an fsync that fails never does.
do_inflate(p) ==
  /\ At(p, "b_alloc")
  /\ IF call[p].type # "BALLOON"
     THEN Go(p, "fail") /\ UNCHANGED use /\ Quiet
     ELSE \/ \E S \in SUBSET {c \in Clu : use[c] = "free"},
                P \in {X \in SUBSET {c \in Clu : use[c] = "data" /\ map[c] # 0} : Cardinality(X) < 2} :
               /\ S \cup P # {}
               /\ use' = [c \in Clu |-> IF c \in S THEN "balloon" ELSE IF c \in P THEN "part"
                                        ELSE use[c]]
               /\ \/ Quiet /\ Set(p, [call[p] EXCEPT !.pc = "b_load", !.new = S, !.type = "OFF"])
                  \/ FaultAt("stale") /\ Go(p, "fail")
          \/ Fault /\ Set(p, [call[p] EXCEPT !.pc = "b_drop", !.then = "fail"])
             /\ UNCHANGED <<use, windows>>
          \/ FaultAt("stale") /\ Go(p, "fail") /\ UNCHANGED use
  /\ Locks
  /\ UNCHANGED <<image, kernel, trim>>

\* fiemap_get, fiemap_adjust and fiemap_build_rmap: only whole clusters.
Fiemap(S) == build_rmap(S, 0, Rlen)

\* An error before the list is loaded: a repair drops the state, an inflation
\* does not.
LoadFails(p) ==
  LET repair == call[p].op # "inflate"
  IN  /\ IF repair THEN Fault /\ UNCHANGED windows ELSE FaultAt("stale")
      /\ Set(p, [call[p] EXCEPT !.pc = IF repair THEN "b_drop" ELSE "fail", !.then = "fail"])

\* The blocks of the balloon's clusters are found in the index as it is on disk.
fiemap_build_rmap(p) ==
  /\ At(p, "b_load")
  /\ LET fm == rmap2freemap(Fiemap(call[p].new), 0, Rlen)
     IN  \/ Set(p, [call[p] EXCEPT !.pc = IF fm = <<>> \/ call[p].op = "check" THEN "b_drop" ELSE "b_free",
                                   !.fm = fm]) /\ Quiet
         \/ LoadFails(p)
  /\ Locks
  /\ UNCHANGED <<image, use, kernel, trim>>

\* PLOOP_IOC_FREEBLKS loads them.
FreeBlks(p) ==
  /\ At(p, "b_free")
  /\ \/ /\ mntn = "BALLOON"
        /\ mntn' = "FBLOADED" /\ fb' = Points(call[p].fm)
        /\ Set(p, [call[p] EXCEPT !.pc = "x_plan", !.ah = head])
        /\ Quiet
     \/ LoadFails(p) /\ UNCHANGED <<mntn, fb>>
  /\ Locks
  /\ UNCHANGED <<image, use, disc, moves, trim>>

\* A state that is not dropped when there was nothing to free.
DropForgotten(p) ==
  /\ At(p, "b_drop")
  /\ mntn' = IF call[p].then = "ok" /\ call[p].op = "inflate" THEN mntn
             ELSE BalloonIoctl(FALSE, FALSE)
  /\ Go(p, call[p].then)
  /\ Quiet /\ Locks
  /\ UNCHANGED <<image, use, disc, fb, moves, trim>>

\* What was taken is given back.
DropState(p) ==
  /\ At(p, "b_drop")
  /\ mntn' = BalloonIoctl(FALSE, FALSE)
  /\ Go(p, call[p].then)
  /\ Quiet /\ Locks
  /\ UNCHANGED <<image, use, disc, fb, moves, trim>>

-----------------------------------------------------------------------------
(* ploop_balloon_relocation, and the end of a change or repair.  A discard  *)
(* holds the lock of the descriptor while it relocates.                     *)

Done(p, pc) ==
  /\ Over(p, pc)
  /\ lock' = IF call[p].op = "discard" /\ lock = p THEN None ELSE lock
  /\ UNCHANGED flock

\* A relocation that fails leaves what it was about to the next completion.
RelocFails(p) == FaultAt("unfinished") /\ Done(p, call[p].else)

\* PLOOP_IOC_FBGET: the list as the kernel has it now.
FbGet(p) ==
  /\ At(p, "x_get")
  /\ LET rmap == [i \in 0..Rlen |-> IF \E q \in fb : q[2] = i
                                    THEN (CHOOSE q \in fb : q[2] = i)[1] ELSE None]
         fm == rmap2freemap(rmap, 0, Rlen)
     IN  IF mntn # "FBLOADED" THEN Done(p, call[p].else) /\ Quiet
         ELSE \/ /\ Set(p, [call[p] EXCEPT !.pc = IF fm = <<>> THEN "x_reloc" ELSE "x_plan",
                                           !.fm = fm, !.plan = {}])
                 /\ Quiet /\ Locks
              \/ RelocFails(p)
  /\ UNCHANGED <<image, use, kernel, trim>>

\* The end of the file is matched with the free list, from the index as it is
\* on disk now.
Plan(p) ==
  /\ At(p, "x_plan")
  /\ \/ /\ Set(p, [call[p] EXCEPT !.pc = "x_reloc",
                                  !.plan = Moving(range_build(call[p].ah, call[p].fm))])
        /\ Quiet /\ Locks
     \/ RelocFails(p)
  /\ UNCHANGED <<image, use, kernel, trim>>

\* PLOOP_IOC_RELOCBLKS freezes the plan the kernel works on.
RelocBlks(p) ==
  /\ At(p, "x_reloc")
  /\ \/ /\ Accepted(call[p].ah)
        /\ mntn' = "RELOC"
        /\ moves' = IF mntn = "RELOC" THEN moves ELSE call[p].plan
        /\ windows' = IF mntn = "FBLOADED" /\ ~(fb \subseteq Points(call[p].fm))
                      THEN windows \cup {"overtaken"} ELSE windows
        /\ Over(p, "x_move")
        /\ Locks /\ UNCHANGED <<calls, faults, writes>>
     \/ ~Accepted(call[p].ah) /\ Done(p, call[p].else) /\ Quiet /\ UNCHANGED <<mntn, moves>>
     \/ RelocFails(p) /\ UNCHANGED <<mntn, moves>>
  /\ UNCHANGED <<image, use, disc, fb, trim>>

\* The ioctl returns when the relocation is over, whoever began it.
Relocate(p) ==
  /\ At(p, "x_move")
  /\ IF mntn = "RELOC" THEN Relocated ELSE UNCHANGED <<image, kernel>>
  /\ Done(p, call[p].then)
  /\ Quiet
  /\ UNCHANGED <<use, trim>>

-----------------------------------------------------------------------------
(* ploop_balloon_complete and complete_running_operation.                   *)

\* A tracked copy, or a resize, and what a killed one leaves.
Maintain(p) ==
  \/ /\ At(p, "t_begin")
     /\ IF mntn = "OFF"
        THEN mntn' = "TRACK" /\ Go(p, "t_end")
        ELSE UNCHANGED mntn /\ Go(p, "fail")
     /\ Quiet /\ Locks
     /\ UNCHANGED <<image, use, disc, fb, moves, trim>>
  \/ /\ At(p, "t_end")
     /\ mntn' = "OFF" /\ Go(p, "ok")
     /\ Quiet /\ Locks
     /\ UNCHANGED <<image, use, disc, fb, moves, trim>>

complete_running_operation(p) ==
  /\ At(p, "c_state")
  /\ LET state == BalloonIoctl(FALSE, TRUE)
     IN  /\ mntn' = IF state = "TRACK" THEN "OFF" ELSE state
         /\ Go(p, IF state \in {"RELOC", "FBLOADED", "DISCARD"} THEN "c_fini" ELSE "ok")
  /\ Quiet /\ Locks
  /\ UNCHANGED <<image, use, disc, fb, moves, trim>>

CompleteFini(p) ==
  /\ At(p, "c_fini")
  /\ \/ DiscardFini /\ Go(p, "c_ctl") /\ Quiet
     \/ FaultAt("unfinished") /\ Go(p, "fail") /\ UNCHANGED kernel
  /\ Locks
  /\ UNCHANGED <<image, use, trim>>

\* Where the state found leads a relocation.
Towards(type, other) ==
  IF type = "RELOC" THEN "x_reloc" ELSE IF type = "FBLOADED" THEN "x_get" ELSE other

CompleteCtl(p) ==
  /\ At(p, "c_ctl")
  /\ LET type == BalloonIoctl(FALSE, TRUE)
     IN  /\ mntn' = type
         /\ Set(p, [call[p] EXCEPT !.ah = head, !.pc = Towards(type, IF type = "DISCARD" THEN call[p].else
                                                                   ELSE call[p].then)])
  /\ Quiet /\ Locks
  /\ UNCHANGED <<image, use, disc, fb, moves, trim>>

-----------------------------------------------------------------------------
(* Discard: a child trims the file system, its parent answers.              *)

\* DISCARD_INIT under the lock of the descriptor; a discard by device name has
\* no descriptor and takes no lock, now or later.
__ploop_discard(p) ==
  /\ \E locked \in BOOLEAN :
       /\ locked => lock = None
       /\ mntn = "OFF"
       /\ Begin(p, [Idle EXCEPT !.op = "discard", !.pc = "d_fork", !.type = IF locked THEN "dd" ELSE "dev",
                                !.then = "d_wait", !.else = "d_abort"])
  /\ mntn' = "DISCARD" /\ disc' = TRUE /\ fb' = {}
  /\ Locks /\ UNCHANGED <<moves, trim>>

\* fork; if it fails the mode ends and the wait below finds it ended.
Fork(p) ==
  /\ At(p, "d_fork")
  /\ \/ trim' = [trim EXCEPT ![p] = "trim"] /\ Go(p, "d_wait") /\ Quiet /\ UNCHANGED kernel
     \/ /\ Fault /\ Finalized /\ UNCHANGED trim
        /\ DiscardFini /\ Go(p, IF FiniOk THEN "d_wait" ELSE "fail")
  /\ Locks
  /\ UNCHANGED <<image, use>>

\* DISCARD_WAIT, then FBFILTER: a list of fragments too small is dropped.
DiscardWait(p) ==
  /\ At(p, "d_wait")
  /\ \/ ~disc /\ Go(p, "d_reap") /\ Quiet /\ UNCHANGED kernel
     \/ disc /\ ~Answered /\ Go(p, "d_lock") /\ Quiet /\ UNCHANGED kernel
     \/ /\ disc /\ fb # {} /\ mntn = "DISCARD"
        /\ fb' = {} /\ UNCHANGED <<mntn, disc, moves, call>> /\ Quiet
     \/ Fault /\ Go(p, "d_abort") /\ UNCHANGED <<kernel, windows>>
  /\ Locks
  /\ UNCHANGED <<image, use, trim>>

\* The lock is waited for, for a bounded time; under it the state is asked for.
\* Whoever completed the discard meanwhile has ended it.  When enough is freed,
\* or on request, the child is told to stop.
DiscardLock(p) ==
  /\ At(p, "d_lock")
  /\ \/ /\ call[p].type = "dd" /\ lock # None
        /\ Go(p, "d_abort") /\ UNCHANGED <<kernel, lock, trim>>
     \/ /\ call[p].type = "dev" \/ lock = None
        /\ LET type == BalloonIoctl(FALSE, TRUE)
               pc == Towards(type, "d_abort")
           IN  /\ mntn' = type
               /\ lock' = IF pc = "d_abort" \/ call[p].type = "dev" THEN lock ELSE p
               /\ Set(p, [call[p] EXCEPT !.ah = head, !.plan = {}, !.pc = pc])
               /\ \/ UNCHANGED <<disc, trim>>
                  \/ pc # "d_abort" /\ disc' = FALSE
                     /\ trim' = [trim EXCEPT ![p] = IF @ \in {"trim", "sent"} THEN "stop" ELSE @]
        /\ UNCHANGED <<fb, moves>>
  /\ Quiet
  /\ UNCHANGED <<image, use, flock>>

\* The mode ends, if only when the relocation is completed, and the child dies.
DiscardAbort(p) ==
  /\ At(p, "d_abort")
  /\ DiscardFini
  /\ trim' = [trim EXCEPT ![p] = IF @ \in {"trim", "sent", "stop"} THEN "killed" ELSE @]
  /\ Go(p, "d_reap")
  /\ Finalized
  /\ Locks
  /\ UNCHANGED <<image, use, calls, faults, writes>>

\* wait_pid; without a child it fails.
wait_pid(p) ==
  /\ At(p, "d_reap")
  /\ trim[p] \in {"none", "done", "dead"}
  /\ Go(p, IF trim[p] = "done" THEN "ok" ELSE "fail")
  /\ Quiet /\ Locks
  /\ UNCHANGED <<image, use, kernel, trim>>

\* SIGINT or SIGTERM: the cleanup hook completes, without the lock, and the
\* tool exits.
cancel_discard(p) ==
  /\ call[p].op = "discard" /\ call[p].then = "d_wait"
  /\ call[p].pc \in {"d_wait", "d_lock", "x_get", "x_plan", "x_reloc", "x_move", "d_abort"}
  /\ Fault
  /\ Set(p, [Idle EXCEPT !.op = "discard", !.pc = "c_fini", !.then = "fail"])
  /\ Locks
  /\ UNCHANGED <<image, use, kernel, trim, windows>>

\* The child: FITRIM sends clusters that no file uses and waits for the answer.
ploop_trim(p) ==
  /\ trim[p] \in {"trim", "sent"} /\ writes < MaxWrites
  /\ disc /\ mntn = "DISCARD" /\ fb = {}
  /\ \E S \in SUBSET {c \in Clu : use[c] = "free" /\ map[c] # 0} :
       S # {} /\ fb' = {<<c, map[c]>> : c \in S}
  /\ trim' = [trim EXCEPT ![p] = "sent"]
  /\ writes' = writes + 1
  /\ UNCHANGED <<image, use, mntn, disc, moves, lock, flock, call, calls, faults, windows>>

\* A child that exits without DISCARD_FINI.
TrimQuits(p) ==
  /\ trim[p] = "trim" \/ Answered
  /\ trim[p] \in {"trim", "sent", "stop", "killed"}
  /\ trim' = [trim EXCEPT ![p] = IF call[p].op = "discard" THEN "done" ELSE "none"]
  /\ Quiet /\ Locks
  /\ UNCHANGED <<image, use, kernel, call>>

\* The child ends the mode and exits, even if that is by now the mode of a
\* later discard; one that is killed is gone when what it waits for is
\* answered.
TrimEnd(p) ==
  /\ trim[p] = "trim" \/ Answered
  /\ \/ /\ trim[p] \in {"trim", "sent", "stop"}
        /\ DiscardFini /\ Finalized
        /\ trim' = [trim EXCEPT ![p] = IF call[p].op = "discard" THEN "done" ELSE "none"]
     \/ /\ trim[p] = "killed"
        /\ trim' = [trim EXCEPT ![p] = IF call[p].op = "discard" THEN "dead" ELSE "none"]
        /\ UNCHANGED <<kernel, windows>>
  /\ Locks
  /\ UNCHANGED <<image, use, call, calls, faults, writes>>

\* The child is lost; nobody ends the mode.
TrimKilled(p) ==
  /\ trim[p] = "trim" \/ (trim[p] = "sent" /\ Answered)
  /\ FaultAt("child killed")
  /\ trim' = [trim EXCEPT ![p] = IF call[p].op = "discard" THEN "dead" ELSE "none"]
  /\ Locks
  /\ UNCHANGED <<image, use, kernel, call>>

-----------------------------------------------------------------------------

\* An image without holes, with files in some of the clusters it holds.
Init ==
  /\ \E m \in Layouts :
       LET M == {c \in Clu : m[c + 1] # 0}
       IN  /\ map = [c \in Clu |-> m[c + 1]]
           /\ head = L1 + Cardinality(M)
           /\ own = [b \in L1..Rlen |-> IF \E c \in M : map[c] = b
                                       THEN CHOOSE c \in M : map[c] = b ELSE None]
           /\ \E D \in SUBSET M : use = [c \in Clu |-> IF c \in D THEN "data" ELSE "free"]
  /\ mntn = "OFF" /\ disc = FALSE /\ fb = {} /\ moves = {}
  /\ lock = None /\ flock = None
  /\ call = [p \in Proc |-> Idle] /\ trim = [p \in Proc |-> "none"]
  /\ calls = 0 /\ faults = 0 /\ writes = 0 /\ windows = {}

Step(p) ==
  \/ BalloonCtl(p) \/ do_truncate(p) \/ do_inflate(p) \/ fiemap_build_rmap(p)
  \/ FreeBlks(p) \/ DropState(p)
  \/ FbGet(p) \/ Plan(p) \/ RelocBlks(p) \/ Relocate(p)
  \/ Maintain(p) \/ complete_running_operation(p) \/ CompleteFini(p) \/ CompleteCtl(p)
  \/ Fork(p) \/ DiscardWait(p) \/ DiscardLock(p) \/ DiscardAbort(p)
  \/ wait_pid(p) \/ Reply(p) \/ TrimEnd(p)

Next ==
  \/ \E c \in Clu : Write(c)
  \/ \E p \in Proc :
       \/ get_balloon(p) \/ ploop_lock_dd(p) \/ __ploop_discard(p)
       \/ Step(p)
       \/ ploop_trim(p) \/ TrimKilled(p) \/ cancel_discard(p) \/ Kill(p)

Spec == Init /\ [][Next]_vars

-----------------------------------------------------------------------------

\* Whatever is inflated, discarded, completed or killed, in whatever order, a
\* cluster that files use keeps its block and its data, and no two clusters
\* share a block (range_build and what the kernel makes of it), unless a list
\* was loaded between a caller's plan and its RELOCBLKS.
GuestContent ==
  "overtaken" \in windows \/
    \A c \in Clu :
      /\ use[c] \in {"data", "part"} => map[c] # 0 /\ own[map[c]] = c
      /\ map[c] # 0 => map[c] < head
      /\ \A d \in Clu \ {c} : map[c] = map[d] => map[c] = 0

\* An inflation or a repair that succeeds has given back the block of every
\* whole cluster it found in the balloon.
Reclaimed ==
  \A p \in Proc : call[p].op \in {"inflate", "repair"} /\ At(p, "ok")
                    => \A c \in call[p].new : map[c] = 0

Answering == {"d_fork", "d_lock", "d_abort", "x_get", "x_plan", "x_reloc", "x_move", "c_fini", "c_ctl"}

\* When all calls and children are gone, no maintenance state stays behind,
\* unless one was killed or a step of it failed after the state was taken.
NothingStuck ==
  (\A p \in Proc : call[p] = Idle /\ trim[p] = "none") /\ windows = {}
    => mntn = "OFF" /\ ~disc /\ fb = {}

\* Nobody waits for nobody: a discard that waits for requests has a child that
\* will send one or end the mode, and requests that wait have a caller that
\* will answer them, unless a child was lost or a relocation left to others.
DiscardAnswered ==
  windows = {} =>
    /\ (disc /\ Answered /\ \E p \in Proc : At(p, "d_wait"))
         => \E q \in Proc : trim[q] \in {"trim", "sent", "stop"} \/ call[q].pc \in Answering
    /\ (~Answered /\ \E p \in Proc : trim[p] \in {"sent", "stop", "killed"})
         => \E q \in Proc : call[q].pc \in Answering \cup {"d_wait"}
=============================================================================
