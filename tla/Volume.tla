------------------------------- MODULE Volume -------------------------------
(***************************************************************************)
(* Volumes (lib/volume.c).  A volume is a directory that holds a disk      *)
(* descriptor with the images of its own, the path of the parent volume    *)
(* its images continue in, and the directory children, whose links name    *)
(* the volumes that continue in it.  ploop_read_dd follows the parents, so *)
(* that the images of several volumes form one chain; clone, snapshot,     *)
(* delete and switch change several descriptors and directories one after  *)
(* the other, holding only the locks they take themselves.                 *)
(*                                                                         *)
(* Creating and deleting the snapshot of one descriptor, which the module  *)
(* Snapshot has in detail, are single steps here.  What an image holds is  *)
(* the set of the writes that reached it; what a volume holds is the union *)
(* over its chain, since a merge moves writes and never drops one.         *)
(***************************************************************************)
EXTENDS Integers, FiniteSets

CONSTANTS
  Dir,         \* directories of volumes
  Proc,        \* callers of the library, each in a process of its own
  NoDir,       \* no parent
  None,        \* no descriptor, no lock holder, no expected contents
  MaxCalls,    \* bound: calls of the library
  MaxWrites,   \* bound: writes of guests
  MaxFaults,   \* bound: failing steps and killed callers
  Inside       \* images are created in the directory of their volume

ASSUME VolumeAssumption ==
  /\ IsFiniteSet(Dir)
  /\ NoDir \notin Dir
  /\ {MaxCalls, MaxWrites, MaxFaults} \subseteq Nat
  /\ Inside \in BOOLEAN

\* An image with its uuid, the uuid of its parent and its file; a descriptor.
Image == [guid : Nat, parent : Int, file : Nat]
Descriptor ==
  [own : SUBSET Image, far : SUBSET Image, top : Nat, parent : Dir \cup {NoDir},
   snap : Int, ro : BOOLEAN]

\* None is no process, no descriptor and no set of writes.
ASSUME NoneAssumption ==
  /\ None \notin Proc
  /\ None \notin Descriptor
  /\ \A W \in SUBSET (0 .. MaxWrites) : None # W

VARIABLES
  dd,       \* the stored DiskDescriptor.xml of each directory
  tmp,      \* DiskDescriptor.xml.vol.tmp
  layout,   \* the directories that exist
  kids,     \* the links in children
  files,    \* what each existing image file holds
  place,    \* the directory an image file is in, NoDir: the image storage
  lock,     \* the process that holds DiskDescriptor.xml.lck
  mounted,  \* volumes a running device is made of
  call,     \* the call each process is in
  next,     \* the next unused uuid and file name
  calls, writes, faults,
  want,     \* what each volume has to hold, None: no promise made
  windows   \* circumstances under which volumes are known to be damaged

vars == <<dd, tmp, layout, kids, files, place, lock, mounted, call, next,
          calls, writes, faults, want, windows>>
disk == <<dd, tmp, layout, kids, files, place>>

TOPDELTA_UUID == 0
NONE_UUID == -1

Idle == [op |-> "idle"]

-----------------------------------------------------------------------------
(* Descriptors: own is what the file lists, far what ploop_read_dd appends. *)

\* The directories ploop_read_dd visits: d, its parent, and so on, the smallest
\* set with d that holds the parents of its members.
Line(d) ==
  LET closed(S) == \A x \in S : dd[x] # None /\ dd[x].parent # NoDir => dd[x].parent \in S
  IN  {x \in Dir : \A S \in SUBSET Dir : d \in S /\ closed(S) => x \in S}

Readable(d) == \A x \in Line(d) : dd[x] # None

ploop_read_dd(d) ==
  [dd[d] EXCEPT !.far = UNION {dd[x].own : x \in Line(d) \ {d}}]

Images(di) == di.own \cup di.far
Has(di, g) == \E e \in Images(di) : e.guid = g
Entry(di, g) == CHOOSE e \in Images(di) : e.guid = g
Children(di, g) == {e \in Images(di) : e.parent = g}
OneChild(di, g) == \E e \in Images(di) : Children(di, g) = {e}

\* The stored form leaves alien entries out.
ploop_store_diskdescriptor(di) == [di EXCEPT !.far = {}]

ploop_di_change_guid(di, g, h) ==
  LET new(x) == IF x = g THEN h ELSE x
      all(S) == {[e EXCEPT !.guid = new(@), !.parent = new(@)] : e \in S}
  IN  [di EXCEPT !.own = all(@), !.far = all(@), !.top = new(@)]

\* The files from image g down to the base; make_images_list fails when one
\* of them is not listed.
Guids(di, g) ==
  LET P[n \in 0..Cardinality(Images(di))] ==
        IF n = 0 THEN {}
        ELSE {Entry(di, x).parent : x \in {y \in {g} \cup P[n - 1] : Has(di, y)}}
  IN  ({g} \cup P[Cardinality(Images(di))]) \ {NONE_UUID}

Whole(di, g) ==
  \A x \in Guids(di, g) : Has(di, x) /\ Entry(di, x).file \in DOMAIN files

Held(di, g) == UNION {files[Entry(di, x).file] : x \in Guids(di, g)}

\* The directory of the base image, where new deltas go.
get_delta_storage_dir(di) ==
  place[(CHOOSE e \in Images(di) : e.parent = NONE_UUID).file]
HasBase(di) == Children(di, NONE_UUID) # {}

\* do_create_snapshot: the top image becomes snapshot g, image f is the new
\* top; only a volume without a parent keeps TOPDELTA_UUID for it.
Snapshotted(di, g, f) ==
  LET top == IF di.parent # NoDir THEN f ELSE TOPDELTA_UUID
      old == ploop_di_change_guid(di, di.top, g)
  IN  [old EXCEPT !.own = @ \cup {[guid |-> top, parent |-> g, file |-> f]},
                  !.top = top]

\* A merge that leaves the alien mark of the file it keeps as it was.
MergedAlien(di, g) ==
  LET e == CHOOSE e \in Images(di) : e.parent = g
      q == Entry(di, g)
      m == [q EXCEPT !.guid = e.guid]
      put(S) == (S \ {e, q}) \cup (IF q \in S THEN {m} ELSE {})
  IN  [di EXCEPT !.own = put(@), !.far = put(@)]

\* do_delete_snapshot with one child: the child is merged into image g, whose
\* file takes the child's place in the descriptor.
Merged(di, g) ==
  LET e == CHOOSE e \in Images(di) : e.parent = g
      q == Entry(di, g)
      m == [q EXCEPT !.guid = e.guid]
      put(S) == (S \ {e, q}) \cup (IF e \in S THEN {m} ELSE {})
  IN  [di EXCEPT !.own = put(@), !.far = put(@)]

Without(di, g) ==
  [di EXCEPT !.own = {e \in @ : e.guid # g}, !.far = {e \in @ : e.guid # g}]

\* What do_delete_snapshot(di, g) does to the descriptor and to the files.
DeleteAllowed(di, g, online) ==
  /\ g # NONE_UUID
  /\ Has(di, g)
  /\ ~(online /\ g = di.top)
  /\ Children(di, g) = {} => Entry(di, g).parent # NONE_UUID
  /\ OneChild(di, g) => Whole(di, (CHOOSE e \in Children(di, g) : TRUE).guid)

DeletedDd(di, g) ==
  CASE Children(di, g) = {} -> Without(di, g)
    [] OneChild(di, g)      -> Merged(di, g)
    [] OTHER                -> di

Drop(F) == [f \in DOMAIN files \ F |-> files[f]]

DeletedFiles(di, g) ==
  CASE Children(di, g) = {} -> Drop({Entry(di, g).file})
    [] OneChild(di, g) ->
         LET e == Entry(di, (CHOOSE e \in Children(di, g) : TRUE).guid)
             q == Entry(di, g)
         IN  [f \in DOMAIN files \ {e.file} |->
                IF f = q.file THEN files[f] \cup files[e.file] ELSE files[f]]
    [] OTHER -> files

-----------------------------------------------------------------------------
Init ==
  /\ dd = [d \in Dir |-> None]
  /\ tmp = [d \in Dir |-> None]
  /\ layout = {}
  /\ kids = [d \in Dir |-> {}]
  /\ files = <<>>
  /\ place = <<>>
  /\ lock = [d \in Dir |-> None]
  /\ mounted = {}
  /\ call = [p \in Proc |-> Idle]
  /\ next = 1
  /\ calls = 0 /\ writes = 0 /\ faults = 0
  /\ want = [d \in Dir |-> None]
  /\ windows = {}

At(p, op, pc) == call[p].op = op /\ call[p].pc = pc
Goto(p, pc) == call' = [call EXCEPT ![p].pc = pc]

\* A call ends: whatever it locked is unlocked.
Return(p) ==
  /\ call' = [call EXCEPT ![p] = Idle]
  /\ lock' = [d \in Dir |-> IF lock[d] = p THEN None ELSE lock[d]]

\* ploop_open_dd and ploop_lock_dd: the lock, then the descriptor as it is now.
Locked(p, d) ==
  /\ dd[d] # None /\ lock[d] = None /\ Readable(d)
  /\ lock' = [lock EXCEPT ![d] = p]

\* The descriptor is missing, its chain unreadable, or the lock is not given
\* up within LOCK_TIMEOUT; a caller that holds it already waits for itself.
LockFails(p, d) == dd[d] = None \/ ~Readable(d) \/ lock[d] # None

\* A caller names volumes that were made, and after a kill also what is left.
Known(d) == want[d] # None \/ "killed" \in windows

\* The name of the circumstance when the condition holds.
When(cond, name) == IF cond THEN {name} ELSE {}

Begin(p, rec, circumstances) ==
  /\ call[p] = Idle
  /\ calls < MaxCalls
  /\ calls' = calls + 1
  /\ call' = [call EXCEPT ![p] = rec]
  /\ windows' = windows \cup circumstances
                        \cup When("killed" \in windows, "after a kill")
                        \cup When("link lost" \in windows, "after a lost link")

Fail == faults < MaxFaults /\ faults' = faults + 1

\* A new image file, empty, in the image storage or in directory d.
NewFile(f, d) ==
  /\ files' = [x \in DOMAIN files \cup {f} |-> IF x = f THEN {} ELSE files[x]]
  /\ place' = [x \in DOMAIN place \cup {f} |-> IF x = f THEN d ELSE place[x]]

\* destroy_layout: every file in the directory and the directory itself.
\* The directory children is not empty when it holds links: it stays then.
Destroyed(d) ==
  /\ dd' = [dd EXCEPT ![d] = None]
  /\ tmp' = [tmp EXCEPT ![d] = None]
  /\ layout' = IF kids[d] = {} THEN layout \ {d} ELSE layout
  /\ files' = Drop({f \in DOMAIN files : place[f] = d})
  /\ UNCHANGED <<kids, place>>

-----------------------------------------------------------------------------
(* Volumes come into being. *)

ploop_volume_create(p, d) ==
  /\ Begin(p, Idle, When(d \in layout, "existing"))
  /\ \/ /\ dd[d] = None
        /\ NewFile(next, IF Inside THEN d ELSE NoDir)
        /\ dd' = [dd EXCEPT ![d] =
             [own |-> {[guid |-> TOPDELTA_UUID, parent |-> NONE_UUID, file |-> next]},
              far |-> {}, top |-> TOPDELTA_UUID, parent |-> NoDir,
              snap |-> NONE_UUID, ro |-> FALSE]]
        /\ layout' = layout \cup {d}
        /\ next' = next + 1
        /\ want' = [want EXCEPT ![d] = {}]
        /\ UNCHANGED <<tmp, kids>>
     \* init_dd refuses, the layout is destroyed all the same
     \/ /\ dd[d] # None
        /\ Destroyed(d)
        /\ UNCHANGED <<next, want>>
  /\ UNCHANGED <<lock, mounted, writes, faults>>

CloneBegin(p, s, d) ==
  /\ s # d /\ Known(s)
  /\ Locked(p, s)
  /\ LET di == ploop_read_dd(s)
         g == IF ~di.ro THEN next ELSE IF di.snap # NONE_UUID THEN di.snap ELSE di.top
     IN  /\ Begin(p, [op |-> "clone", pc |-> "volume", d |-> d, s |-> s, di |-> di, g |-> g],
                  When(d \in layout, "existing") \cup When(di.ro /\ g # di.top, "nested"))
         /\ next' = IF di.ro THEN next ELSE next + 1
  /\ layout' = layout \cup {d}
  /\ UNCHANGED <<dd, tmp, kids, files, place, mounted, writes, faults, want>>

\* create_volume: an empty delta on top of snapshot g of volume src, and the
\* descriptor of dst that names it.
create_volume(src, dst, dir, g) ==
  /\ NewFile(next, dir)
  /\ dd' = [dd EXCEPT ![dst] =
       [own |-> {[guid |-> next, parent |-> g, file |-> next]}, far |-> {},
        top |-> next, parent |-> src, snap |-> g, ro |-> FALSE]]
  /\ next' = next + 1

CloneVolume(p) ==
  /\ At(p, "clone", "volume")
  /\ LET c == call[p] IN
     /\ create_volume(c.s, c.d, IF Inside THEN c.d ELSE NoDir, c.g)
     /\ Goto(p, IF c.di.ro THEN "link" ELSE "snapshot")
  /\ UNCHANGED <<tmp, layout, kids, lock, mounted, calls, writes, faults, want, windows>>

\* do_create_snapshot of the descriptor the call holds; the caller's directory
\* s gets the new descriptor.
do_create_snapshot(p) ==
  LET c == call[p] IN
  /\ HasBase(c.di)
  /\ NewFile(next, get_delta_storage_dir(c.di))
  /\ dd' = [dd EXCEPT ![c.s] = ploop_store_diskdescriptor(Snapshotted(c.di, c.g, next))]
  /\ next' = next + 1

CloneSnapshot(p) ==
  /\ At(p, "clone", "snapshot")
  /\ do_create_snapshot(p)
  /\ call' = [call EXCEPT ![p].pc = "link", ![p].di = Snapshotted(@, call[p].g, next)]
  /\ UNCHANGED <<tmp, layout, kids, lock, mounted, calls, writes, faults, want, windows>>

\* What volume s, whose descriptor is di, held before its present top image
\* was put on top.
Before(s, di) ==
  IF want[s] = None THEN None ELSE want[s] \ files[Entry(di, di.top).file]

CloneLink(p) ==
  /\ At(p, "clone", "link")
  /\ LET c == call[p] IN
     /\ c.d \notin kids[c.s]
     /\ kids' = [kids EXCEPT ![c.s] = @ \cup {c.d}]
     /\ want' = [want EXCEPT ![c.d] = IF c.di.ro THEN want[c.s] ELSE Before(c.s, c.di)]
  /\ Return(p)
  /\ UNCHANGED <<dd, tmp, layout, files, place, mounted, next, calls, writes, faults, windows>>

\* A step fails, the link also when one of its name is there: what was done
\* before it is undone.
CloneFails(p) ==
  /\ \/ At(p, "clone", "volume") /\ Goto(p, "destroy")
     \/ At(p, "clone", "snapshot") /\ Goto(p, "destroy")
     \/ At(p, "clone", "link") /\ Goto(p, IF call[p].di.ro THEN "destroy" ELSE "undo")
  /\ \/ Fail
     \/ At(p, "clone", "link") /\ call[p].d \in kids[call[p].s] /\ UNCHANGED faults
  /\ UNCHANGED <<disk, lock, mounted, next, calls, writes, want, windows>>

-----------------------------------------------------------------------------
(* ploop_volume_snapshot: the snapshot takes over the images, the source    *)
(* keeps a new delta and becomes the child of the snapshot.                 *)

SnapshotBegin(p, s, d) ==
  /\ s # d /\ Known(s)
  /\ Locked(p, s)
  /\ ~dd[s].ro
  /\ Begin(p, [op |-> "snapshot", pc |-> "link", d |-> d, s |-> s,
               di |-> ploop_read_dd(s), g |-> next], When(d \in layout, "existing"))
  /\ next' = next + 1
  /\ layout' = layout \cup {d}
  /\ UNCHANGED <<dd, tmp, kids, files, place, mounted, writes, faults, want>>

SnapshotLink(p) ==
  /\ At(p, "snapshot", "link")
  /\ kids' = [kids EXCEPT ![call[p].d] = @ \cup {call[p].s}]
  /\ Goto(p, "snapshot")
  /\ UNCHANGED <<dd, tmp, layout, files, place, lock, mounted, next, calls, writes,
                 faults, want, windows>>

SnapshotCreate(p) ==
  /\ At(p, "snapshot", "snapshot")
  /\ do_create_snapshot(p)
  /\ call' = [call EXCEPT ![p].pc = "snap dd", ![p].di = Snapshotted(@, call[p].g, next)]
  /\ UNCHANGED <<tmp, layout, kids, lock, mounted, calls, writes, faults, want, windows>>

\* create_snapshot_dd: the stored descriptor of the source without its top.
create_snapshot_dd(p) ==
  /\ At(p, "snapshot", "snap dd")
  /\ LET c == call[p] IN
     dd' = [dd EXCEPT ![c.d] = [Without(dd[c.s], dd[c.s].top) EXCEPT !.ro = TRUE, !.top = c.g]]
  /\ Goto(p, "child dd")
  /\ UNCHANGED <<tmp, layout, kids, files, place, lock, mounted, next, calls, writes,
                 faults, want, windows>>

\* A child that keeps all images it had.
KeepImages(p) ==
  /\ At(p, "snapshot", "child dd")
  /\ LET c == call[p] IN
     tmp' = [tmp EXCEPT ![c.s] = [dd[c.s] EXCEPT !.parent = c.d, !.snap = c.g, !.ro = FALSE]]
  /\ Goto(p, IF call[p].di.parent # NoDir THEN "register" ELSE "rename")
  /\ UNCHANGED <<dd, layout, kids, files, place, lock, mounted, next, calls, writes,
                 faults, want, windows>>

\* update_child_dd: of the source's images only the top stays its own.
update_child_dd(p) ==
  /\ At(p, "snapshot", "child dd")
  /\ LET c == call[p]
         d == dd[c.s]
     IN  tmp' = [tmp EXCEPT ![c.s] = [d EXCEPT !.own = {e \in @ : e.guid = d.top},
                                               !.parent = c.d, !.snap = c.g, !.ro = FALSE]]
  /\ Goto(p, IF call[p].di.parent # NoDir THEN "register" ELSE "rename")
  /\ UNCHANGED <<dd, layout, kids, files, place, lock, mounted, next, calls, writes,
                 faults, want, windows>>

SnapshotRegister(p) ==
  /\ At(p, "snapshot", "register")
  /\ LET c == call[p] IN
     /\ c.di.parent \in layout /\ c.d \notin kids[c.di.parent]
     /\ kids' = [kids EXCEPT ![c.di.parent] = @ \cup {c.d}]
  /\ Goto(p, "unregister")
  /\ UNCHANGED <<dd, tmp, layout, files, place, lock, mounted, next, calls, writes,
                 faults, want, windows>>

SnapshotUnregister(p) ==
  /\ At(p, "snapshot", "unregister")
  /\ kids' = [kids EXCEPT ![call[p].di.parent] = @ \ {call[p].s}]
  /\ Goto(p, "rename")
  /\ UNCHANGED <<dd, tmp, layout, files, place, lock, mounted, next, calls, writes,
                 faults, want, windows>>

\* The new descriptor of the source replaces the old one; the snapshot holds
\* what the source held when its top image was changed.
SnapshotRename(p) ==
  /\ At(p, "snapshot", "rename")
  /\ LET c == call[p] IN
     /\ dd' = [dd EXCEPT ![c.s] = tmp[c.s]]
     /\ tmp' = [tmp EXCEPT ![c.s] = None]
     /\ want' = [want EXCEPT ![c.d] = Before(c.s, c.di)]
  /\ Return(p)
  /\ UNCHANGED <<layout, kids, files, place, mounted, next, calls, writes, faults, windows>>

\* A failure after parent links were changed leaves them changed.
SnapshotFails(p) ==
  /\ \/ \E pc \in {"link", "snapshot"} : At(p, "snapshot", pc) /\ Goto(p, "unlink")
     \/ \E pc \in {"snap dd", "child dd", "register", "unregister", "rename"} :
          At(p, "snapshot", pc) /\ Goto(p, "undo")
  /\ windows' = windows \cup
       When(call[p].pc = "unregister" \/ (call[p].pc = "rename" /\ call[p].di.parent # NoDir),
            "links")
  /\ Fail
  /\ UNCHANGED <<disk, lock, mounted, next, calls, writes, want>>

\* The way out of both: do_delete_snapshot merges the new delta back, the
\* links and the layout of the new directory go.
Undo(p) ==
  /\ call[p].op \in {"clone", "snapshot"} /\ call[p].pc = "undo"
  /\ LET c == call[p]
         ok == DeleteAllowed(c.di, c.g, c.s \in mounted)
     IN  /\ dd' = IF ok THEN [dd EXCEPT ![c.s] = ploop_store_diskdescriptor(DeletedDd(c.di, c.g))]
                  ELSE dd
         /\ files' = IF ok THEN DeletedFiles(c.di, c.g) ELSE files
         /\ Goto(p, IF c.op = "clone" THEN "destroy" ELSE "unlink")
  /\ UNCHANGED <<tmp, layout, kids, place, lock, mounted, next, calls, writes, faults,
                 want, windows>>

SnapshotUnlink(p) ==
  /\ At(p, "snapshot", "unlink")
  /\ kids' = [kids EXCEPT ![call[p].d] = @ \ {call[p].s}]
  /\ Goto(p, "destroy")
  /\ UNCHANGED <<dd, tmp, layout, files, place, lock, mounted, next, calls, writes,
                 faults, want, windows>>

UndoDestroy(p) ==
  /\ call[p].op \in {"clone", "snapshot"} /\ call[p].pc = "destroy"
  /\ Destroyed(call[p].d)
  /\ Return(p)
  /\ UNCHANGED <<mounted, next, calls, writes, faults, want, windows>>
-----------------------------------------------------------------------------
(* ploop_volume_delete. *)

DeleteBegin(p, d) ==
  /\ Known(d)
  /\ Locked(p, d)
  /\ d \notin mounted
  /\ Begin(p, [op |-> "delete", pc |-> IF dd[d].parent # NoDir THEN "parent" ELSE "children",
               d |-> d, di |-> ploop_read_dd(d)], {})
  /\ UNCHANGED <<disk, mounted, next, writes, faults, want>>

DeleteParent(p) ==
  /\ At(p, "delete", "parent")
  /\ \/ Locked(p, call[p].di.parent) /\ Goto(p, "children")
     \/ LockFails(p, call[p].di.parent) /\ Return(p)
  /\ UNCHANGED <<disk, mounted, next, calls, writes, faults, want, windows>>

\* get_first_sibling: none, one or several links; a link that leads nowhere
\* is an error.
get_first_sibling(p) ==
  /\ At(p, "delete", "children")
  /\ LET d == call[p].d IN
     \/ kids[d] = {} /\ Goto(p, "images") /\ UNCHANGED lock
     \/ \E c \in kids[d] :
          /\ kids[d] = {c} /\ c \in layout
          /\ call' = [call EXCEPT ![p] = [op |-> "delete", pc |-> "lock child", d |-> d,
                                          di |-> @.di, c |-> c]]
          /\ UNCHANGED lock
     \/ (Cardinality(kids[d]) > 1 \/ ~(kids[d] \subseteq layout)) /\ Return(p)
  /\ UNCHANGED <<disk, mounted, next, calls, writes, faults, want, windows>>

\* A volume nothing continues in: all of its images when it has no parent
\* (delete_images), else its top image (volume_delete_top).
DeleteImages(p) ==
  /\ At(p, "delete", "images")
  /\ LET c == call[p] IN
     /\ files' = Drop(IF c.di.parent = NoDir THEN {e.file : e \in Images(c.di)}
                      ELSE {Entry(c.di, c.di.top).file})
     /\ want' = [want EXCEPT ![c.d] = None]
     /\ Goto(p, IF c.di.parent = NoDir THEN "destroy" ELSE "unregister")
  /\ UNCHANGED <<dd, tmp, layout, kids, place, lock, mounted, next, calls, writes,
                 faults, windows>>

\* volume_delete: the only child takes over parent and snapshot and merges
\* the images of the deleted volume into its own.
DeleteLockChild(p) ==
  /\ At(p, "delete", "lock child")
  /\ LET c == call[p] IN
     \/ /\ Locked(p, c.c)
        /\ call' = [call EXCEPT ![p] =
             [op |-> "delete", pc |-> "merge", d |-> c.d, di |-> c.di, c |-> c.c,
              child |-> ploop_read_dd(c.c)]]
        /\ windows' = windows
             \cup When(dd[c.c].parent # c.d, "stale child")
             \cup When(want[c.c] = None, "half made child")
     \/ LockFails(p, c.c) /\ Return(p) /\ UNCHANGED windows
  /\ UNCHANGED <<disk, mounted, next, calls, writes, faults, want>>

DeleteMerge(p) ==
  /\ At(p, "delete", "merge")
  /\ LET c == call[p]
         child == [c.child EXCEPT !.parent = c.di.parent, !.snap = c.di.snap]
         g == c.child.snap
     IN  \/ /\ DeleteAllowed(child, g, c.c \in mounted)
            /\ dd' = [dd EXCEPT ![c.c] = ploop_store_diskdescriptor(DeletedDd(child, g))]
            /\ files' = DeletedFiles(child, g)
            /\ want' = [want EXCEPT ![c.d] = None]
            /\ windows' = windows \cup When(Cardinality(c.di.own) # 1, "several images")
            /\ Goto(p, "unlink child")
            /\ UNCHANGED <<lock, faults>>
         \/ /\ ~DeleteAllowed(child, g, c.c \in mounted) /\ Return(p)
            /\ UNCHANGED <<dd, files, want, windows, faults>>
         \/ Fail /\ Return(p) /\ UNCHANGED <<dd, files, want, windows>>
  /\ UNCHANGED <<tmp, layout, kids, place, mounted, next, calls, writes>>

DeleteUnlinkChild(p) ==
  /\ At(p, "delete", "unlink child")
  /\ kids' = [kids EXCEPT ![call[p].d] = @ \ {call[p].c}]
  /\ Goto(p, IF call[p].di.parent # NoDir THEN "unregister" ELSE "destroy")
  /\ UNCHANGED <<dd, tmp, layout, files, place, lock, mounted, next, calls, writes,
                 faults, want, windows>>

DeleteUnregister(p) ==
  /\ At(p, "delete", "unregister")
  /\ kids' = [kids EXCEPT ![call[p].di.parent] = @ \ {call[p].d}]
  /\ Goto(p, IF "c" \in DOMAIN call[p] THEN "register" ELSE "destroy")
  /\ UNCHANGED <<dd, tmp, layout, files, place, lock, mounted, next, calls, writes,
                 faults, want, windows>>

\* The child of a deleted volume is not linked to its new parent.
NotRegistered(p) ==
  /\ At(p, "delete", "register")
  /\ Goto(p, "destroy")
  /\ UNCHANGED <<disk, lock, mounted, next, calls, writes, faults, want, windows>>

DeleteRegister(p) ==
  /\ At(p, "delete", "register")
  /\ kids' = [kids EXCEPT ![call[p].di.parent] = @ \cup {call[p].c}]
  /\ Goto(p, "destroy")
  /\ UNCHANGED <<dd, tmp, layout, files, place, lock, mounted, next, calls, writes,
                 faults, want, windows>>

DeleteDestroy(p) ==
  /\ At(p, "delete", "destroy")
  /\ Destroyed(call[p].d)
  /\ Return(p)
  /\ UNCHANGED <<mounted, next, calls, writes, faults, want, windows>>

-----------------------------------------------------------------------------
(* ploop_volume_switch: volume from gets an empty delta on top of to. *)

SwitchBegin(p, from, to) ==
  /\ Known(from) /\ Known(to)
  /\ Locked(p, from)
  /\ ~dd[from].ro /\ from \notin mounted /\ kids[from] = {}
  /\ Begin(p, [op |-> "switch", pc |-> "lock", d |-> from, s |-> to,
               di |-> ploop_read_dd(from)], {})
  /\ UNCHANGED <<disk, mounted, next, writes, faults, want>>

SwitchLock(p) ==
  /\ At(p, "switch", "lock")
  /\ LET c == call[p] IN
     \/ /\ Locked(p, c.s) /\ HasBase(c.di)
        /\ call' = [call EXCEPT ![p] =
             [op |-> "switch", pc |-> "volume", d |-> c.d, s |-> c.s, di |-> c.di,
              to |-> ploop_read_dd(c.s)]]
        /\ windows' = windows \cup When(want[c.s] = None, "half made target")
     \/ LockFails(p, c.s) /\ Return(p) /\ UNCHANGED windows
  /\ UNCHANGED <<disk, mounted, next, calls, writes, faults, want>>

ploop_find_parent_by_guid(di, g) == IF Has(di, g) THEN Entry(di, g).parent ELSE NONE_UUID

\* The snapshot of di that from continues in: the top of a snapshot, what a
\* volume itself continues in, or the snapshot below its top.
SwitchGuid(di) ==
  IF di.ro THEN di.top
  ELSE IF di.snap # NONE_UUID THEN di.snap ELSE ploop_find_parent_by_guid(di, di.top)

SwitchVolume(p) ==
  /\ At(p, "switch", "volume")
  /\ LET c == call[p]
         g == SwitchGuid(c.to)
     IN  \/ /\ g # NONE_UUID
            /\ create_volume(c.s, c.d, get_delta_storage_dir(c.di), g)
            /\ want' = [want EXCEPT ![c.d] = IF want[c.s] # None /\ Whole(c.to, g)
                                             THEN Held(c.to, g) ELSE None]
            /\ windows' = windows \cup When(~c.to.ro, "switch to a volume")
            /\ Goto(p, "unregister")
            /\ UNCHANGED <<lock, faults>>
         \/ /\ \/ g = NONE_UUID /\ UNCHANGED faults
               \/ Fail
            /\ Return(p)
            /\ UNCHANGED <<dd, files, place, next, want, windows>>
  /\ UNCHANGED <<tmp, layout, kids, mounted, calls, writes>>

\* unregister_sibling with the path of no parent finds no link.
SwitchUnregister(p) ==
  /\ At(p, "switch", "unregister")
  /\ LET c == call[p] IN
     kids' = IF c.di.parent = NoDir THEN kids
             ELSE [kids EXCEPT ![c.di.parent] = @ \ {c.d}]
  /\ Goto(p, "register")
  /\ UNCHANGED <<dd, tmp, layout, files, place, lock, mounted, next, calls, writes,
                 faults, want, windows>>

SwitchRegister(p) ==
  /\ At(p, "switch", "register")
  /\ kids' = [kids EXCEPT ![call[p].s] = @ \cup {call[p].d}]
  /\ Goto(p, "old delta")
  /\ UNCHANGED <<dd, tmp, layout, files, place, lock, mounted, next, calls, writes,
                 faults, want, windows>>

\* The link from the new parent is not made.  Nobody looks at that: the
\* operation goes on, and later calls take the parent for childless.
LinkLost(p) ==
  /\ \/ At(p, "switch", "register") /\ Goto(p, "old delta")
     \/ At(p, "delete", "register") /\ Goto(p, "destroy")
  /\ Fail
  /\ windows' = windows \cup {"link lost"}
  /\ UNCHANGED <<disk, lock, mounted, next, calls, writes, want>>

SwitchOldDelta(p) ==
  /\ At(p, "switch", "old delta")
  /\ files' = Drop({Entry(call[p].di, call[p].di.top).file})
  /\ Return(p)
  /\ UNCHANGED <<dd, tmp, layout, kids, place, mounted, next, calls, writes, faults,
                 want, windows>>

-----------------------------------------------------------------------------
(* Devices and faults. *)

\* ploop mount: refused when the top image has children in the chain.  Nobody
\* mounts a volume that is being made or being deleted.
Mount(d) ==
  /\ d \notin mounted /\ want[d] # None /\ lock[d] = None /\ dd[d] # None /\ Readable(d)
  /\ LET di == ploop_read_dd(d) IN
     Whole(di, di.top) /\ (di.ro \/ Children(di, di.top) = {})
  /\ mounted' = mounted \cup {d}
  /\ UNCHANGED <<disk, lock, call, next, calls, writes, faults, want, windows>>

Umount(d) ==
  /\ d \in mounted /\ lock[d] = None
  /\ mounted' = mounted \ {d}
  /\ UNCHANGED <<disk, lock, call, next, calls, writes, faults, want, windows>>

\* The guest writes to the top image of a device that is not read-only.
Write(d) ==
  /\ d \in mounted /\ dd[d] # None /\ ~dd[d].ro
  /\ writes < MaxWrites /\ writes' = writes + 1
  /\ \E e \in dd[d].own :
       /\ e.guid = dd[d].top /\ e.file \in DOMAIN files
       /\ files' = [files EXCEPT ![e.file] = @ \cup {writes}]
  /\ want' = [want EXCEPT ![d] = IF @ = None THEN None ELSE @ \cup {writes}]
  /\ UNCHANGED <<dd, tmp, layout, kids, place, lock, mounted, call, next, calls, faults, windows>>

\* The caller is killed in the middle; its locks go with it.
Kill(p) ==
  /\ call[p] # Idle
  /\ Fail
  /\ Return(p)
  /\ windows' = windows \cup {"killed"}
  /\ UNCHANGED <<disk, mounted, next, calls, writes, want>>

Next ==
  \/ \E p \in Proc :
       \/ \E d \in Dir : ploop_volume_create(p, d) \/ DeleteBegin(p, d)
       \/ \E s, d \in Dir : CloneBegin(p, s, d) \/ SnapshotBegin(p, s, d) \/ SwitchBegin(p, s, d)
       \/ CloneVolume(p) \/ CloneSnapshot(p) \/ CloneLink(p) \/ CloneFails(p)
       \/ SnapshotLink(p) \/ SnapshotCreate(p) \/ create_snapshot_dd(p) \/ update_child_dd(p)
       \/ SnapshotRegister(p) \/ SnapshotUnregister(p) \/ SnapshotRename(p) \/ SnapshotFails(p)
       \/ Undo(p) \/ SnapshotUnlink(p) \/ UndoDestroy(p)
       \/ DeleteParent(p) \/ get_first_sibling(p) \/ DeleteImages(p) \/ DeleteLockChild(p)
       \/ DeleteMerge(p) \/ DeleteUnlinkChild(p) \/ DeleteUnregister(p) \/ DeleteRegister(p)
       \/ DeleteDestroy(p)
       \/ SwitchLock(p) \/ SwitchVolume(p) \/ SwitchUnregister(p) \/ SwitchRegister(p)
       \/ SwitchOldDelta(p)
       \/ LinkLost(p)
       \/ Kill(p)
  \/ \E d \in Dir : Mount(d) \/ Umount(d) \/ Write(d)

Spec == Init /\ [][Next]_vars

-----------------------------------------------------------------------------
\* What is promised: a volume's chain is complete and holds what its guest
\* wrote, or what the volume it was made from held at that time.
VolumeHolds(d) ==
  /\ dd[d] # None
  /\ Readable(d)
  /\ LET di == ploop_read_dd(d) IN Whole(di, di.top) /\ Held(di, di.top) = want[d]

Damage == {"existing", "nested", "after a kill", "stale child", "several images",
           "half made child", "half made target", "switch to a volume", "after a lost link"}

\* No operation on one volume loses, adds or hides data of another, at any of
\* its steps and wherever it is killed.
DataKept ==
  windows \cap Damage = {} => \A d \in Dir : want[d] # None => VolumeHolds(d)

\* Between calls the links and the descriptors say the same.
LinksAgree ==
  windows = {} /\ (\A p \in Proc : call[p] = Idle) =>
    \A c, d \in Dir : (c \in kids[d]) <=> (dd[c] # None /\ dd[c].parent = d)

\* Between calls no image is listed by two volumes, so that a merge, a write
\* or an unlink on behalf of one never touches an image of another.
OwnedOnce ==
  windows = {} /\ (\A p \in Proc : call[p] = Idle) =>
    \A c, d \in Dir : c # d /\ dd[c] # None /\ dd[d] # None =>
      {e.file : e \in dd[c].own} \cap {e.file : e \in dd[d].own} = {}

Sound == windows \cap Damage = {}
=============================================================================
