---------------------------- MODULE VolumeProofs ----------------------------
(***************************************************************************)
(* Theorems about volumes.  The links in children agree with the           *)
(* descriptors, a volume outlives the volumes that continue in it, and no  *)
(* image is listed by two volumes.                                         *)
(*                                                                         *)
(* The first two rest on one inductive invariant, which says what each     *)
(* call has locked, what its step knows of the descriptors and links of    *)
(* the volumes it works on, and that a directory no call works on is       *)
(* linked by its parent and by nobody else.  The lemma Step is the frame   *)
(* of the proof: a step of one call changes nothing of what another has    *)
(* locked or makes, so that only the volumes of the call itself have to be *)
(* looked at.                                                              *)
(*                                                                         *)
(* The third rests on a second one on top of it, Owned: uuids and files    *)
(* are drawn once, so that what two volumes share was handed from one to   *)
(* the other by a snapshot or a merge; and along a chain a volume          *)
(* continues in an image of its parent, or in one further down that        *)
(* another image continues in too, so that no merge takes it from below.   *)
(***************************************************************************)
EXTENDS Volume, TLAPS

-----------------------------------------------------------------------------
(* The states of calls, the types of variables.                            *)

\* What guests write.
Written == 0 .. MaxWrites

\* A call is idle or at a step of one of the operations; a delete that found a
\* child carries it, and from the lock on the descriptor it read.
CloneCall ==
  [op : {"clone"}, pc : {"volume", "snapshot", "link", "undo", "destroy"},
   d : Dir, s : Dir, di : Descriptor, g : Nat]
SnapshotStep ==
  {"link", "snapshot", "snap dd", "child dd", "register", "unregister", "rename", "undo",
   "unlink", "destroy"}
SnapshotCall ==
  [op : {"snapshot"}, pc : SnapshotStep, d : Dir, s : Dir, di : Descriptor, g : Nat]
DeleteCall ==
  [op : {"delete"}, pc : {"parent", "children", "images", "unregister", "destroy"},
   d : Dir, di : Descriptor]
DeleteChoice ==
  [op : {"delete"}, pc : {"lock child"}, d : Dir, di : Descriptor, c : Dir]
DeleteChild ==
  [op : {"delete"}, pc : {"merge", "unlink child", "unregister", "register", "destroy"},
   d : Dir, di : Descriptor, c : Dir, child : Descriptor]
SwitchWait ==
  [op : {"switch"}, pc : {"lock"}, d : Dir, s : Dir, di : Descriptor]
SwitchCall ==
  [op : {"switch"}, pc : {"volume", "unregister", "register", "old delta"},
   d : Dir, s : Dir, di : Descriptor, to : Descriptor]
Call == {Idle} \cup CloneCall \cup SnapshotCall \cup DeleteCall \cup DeleteChoice
          \cup DeleteChild \cup SwitchWait \cup SwitchCall

Types ==
  /\ dd \in [Dir -> Descriptor \cup {None}]
  /\ tmp \in [Dir -> Descriptor \cup {None}]
  /\ layout \subseteq Dir
  /\ kids \in [Dir -> SUBSET Dir]
  /\ \A f \in DOMAIN files : files[f] \subseteq Written
  /\ lock \in [Dir -> Proc \cup {None}]
  /\ call \in [Proc -> Call]
  /\ next \in Nat
  /\ writes \in Nat
  /\ want \in [Dir -> (SUBSET Written) \cup {None}]

\* d continues in y; the directories that link d are those of Y, or its parent.
Continues(d, y) == dd[d] # None /\ dd[d].parent = y
LinkedBy(d, Y) == \A y \in Dir : d \in kids[y] <=> y \in Y
LinksOk(d) == \A y \in Dir : d \in kids[y] <=> Continues(d, y)
\* A volume that was made, and the ones made on top of it.
Made(d) == want[d] # None
Kids(y) == {x \in Dir : Made(x) /\ Continues(x, y)}

\* What a call has locked, and the directory it is making.
Locks(c) ==
  CASE c \in CloneCall \cup SnapshotCall -> {c.s}
    [] c \in DeleteCall \cup DeleteChoice -> {c.d} \cup (IF c.pc = "parent" THEN {} ELSE {c.di.parent})
    [] c \in DeleteChild -> {c.d, c.c, c.di.parent}
    [] c \in SwitchWait -> {c.d}
    [] c \in SwitchCall -> {c.d, c.s}
    [] OTHER -> {}
Target(c) == IF c \in CloneCall \cup SnapshotCall THEN {c.d} ELSE {}

\* What each step finds of the volumes the call works on.
Cloning(c) ==
  /\ c.d # c.s /\ c.d \in layout /\ ~Made(c.d)
  /\ Made(c.s) /\ LinksOk(c.s) /\ Continues(c.s, c.di.parent)
  /\ LinkedBy(c.d, {})
  /\ c.pc = "volume" => dd[c.d] = None
  /\ c.pc \in {"snapshot", "link"} => Continues(c.d, c.s)

Snapping(c) ==
  /\ c.d # c.s /\ c.d \in layout /\ ~Made(c.d)
  /\ Made(c.s) /\ Continues(c.s, c.di.parent) /\ c.di.parent # c.d
  /\ c.pc \notin {"unregister", "rename"} => LinkedBy(c.d, {})
  /\ c.pc \in {"unregister", "rename"} => LinkedBy(c.d, {c.di.parent})
  /\ c.pc \in {"child dd", "register", "unregister", "rename"} => Continues(c.d, c.di.parent)
  /\ c.pc \in {"register", "unregister", "rename"} => tmp[c.s] # None /\ tmp[c.s].parent = c.d
  /\ c.pc \in {"link", "destroy"} => LinkedBy(c.s, {c.di.parent})
  /\ c.pc \in {"snapshot", "snap dd", "child dd", "register", "unregister", "undo"} =>
       LinkedBy(c.s, {c.d, c.di.parent})
  /\ c.pc = "rename" => LinkedBy(c.s, {c.d})
  /\ c.pc = "unlink" => LinkedBy(c.s, {c.di.parent}) \/ LinkedBy(c.s, {c.d, c.di.parent})

Deleting(c) ==
  /\ c.pc \in {"parent", "children", "images", "lock child", "merge"} <=> Made(c.d)
  /\ Continues(c.d, c.di.parent)
  /\ c.pc \in {"parent", "unregister", "register"} => c.di.parent # NoDir
  /\ c.pc # "parent" /\ c.di.parent # NoDir =>
       Made(c.di.parent) /\ LinksOk(c.di.parent) /\ c.di.parent # c.d
  /\ c.pc \notin {"register", "destroy"} => LinkedBy(c.d, {c.di.parent})
  /\ c.pc \in {"register", "destroy"} => LinkedBy(c.d, {})
DeletingChild(c) ==
  /\ c.c # c.d /\ Made(c.c) /\ c.c # c.di.parent
  /\ Continues(c.c, IF c.pc = "merge" THEN c.d ELSE c.di.parent)
  /\ c.pc \in {"merge", "unlink child"} => LinkedBy(c.c, {c.d})
  /\ c.pc \in {"unregister", "register"} => LinkedBy(c.c, {})
  /\ c.pc = "destroy" => LinkedBy(c.c, {c.di.parent})

Switching(c) ==
  /\ c.pc \in {"lock", "volume"} => Made(c.d) /\ Continues(c.d, c.di.parent)
  /\ c.pc \in {"lock", "volume", "unregister"} => LinkedBy(c.d, {c.di.parent})
  /\ c.pc # "lock" => c.s # c.d /\ Made(c.s) /\ LinksOk(c.s)
  /\ c.pc \in {"unregister", "register", "old delta"} => Continues(c.d, c.s)
  /\ c.pc = "register" => LinkedBy(c.d, {})
  /\ c.pc = "old delta" => LinkedBy(c.d, {c.s})

Working(p) ==
  /\ call[p] \in CloneCall => Cloning(call[p])
  /\ call[p] \in SnapshotCall => Snapping(call[p])
  /\ call[p] \in DeleteCall \cup DeleteChoice \cup DeleteChild => Deleting(call[p])
  /\ call[p] \in DeleteChild => DeletingChild(call[p])
  /\ call[p] \in SwitchWait \cup SwitchCall => Switching(call[p])

\* A volume whose images go has no child, or only the one whose lock the call
\* holds; while the lock is waited for, that child may be replaced by its
\* snapshot, so that there is at most one.
Childless(p) ==
  /\ call[p].op = "delete" /\ call[p].pc = "images" => Kids(call[p].d) = {}
  /\ call[p].op = "switch" /\ call[p].pc \in {"lock", "volume"} => Kids(call[p].d) = {}
  /\ call[p].op = "delete" /\ call[p].pc = "lock child" =>
        \A x, y \in Kids(call[p].d) : x = y
  /\ call[p].op = "delete" /\ call[p].pc = "merge" => Kids(call[p].d) \subseteq {call[p].c}

\* A lock has the process whose step says so; what is being made is locked by
\* nobody and made by one.
Holding == \A p \in Proc, d \in Dir : lock[d] = p <=> d \in Locks(call[p])
Targets ==
  \A p, q \in Proc : \A d \in Dir :
    d \in Target(call[p]) => lock[d] = None /\ (d \in Target(call[q]) => p = q)

\* Descriptors are in directories that exist.
Dirs == \A d \in Dir :
  /\ dd[d] # None => d \in layout
  /\ d \notin layout => kids[d] = {}
  /\ Made(d) => dd[d] # None
  /\ lock[d] # None => dd[d] # None
\* Links and descriptor agree where no call is at work.
Free == \A d \in Dir : lock[d] = None /\ (\A p \in Proc : d \notin Target(call[p])) => LinksOk(d)
\* What a volume continues in is there.
Parents == \A y \in Dir : Kids(y) # {} => Made(y)

\* While nothing happened that is known to do damage.
Inv ==
  /\ Types /\ Holding /\ Targets /\ Dirs /\ Free /\ Parents
  /\ \A p \in Proc : Working(p) /\ Childless(p)
IInv == windows = {} => Inv

-----------------------------------------------------------------------------
(* Operators on descriptors keep their form and their parent. *)

LEMMA LineIn == ASSUME NEW d \in Dir PROVE Line(d) \subseteq Dir /\ d \in Line(d)
BY DEF Line

\* What ploop_read_dd returns.
LEMMA ReadTyped ==
  ASSUME Types, NEW d \in Dir, dd[d] # None, Readable(d)
  PROVE  ploop_read_dd(d) \in Descriptor /\ ploop_read_dd(d).parent = dd[d].parent
<1>1. dd[d] \in Descriptor
  BY DEF Types
<1>2. \A x \in Line(d) : dd[x] \in Descriptor
  BY LineIn DEF Types, Readable
<1> DEFINE far == UNION {dd[x].own : x \in Line(d) \ {d}}
<1>3. far \in SUBSET Image
  BY <1>2 DEF Descriptor
<1>4. [dd[d] EXCEPT !.far = far] \in Descriptor /\ [dd[d] EXCEPT !.far = far].parent = dd[d].parent
  <2> HIDE DEF far
  <2> QED
    BY <1>1, <1>3 DEF Descriptor
<1> QED
  BY <1>4 DEF ploop_read_dd

LEMMA StoreTyped ==
  ASSUME NEW di \in Descriptor
  PROVE  ploop_store_diskdescriptor(di) \in Descriptor
         /\ ploop_store_diskdescriptor(di).parent = di.parent
BY DEF ploop_store_diskdescriptor, Descriptor

LEMMA RenameTyped ==
  ASSUME NEW di \in Descriptor, NEW g \in Nat, NEW h \in Nat
  PROVE  ploop_di_change_guid(di, g, h) \in Descriptor
         /\ ploop_di_change_guid(di, g, h).parent = di.parent
<1> DEFINE new(x) == IF x = g THEN h ELSE x
           all(S) == {[e EXCEPT !.guid = new(@), !.parent = new(@)] : e \in S}
<1>1. ASSUME NEW e \in Image
      PROVE  [e EXCEPT !.guid = new(e.guid), !.parent = new(e.parent)] \in Image
  <2>1. e.guid \in Nat /\ e.parent \in Int /\ e.file \in Nat
    BY DEF Image
  <2>2. new(e.guid) \in Nat /\ new(e.parent) \in Int
    BY <2>1
  <2> HIDE DEF new
  <2> QED
    BY <2>1, <2>2 DEF Image
<1>2. ASSUME NEW S \in SUBSET Image PROVE all(S) \in SUBSET Image
  BY <1>1
<1> DEFINE a == all(di.own)
           b == all(di.far)
           t == new(di.top)
<1>3. a \in SUBSET Image /\ b \in SUBSET Image /\ t \in Nat
  <2>1. di.own \in SUBSET Image /\ di.far \in SUBSET Image /\ di.top \in Nat
    BY DEF Descriptor
  <2> QED
    BY <1>2, <2>1
<1>4. [di EXCEPT !.own = a, !.far = b, !.top = t] \in Descriptor
      /\ [di EXCEPT !.own = a, !.far = b, !.top = t].parent = di.parent
  <2> HIDE DEF a, b, t
  <2> QED
    BY <1>3 DEF Descriptor
<1>5. ploop_di_change_guid(di, g, h) = [di EXCEPT !.own = a, !.far = b, !.top = t]
  BY DEF ploop_di_change_guid
<1> QED
  BY <1>4, <1>5

LEMMA SnapshottedTyped ==
  ASSUME NEW di \in Descriptor, NEW g \in Nat, NEW f \in Nat
  PROVE  Snapshotted(di, g, f) \in Descriptor /\ Snapshotted(di, g, f).parent = di.parent
<1> DEFINE top == IF di.parent # NoDir THEN f ELSE TOPDELTA_UUID
           old == ploop_di_change_guid(di, di.top, g)
           own == old.own \cup {[guid |-> top, parent |-> g, file |-> f]}
<1>1. top \in Nat
  BY DEF TOPDELTA_UUID
<1>2. old \in Descriptor /\ old.parent = di.parent
  <2>1. di.top \in Nat
    BY DEF Descriptor
  <2> QED
    BY <2>1, RenameTyped
<1>3. own \in SUBSET Image
  <2>1. [guid |-> top, parent |-> g, file |-> f] \in Image
    BY <1>1 DEF Image
  <2>2. old.own \in SUBSET Image
    BY <1>2 DEF Descriptor
  <2> QED
    BY <2>1, <2>2
<1>4. [old EXCEPT !.own = own, !.top = top] \in Descriptor
      /\ [old EXCEPT !.own = own, !.top = top].parent = di.parent
  <2> HIDE DEF own, top, old
  <2> QED
    BY <1>1, <1>2, <1>3 DEF Descriptor
<1>5. Snapshotted(di, g, f) = [old EXCEPT !.own = own, !.top = top]
  BY DEF Snapshotted
<1> QED
  BY <1>4, <1>5

LEMMA WithoutTyped ==
  ASSUME NEW di \in Descriptor, NEW g
  PROVE  Without(di, g) \in Descriptor /\ Without(di, g).parent = di.parent
<1> DEFINE a == {e \in di.own : e.guid # g}
           b == {e \in di.far : e.guid # g}
<1>1. a \in SUBSET Image /\ b \in SUBSET Image
  BY DEF Descriptor
<1> HIDE DEF a, b
<1>2. [di EXCEPT !.own = a, !.far = b] \in Descriptor
      /\ [di EXCEPT !.own = a, !.far = b].parent = di.parent
  BY <1>1 DEF Descriptor
<1> QED
  BY <1>2 DEF Without, a, b

\* do_delete_snapshot.
LEMMA EntryIn ==
  ASSUME NEW di \in Descriptor, NEW g, Has(di, g)
  PROVE  Entry(di, g) \in Images(di) /\ Entry(di, g) \in Image /\ Entry(di, g).guid = g
<1>1. \E e \in Images(di) : e.guid = g
  BY DEF Has
<1>2. Entry(di, g) \in Images(di) /\ Entry(di, g).guid = g
  BY <1>1 DEF Entry
<1>3. Images(di) \subseteq Image
  BY DEF Images, Descriptor
<1> QED
  BY <1>2, <1>3

LEMMA ChildIn ==
  ASSUME NEW di \in Descriptor, NEW g, Children(di, g) # {}
  PROVE  /\ (CHOOSE e \in Images(di) : e.parent = g) \in Image
         /\ (CHOOSE e \in Children(di, g) : TRUE) \in Children(di, g)
         /\ Children(di, g) \subseteq Image
<1>1. Images(di) \subseteq Image
  BY DEF Images, Descriptor
<1>2. \E e \in Images(di) : e.parent = g
  BY DEF Children
<1>3. (CHOOSE e \in Images(di) : e.parent = g) \in Images(di)
  BY <1>2
<1>4. (CHOOSE e \in Children(di, g) : TRUE) \in Children(di, g)
  OBVIOUS
<1>5. Children(di, g) \subseteq Images(di)
  BY DEF Children
<1> QED
  BY <1>1, <1>3, <1>4, <1>5

LEMMA MergedTyped ==
  ASSUME NEW di \in Descriptor, NEW g, Has(di, g), Children(di, g) # {}
  PROVE  Merged(di, g) \in Descriptor /\ Merged(di, g).parent = di.parent
<1> DEFINE e == CHOOSE x \in Images(di) : x.parent = g
           q == Entry(di, g)
           m == [q EXCEPT !.guid = e.guid]
           put(S) == (S \ {e, q}) \cup (IF e \in S THEN {m} ELSE {})
           a == put(di.own)
           b == put(di.far)
<1>1. e \in Image /\ q \in Image
  BY ChildIn, EntryIn
<1>2. m \in Image
  <2> HIDE DEF e, q
  <2> QED
    BY <1>1 DEF Image
<1>3. a \in SUBSET Image /\ b \in SUBSET Image
  <2>1. di.own \in SUBSET Image /\ di.far \in SUBSET Image
    BY DEF Descriptor
  <2> HIDE DEF m
  <2> QED
    BY <1>2, <2>1
<1>4. [di EXCEPT !.own = a, !.far = b] \in Descriptor
      /\ [di EXCEPT !.own = a, !.far = b].parent = di.parent
  <2> HIDE DEF a, b
  <2> QED
    BY <1>3 DEF Descriptor
<1>5. Merged(di, g) = [di EXCEPT !.own = a, !.far = b]
  BY DEF Merged
<1> QED
  BY <1>4, <1>5

LEMMA DeletedTyped ==
  ASSUME NEW di \in Descriptor, NEW g, Has(di, g)
  PROVE  DeletedDd(di, g) \in Descriptor /\ DeletedDd(di, g).parent = di.parent
<1>1. CASE Children(di, g) = {}
  <2>1. ~ OneChild(di, g)
    BY <1>1 DEF OneChild
  <2>2. DeletedDd(di, g) = Without(di, g)
    BY <1>1, <2>1 DEF DeletedDd
  <2> QED
    BY <2>2, WithoutTyped
<1>2. CASE Children(di, g) # {} /\ OneChild(di, g)
  <2>1. DeletedDd(di, g) = Merged(di, g)
    BY <1>2 DEF DeletedDd
  <2> QED
    BY <1>2, <2>1, MergedTyped
<1>3. CASE Children(di, g) # {} /\ ~ OneChild(di, g)
  BY <1>3 DEF DeletedDd
<1> QED
  BY <1>1, <1>2, <1>3

-----------------------------------------------------------------------------
(* What files hold. *)

LEMMA HoldsBegun ==
  ASSUME NEW di, NEW g, g # NONE_UUID, Whole(di, g)
  PROVE  Has(di, g) /\ Entry(di, g).file \in DOMAIN files
<1>1. g \in Guids(di, g)
  BY DEF Guids
<1> QED
  BY <1>1 DEF Whole

LEMMA HeldTyped ==
  ASSUME Types, NEW di, NEW g, Whole(di, g)
  PROVE  Held(di, g) \in SUBSET Written
BY DEF Types, Whole, Held

LEMMA DropTyped ==
  ASSUME Types, NEW F
  PROVE  \A f \in DOMAIN Drop(F) : Drop(F)[f] \subseteq Written
BY DEF Types, Drop

LEMMA DeletedFilesTyped ==
  ASSUME Types, NEW di \in Descriptor, NEW g, NEW online, DeleteAllowed(di, g, online)
  PROVE  \A f \in DOMAIN DeletedFiles(di, g) : DeletedFiles(di, g)[f] \subseteq Written
<1>1. CASE Children(di, g) = {}
  <2>1. ~ OneChild(di, g)
    BY <1>1 DEF OneChild
  <2>2. DeletedFiles(di, g) = Drop({Entry(di, g).file})
    BY <1>1, <2>1 DEF DeletedFiles
  <2> QED
    BY <2>2, DropTyped
<1>2. CASE Children(di, g) # {} /\ OneChild(di, g)
  <2> DEFINE c == CHOOSE e \in Children(di, g) : TRUE
             e == Entry(di, c.guid)
             q == Entry(di, g)
             m == [f \in DOMAIN files \ {e.file} |->
                     IF f = q.file THEN files[f] \cup files[e.file] ELSE files[f]]
  <2>1. c \in Children(di, g) /\ c \in Image /\ Whole(di, c.guid)
    BY <1>2, ChildIn DEF DeleteAllowed
  <2>2. c.guid # NONE_UUID
    BY <2>1 DEF Image, NONE_UUID
  <2>3. e.file \in DOMAIN files
    BY <2>1, <2>2, HoldsBegun
  <2>4. DeletedFiles(di, g) = m
    BY <1>2 DEF DeletedFiles
  <2> HIDE DEF c, e, q
  <2>5. \A f \in DOMAIN m : m[f] \subseteq Written
    BY <2>3 DEF Types
  <2> QED
    BY <2>4, <2>5
<1>3. CASE Children(di, g) # {} /\ ~ OneChild(di, g)
  BY <1>3 DEF DeletedFiles, Types
<1> QED
  BY <1>1, <1>2, <1>3
-----------------------------------------------------------------------------
(* What a state of a call is, which directories it has locked or makes, and *)
(* what it is after the next step.                                         *)

LEMMA ShapeDiffers ==
  /\ \A c \in DeleteCall : "child" \notin DOMAIN c /\ "c" \notin DOMAIN c
  /\ \A c \in DeleteChild : "child" \in DOMAIN c /\ "c" \in DOMAIN c
<1>1. ASSUME NEW c \in DeleteCall PROVE "child" \notin DOMAIN c /\ "c" \notin DOMAIN c
  BY DEF DeleteCall
<1>2. ASSUME NEW c \in DeleteChild PROVE "child" \in DOMAIN c /\ "c" \in DOMAIN c
  BY DEF DeleteChild
<1> QED
  BY <1>1, <1>2

LEMMA CloneCallIs ==
  ASSUME NEW c \in CloneCall
  PROVE  /\ c.op = "clone" /\ c.pc \in {"volume", "snapshot", "link", "undo", "destroy"}
         /\ c.d \in Dir /\ c.s \in Dir /\ c.di \in Descriptor /\ c.g \in Nat
         /\ c \notin SnapshotCall /\ c \notin DeleteCall /\ c \notin DeleteChoice
         /\ c \notin DeleteChild /\ c \notin SwitchWait /\ c \notin SwitchCall
         /\ Locks(c) = {c.s}
         /\ Target(c) = {c.d}
<1>1. /\ c.op = "clone" /\ c.pc \in {"volume", "snapshot", "link", "undo", "destroy"}
      /\ c.d \in Dir /\ c.s \in Dir /\ c.di \in Descriptor /\ c.g \in Nat
  BY DEF CloneCall
<1>2. c \notin SnapshotCall /\ c \notin DeleteCall /\ c \notin DeleteChoice
      /\ c \notin DeleteChild /\ c \notin SwitchWait /\ c \notin SwitchCall
  BY <1>1 DEF SnapshotCall, DeleteCall, DeleteChoice, DeleteChild, SwitchWait, SwitchCall
<1>3. Locks(c) = {c.s}
  BY <1>1, <1>2, Zenon DEF Locks
<1> QED
  BY <1>1, <1>2, <1>3 DEF Target

LEMMA CloneCallGoto ==
  ASSUME NEW c \in CloneCall, NEW pc \in {"volume", "snapshot", "link", "undo", "destroy"}
  PROVE  LET n == [c EXCEPT !.pc = pc]
         IN  n \in CloneCall /\ n.pc = pc /\ n.d = c.d /\ n.s = c.s /\ n.di = c.di /\ n.g = c.g
BY DEF CloneCall

LEMMA SnapshotCallIs ==
  ASSUME NEW c \in SnapshotCall
  PROVE  /\ c.op = "snapshot" /\ c.pc \in SnapshotStep
         /\ c.d \in Dir /\ c.s \in Dir /\ c.di \in Descriptor /\ c.g \in Nat
         /\ c \notin CloneCall /\ c \notin DeleteCall /\ c \notin DeleteChoice
         /\ c \notin DeleteChild /\ c \notin SwitchWait /\ c \notin SwitchCall
         /\ Locks(c) = {c.s}
         /\ Target(c) = {c.d}
<1>1. /\ c.op = "snapshot" /\ c.pc \in SnapshotStep
      /\ c.d \in Dir /\ c.s \in Dir /\ c.di \in Descriptor /\ c.g \in Nat
  BY DEF SnapshotCall
<1>2. c \notin CloneCall /\ c \notin DeleteCall /\ c \notin DeleteChoice
      /\ c \notin DeleteChild /\ c \notin SwitchWait /\ c \notin SwitchCall
  BY <1>1 DEF CloneCall, DeleteCall, DeleteChoice, DeleteChild, SwitchWait, SwitchCall
<1>3. Locks(c) = {c.s}
  BY <1>1, <1>2, Zenon DEF Locks
<1> QED
  BY <1>1, <1>2, <1>3 DEF Target

LEMMA SnapshotCallGoto ==
  ASSUME NEW c \in SnapshotCall, NEW pc \in SnapshotStep
  PROVE  LET n == [c EXCEPT !.pc = pc]
         IN  n \in SnapshotCall /\ n.pc = pc /\ n.d = c.d /\ n.s = c.s /\ n.di = c.di /\ n.g = c.g
BY DEF SnapshotCall

LEMMA DeleteCallIs ==
  ASSUME NEW c \in DeleteCall
  PROVE  /\ c.op = "delete" /\ c.pc \in {"parent", "children", "images", "unregister", "destroy"}
         /\ c.d \in Dir /\ c.di \in Descriptor
         /\ c \notin CloneCall /\ c \notin SnapshotCall /\ c \notin DeleteChoice
         /\ c \notin DeleteChild /\ c \notin SwitchWait /\ c \notin SwitchCall
         /\ Locks(c) = {c.d} \cup (IF c.pc = "parent" THEN {} ELSE {c.di.parent})
         /\ Target(c) = {}
<1>1. /\ c.op = "delete" /\ c.pc \in {"parent", "children", "images", "unregister", "destroy"}
      /\ c.d \in Dir /\ c.di \in Descriptor
  BY DEF DeleteCall
<1>2. c \notin CloneCall /\ c \notin SnapshotCall /\ c \notin SwitchWait
      /\ c \notin SwitchCall
  BY <1>1 DEF CloneCall, SnapshotCall, SwitchWait, SwitchCall
<1>3. c \notin DeleteChoice
  BY <1>1 DEF DeleteCall, DeleteChoice
<1>4. c \notin DeleteChild
  BY ShapeDiffers
<1>5. Locks(c) = {c.d} \cup (IF c.pc = "parent" THEN {} ELSE {c.di.parent})
  BY <1>1, <1>2, <1>3, <1>4, Zenon DEF Locks
<1> QED
  BY <1>1, <1>2, <1>3, <1>4, <1>5 DEF Target

LEMMA DeleteCallGoto ==
  ASSUME NEW c \in DeleteCall, NEW pc \in {"parent", "children", "images", "unregister", "destroy"}
  PROVE  LET n == [c EXCEPT !.pc = pc]
         IN  n \in DeleteCall /\ n.pc = pc /\ n.d = c.d /\ n.di = c.di
BY DEF DeleteCall

LEMMA DeleteChoiceIs ==
  ASSUME NEW c \in DeleteChoice
  PROVE  /\ c.op = "delete" /\ c.pc \in {"lock child"}
         /\ c.d \in Dir /\ c.di \in Descriptor /\ c.c \in Dir
         /\ c \notin CloneCall /\ c \notin SnapshotCall /\ c \notin DeleteCall
         /\ c \notin DeleteChild /\ c \notin SwitchWait /\ c \notin SwitchCall
         /\ Locks(c) = {c.d, c.di.parent}
         /\ Target(c) = {}
<1>1. /\ c.op = "delete" /\ c.pc \in {"lock child"}
      /\ c.d \in Dir /\ c.di \in Descriptor /\ c.c \in Dir
  BY DEF DeleteChoice
<1>2. c \notin CloneCall /\ c \notin SnapshotCall /\ c \notin SwitchWait
      /\ c \notin SwitchCall
  BY <1>1 DEF CloneCall, SnapshotCall, SwitchWait, SwitchCall
<1>3. c \notin DeleteCall
  BY <1>1 DEF DeleteChoice, DeleteCall
<1>4. c \notin DeleteChild
  BY <1>1 DEF DeleteChoice, DeleteChild
<1>5. Locks(c) = {c.d, c.di.parent}
  BY <1>1, <1>2, <1>3, <1>4, Zenon DEF Locks
<1> QED
  BY <1>1, <1>2, <1>3, <1>4, <1>5 DEF Target

LEMMA DeleteChoiceGoto ==
  ASSUME NEW c \in DeleteChoice, NEW pc \in {"lock child"}
  PROVE  LET n == [c EXCEPT !.pc = pc]
         IN  n \in DeleteChoice /\ n.pc = pc /\ n.d = c.d /\ n.di = c.di /\ n.c = c.c
BY DEF DeleteChoice

LEMMA DeleteChildIs ==
  ASSUME NEW c \in DeleteChild
  PROVE  /\ c.op = "delete" /\ c.pc \in {"merge", "unlink child", "unregister", "register", "destroy"}
         /\ c.d \in Dir /\ c.di \in Descriptor /\ c.c \in Dir /\ c.child \in Descriptor
         /\ c \notin CloneCall /\ c \notin SnapshotCall /\ c \notin DeleteCall
         /\ c \notin DeleteChoice /\ c \notin SwitchWait /\ c \notin SwitchCall
         /\ Locks(c) = {c.d, c.c, c.di.parent}
         /\ Target(c) = {}
<1>1. /\ c.op = "delete" /\ c.pc \in {"merge", "unlink child", "unregister", "register", "destroy"}
      /\ c.d \in Dir /\ c.di \in Descriptor /\ c.c \in Dir /\ c.child \in Descriptor
  BY DEF DeleteChild
<1>2. c \notin CloneCall /\ c \notin SnapshotCall /\ c \notin SwitchWait
      /\ c \notin SwitchCall
  BY <1>1 DEF CloneCall, SnapshotCall, SwitchWait, SwitchCall
<1>3. c \notin DeleteCall
  BY ShapeDiffers
<1>4. c \notin DeleteChoice
  BY <1>1 DEF DeleteChild, DeleteChoice
<1>5. Locks(c) = {c.d, c.c, c.di.parent}
  BY <1>1, <1>2, <1>3, <1>4, Zenon DEF Locks
<1> QED
  BY <1>1, <1>2, <1>3, <1>4, <1>5 DEF Target

LEMMA DeleteChildGoto ==
  ASSUME NEW c \in DeleteChild, NEW pc \in {"merge", "unlink child", "unregister", "register", "destroy"}
  PROVE  LET n == [c EXCEPT !.pc = pc]
         IN  n \in DeleteChild /\ n.pc = pc /\ n.d = c.d /\ n.di = c.di /\ n.c = c.c /\ n.child = c.child
BY DEF DeleteChild

LEMMA SwitchWaitIs ==
  ASSUME NEW c \in SwitchWait
  PROVE  /\ c.op = "switch" /\ c.pc \in {"lock"}
         /\ c.d \in Dir /\ c.s \in Dir /\ c.di \in Descriptor
         /\ c \notin CloneCall /\ c \notin SnapshotCall /\ c \notin DeleteCall
         /\ c \notin DeleteChoice /\ c \notin DeleteChild /\ c \notin SwitchCall
         /\ Locks(c) = {c.d}
         /\ Target(c) = {}
<1>1. /\ c.op = "switch" /\ c.pc \in {"lock"}
      /\ c.d \in Dir /\ c.s \in Dir /\ c.di \in Descriptor
  BY DEF SwitchWait
<1>2. c \notin CloneCall /\ c \notin SnapshotCall /\ c \notin DeleteCall
      /\ c \notin DeleteChoice /\ c \notin DeleteChild
  BY <1>1 DEF CloneCall, SnapshotCall, DeleteCall, DeleteChoice, DeleteChild
<1>3. c \notin SwitchCall
  BY <1>1 DEF SwitchWait, SwitchCall
<1>4. Locks(c) = {c.d}
  BY <1>1, <1>2, <1>3, Zenon DEF Locks
<1> QED
  BY <1>1, <1>2, <1>3, <1>4 DEF Target

LEMMA SwitchWaitGoto ==
  ASSUME NEW c \in SwitchWait, NEW pc \in {"lock"}
  PROVE  LET n == [c EXCEPT !.pc = pc]
         IN  n \in SwitchWait /\ n.pc = pc /\ n.d = c.d /\ n.s = c.s /\ n.di = c.di
BY DEF SwitchWait

LEMMA SwitchCallIs ==
  ASSUME NEW c \in SwitchCall
  PROVE  /\ c.op = "switch" /\ c.pc \in {"volume", "unregister", "register", "old delta"}
         /\ c.d \in Dir /\ c.s \in Dir /\ c.di \in Descriptor /\ c.to \in Descriptor
         /\ c \notin CloneCall /\ c \notin SnapshotCall /\ c \notin DeleteCall
         /\ c \notin DeleteChoice /\ c \notin DeleteChild /\ c \notin SwitchWait
         /\ Locks(c) = {c.d, c.s}
         /\ Target(c) = {}
<1>1. /\ c.op = "switch" /\ c.pc \in {"volume", "unregister", "register", "old delta"}
      /\ c.d \in Dir /\ c.s \in Dir /\ c.di \in Descriptor /\ c.to \in Descriptor
  BY DEF SwitchCall
<1>2. c \notin CloneCall /\ c \notin SnapshotCall /\ c \notin DeleteCall
      /\ c \notin DeleteChoice /\ c \notin DeleteChild
  BY <1>1 DEF CloneCall, SnapshotCall, DeleteCall, DeleteChoice, DeleteChild
<1>3. c \notin SwitchWait
  BY <1>1 DEF SwitchCall, SwitchWait
<1>4. Locks(c) = {c.d, c.s}
  BY <1>1, <1>2, <1>3, Zenon DEF Locks
<1> QED
  BY <1>1, <1>2, <1>3, <1>4 DEF Target

LEMMA SwitchCallGoto ==
  ASSUME NEW c \in SwitchCall, NEW pc \in {"volume", "unregister", "register", "old delta"}
  PROVE  LET n == [c EXCEPT !.pc = pc]
         IN  n \in SwitchCall /\ n.pc = pc /\ n.d = c.d /\ n.s = c.s /\ n.di = c.di /\ n.to = c.to
BY DEF SwitchCall

LEMMA IdleIs == /\ Idle \notin CloneCall /\ Idle \notin SnapshotCall /\ Idle \notin DeleteCall
                /\ Idle \notin DeleteChoice /\ Idle \notin DeleteChild
                /\ Idle \notin SwitchWait /\ Idle \notin SwitchCall
                /\ Locks(Idle) = {} /\ Target(Idle) = {} /\ Idle.op = "idle"
<1>1. Idle.op = "idle"
  BY DEF Idle
<1>2. /\ Idle \notin CloneCall /\ Idle \notin SnapshotCall /\ Idle \notin DeleteCall
      /\ Idle \notin DeleteChoice /\ Idle \notin DeleteChild
      /\ Idle \notin SwitchWait /\ Idle \notin SwitchCall
  BY <1>1 DEF CloneCall, SnapshotCall, DeleteCall, DeleteChoice, DeleteChild, SwitchWait, SwitchCall
<1>3. Locks(Idle) = {}
  BY <1>2, Zenon DEF Locks
<1> QED
  BY <1>1, <1>2, <1>3 DEF Target

-----------------------------------------------------------------------------
(* What a call holds is changed by nobody else.                             *)

Mine(p, d) == d \in Locks(call[p]) \cup Target(call[p])
Spare(d) == lock[d] = None /\ \A q \in Proc : d \notin Target(call[q])

\* A step leaves d alone.
Same(d) ==
  /\ lock'[d] = lock[d] /\ dd'[d] = dd[d] /\ tmp'[d] = tmp[d]
  /\ (want'[d] = None) <=> (want[d] = None)
  /\ d \in layout' <=> d \in layout
  /\ \A y \in Dir : d \in kids'[y] <=> d \in kids[y]

LEMMA Apart ==
  ASSUME Inv, NEW q \in Proc, NEW d \in Dir, Mine(q, d)
  PROVE  /\ ~ Spare(d)
         /\ \A p \in Proc : Mine(p, d) => p = q
         /\ lock[d] = q \/ d \in Target(call[q])
<1>1. \A p \in Proc : d \in Locks(call[p]) <=> lock[d] = p
  BY DEF Inv, Holding
<1>2. q # None
  BY NoneAssumption
<1>3. \A p, r \in Proc : d \in Target(call[p]) => lock[d] = None /\ (d \in Target(call[r]) => p = r)
  BY DEF Inv, Targets
<1>4. \A p \in Proc : p # None
  BY NoneAssumption
<1> QED
  BY <1>1, <1>2, <1>3, <1>4 DEF Mine, Spare

\* The parent of a descriptor is a directory or none.
LEMMA ParentIs == \A di \in Descriptor : di.parent \in Dir \/ di.parent = NoDir
BY DEF Descriptor

LEMMA LinksSame ==
  ASSUME NEW d \in Dir, Same(d)
  PROVE  /\ LinksOk(d)' <=> LinksOk(d)
         /\ \A Y : LinkedBy(d, Y)' <=> LinkedBy(d, Y)
         /\ \A y : Continues(d, y)' <=> Continues(d, y)
         /\ Made(d)' <=> Made(d)
BY DEF Same, LinksOk, LinkedBy, Continues, Made

LEMMA WorkingFrame ==
  ASSUME Inv, NEW q \in Proc, call'[q] = call[q], \A d \in Dir : Mine(q, d) => Same(d)
  PROVE  Working(q)'
<1> PICK c \in Call : c = call[q]
  BY DEF Inv, Types
<1>0. Working(q) /\ call[q] = c /\ call'[q] = c
  BY DEF Inv
<1>1. CASE c \in CloneCall
  <2>1. Same(c.d) /\ Same(c.s) /\ c.d \in Dir /\ c.s \in Dir
    BY <1>0, <1>1, CloneCallIs DEF Mine
  <2>2. Cloning(c)
    BY <1>0, <1>1 DEF Working
  <2>3. Cloning(c)'
    BY <2>1, <2>2, LinksSame DEF Cloning, Same
  <2> QED
    BY <1>0, <1>1, <2>3, CloneCallIs DEF Working
<1>2. CASE c \in SnapshotCall
  <2>1. Same(c.d) /\ Same(c.s) /\ c.d \in Dir /\ c.s \in Dir
    BY <1>0, <1>2, SnapshotCallIs DEF Mine
  <2>2. Snapping(c)
    BY <1>0, <1>2 DEF Working
  <2>3. Snapping(c)'
    BY <2>1, <2>2, LinksSame DEF Snapping, Same
  <2> QED
    BY <1>0, <1>2, <2>3, SnapshotCallIs DEF Working
<1>3. CASE c \in DeleteCall \cup DeleteChoice \cup DeleteChild
  <2>1. c.d \in Dir /\ c.di \in Descriptor /\ Mine(q, c.d)
        /\ (c.pc # "parent" => Mine(q, c.di.parent))
    BY <1>0, <1>3, DeleteCallIs, DeleteChoiceIs, DeleteChildIs DEF Mine
  <2>2. Same(c.d) /\ (c.pc # "parent" /\ c.di.parent # NoDir => c.di.parent \in Dir /\ Same(c.di.parent))
    BY <2>1, ParentIs
  <2>3. Deleting(c)
    BY <1>0, <1>3 DEF Working
  <2>4. Deleting(c)'
    BY <2>1, <2>2, <2>3, LinksSame DEF Deleting, Same
  <2>5. ASSUME c \in DeleteChild PROVE DeletingChild(c)'
    <3>1. Same(c.c) /\ c.c \in Dir
      BY <1>0, <2>5, DeleteChildIs DEF Mine
    <3>2. DeletingChild(c)
      BY <1>0, <2>5 DEF Working
    <3> QED
      BY <3>1, <3>2, LinksSame DEF DeletingChild, Same
  <2>6. c \notin CloneCall /\ c \notin SnapshotCall /\ c \notin SwitchWait /\ c \notin SwitchCall
    BY <1>3, DeleteCallIs, DeleteChoiceIs, DeleteChildIs
  <2> QED
    BY <1>0, <2>4, <2>5, <2>6 DEF Working
<1>4. CASE c \in SwitchWait \cup SwitchCall
  <2>1. c.d \in Dir /\ Mine(q, c.d) /\ c.s \in Dir /\ (c.pc # "lock" => Mine(q, c.s))
    BY <1>0, <1>4, SwitchWaitIs, SwitchCallIs DEF Mine
  <2>2. Same(c.d) /\ (c.pc # "lock" => Same(c.s))
    BY <2>1
  <2>3. Switching(c)
    BY <1>0, <1>4 DEF Working
  <2>4. Switching(c)'
    BY <2>1, <2>2, <2>3, LinksSame DEF Switching, Same
  <2>5. /\ c \notin CloneCall /\ c \notin SnapshotCall
        /\ c \notin DeleteCall /\ c \notin DeleteChoice /\ c \notin DeleteChild
    BY <1>4, SwitchWaitIs, SwitchCallIs
  <2> QED
    BY <1>0, <2>4, <2>5 DEF Working
<1> QED
  BY <1>0, <1>1, <1>2, <1>3, <1>4 DEF Working

\* The children of the volumes other calls delete or switch.
Offspring(p, y) ==
  \/ Mine(p, y)
  \/ Kids(y)' \subseteq Kids(y)
  \/ \E s \in Kids(y), t \in Dir : lock[s] = p /\ Kids(y)' \subseteq (Kids(y) \ {s}) \cup {t}

LEMMA ChildlessFrame ==
  ASSUME Inv, NEW p \in Proc, NEW q \in Proc, p # q, call'[q] = call[q],
         \A y \in Dir : Offspring(p, y)
  PROVE  Childless(q)'
<1> DEFINE c == call[q]
           d == call[q].d
<1>0. Childless(q)
  BY DEF Inv
<1>1. CASE c.op = "delete" \/ c.op = "switch"
  <2>1. c \in DeleteCall \/ c \in DeleteChoice \/ c \in DeleteChild \/ c \in SwitchWait \/ c \in SwitchCall
    <3>1. c \in Call
      BY DEF Inv, Types
    <3> QED
      BY <1>1, <3>1, CloneCallIs, SnapshotCallIs, IdleIs DEF Call
  <2>2. d \in Dir /\ d \in Locks(c)
    BY <2>1, DeleteCallIs, DeleteChoiceIs, DeleteChildIs, SwitchWaitIs, SwitchCallIs
  <2>3. ~ Mine(p, d)
    BY <2>2, Apart DEF Mine
  <2>4. Offspring(p, d)
    BY <2>2
  <2>5. c.op = "delete" /\ c.pc = "merge" => \A s \in Kids(d) : lock[s] # p
    <3> SUFFICES ASSUME c.op = "delete", c.pc = "merge", NEW s \in Kids(d) PROVE lock[s] # p
      OBVIOUS
    <3>1. s = c.c
      BY <1>0 DEF Childless
    <3>2. c \in DeleteChild
      BY <2>1, DeleteCallIs, DeleteChoiceIs, SwitchWaitIs, SwitchCallIs
    <3>3. c.c \in Locks(c) /\ c.c \in Dir
      BY <3>2, DeleteChildIs
    <3>4. lock[s] = q
      BY <3>1, <3>3 DEF Inv, Holding
    <3> QED
      BY <3>4
  <2>6. c.op = "delete" /\ c.pc = "images" => (Kids(d) = {})'
    BY <1>0, <2>3, <2>4 DEF Childless, Offspring
  <2>7. c.op = "switch" /\ c.pc \in {"lock", "volume"} => (Kids(d) = {})'
    BY <1>0, <2>3, <2>4 DEF Childless, Offspring
  <2>8. c.op = "delete" /\ c.pc = "lock child" => \A x, y \in Kids(d)' : x = y
    <3> SUFFICES ASSUME c.op = "delete", c.pc = "lock child", NEW x \in Kids(d)', NEW y \in Kids(d)'
                 PROVE  x = y
      OBVIOUS
    <3>1. \A u, v \in Kids(d) : u = v
      BY <1>0 DEF Childless
    <3>2. CASE Kids(d)' \subseteq Kids(d)
      BY <3>1, <3>2
    <3>3. CASE \E s \in Kids(d), t \in Dir : Kids(d)' \subseteq (Kids(d) \ {s}) \cup {t}
      BY <3>1, <3>3
    <3> QED
      BY <2>3, <2>4, <3>2, <3>3 DEF Offspring
  <2>9. c.op = "delete" /\ c.pc = "merge" => Kids(d)' \subseteq {c.c}
    BY <1>0, <2>3, <2>4, <2>5 DEF Childless, Offspring
  <2> QED
    BY <2>6, <2>7, <2>8, <2>9 DEF Childless
<1> QED
  BY <1>1 DEF Childless

\* What a step of p has to show of p's own volumes for the invariant to hold.
LEMMA Step ==
  ASSUME Inv, NEW p \in Proc,
         \A q \in Proc \ {p} : call'[q] = call[q],
         \A d \in Dir : Mine(p, d) \/ Spare(d) \/ Same(d),
         \A d \in Dir : lock'[d] = p <=> d \in Locks(call'[p]),
         \A d \in Dir : lock'[d] = lock[d] \/ lock'[d] = p \/ lock'[d] = None,
         \A d \in Dir : d \in Target(call'[p]) =>
           (Spare(d) \/ d \in Target(call[p])) /\ lock'[d] = None,
         \A d \in Dir : (Mine(p, d) \/ ~ Same(d)) /\ lock'[d] = None /\ d \notin Target(call'[p])
                          => LinksOk(d)',
         \A y \in Dir : Offspring(p, y),
         Types', Dirs', Parents', Working(p)', Childless(p)'
  PROVE  Inv'
<1>0. \A q \in Proc : q # None
  BY NoneAssumption
<1>1. ASSUME NEW q \in Proc, q # p, NEW d \in Dir, Mine(q, d) PROVE Same(d)
  BY <1>1, Apart
<1>2. ASSUME NEW q \in Proc PROVE Working(q)' /\ Childless(q)'
  BY <1>1, <1>2, WorkingFrame, ChildlessFrame
<1>3. Holding'
  <2> SUFFICES ASSUME NEW q \in Proc, NEW d \in Dir
               PROVE  lock'[d] = q <=> d \in Locks(call'[q])
    BY DEF Holding
  <2>1. CASE q = p
    BY <2>1
  <2>2. CASE q # p
    <3>1. lock[d] = q <=> d \in Locks(call[q])
      BY DEF Inv, Holding
    <3>2. call'[q] = call[q]
      BY <2>2
    <3>3. d \in Locks(call[q]) => lock'[d] = lock[d]
      BY <1>1, <2>2 DEF Mine, Same
    <3> QED
      BY <1>0, <2>2, <3>1, <3>2, <3>3
  <2> QED
    BY <2>1, <2>2
<1>4. Targets'
  <2> SUFFICES ASSUME NEW q \in Proc, NEW r \in Proc, NEW d \in Dir, d \in Target(call'[q])
               PROVE  lock'[d] = None /\ (d \in Target(call'[r]) => q = r)
    BY DEF Targets
  <2>0. \A a, b \in Proc : d \in Target(call[a]) => lock[d] = None /\ (d \in Target(call[b]) => a = b)
    BY DEF Inv, Targets
  <2>1. CASE q = p
    BY <2>0, <2>1 DEF Spare
  <2>2. CASE q # p
    <3>1. d \in Target(call[q])
      BY <2>2
    <3>2. Same(d) /\ ~ Spare(d)
      BY <1>1, <2>2, <3>1, Apart DEF Mine
    <3>3. lock'[d] = None
      BY <2>0, <3>1, <3>2 DEF Same
    <3> QED
      BY <2>0, <2>2, <3>1, <3>2, <3>3
  <2> QED
    BY <2>1, <2>2
<1>5. Free'
  <2> SUFFICES ASSUME NEW d \in Dir, lock'[d] = None, \A q \in Proc : d \notin Target(call'[q])
               PROVE  LinksOk(d)'
    BY DEF Free
  <2>1. CASE Mine(p, d) \/ ~ Same(d)
    BY <2>1
  <2>2. CASE ~ Mine(p, d) /\ Same(d)
    <3>1. lock[d] = None
      BY <2>2 DEF Same
    <3>2. \A q \in Proc : d \notin Target(call[q])
      BY <2>2 DEF Mine
    <3>3. LinksOk(d)
      BY <3>1, <3>2 DEF Inv, Free
    <3> QED
      BY <2>2, <3>3, LinksSame
  <2> QED
    BY <2>1, <2>2
<1> QED
  BY <1>2, <1>3, <1>4, <1>5 DEF Inv

-----------------------------------------------------------------------------
(* Kinds of steps.                                                          *)

\* The state of a call from the name of its step.
LEMMA CallKind ==
  ASSUME Types, NEW p \in Proc
  PROVE  /\ call[p].op = "clone" => call[p] \in CloneCall
         /\ call[p].op = "snapshot" => call[p] \in SnapshotCall
         /\ call[p].op = "delete" => call[p] \in DeleteCall \cup DeleteChoice \cup DeleteChild
         /\ call[p].op = "switch" => call[p] \in SwitchWait \cup SwitchCall
<1>1. call[p] \in Call
  BY DEF Types
<1> QED
  BY <1>1, CloneCallIs, SnapshotCallIs, DeleteCallIs, DeleteChoiceIs, DeleteChildIs,
     SwitchWaitIs, SwitchCallIs, IdleIs DEF Call

LEMMA Goes ==
  ASSUME Types, NEW p \in Proc, NEW pc, Goto(p, pc)
  PROVE  call' = [call EXCEPT ![p] = [call[p] EXCEPT !.pc = pc]]
BY DEF Goto, Types

\* Nothing is made or unmade and no volume gets another parent.
Quiet ==
  \A d \in Dir : /\ Made(d)' <=> Made(d)
                 /\ Made(d) => \A y : Continues(d, y)' <=> Continues(d, y)

LEMMA QuietKids ==
  ASSUME Inv, Quiet
  PROVE  Parents' /\ (\A p : \A y \in Dir : Offspring(p, y))
         /\ (\A y \in Dir : Kids(y)' = Kids(y))
<1>1. \A y \in Dir : Kids(y)' = Kids(y)
  BY DEF Quiet, Kids
<1>2. \A y \in Dir : Kids(y) # {} => Made(y)
  BY DEF Inv, Parents
<1>3. Parents'
  BY <1>1, <1>2 DEF Parents, Quiet
<1> QED
  BY <1>1, <1>3 DEF Offspring

\* The call goes on with the locks it has.
LEMMA Stays ==
  ASSUME Inv, NEW p \in Proc, NEW n \in Call,
         call' = [call EXCEPT ![p] = n], lock' = lock,
         Locks(n) = Locks(call[p]), Target(n) = Target(call[p]),
         \A d \in Dir : Mine(p, d) \/ Same(d),
         \A y \in Dir : Offspring(p, y),
         Types', Dirs', Parents', Working(p)', Childless(p)'
  PROVE  Inv'
<1>1. call'[p] = n /\ \A q \in Proc \ {p} : call'[q] = call[q]
  BY DEF Inv, Types
<1>2. \A d \in Dir : lock'[d] = p <=> d \in Locks(call'[p])
  BY <1>1 DEF Inv, Holding
<1>3. \A d \in Dir : d \in Target(call'[p]) => d \in Target(call[p]) /\ lock'[d] = None
  BY <1>1 DEF Inv, Targets
<1>4. \A d \in Dir : Mine(p, d) /\ lock'[d] = None => d \in Target(call'[p])
  BY <1>1, <1>2, NoneAssumption DEF Mine
<1> QED
  BY <1>1, <1>2, <1>3, <1>4, Step

\* The call ends and its locks with it.
LEMMA Leaves ==
  ASSUME Inv, NEW p \in Proc, Return(p),
         \A d \in Dir : Mine(p, d) => LinksOk(d)',
         \A d \in Dir : Mine(p, d) \/ lock'[d] # lock[d] \/ Same(d),
         \A y \in Dir : Offspring(p, y),
         Types', Dirs', Parents'
  PROVE  Inv'
<1>1. call'[p] = Idle /\ \A q \in Proc \ {p} : call'[q] = call[q]
  BY DEF Return, Inv, Types
<1>2. \A d \in Dir : lock'[d] = IF lock[d] = p THEN None ELSE lock[d]
  BY DEF Return
<1>3. \A d \in Dir : lock'[d] # p
  BY <1>2, NoneAssumption
<1>4. \A d \in Dir : lock'[d] # lock[d] => Mine(p, d)
  BY <1>2 DEF Inv, Holding, Mine
<1>5. \A d \in Dir : Mine(p, d) \/ Same(d)
  BY <1>4
<1>6. Locks(call'[p]) = {} /\ Target(call'[p]) = {}
  BY <1>1, IdleIs
<1>7. Working(p)' /\ Childless(p)'
  BY <1>1, IdleIs DEF Working, Childless
<1>8. \A d \in Dir : (Mine(p, d) \/ ~ Same(d)) => LinksOk(d)'
  BY <1>5
<1> QED
  BY <1>1, <1>2, <1>3, <1>5, <1>6, <1>7, <1>8, Step

\* The call locks d as well.
LEMMA Takes ==
  ASSUME Inv, NEW p \in Proc, NEW n \in Call, NEW x \in Dir,
         call' = [call EXCEPT ![p] = n], lock' = [lock EXCEPT ![x] = p],
         lock[x] = None, Made(x),
         \A d \in Dir : d \in Locks(n) <=> d \in Locks(call[p]) \cup {x},
         Target(n) = {} /\ Target(call[p]) = {},
         UNCHANGED <<dd, tmp, layout, kids, want>>, Types', Working(p)', Childless(p)'
  PROVE  Inv'
<1>1. call'[p] = n /\ \A q \in Proc \ {p} : call'[q] = call[q]
  BY DEF Inv, Types
<1>2. \A d \in Dir : lock'[d] = IF d = x THEN p ELSE lock[d]
  BY DEF Inv, Types
<1>3. \A d \in Dir : d # x => Same(d)
  BY <1>2 DEF Same
<1>4. Spare(x)
  <2> SUFFICES ASSUME NEW q \in Proc, x \in Target(call[q]) PROVE FALSE
    BY DEF Spare
  <2>1. x \in Target(call[q]) => ~ Made(x)
    BY CloneCallIs, SnapshotCallIs DEF Inv, Working, Cloning, Snapping, Target
  <2> QED
    BY <2>1
<1>5. \A d \in Dir : lock'[d] = p <=> d \in Locks(call'[p])
  BY <1>1, <1>2 DEF Inv, Holding
<1>6. Quiet
  BY DEF Quiet, Made, Continues
<1>7. Dirs'
  <2>1. dd[x] # None
    BY DEF Inv, Dirs
  <2> QED
    BY <1>2, <2>1 DEF Inv, Dirs, Made
<1>8. \A d \in Dir : (Mine(p, d) \/ ~ Same(d)) => lock'[d] # None
  <2>1. p # None
    BY NoneAssumption
  <2>2. \A d \in Dir : Mine(p, d) => lock[d] = p
    BY DEF Mine, Inv, Holding
  <2> QED
    BY <1>2, <1>3, <2>1, <2>2
<1> QED
  BY <1>1, <1>2, <1>3, <1>4, <1>5, <1>6, <1>7, <1>8, QuietKids, Step

LEMMA CloneGoes ==
  ASSUME Inv, NEW p \in Proc, call[p] \in CloneCall,
         NEW pc \in {"volume", "snapshot", "link", "undo", "destroy"},
         Goto(p, pc)
  PROVE  \E n \in CloneCall :
           LET c == call[p]
           IN  /\ call' = [call EXCEPT ![p] = n] /\ call'[p] = n /\ call' \in [Proc -> Call]
               /\ n \in Call /\ n.pc = pc /\ n.d = c.d /\ n.s = c.s /\ n.di = c.di /\ n.g = c.g
               /\ Locks(n) = Locks(c) /\ Target(n) = Target(c)
<1> DEFINE c == call[p]
           n == [c EXCEPT !.pc = pc]
<1>1. n \in CloneCall /\ n.pc = pc /\ n.d = c.d /\ n.s = c.s /\ n.di = c.di /\ n.g = c.g
  BY CloneCallGoto
<1>2. call' = [call EXCEPT ![p] = n]
  BY Goes DEF Inv
<1> HIDE DEF n
<1>3. n \in Call
  BY <1>1 DEF Call
<1>4. call'[p] = n /\ call' \in [Proc -> Call]
  BY <1>2, <1>3 DEF Inv, Types
<1>5. Locks(n) = Locks(c) /\ Target(n) = Target(c)
  BY <1>1, CloneCallIs
<1> QED
  BY <1>1, <1>2, <1>3, <1>4, <1>5

LEMMA SnapshotGoes ==
  ASSUME Inv, NEW p \in Proc, call[p] \in SnapshotCall,
         NEW pc \in SnapshotStep,
         Goto(p, pc)
  PROVE  \E n \in SnapshotCall :
           LET c == call[p]
           IN  /\ call' = [call EXCEPT ![p] = n] /\ call'[p] = n /\ call' \in [Proc -> Call]
               /\ n \in Call /\ n.pc = pc /\ n.d = c.d /\ n.s = c.s /\ n.di = c.di /\ n.g = c.g
               /\ Locks(n) = Locks(c) /\ Target(n) = Target(c)
<1> DEFINE c == call[p]
           n == [c EXCEPT !.pc = pc]
<1>1. n \in SnapshotCall /\ n.pc = pc /\ n.d = c.d /\ n.s = c.s /\ n.di = c.di /\ n.g = c.g
  BY SnapshotCallGoto
<1>2. call' = [call EXCEPT ![p] = n]
  BY Goes DEF Inv
<1> HIDE DEF n
<1>3. n \in Call
  BY <1>1 DEF Call
<1>4. call'[p] = n /\ call' \in [Proc -> Call]
  BY <1>2, <1>3 DEF Inv, Types
<1>5. Locks(n) = Locks(c) /\ Target(n) = Target(c)
  BY <1>1, SnapshotCallIs
<1> QED
  BY <1>1, <1>2, <1>3, <1>4, <1>5

LEMMA DeleteGoes ==
  ASSUME Inv, NEW p \in Proc, call[p] \in DeleteCall,
         NEW pc \in {"parent", "children", "images", "unregister", "destroy"},
         Goto(p, pc)
  PROVE  \E n \in DeleteCall :
           LET c == call[p]
           IN  /\ call' = [call EXCEPT ![p] = n] /\ call'[p] = n /\ call' \in [Proc -> Call]
               /\ n \in Call /\ n.pc = pc /\ n.d = c.d /\ n.di = c.di
               /\ (c.pc # "parent" /\ pc # "parent" => Locks(n) = Locks(c)) /\ Target(n) = Target(c)
<1> DEFINE c == call[p]
           n == [c EXCEPT !.pc = pc]
<1>1. n \in DeleteCall /\ n.pc = pc /\ n.d = c.d /\ n.di = c.di
  BY DeleteCallGoto
<1>2. call' = [call EXCEPT ![p] = n]
  BY Goes DEF Inv
<1> HIDE DEF n
<1>3. n \in Call
  BY <1>1 DEF Call
<1>4. call'[p] = n /\ call' \in [Proc -> Call]
  BY <1>2, <1>3 DEF Inv, Types
<1>5. (c.pc # "parent" /\ pc # "parent" => Locks(n) = Locks(c)) /\ Target(n) = Target(c)
  BY <1>1, DeleteCallIs
<1> QED
  BY <1>1, <1>2, <1>3, <1>4, <1>5

LEMMA ChildGoes ==
  ASSUME Inv, NEW p \in Proc, call[p] \in DeleteChild,
         NEW pc \in {"merge", "unlink child", "unregister", "register", "destroy"},
         Goto(p, pc)
  PROVE  \E n \in DeleteChild :
           /\ call' = [call EXCEPT ![p] = n] /\ call'[p] = n
           /\ call' \in [Proc -> Call] /\ n \in Call
           /\ n.pc = pc /\ n.d = call[p].d
           /\ n.di = call[p].di /\ n.c = call[p].c /\ n.child = call[p].child
           /\ Locks(n) = Locks(call[p]) /\ Target(n) = Target(call[p])
<1> DEFINE c == call[p]
           n == [c EXCEPT !.pc = pc]
<1>1. n \in DeleteChild /\ n.pc = pc /\ n.d = c.d /\ n.di = c.di /\ n.c = c.c /\ n.child = c.child
  BY DeleteChildGoto
<1>2. call' = [call EXCEPT ![p] = n]
  BY Goes DEF Inv
<1> HIDE DEF n
<1>3. n \in Call
  BY <1>1 DEF Call
<1>4. call'[p] = n /\ call' \in [Proc -> Call]
  BY <1>2, <1>3 DEF Inv, Types
<1>5. Locks(n) = Locks(c) /\ Target(n) = Target(c)
  BY <1>1, DeleteChildIs
<1> QED
  BY <1>1, <1>2, <1>3, <1>4, <1>5

LEMMA SwitchGoes ==
  ASSUME Inv, NEW p \in Proc, call[p] \in SwitchCall,
         NEW pc \in {"volume", "unregister", "register", "old delta"},
         Goto(p, pc)
  PROVE  \E n \in SwitchCall :
           /\ call' = [call EXCEPT ![p] = n] /\ call'[p] = n
           /\ call' \in [Proc -> Call] /\ n \in Call
           /\ n.pc = pc /\ n.d = call[p].d
           /\ n.s = call[p].s /\ n.di = call[p].di /\ n.to = call[p].to
           /\ Locks(n) = Locks(call[p]) /\ Target(n) = Target(call[p])
<1> DEFINE c == call[p]
           n == [c EXCEPT !.pc = pc]
<1>1. n \in SwitchCall /\ n.pc = pc /\ n.d = c.d /\ n.s = c.s /\ n.di = c.di /\ n.to = c.to
  BY SwitchCallGoto
<1>2. call' = [call EXCEPT ![p] = n]
  BY Goes DEF Inv
<1> HIDE DEF n
<1>3. n \in Call
  BY <1>1 DEF Call
<1>4. call'[p] = n /\ call' \in [Proc -> Call]
  BY <1>2, <1>3 DEF Inv, Types
<1>5. Locks(n) = Locks(c) /\ Target(n) = Target(c)
  BY <1>1, SwitchCallIs
<1> QED
  BY <1>1, <1>2, <1>3, <1>4, <1>5

-----------------------------------------------------------------------------
(* Clone.                                                                   *)

\* A new image keeps what files hold.
LEMMA NewFileTyped ==
  ASSUME Types, NEW f, NEW d, NewFile(f, d)
  PROVE  \A x \in DOMAIN files' : files'[x] \subseteq Written
BY DEF Types, NewFile

\* What a call of the library starts with, when it damages nothing.
LEMMA Begins ==
  ASSUME Inv, NEW p \in Proc, NEW rec, NEW cs, Begin(p, rec, cs), windows = {}, windows' = {}
  PROVE  /\ call[p] = Idle /\ call' = [call EXCEPT ![p] = rec] /\ cs = {}
         /\ Locks(call[p]) = {} /\ Target(call[p]) = {}
<1>1. windows' = ((windows \cup cs) \cup When("killed" \in windows, "after a kill"))
                   \cup When("link lost" \in windows, "after a lost link")
  BY Zenon DEF Begin
<1>2. \A x \in cs : x \in windows'
  BY <1>1, Zenon
<1>3. cs = {}
  BY <1>2
<1>4. call[p] = Idle /\ call' = [call EXCEPT ![p] = rec]
  BY DEF Begin
<1>5. Locks(call[p]) = {} /\ Target(call[p]) = {}
  BY <1>4, IdleIs
<1> QED
  BY <1>3, <1>4, <1>5

LEMMA NotWhen == ASSUME NEW cond, NEW name, When(cond, name) = {} PROVE ~ cond
BY DEF When

LEMMA KnownMade == ASSUME NEW d, Known(d), windows = {} PROVE Made(d)
BY DEF Known, Made

\* The operation begins to make a new directory d from volume s.
LEMMA Makes ==
  ASSUME Inv, NEW p \in Proc, NEW s \in Dir, NEW d \in Dir, s # d, d \notin layout,
         NEW n \in CloneCall \cup SnapshotCall, n.s = s, n.d = d,
         n \in CloneCall => n.pc = "volume", n \in SnapshotCall => n.pc = "link",
         n.di.parent = dd[s].parent,
         call[p] = Idle, call' = [call EXCEPT ![p] = n],
         Made(s), Locked(p, s), layout' = layout \cup {d}, next' \in Nat,
         UNCHANGED <<dd, tmp, kids, files, writes, want>>
  PROVE  Inv'
<1>0. Types /\ Dirs /\ Free /\ Parents /\ p # None
  BY NoneAssumption DEF Inv
<1>1. call'[p] = n /\ \A q \in Proc \ {p} : call'[q] = call[q]
  BY <1>0 DEF Types
<1>2. lock[s] = None /\ \A x \in Dir : lock'[x] = IF x = s THEN p ELSE lock[x]
  BY <1>0 DEF Types, Locked
<1>3. dd[s] # None /\ dd[d] = None /\ ~ Made(d) /\ kids[d] = {} /\ lock[d] = None
  BY <1>0 DEF Dirs, Locked
<1>4. Locks(n) = {s} /\ Target(n) = {d}
  BY CloneCallIs, SnapshotCallIs
<1>5. \A x \in Dir : x # s /\ x # d => Same(x)
  BY <1>2 DEF Same
<1>6. \A q \in Proc : s \notin Target(call[q]) /\ d \notin Target(call[q])
  <2> SUFFICES ASSUME NEW q \in Proc, NEW x \in {s, d}, x \in Target(call[q]) PROVE FALSE
    OBVIOUS
  <2>1. ~ Made(x) /\ x \in layout
    BY CloneCallIs, SnapshotCallIs DEF Inv, Working, Cloning, Snapping, Target
  <2> QED
    BY <2>1
<1>7. Spare(s) /\ Spare(d)
  BY <1>2, <1>3, <1>6 DEF Spare
<1>8. LinksOk(s) /\ LinksOk(d)
  BY <1>0, <1>2, <1>3, <1>6 DEF Free
<1>9. n \in Call
  BY DEF Call
<1>10. Types'
  <2>1. call' \in [Proc -> Call] /\ lock' \in [Dir -> Proc \cup {None}]
    BY <1>0, <1>9 DEF Types, Locked
  <2> QED
    BY <1>0, <2>1 DEF Types
<1>11. Dirs'
  BY <1>0, <1>2, <1>3 DEF Dirs, Made
<1>12. Quiet
  BY DEF Quiet, Made, Continues
<1>13. LinkedBy(d, {}) /\ Continues(s, n.di.parent) /\ LinkedBy(s, {n.di.parent})
  BY <1>3, <1>8 DEF LinkedBy, LinksOk, Continues
<1>14. dd[s].parent # d
  <2> SUFFICES ASSUME dd[s].parent = d PROVE FALSE
    OBVIOUS
  <2>1. s \in Kids(d)
    BY <1>3 DEF Kids, Continues
  <2> QED
    BY <1>0, <1>3, <2>1 DEF Parents
<1>15. Working(p)'
  <2>1. CASE n \in CloneCall
    <3>1. Cloning(n)'
      BY <1>3, <1>8, <1>13, <2>1 DEF Cloning, LinkedBy, LinksOk, Continues, Made
    <3> QED
      BY <1>1, <2>1, <3>1, CloneCallIs DEF Working
  <2>2. CASE n \in SnapshotCall
    <3>1. Snapping(n)'
      BY <1>3, <1>13, <1>14, <2>2 DEF Snapping, LinkedBy, Continues, Made
    <3> QED
      BY <1>1, <2>2, <3>1, SnapshotCallIs DEF Working
  <2> QED
    BY <2>1, <2>2
<1>16. Childless(p)'
  BY <1>1, CloneCallIs, SnapshotCallIs DEF Childless
<1>17. \A x \in Dir : lock'[x] = p <=> x \in Locks(call'[p])
  <2>1. \A x \in Dir : lock[x] # p
    BY IdleIs DEF Inv, Holding
  <2> QED
    BY <1>1, <1>2, <1>4, <2>1
<1>18. \A x \in Dir : ~ Mine(p, x)
  BY IdleIs DEF Mine
<1> QED
  BY <1>0, <1>1, <1>2, <1>3, <1>4, <1>5, <1>7, <1>10, <1>11, <1>12, <1>15, <1>16, <1>17, <1>18,
     QuietKids, Step

LEMMA CloneBeginInv ==
  ASSUME Inv, NEW p \in Proc, NEW s \in Dir, NEW d \in Dir, CloneBegin(p, s, d),
         windows = {}, windows' = {}
  PROVE  Inv'
<1> DEFINE di == ploop_read_dd(s)
           g == IF ~di.ro THEN next ELSE IF di.snap # NONE_UUID THEN di.snap ELSE di.top
           n == [op |-> "clone", pc |-> "volume", d |-> d, s |-> s, di |-> di, g |-> g]
<1>1. Begin(p, n, When(d \in layout, "existing") \cup When(di.ro /\ g # di.top, "nested"))
  BY DEF CloneBegin
<1>2. call[p] = Idle /\ call' = [call EXCEPT ![p] = n]
  BY <1>1, Begins
<1>3. When(d \in layout, "existing") = {} /\ When(di.ro /\ g # di.top, "nested") = {}
  <2>1. When(d \in layout, "existing") \cup When(di.ro /\ g # di.top, "nested") = {}
    BY <1>1, Begins
  <2> QED
    BY <2>1
<1>4. d \notin layout /\ ~(di.ro /\ g # di.top)
  BY <1>3, NotWhen
<1>5. di \in Descriptor /\ di.parent = dd[s].parent
  BY ReadTyped DEF Inv, CloneBegin, Locked
<1>6. g \in Nat
  BY <1>4, <1>5 DEF Inv, Types, Descriptor
<1>7. n \in CloneCall /\ n.s = s /\ n.d = d /\ n.pc = "volume" /\ n.di = di
  <2> HIDE DEF di, g
  <2> QED
    BY <1>5, <1>6 DEF CloneCall
<1>8. next' \in Nat
  BY DEF CloneBegin, Inv, Types
<1>9. Made(s)
  BY KnownMade DEF CloneBegin
<1> HIDE DEF n, di, g
<1> QED
  BY <1>2, <1>4, <1>5, <1>7, <1>8, <1>9, Makes, CloneCallIs DEF CloneBegin

LEMMA SnapshotBeginInv ==
  ASSUME Inv, NEW p \in Proc, NEW s \in Dir, NEW d \in Dir, SnapshotBegin(p, s, d),
         windows = {}, windows' = {}
  PROVE  Inv'
<1> DEFINE di == ploop_read_dd(s)
           n == [op |-> "snapshot", pc |-> "link", d |-> d, s |-> s, di |-> di, g |-> next]
<1>1. Begin(p, n, When(d \in layout, "existing"))
  BY DEF SnapshotBegin
<1>2. call[p] = Idle /\ call' = [call EXCEPT ![p] = n] /\ When(d \in layout, "existing") = {}
  BY <1>1, Begins
<1>4. d \notin layout
  BY <1>2, NotWhen
<1>5. di \in Descriptor /\ di.parent = dd[s].parent
  BY ReadTyped DEF Inv, SnapshotBegin, Locked
<1>7. n \in SnapshotCall /\ n.s = s /\ n.d = d /\ n.pc = "link" /\ n.di = di
  <2>1. next \in Nat
    BY DEF Inv, Types
  <2> HIDE DEF di
  <2> QED
    BY <1>5, <2>1 DEF SnapshotCall, SnapshotStep
<1>8. next' \in Nat
  BY DEF SnapshotBegin, Inv, Types
<1>9. Made(s)
  BY KnownMade DEF SnapshotBegin
<1> HIDE DEF n, di
<1> QED
  BY <1>2, <1>4, <1>5, <1>7, <1>8, <1>9, Makes, SnapshotCallIs DEF SnapshotBegin

LEMMA CreateVolumeTyped ==
  ASSUME Inv, NEW src \in Dir, NEW dst \in Dir, NEW dir, NEW g \in Int,
         create_volume(src, dst, dir, g)
  PROVE  /\ dd' \in [Dir -> Descriptor \cup {None}]
         /\ \A x \in Dir \ {dst} : dd'[x] = dd[x]
         /\ dd'[dst] # None /\ dd'[dst].parent = src
         /\ \A f \in DOMAIN files' : files'[f] \subseteq Written
         /\ next' \in Nat
<1> DEFINE own == {[guid |-> next, parent |-> g, file |-> next]}
           r == [own |-> own, far |-> {}, top |-> next, parent |-> src, snap |-> g, ro |-> FALSE]
<1>1. next \in Nat /\ dd \in [Dir -> Descriptor \cup {None}]
  BY DEF Inv, Types
<1>2. own \in SUBSET Image
  BY <1>1 DEF Image
<1>3. r \in Descriptor /\ r.parent = src
  <2> HIDE DEF own
  <2> QED
    BY <1>1, <1>2 DEF Descriptor
<1>4. r # None
  BY <1>3, NoneAssumption
<1>5. dd' = [dd EXCEPT ![dst] = r]
  BY DEF create_volume
<1> HIDE DEF r
<1>6. /\ dd' \in [Dir -> Descriptor \cup {None}]
      /\ \A x \in Dir \ {dst} : dd'[x] = dd[x]
      /\ dd'[dst] = r
  BY <1>1, <1>3, <1>5
<1>7. \A f \in DOMAIN files' : files'[f] \subseteq Written
  BY NewFileTyped DEF create_volume, Inv
<1>8. next' \in Nat
  BY <1>1 DEF create_volume
<1> QED
  BY <1>3, <1>4, <1>6, <1>7, <1>8

LEMMA CloneVolumeInv ==
  ASSUME Inv, NEW p \in Proc, CloneVolume(p)
  PROVE  Inv'
<1>1. PICK c \in CloneCall : c = call[p]
  BY CallKind DEF Inv, CloneVolume, At
<1>2. PICK n \in CloneCall :
        /\ call' = [call EXCEPT ![p] = n] /\ call'[p] = n
        /\ call' \in [Proc -> Call] /\ n \in Call
        /\ n.d = c.d /\ n.s = c.s /\ n.di = c.di /\ n.pc \in {"link", "snapshot"}
        /\ Locks(n) = Locks(c) /\ Target(n) = Target(c)
  <2>1. PICK pc \in {"link", "snapshot"} : Goto(p, pc)
    BY DEF CloneVolume
  <2> QED
    BY <1>1, <2>1, CloneGoes
<1>3. c.pc = "volume" /\ c.d \in Dir /\ c.s \in Dir /\ c.g \in Int
  BY <1>1, CloneCallIs DEF CloneVolume, At
<1>4. Cloning(c)
  BY <1>1 DEF Inv, Working
<1>5. /\ dd' \in [Dir -> Descriptor \cup {None}]
      /\ \A x \in Dir \ {c.d} : dd'[x] = dd[x]
      /\ dd'[c.d] # None /\ dd'[c.d].parent = c.s
      /\ \A f \in DOMAIN files' : files'[f] \subseteq Written
      /\ next' \in Nat
  BY <1>1, <1>3, CreateVolumeTyped DEF CloneVolume
<1>6. UNCHANGED <<tmp, layout, kids, lock, writes, want>>
  BY DEF CloneVolume
<1>7. \A x \in Dir \ {c.d} : Same(x)
  BY <1>5, <1>6 DEF Same
<1>8. Mine(p, c.d)
  BY <1>1, CloneCallIs DEF Mine
<1>10. Types'
  BY <1>2, <1>5, <1>6 DEF Inv, Types
<1>11. Dirs'
  BY <1>3, <1>4, <1>5, <1>6 DEF Inv, Dirs, Cloning, Made
<1>12. Quiet
  BY <1>3, <1>4, <1>5, <1>6 DEF Quiet, Made, Continues, Cloning
<1>14. Cloning(n)'
  BY <1>2, <1>3, <1>4, <1>5, <1>6 DEF Cloning, LinkedBy, LinksOk, Continues, Made
<1>15. Working(p)' /\ Childless(p)'
  BY <1>2, <1>14, CloneCallIs DEF Working, Childless
<1> QED
  BY <1>1, <1>2, <1>6, <1>7, <1>8, <1>10, <1>11, <1>12, <1>15, QuietKids, Stays

\* do_create_snapshot stores a descriptor with the parent it had.
LEMMA CreateSnapshotTyped ==
  ASSUME Inv, NEW p \in Proc, call[p] \in CloneCall \cup SnapshotCall, do_create_snapshot(p)
  PROVE  LET c == call[p]
             di == Snapshotted(c.di, c.g, next)
         IN  /\ dd' \in [Dir -> Descriptor \cup {None}]
             /\ \A x \in Dir \ {c.s} : dd'[x] = dd[x]
             /\ dd'[c.s] # None /\ dd'[c.s].parent = c.di.parent
             /\ di \in Descriptor /\ di.parent = c.di.parent
             /\ \A f \in DOMAIN files' : files'[f] \subseteq Written
             /\ next' \in Nat
<1> DEFINE c == call[p]
           di == Snapshotted(c.di, c.g, next)
           r == ploop_store_diskdescriptor(di)
<1>1. c.di \in Descriptor /\ c.g \in Nat /\ c.s \in Dir /\ next \in Nat
      /\ dd \in [Dir -> Descriptor \cup {None}]
  BY CloneCallIs, SnapshotCallIs DEF Inv, Types
<1>2. di \in Descriptor /\ di.parent = c.di.parent
  BY <1>1, SnapshottedTyped
<1>3. r \in Descriptor /\ r.parent = c.di.parent /\ r # None
  BY <1>2, StoreTyped, NoneAssumption
<1>4. dd' = [dd EXCEPT ![c.s] = r]
  BY DEF do_create_snapshot
<1>5. next' \in Nat
  BY <1>1 DEF do_create_snapshot
<1>6. \A f \in DOMAIN files' : files'[f] \subseteq Written
  BY NewFileTyped DEF do_create_snapshot, Inv
<1> HIDE DEF c, r, di
<1>7. /\ dd' \in [Dir -> Descriptor \cup {None}]
      /\ \A x \in Dir \ {c.s} : dd'[x] = dd[x]
      /\ dd'[c.s] = r
  BY <1>1, <1>3, <1>4
<1> QED
  BY <1>2, <1>3, <1>5, <1>6, <1>7 DEF c, di

LEMMA CloneSnapshotInv ==
  ASSUME Inv, NEW p \in Proc, CloneSnapshot(p)
  PROVE  Inv'
<1>1. PICK c \in CloneCall : c = call[p]
  BY CallKind DEF Inv, CloneSnapshot, At
<1> DEFINE di == Snapshotted(c.di, c.g, next)
<1>2. /\ dd' \in [Dir -> Descriptor \cup {None}]
      /\ \A x \in Dir \ {c.s} : dd'[x] = dd[x]
      /\ dd'[c.s] # None /\ dd'[c.s].parent = c.di.parent
      /\ di \in Descriptor /\ di.parent = c.di.parent
      /\ \A f \in DOMAIN files' : files'[f] \subseteq Written
      /\ next' \in Nat
  BY <1>1, CreateSnapshotTyped DEF CloneSnapshot
<1>3. c.pc = "snapshot" /\ c.d \in Dir /\ c.s \in Dir /\ Cloning(c)
  BY <1>1, CloneCallIs DEF CloneSnapshot, At, Inv, Working
<1> DEFINE m == [c EXCEPT !.pc = "link", !.di = di]
<1>4. call' = [call EXCEPT ![p] = m]
  BY <1>1 DEF CloneSnapshot, Inv, Types
<1>5. m \in CloneCall /\ m.pc = "link" /\ m.d = c.d /\ m.s = c.s /\ m.di = di
  <2> HIDE DEF di
  <2> QED
    BY <1>2 DEF CloneCall
<1> HIDE DEF di
<1>6. PICK n \in CloneCall : n = m
  BY <1>5
<1> HIDE DEF m
<1>7. n \in Call
  BY DEF Call
<1>8. /\ call' = [call EXCEPT ![p] = n] /\ call'[p] = n /\ call' \in [Proc -> Call]
      /\ Locks(n) = Locks(c) /\ Target(n) = Target(c)
      /\ n.pc = "link" /\ n.d = c.d /\ n.s = c.s /\ n.di.parent = c.di.parent
  BY <1>2, <1>4, <1>5, <1>6, <1>7, CloneCallIs DEF Inv, Types
<1>9. UNCHANGED <<tmp, layout, kids, lock, writes, want>>
  BY DEF CloneSnapshot
<1>10. \A x \in Dir \ {c.s} : Same(x)
  BY <1>2, <1>9 DEF Same
<1>11. Mine(p, c.s)
  BY <1>1, CloneCallIs DEF Mine
<1>12. Types'
  BY <1>2, <1>8, <1>9 DEF Inv, Types
<1>13. \A x \in Dir : \A y : Continues(x, y)' <=> Continues(x, y)
  BY <1>2, <1>3 DEF Continues, Cloning
<1>14. Dirs' /\ Quiet
  BY <1>2, <1>3, <1>9, <1>13 DEF Inv, Dirs, Quiet, Made, Cloning, Continues
<1>15. Cloning(n)'
  BY <1>3, <1>8, <1>9, <1>13 DEF Cloning, LinkedBy, LinksOk, Made
<1>16. Working(p)' /\ Childless(p)'
  BY <1>8, <1>15, CloneCallIs DEF Working, Childless
<1> QED
  BY <1>1, <1>7, <1>8, <1>9, <1>10, <1>11, <1>12, <1>14, <1>16, QuietKids, Stays

\* What a volume held before its top image was added is a set of writes.
LEMMA BeforeTyped ==
  ASSUME Inv, NEW s \in Dir, NEW di, Made(s)
  PROVE  Before(s, di) \in SUBSET Written /\ Before(s, di) # None
<1>1. Before(s, di) \in SUBSET Written
  <2>1. want[s] \in SUBSET Written
    BY DEF Made, Inv, Types
  <2>2. Before(s, di) = want[s] \ files[Entry(di, di.top).file]
    BY DEF Before, Made
  <2> QED
    BY <2>1, <2>2
<1> QED
  BY <1>1, NoneAssumption DEF Written

LEMMA CloneLinkInv ==
  ASSUME Inv, NEW p \in Proc, CloneLink(p)
  PROVE  Inv'
<1>1. PICK c \in CloneCall : c = call[p]
  BY CallKind DEF Inv, CloneLink, At
<1>2. c.pc = "link" /\ c.d \in Dir /\ c.s \in Dir /\ Cloning(c)
  BY <1>1, CloneCallIs DEF CloneLink, At, Inv, Working
<1>3. Types /\ Dirs /\ Parents
  BY DEF Inv
<1>4. UNCHANGED <<dd, tmp, layout, files, next, writes>>
  BY DEF CloneLink
<1>5. kids' \in [Dir -> SUBSET Dir]
      /\ \A y \in Dir : kids'[y] = IF y = c.s THEN kids[y] \cup {c.d} ELSE kids[y]
  BY <1>1, <1>2, <1>3 DEF CloneLink, Types
<1>6. want' \in [Dir -> (SUBSET Written) \cup {None}] /\ \A x \in Dir : x # c.d => want'[x] = want[x]
  <2>1. Made(c.s)
    BY <1>2 DEF Cloning
  <2>2. Before(c.s, c.di) \in SUBSET Written
    BY <1>2, <2>1, BeforeTyped
  <2>3. want[c.s] \in (SUBSET Written) \cup {None}
    BY <1>2, <1>3 DEF Types
  <2> QED
    BY <1>1, <1>2, <1>3, <2>2, <2>3 DEF CloneLink, Types
<1>7. Return(p)
  BY DEF CloneLink
<1>8. lock' \in [Dir -> Proc \cup {None}] /\ call' \in [Proc -> Call]
      /\ \A x \in Dir : lock'[x] # None => lock[x] # None
  BY <1>3, <1>7 DEF Types, Return, Call
<1>9. Types'
  BY <1>3, <1>4, <1>5, <1>6, <1>8 DEF Types
<1>10. Dirs'
  BY <1>2, <1>3, <1>4, <1>5, <1>6, <1>8 DEF Dirs, Made, Cloning, Continues
<1>11. \A x \in Dir : \A y : Continues(x, y)' <=> Continues(x, y)
  BY <1>4 DEF Continues
<1>12. \A y \in Dir : y # c.s => Kids(y)' \subseteq Kids(y)
  BY <1>2, <1>6, <1>11 DEF Kids, Made, Cloning, Continues
<1>13. c.s \in Locks(call[p]) /\ Mine(p, c.s) /\ Mine(p, c.d)
       /\ \A x \in Dir : Mine(p, x) => x \in {c.s, c.d}
  BY <1>1, CloneCallIs DEF Mine
<1>14. \A y \in Dir : Offspring(p, y)
  BY <1>12, <1>13 DEF Offspring
<1>15. Parents'
  <2> SUFFICES ASSUME NEW y \in Dir, Kids(y)' # {} PROVE Made(y)'
    BY DEF Parents
  <2>1. CASE y = c.s
    BY <1>2, <1>6, <2>1 DEF Made, Cloning
  <2>2. CASE y # c.s
    <3>1. Made(y)
      BY <1>3, <1>12, <2>2 DEF Parents
    <3>2. y # c.d
      BY <1>2, <3>1 DEF Cloning
    <3> QED
      BY <1>6, <3>1, <3>2 DEF Made
  <2> QED
    BY <2>1, <2>2
<1>16. \A x \in Dir : Mine(p, x) => LinksOk(x)'
  <2>1. LinksOk(c.d)'
    BY <1>2, <1>5, <1>11 DEF Cloning, LinksOk, LinkedBy, Continues
  <2>2. LinksOk(c.s)'
    BY <1>2, <1>5, <1>11 DEF Cloning, LinksOk
  <2> QED
    BY <1>13, <2>1, <2>2
<1>17. \A x \in Dir : Mine(p, x) \/ lock'[x] # lock[x] \/ Same(x)
  BY <1>4, <1>5, <1>6, <1>13 DEF Same
<1> QED
  BY <1>7, <1>9, <1>10, <1>14, <1>15, <1>16, <1>17, Leaves

LEMMA CloneFailsInv ==
  ASSUME Inv, NEW p \in Proc, CloneFails(p)
  PROVE  Inv'
<1>1. PICK c \in CloneCall : c = call[p]
  BY CallKind DEF Inv, CloneFails, At
<1>2. PICK pc \in {"undo", "destroy"} :
        Goto(p, pc)
  BY DEF CloneFails
<1>3. PICK n \in CloneCall :
        /\ call' = [call EXCEPT ![p] = n] /\ call'[p] = n
        /\ call' \in [Proc -> Call] /\ n \in Call
        /\ n.d = c.d /\ n.s = c.s /\ n.di = c.di /\ n.pc = pc
        /\ Locks(n) = Locks(c) /\ Target(n) = Target(c)
  BY <1>1, <1>2, CloneGoes
<1>4. Cloning(c)
  BY <1>1 DEF Inv, Working
<1>5. UNCHANGED <<dd, tmp, layout, kids, files, lock, next, writes, want>>
  BY DEF CloneFails, disk
<1>6. \A x \in Dir : Same(x)
  BY <1>5 DEF Same
<1>7. Types' /\ Dirs' /\ Quiet
  BY <1>3, <1>5 DEF Inv, Types, Dirs, Quiet, Made, Continues
<1>8. Cloning(n)'
  BY <1>3, <1>4, <1>5 DEF Cloning, LinkedBy, LinksOk, Continues, Made
<1>9. Working(p)' /\ Childless(p)'
  BY <1>3, <1>8, CloneCallIs DEF Working, Childless
<1> QED
  BY <1>1, <1>3, <1>5, <1>6, <1>7, <1>9, QuietKids, Stays

-----------------------------------------------------------------------------
(* Snapshot.                                                                *)

\* A step of a snapshot that changes at most the links of the two volumes,
\* the descriptor of the new one and the temporary one of the source.
LEMMA SnapshotStays ==
  ASSUME Inv, NEW p \in Proc, NEW c \in SnapshotCall, c = call[p],
         NEW n \in SnapshotCall,
         call' = [call EXCEPT ![p] = n], call'[p] = n, call' \in [Proc -> Call], n \in Call,
         Locks(n) = Locks(c), Target(n) = Target(c),
         lock' = lock, \A x \in Dir : Made(x)' <=> Made(x), Types',
         \A x \in Dir \ {c.d, c.s} : Same(x),
         layout' = layout,
         Continues(c.s, c.di.parent)',
         \A x \in Dir : kids'[x] # kids[x] => x \in layout,
         Snapping(n)'
  PROVE  Inv'
<1>1. Snapping(c) /\ c.d \in Dir /\ c.s \in Dir /\ Mine(p, c.d) /\ Mine(p, c.s)
  BY SnapshotCallIs DEF Inv, Working, Mine
<1>2. \A x \in Dir : Made(x) => \A y : Continues(x, y)' <=> Continues(x, y)
  BY <1>1 DEF Snapping, Continues, Same
<1>3. Quiet
  BY <1>2 DEF Quiet
<1>4. Dirs'
  <2> SUFFICES ASSUME NEW x \in Dir
               PROVE  /\ dd'[x] # None => x \in layout
                      /\ x \notin layout => kids'[x] = {}
                      /\ want'[x] # None => dd'[x] # None
                      /\ lock[x] # None => dd'[x] # None
    BY DEF Dirs, Made
  <2>1. /\ dd[x] # None => x \in layout
        /\ x \notin layout => kids[x] = {}
        /\ want[x] # None => dd[x] # None
        /\ lock[x] # None => dd[x] # None
    BY DEF Inv, Dirs, Made
  <2>2. want'[x] # None <=> want[x] # None
    BY DEF Made
  <2>3. CASE x \notin {c.d, c.s}
    BY <2>1, <2>2, <2>3 DEF Same
  <2>4. CASE x = c.s
    BY <1>1, <2>1, <2>2, <2>4 DEF Snapping, Continues
  <2>5. CASE x = c.d
    <3>1. x \in Target(call[p])
      BY <2>5, SnapshotCallIs
    <3>2. lock[x] = None
      BY <3>1 DEF Inv, Targets
    <3> QED
      BY <1>1, <2>1, <2>2, <2>5, <3>2 DEF Snapping, Made
  <2> QED
    BY <2>3, <2>4, <2>5
<1>5. Working(p)' /\ Childless(p)'
  BY SnapshotCallIs DEF Working, Childless
<1>6. \A x \in Dir : Mine(p, x) \/ Same(x)
  BY <1>1
<1> QED
  BY <1>3, <1>4, <1>5, <1>6, QuietKids, Stays

LEMMA SnapshotLinkInv ==
  ASSUME Inv, NEW p \in Proc, SnapshotLink(p)
  PROVE  Inv'
<1>1. PICK c \in SnapshotCall : c = call[p]
  BY CallKind DEF Inv, SnapshotLink, At
<1>2. PICK n \in SnapshotCall :
        /\ call' = [call EXCEPT ![p] = n] /\ call'[p] = n
        /\ call' \in [Proc -> Call] /\ n \in Call
        /\ n.d = c.d /\ n.s = c.s /\ n.di = c.di /\ n.pc \in {"snapshot"}
        /\ Locks(n) = Locks(c) /\ Target(n) = Target(c)
  <2>1. PICK pc \in {"snapshot"} : Goto(p, pc)
    BY DEF SnapshotLink
  <2>2. pc \in SnapshotStep
    BY DEF SnapshotStep
  <2> QED
    BY <1>1, <2>1, <2>2, SnapshotGoes
<1>3. c.pc = "link" /\ c.d \in Dir /\ c.s \in Dir /\ Snapping(c)
  BY <1>1, SnapshotCallIs DEF SnapshotLink, At, Inv, Working
<1>4. UNCHANGED <<dd, tmp, layout, files, lock, next, writes, want>>
  BY DEF SnapshotLink
<1>5. kids' \in [Dir -> SUBSET Dir]
      /\ \A y \in Dir : kids'[y] = IF y = c.d THEN kids[y] \cup {c.s} ELSE kids[y]
  BY <1>1, <1>3 DEF SnapshotLink, Inv, Types
<1>6. Types' /\ \A x \in Dir \ {c.d, c.s} : Same(x)
  BY <1>2, <1>4, <1>5 DEF Inv, Types, Same
<1>7. (\A x \in Dir : Made(x)' <=> Made(x)) /\ \A x, y : Continues(x, y)' <=> Continues(x, y)
  BY <1>4 DEF Made, Continues
<1>8. Snapping(n)'
  <2>1. LinkedBy(c.d, {})' /\ LinkedBy(c.s, {c.d, c.di.parent})'
    BY <1>3, <1>5 DEF Snapping, LinkedBy
  <2> QED
    BY <1>2, <1>3, <1>4, <1>7, <2>1 DEF Snapping
<1> QED
  BY <1>1, <1>2, <1>3, <1>4, <1>5, <1>6, <1>7, <1>8, SnapshotStays DEF Snapping

LEMMA SnapshotCreateInv ==
  ASSUME Inv, NEW p \in Proc, SnapshotCreate(p)
  PROVE  Inv'
<1>1. PICK c \in SnapshotCall : c = call[p]
  BY CallKind DEF Inv, SnapshotCreate, At
<1> DEFINE di == Snapshotted(c.di, c.g, next)
<1>2. /\ dd' \in [Dir -> Descriptor \cup {None}]
      /\ \A x \in Dir \ {c.s} : dd'[x] = dd[x]
      /\ dd'[c.s] # None /\ dd'[c.s].parent = c.di.parent
      /\ di \in Descriptor /\ di.parent = c.di.parent
      /\ \A f \in DOMAIN files' : files'[f] \subseteq Written
      /\ next' \in Nat
  BY <1>1, CreateSnapshotTyped DEF SnapshotCreate
<1>3. c.pc = "snapshot" /\ c.d \in Dir /\ c.s \in Dir /\ Snapping(c)
  BY <1>1, SnapshotCallIs DEF SnapshotCreate, At, Inv, Working
<1> DEFINE m == [c EXCEPT !.pc = "snap dd", !.di = di]
<1>4. call' = [call EXCEPT ![p] = m]
  BY <1>1 DEF SnapshotCreate, Inv, Types
<1>5. m \in SnapshotCall /\ m.pc = "snap dd" /\ m.d = c.d /\ m.s = c.s /\ m.di = di
  <2> HIDE DEF di
  <2> QED
    BY <1>2 DEF SnapshotCall, SnapshotStep
<1> HIDE DEF di
<1>6. PICK n \in SnapshotCall : n = m
  BY <1>5
<1> HIDE DEF m
<1>7. n \in Call
  BY DEF Call
<1>8. /\ call' = [call EXCEPT ![p] = n] /\ call'[p] = n /\ call' \in [Proc -> Call]
      /\ Locks(n) = Locks(c) /\ Target(n) = Target(c)
      /\ n.pc = "snap dd" /\ n.d = c.d /\ n.s = c.s /\ n.di.parent = c.di.parent
  BY <1>2, <1>4, <1>5, <1>6, <1>7, SnapshotCallIs DEF Inv, Types
<1>9. UNCHANGED <<tmp, layout, kids, lock, writes, want>>
  BY DEF SnapshotCreate
<1>10. \A x \in Dir \ {c.d, c.s} : Same(x)
  BY <1>2, <1>9 DEF Same
<1>11. Types'
  BY <1>2, <1>8, <1>9 DEF Inv, Types
<1>12. (\A x \in Dir : Made(x)' <=> Made(x))
       /\ \A x \in Dir : \A y : Continues(x, y)' <=> Continues(x, y)
  BY <1>2, <1>3, <1>9 DEF Continues, Snapping, Made
<1>13. Snapping(n)'
  BY <1>3, <1>8, <1>9, <1>12 DEF Snapping, LinkedBy
<1> QED
  BY <1>1, <1>3, <1>7, <1>8, <1>9, <1>10, <1>11, <1>12, <1>13, SnapshotStays DEF Snapping

LEMMA CreateSnapshotDdInv ==
  ASSUME Inv, NEW p \in Proc, create_snapshot_dd(p)
  PROVE  Inv'
<1>1. PICK c \in SnapshotCall : c = call[p]
  BY CallKind DEF Inv, create_snapshot_dd, At
<1>2a. PICK pc \in SnapshotStep : Goto(p, pc) /\ pc = "child dd"
  BY DEF create_snapshot_dd, SnapshotStep
<1>2. PICK n \in SnapshotCall :
        /\ call' = [call EXCEPT ![p] = n] /\ call'[p] = n
        /\ call' \in [Proc -> Call] /\ n \in Call
        /\ n.d = c.d /\ n.s = c.s /\ n.di = c.di /\ n.pc = pc
        /\ Locks(n) = Locks(c) /\ Target(n) = Target(c)
  <2>1. Goto(p, pc)
    BY <1>2a
  <2> QED
    BY <1>1, <2>1, SnapshotGoes
<1>3. c.pc = "snap dd" /\ c.d \in Dir /\ c.s \in Dir /\ c.g \in Nat /\ Snapping(c)
  BY <1>1, SnapshotCallIs DEF create_snapshot_dd, At, Inv, Working
<1>4. dd[c.s] \in Descriptor /\ dd[c.s].parent = c.di.parent
  BY <1>3 DEF Snapping, Continues, Inv, Types
<1> DEFINE w == Without(dd[c.s], dd[c.s].top)
           r == [w EXCEPT !.ro = TRUE, !.top = c.g]
<1>5. w \in Descriptor /\ w.parent = c.di.parent
  BY <1>4, WithoutTyped
<1>6. r \in Descriptor /\ r.parent = c.di.parent
  <2> HIDE DEF w
  <2> QED
    BY <1>3, <1>5 DEF Descriptor
<1>7. dd' = [dd EXCEPT ![c.d] = r]
  BY <1>1 DEF create_snapshot_dd
<1> HIDE DEF r
<1>8. /\ dd' \in [Dir -> Descriptor \cup {None}]
      /\ \A x \in Dir \ {c.d} : dd'[x] = dd[x]
      /\ dd'[c.d] # None /\ dd'[c.d].parent = c.di.parent
  BY <1>3, <1>6, <1>7, NoneAssumption DEF Inv, Types
<1>9. UNCHANGED <<tmp, layout, kids, files, lock, next, writes, want>>
  BY DEF create_snapshot_dd
<1>10. Types' /\ \A x \in Dir \ {c.d, c.s} : Same(x)
  BY <1>2, <1>8, <1>9 DEF Inv, Types, Same
<1>11. (\A x \in Dir : Made(x)' <=> Made(x))
       /\ (\A y : Continues(c.s, y)' <=> Continues(c.s, y)) /\ Continues(c.d, c.di.parent)'
  BY <1>3, <1>8, <1>9 DEF Made, Continues, Snapping
<1>12. Snapping(n)'
  BY <1>2, <1>2a, <1>3, <1>9, <1>11 DEF Snapping, LinkedBy
<1> QED
  BY <1>1, <1>2, <1>3, <1>9, <1>10, <1>11, <1>12, SnapshotStays DEF Snapping

LEMMA UpdateChildInv ==
  ASSUME Inv, NEW p \in Proc, update_child_dd(p)
  PROVE  Inv'
<1>1. PICK c \in SnapshotCall : c = call[p]
  BY CallKind DEF Inv, update_child_dd, At
<1>2a. PICK pc \in {"register", "rename"} :
         Goto(p, pc) /\ pc = IF c.di.parent # NoDir THEN "register" ELSE "rename"
  BY <1>1 DEF update_child_dd
<1>2. PICK n \in SnapshotCall :
        /\ call' = [call EXCEPT ![p] = n] /\ call'[p] = n
        /\ call' \in [Proc -> Call] /\ n \in Call
        /\ n.d = c.d /\ n.s = c.s /\ n.di = c.di /\ n.pc = pc
        /\ Locks(n) = Locks(c) /\ Target(n) = Target(c)
  <2>1. pc \in SnapshotStep
    BY DEF SnapshotStep
  <2> QED
    BY <1>1, <1>2a, <2>1, SnapshotGoes
<1>3. c.pc = "child dd" /\ c.d \in Dir /\ c.s \in Dir /\ c.g \in Nat /\ Snapping(c)
  BY <1>1, SnapshotCallIs DEF update_child_dd, At, Inv, Working
<1>4. dd[c.s] \in Descriptor
  BY <1>3 DEF Snapping, Continues, Inv, Types
<1> DEFINE w == dd[c.s]
           own == {e \in w.own : e.guid = w.top}
           r == [w EXCEPT !.own = own, !.parent = c.d, !.snap = c.g, !.ro = FALSE]
<1>5. own \in SUBSET Image /\ w \in Descriptor
  BY <1>4 DEF Descriptor
<1>6. r \in Descriptor /\ r.parent = c.d
  <2> HIDE DEF w, own
  <2>1. PICK v \in Descriptor : v = w
    BY <1>5
  <2>2. c.g \in Int /\ c.d \in Dir \cup {NoDir}
    <3>1. c.g \in Nat
      BY <1>3
    <3>2. \A i \in Nat : i \in Int
      OBVIOUS
    <3> QED
      BY <1>3, <3>1, <3>2
  <2>3. PICK u \in SUBSET Image : u = own
    BY <1>5
  <2>4. [v EXCEPT !.own = u, !.parent = c.d, !.snap = c.g, !.ro = FALSE] \in Descriptor
    BY <2>2 DEF Descriptor
  <2>5. [v EXCEPT !.own = u, !.parent = c.d, !.snap = c.g, !.ro = FALSE].parent = c.d
    BY DEF Descriptor
  <2> QED
    BY <2>1, <2>3, <2>4, <2>5
<1>7. tmp' = [tmp EXCEPT ![c.s] = r]
  BY <1>1 DEF update_child_dd
<1> HIDE DEF r
<1>8. /\ tmp' \in [Dir -> Descriptor \cup {None}]
      /\ \A x \in Dir \ {c.s} : tmp'[x] = tmp[x]
      /\ tmp'[c.s] # None /\ tmp'[c.s].parent = c.d
  BY <1>3, <1>6, <1>7, NoneAssumption DEF Inv, Types
<1>9. UNCHANGED <<dd, layout, kids, files, lock, next, writes, want>>
  BY DEF update_child_dd
<1>10. Types' /\ \A x \in Dir \ {c.d, c.s} : Same(x)
  BY <1>2, <1>8, <1>9 DEF Inv, Types, Same
<1>11. (\A x \in Dir : Made(x)' <=> Made(x)) /\ \A x, y : Continues(x, y)' <=> Continues(x, y)
  BY <1>9 DEF Made, Continues
<1>12. Snapping(n)'
  <2>1. NoDir \notin Dir
    BY VolumeAssumption
  <2>2. c.di.parent = NoDir => LinkedBy(c.d, {c.di.parent}) /\ LinkedBy(c.s, {c.d})
    BY <1>3, <2>1 DEF Snapping, LinkedBy
  <2>3. LinkedBy(c.d, {}) /\ LinkedBy(c.s, {c.d, c.di.parent})
    BY <1>3 DEF Snapping
  <2>4. (\A x, Y : LinkedBy(x, Y)' <=> LinkedBy(x, Y))
    BY <1>9 DEF LinkedBy
  <2> QED
    BY <1>2, <1>2a, <1>3, <1>8, <1>9, <1>11, <2>2, <2>3, <2>4 DEF Snapping
<1> QED
  BY <1>1, <1>2, <1>3, <1>9, <1>10, <1>11, <1>12, SnapshotStays DEF Snapping

LEMMA SnapshotRegisterInv ==
  ASSUME Inv, NEW p \in Proc, SnapshotRegister(p)
  PROVE  Inv'
<1>1. PICK c \in SnapshotCall : c = call[p]
  BY CallKind DEF Inv, SnapshotRegister, At
<1>2. PICK pc \in SnapshotStep : Goto(p, pc) /\ pc = "unregister"
  BY DEF SnapshotRegister, SnapshotStep
<1>3. PICK n \in SnapshotCall :
        /\ call' = [call EXCEPT ![p] = n] /\ call'[p] = n
        /\ call' \in [Proc -> Call] /\ n \in Call
        /\ n.d = c.d /\ n.s = c.s /\ n.di = c.di /\ n.pc = pc
        /\ Locks(n) = Locks(c) /\ Target(n) = Target(c)
  <2>1. Goto(p, pc)
    BY <1>2
  <2> QED
    BY <1>1, <2>1, SnapshotGoes
<1>4. c.pc = "register" /\ c.d \in Dir /\ c.s \in Dir /\ Snapping(c)
  BY <1>1, SnapshotCallIs DEF SnapshotRegister, At, Inv, Working
<1>5. UNCHANGED <<dd, tmp, layout, files, lock, next, writes, want>>
  BY DEF SnapshotRegister
<1>6. c.di.parent \in layout /\ c.di.parent \in Dir
  BY <1>1 DEF SnapshotRegister, Inv, Types
<1>7. kids' \in [Dir -> SUBSET Dir]
      /\ \A y \in Dir : kids'[y] = IF y = c.di.parent THEN kids[y] \cup {c.d} ELSE kids[y]
  BY <1>1, <1>4, <1>6 DEF SnapshotRegister, Inv, Types
<1>8. Types' /\ \A x \in Dir \ {c.d, c.s} : Same(x)
  BY <1>3, <1>5, <1>7 DEF Inv, Types, Same
<1>9. (\A x \in Dir : Made(x)' <=> Made(x)) /\ \A x, y : Continues(x, y)' <=> Continues(x, y)
  BY <1>5 DEF Made, Continues
<1>10. Snapping(n)'
  <2>1. LinkedBy(c.d, {c.di.parent})' /\ LinkedBy(c.s, {c.d, c.di.parent})'
    BY <1>4, <1>7 DEF Snapping, LinkedBy
  <2> QED
    BY <1>2, <1>3, <1>4, <1>5, <1>9, <2>1 DEF Snapping
<1> QED
  BY <1>1, <1>3, <1>4, <1>5, <1>6, <1>7, <1>8, <1>9, <1>10, SnapshotStays DEF Snapping

LEMMA SnapshotUnregisterInv ==
  ASSUME Inv, NEW p \in Proc, SnapshotUnregister(p)
  PROVE  Inv'
<1>1. PICK c \in SnapshotCall : c = call[p]
  BY CallKind DEF Inv, SnapshotUnregister, At
<1>2. PICK pc \in SnapshotStep : Goto(p, pc) /\ pc = "rename"
  BY DEF SnapshotUnregister, SnapshotStep
<1>3. PICK n \in SnapshotCall :
        /\ call' = [call EXCEPT ![p] = n] /\ call'[p] = n
        /\ call' \in [Proc -> Call] /\ n \in Call
        /\ n.d = c.d /\ n.s = c.s /\ n.di = c.di /\ n.pc = pc
        /\ Locks(n) = Locks(c) /\ Target(n) = Target(c)
  <2>1. Goto(p, pc)
    BY <1>2
  <2> QED
    BY <1>1, <2>1, SnapshotGoes
<1>4. c.pc = "unregister" /\ c.d \in Dir /\ c.s \in Dir /\ Snapping(c)
  BY <1>1, SnapshotCallIs DEF SnapshotUnregister, At, Inv, Working
<1>5. UNCHANGED <<dd, tmp, layout, files, lock, next, writes, want>>
  BY DEF SnapshotUnregister
<1>7. kids' \in [Dir -> SUBSET Dir]
      /\ \A y \in Dir : kids'[y] = IF y = c.di.parent THEN kids[y] \ {c.s} ELSE kids[y]
  BY <1>1, <1>4 DEF SnapshotUnregister, Inv, Types
<1>8. Types' /\ \A x \in Dir \ {c.d, c.s} : Same(x)
  BY <1>3, <1>5, <1>7 DEF Inv, Types, Same
<1>9. (\A x \in Dir : Made(x)' <=> Made(x)) /\ \A x, y : Continues(x, y)' <=> Continues(x, y)
  BY <1>5 DEF Made, Continues
<1>10. Snapping(n)'
  <2>1. LinkedBy(c.d, {c.di.parent})' /\ LinkedBy(c.s, {c.d})'
    BY <1>4, <1>7 DEF Snapping, LinkedBy
  <2> QED
    BY <1>2, <1>3, <1>4, <1>5, <1>9, <2>1 DEF Snapping
<1>11. \A x \in Dir : kids'[x] # kids[x] => x \in layout
  BY <1>7 DEF Inv, Dirs
<1> QED
  BY <1>1, <1>3, <1>4, <1>5, <1>8, <1>9, <1>10, <1>11, SnapshotStays DEF Snapping

LEMMA SnapshotRenameInv ==
  ASSUME Inv, NEW p \in Proc, SnapshotRename(p)
  PROVE  Inv'
<1>1. PICK c \in SnapshotCall : c = call[p]
  BY CallKind DEF Inv, SnapshotRename, At
<1>2. c.pc = "rename" /\ c.d \in Dir /\ c.s \in Dir /\ Snapping(c)
  BY <1>1, SnapshotCallIs DEF SnapshotRename, At, Inv, Working
<1>3. Types /\ Dirs /\ Parents
  BY DEF Inv
<1>4. UNCHANGED <<layout, kids, files, next, writes>> /\ Return(p)
  BY DEF SnapshotRename
<1>5. /\ dd' \in [Dir -> Descriptor \cup {None}] /\ tmp' \in [Dir -> Descriptor \cup {None}]
      /\ \A x \in Dir \ {c.s} : dd'[x] = dd[x] /\ tmp'[x] = tmp[x]
      /\ dd'[c.s] # None /\ dd'[c.s].parent = c.d
  <2>1. dd' = [dd EXCEPT ![c.s] = tmp[c.s]] /\ tmp' = [tmp EXCEPT ![c.s] = None]
    BY <1>1 DEF SnapshotRename
  <2>2. tmp[c.s] \in Descriptor \cup {None}
    BY <1>2, <1>3 DEF Types
  <2>3. tmp[c.s] # None /\ tmp[c.s].parent = c.d
    BY <1>2 DEF Snapping
  <2> QED
    BY <1>2, <1>3, <2>1, <2>2, <2>3 DEF Types
<1>6. /\ want' \in [Dir -> (SUBSET Written) \cup {None}]
      /\ \A x \in Dir : x # c.d => want'[x] = want[x]
      /\ want'[c.d] # None
  <2>1. Before(c.s, c.di) \in SUBSET Written /\ Before(c.s, c.di) # None
    BY <1>2, BeforeTyped DEF Snapping
  <2>2. want' = [want EXCEPT ![c.d] = Before(c.s, c.di)]
    BY <1>1 DEF SnapshotRename
  <2> QED
    BY <1>2, <1>3, <2>1, <2>2 DEF Types
<1>7. lock' \in [Dir -> Proc \cup {None}] /\ call' \in [Proc -> Call]
      /\ \A x \in Dir : lock'[x] # None => lock[x] # None
  BY <1>3, <1>4 DEF Types, Return, Call
<1>8. Types'
  BY <1>3, <1>4, <1>5, <1>6, <1>7 DEF Types
<1>9. Continues(c.d, c.di.parent) /\ Continues(c.s, c.di.parent) /\ Made(c.s) /\ ~ Made(c.d)
      /\ c.di.parent # c.d /\ c.d # c.s /\ c.d \in layout
      /\ LinkedBy(c.d, {c.di.parent}) /\ LinkedBy(c.s, {c.d})
  BY <1>2 DEF Snapping
<1>10. Dirs'
  <2> SUFFICES ASSUME NEW x \in Dir
               PROVE  /\ dd'[x] # None => x \in layout
                      /\ x \notin layout => kids[x] = {}
                      /\ want'[x] # None => dd'[x] # None
                      /\ lock'[x] # None => dd'[x] # None
    BY <1>4 DEF Dirs, Made
  <2>1. /\ dd[x] # None => x \in layout
        /\ x \notin layout => kids[x] = {}
        /\ want[x] # None => dd[x] # None
        /\ lock[x] # None => dd[x] # None
    BY <1>3 DEF Dirs, Made
  <2>2. CASE x = c.s
    BY <1>5, <1>9, <2>1, <2>2 DEF Continues
  <2>3. CASE x = c.d
    BY <1>5, <1>9, <2>1, <2>3 DEF Continues
  <2>4. CASE x # c.s /\ x # c.d
    BY <1>5, <1>6, <1>7, <2>1, <2>4
  <2> QED
    BY <2>2, <2>3, <2>4
<1>11. /\ Mine(p, c.d) /\ Mine(p, c.s) /\ lock[c.s] = p
       /\ \A x \in Dir : Mine(p, x) => x \in {c.s, c.d}
  BY <1>1, <1>2, SnapshotCallIs DEF Mine, Inv, Holding
<1>12. /\ \A y : Continues(c.s, y)' <=> y = c.d
       /\ \A x \in Dir : \A y : x # c.s => (Continues(x, y)' <=> Continues(x, y))
       /\ \A y : Continues(c.d, y) <=> y = c.di.parent
       /\ \A y : Continues(c.s, y) <=> y = c.di.parent
  BY <1>5, <1>9 DEF Continues
<1>13. /\ Made(c.d)' /\ \A x \in Dir : x # c.d => (Made(x)' <=> Made(x))
  BY <1>6 DEF Made
<1>14. \A y \in Dir : y # c.d /\ y # c.di.parent => Kids(y)' \subseteq Kids(y)
  BY <1>2, <1>12, <1>13 DEF Kids
<1>15. c.di.parent \in Dir => /\ c.s \in Kids(c.di.parent)
                              /\ Kids(c.di.parent)' \subseteq (Kids(c.di.parent) \ {c.s}) \cup {c.d}
  BY <1>2, <1>9, <1>12, <1>13 DEF Kids
<1>16. \A y \in Dir : Offspring(p, y)
  BY <1>2, <1>11, <1>14, <1>15 DEF Offspring
<1>17. Parents'
  BY <1>2, <1>3, <1>9, <1>13, <1>14, <1>15 DEF Parents
<1>18. \A x \in Dir : Mine(p, x) => LinksOk(x)'
  <2>1. LinksOk(c.s)'
    BY <1>4, <1>9, <1>12 DEF LinksOk, LinkedBy
  <2>2. LinksOk(c.d)'
    BY <1>2, <1>4, <1>9, <1>12 DEF LinksOk, LinkedBy
  <2> QED
    BY <1>11, <2>1, <2>2
<1>19. \A x \in Dir : Mine(p, x) \/ lock'[x] # lock[x] \/ Same(x)
  <2> SUFFICES ASSUME NEW x \in Dir, ~ Mine(p, x), lock'[x] = lock[x] PROVE Same(x)
    OBVIOUS
  <2>1. x # c.s /\ x # c.d
    BY <1>11
  <2> QED
    BY <1>4, <1>5, <1>6, <2>1 DEF Same
<1> QED
  BY <1>4, <1>8, <1>10, <1>16, <1>17, <1>18, <1>19, Leaves

LEMMA SnapshotFailsInv ==
  ASSUME Inv, NEW p \in Proc, SnapshotFails(p), windows' = {}
  PROVE  Inv'
<1>1. PICK c \in SnapshotCall : c = call[p]
  BY CallKind DEF Inv, SnapshotFails, At
<1>2. PICK pc \in SnapshotStep :
        /\ Goto(p, pc)
        /\ \/ pc = "unlink" /\ c.pc \in {"link", "snapshot"}
           \/ pc = "undo" /\ c.pc \in {"snap dd", "child dd", "register", "unregister", "rename"}
  BY <1>1 DEF SnapshotFails, SnapshotStep, At
<1>3. PICK n \in SnapshotCall :
        /\ call' = [call EXCEPT ![p] = n] /\ call'[p] = n
        /\ call' \in [Proc -> Call] /\ n \in Call
        /\ n.d = c.d /\ n.s = c.s /\ n.di = c.di /\ n.pc = pc
        /\ Locks(n) = Locks(c) /\ Target(n) = Target(c)
  <2>1. Goto(p, pc)
    BY <1>2
  <2> QED
    BY <1>1, <2>1, SnapshotGoes
<1>4. c.d \in Dir /\ c.s \in Dir /\ Snapping(c)
  BY <1>1, SnapshotCallIs DEF Inv, Working
<1>5. UNCHANGED <<dd, tmp, layout, kids, files, lock, next, writes, want>>
  BY DEF SnapshotFails, disk
<1>6. c.pc # "unregister" /\ (c.pc = "rename" => c.di.parent = NoDir)
  <2> DEFINE cond == c.pc = "unregister" \/ (c.pc = "rename" /\ c.di.parent # NoDir)
  <2>1. windows' = windows \cup When(cond, "links")
    BY <1>1 DEF SnapshotFails
  <2> HIDE DEF cond
  <2>2. When(cond, "links") = {}
    BY <2>1
  <2>3. ~ cond
    BY <2>2, NotWhen
  <2> QED
    BY <2>3 DEF cond
<1>7. Types' /\ \A x \in Dir \ {c.d, c.s} : Same(x)
  BY <1>3, <1>5 DEF Inv, Types, Same
<1>8. /\ \A x \in Dir : Made(x)' <=> Made(x)
      /\ \A x, y : Continues(x, y)' <=> Continues(x, y)
      /\ \A x, Y : LinkedBy(x, Y)' <=> LinkedBy(x, Y)
  BY <1>5 DEF Made, Continues, LinkedBy
<1>9. Snapping(n)'
  <2>1. CASE pc = "unlink"
    <3>1. LinkedBy(c.d, {})
      BY <1>2, <1>4, <2>1 DEF Snapping
    <3>2. LinkedBy(c.s, {c.di.parent}) \/ LinkedBy(c.s, {c.d, c.di.parent})
      BY <1>2, <1>4, <2>1 DEF Snapping
    <3> QED
      BY <1>3, <1>4, <1>5, <1>8, <2>1, <3>1, <3>2 DEF Snapping
  <2>2. CASE pc = "undo"
    <3>1. LinkedBy(c.d, {}) /\ LinkedBy(c.s, {c.d, c.di.parent})
      <4>1. CASE c.pc = "rename"
        <5>1. c.di.parent \notin Dir
          BY <1>6, <4>1, VolumeAssumption
        <5>2. LinkedBy(c.d, {c.di.parent}) /\ LinkedBy(c.s, {c.d})
          BY <1>4, <4>1 DEF Snapping
        <5> QED
          BY <5>1, <5>2 DEF LinkedBy
      <4>2. CASE c.pc # "rename"
        BY <1>2, <1>4, <1>6, <2>2, <4>2 DEF Snapping
      <4> QED
        BY <4>1, <4>2
    <3> QED
      BY <1>3, <1>4, <1>5, <1>8, <2>2, <3>1 DEF Snapping
  <2> QED
    BY <1>2, <2>1, <2>2
<1>10. Continues(c.s, c.di.parent)' /\ \A x \in Dir : kids'[x] # kids[x] => x \in layout
  BY <1>4, <1>5, <1>8 DEF Snapping
<1> QED
  BY <1>1, <1>3, <1>5, <1>7, <1>8, <1>9, <1>10, SnapshotStays

-----------------------------------------------------------------------------
(* The way out of clone and snapshot.                                       *)

LEMMA UndoTyped ==
  ASSUME Inv, NEW p \in Proc, NEW c \in CloneCall \cup SnapshotCall, c = call[p],
         Continues(c.s, c.di.parent), Undo(p)
  PROVE  /\ dd' \in [Dir -> Descriptor \cup {None}]
         /\ \A x \in Dir \ {c.s} : dd'[x] = dd[x]
         /\ dd'[c.s] # None /\ dd'[c.s].parent = c.di.parent
         /\ \A f \in DOMAIN files' : files'[f] \subseteq Written
<1> DEFINE ok == DeleteAllowed(c.di, c.g, c.s \in mounted)
           r == ploop_store_diskdescriptor(DeletedDd(c.di, c.g))
<1>1. c.di \in Descriptor /\ c.s \in Dir /\ Types
      /\ dd \in [Dir -> Descriptor \cup {None}]
  BY CloneCallIs, SnapshotCallIs DEF Inv, Types
<1>2. /\ dd' = IF ok THEN [dd EXCEPT ![c.s] = r] ELSE dd
      /\ files' = IF ok THEN DeletedFiles(c.di, c.g) ELSE files
  BY DEF Undo
<1>3. CASE ok
  <2>1. Has(c.di, c.g)
    BY <1>3 DEF DeleteAllowed
  <2>2. DeletedDd(c.di, c.g) \in Descriptor /\ DeletedDd(c.di, c.g).parent = c.di.parent
    BY <1>1, <2>1, DeletedTyped
  <2>3. r \in Descriptor /\ r.parent = c.di.parent /\ r # None
    BY <2>2, StoreTyped, NoneAssumption
  <2>4. \A f \in DOMAIN files' : files'[f] \subseteq Written
    BY <1>1, <1>2, <1>3, DeletedFilesTyped
  <2>5. dd' = [dd EXCEPT ![c.s] = r]
    BY <1>2, <1>3
  <2> HIDE DEF r
  <2> QED
    BY <1>1, <2>3, <2>4, <2>5
<1>4. CASE ~ ok
  BY <1>1, <1>2, <1>4 DEF Types, Continues
<1> QED
  BY <1>3, <1>4

LEMMA UndoCloneInv ==
  ASSUME Inv, NEW p \in Proc, call[p].op = "clone", Undo(p)
  PROVE  Inv'
<1>1. PICK c \in CloneCall : c = call[p]
  BY CallKind DEF Inv
<1>2. PICK pc \in {"destroy"} : Goto(p, pc)
  BY DEF Undo
<1>3. PICK n \in CloneCall :
        /\ call' = [call EXCEPT ![p] = n] /\ call'[p] = n
        /\ call' \in [Proc -> Call] /\ n \in Call
        /\ n.d = c.d /\ n.s = c.s /\ n.di = c.di /\ n.pc \in {"destroy"}
        /\ Locks(n) = Locks(c) /\ Target(n) = Target(c)
  BY <1>1, <1>2, CloneGoes
<1>4. c.d \in Dir /\ c.s \in Dir /\ Cloning(c) /\ Mine(p, c.s)
  BY <1>1, CloneCallIs DEF Inv, Working, Mine
<1>5. /\ dd' \in [Dir -> Descriptor \cup {None}]
      /\ \A x \in Dir \ {c.s} : dd'[x] = dd[x]
      /\ dd'[c.s] # None /\ dd'[c.s].parent = c.di.parent
      /\ \A f \in DOMAIN files' : files'[f] \subseteq Written
  BY <1>1, <1>4, UndoTyped DEF Cloning
<1>6. UNCHANGED <<tmp, layout, kids, lock, next, writes, want>>
  BY DEF Undo
<1>7. \A x \in Dir \ {c.s} : Same(x)
  BY <1>5, <1>6 DEF Same
<1>8. Types'
  BY <1>3, <1>5, <1>6 DEF Inv, Types
<1>9. \A x \in Dir : \A y : Continues(x, y)' <=> Continues(x, y)
  BY <1>4, <1>5 DEF Continues, Cloning
<1>10. Dirs' /\ Quiet
  BY <1>4, <1>5, <1>6, <1>9 DEF Inv, Dirs, Quiet, Made, Cloning, Continues
<1>11. Cloning(n)'
  BY <1>3, <1>4, <1>6, <1>9 DEF Cloning, LinkedBy, LinksOk, Made
<1>12. Working(p)' /\ Childless(p)'
  BY <1>3, <1>11, CloneCallIs DEF Working, Childless
<1> QED
  BY <1>1, <1>3, <1>4, <1>6, <1>7, <1>8, <1>10, <1>12, QuietKids, Stays

LEMMA UndoSnapshotInv ==
  ASSUME Inv, NEW p \in Proc, call[p].op = "snapshot", Undo(p)
  PROVE  Inv'
<1>1. PICK c \in SnapshotCall : c = call[p]
  BY CallKind DEF Inv
<1>2. PICK pc \in SnapshotStep : Goto(p, pc) /\ pc = "unlink"
  BY DEF Undo, SnapshotStep
<1>3. PICK n \in SnapshotCall :
        /\ call' = [call EXCEPT ![p] = n] /\ call'[p] = n
        /\ call' \in [Proc -> Call] /\ n \in Call
        /\ n.d = c.d /\ n.s = c.s /\ n.di = c.di /\ n.pc = pc
        /\ Locks(n) = Locks(c) /\ Target(n) = Target(c)
  <2>1. Goto(p, pc)
    BY <1>2
  <2> QED
    BY <1>1, <2>1, SnapshotGoes
<1>4. c.pc = "undo" /\ c.d \in Dir /\ c.s \in Dir /\ Snapping(c)
  BY <1>1, SnapshotCallIs DEF Undo, Inv, Working
<1>5. /\ dd' \in [Dir -> Descriptor \cup {None}]
      /\ \A x \in Dir \ {c.s} : dd'[x] = dd[x]
      /\ dd'[c.s] # None /\ dd'[c.s].parent = c.di.parent
      /\ \A f \in DOMAIN files' : files'[f] \subseteq Written
  BY <1>1, <1>4, UndoTyped DEF Snapping
<1>6. UNCHANGED <<tmp, layout, kids, lock, next, writes, want>>
  BY DEF Undo
<1>7. \A x \in Dir \ {c.d, c.s} : Same(x)
  BY <1>5, <1>6 DEF Same
<1>8. Types'
  BY <1>3, <1>5, <1>6 DEF Inv, Types
<1>9. (\A x \in Dir : Made(x)' <=> Made(x))
      /\ \A x \in Dir : \A y : Continues(x, y)' <=> Continues(x, y)
  BY <1>4, <1>5, <1>6 DEF Continues, Snapping, Made
<1>10. Snapping(n)'
  BY <1>2, <1>3, <1>4, <1>6, <1>9 DEF Snapping, LinkedBy
<1> QED
  BY <1>1, <1>3, <1>4, <1>6, <1>7, <1>8, <1>9, <1>10, SnapshotStays DEF Snapping

LEMMA SnapshotUnlinkInv ==
  ASSUME Inv, NEW p \in Proc, SnapshotUnlink(p)
  PROVE  Inv'
<1>1. PICK c \in SnapshotCall : c = call[p]
  BY CallKind DEF Inv, SnapshotUnlink, At
<1>2. PICK pc \in SnapshotStep : Goto(p, pc) /\ pc = "destroy"
  BY DEF SnapshotUnlink, SnapshotStep
<1>3. PICK n \in SnapshotCall :
        /\ call' = [call EXCEPT ![p] = n] /\ call'[p] = n
        /\ call' \in [Proc -> Call] /\ n \in Call
        /\ n.d = c.d /\ n.s = c.s /\ n.di = c.di /\ n.pc = pc
        /\ Locks(n) = Locks(c) /\ Target(n) = Target(c)
  <2>1. Goto(p, pc)
    BY <1>2
  <2> QED
    BY <1>1, <2>1, SnapshotGoes
<1>4. c.pc = "unlink" /\ c.d \in Dir /\ c.s \in Dir /\ Snapping(c)
  BY <1>1, SnapshotCallIs DEF SnapshotUnlink, At, Inv, Working
<1>5. UNCHANGED <<dd, tmp, layout, files, lock, next, writes, want>>
  BY DEF SnapshotUnlink
<1>6. kids' \in [Dir -> SUBSET Dir]
      /\ \A y \in Dir : kids'[y] = IF y = c.d THEN kids[y] \ {c.s} ELSE kids[y]
  BY <1>1, <1>4 DEF SnapshotUnlink, Inv, Types
<1>7. Types' /\ \A x \in Dir \ {c.d, c.s} : Same(x)
  BY <1>3, <1>5, <1>6 DEF Inv, Types, Same
<1>8. (\A x \in Dir : Made(x)' <=> Made(x)) /\ \A x, y : Continues(x, y)' <=> Continues(x, y)
  BY <1>5 DEF Made, Continues
<1>9. Snapping(n)'
  <2>1. LinkedBy(c.d, {})' /\ LinkedBy(c.s, {c.di.parent})'
    BY <1>4, <1>6 DEF Snapping, LinkedBy
  <2> QED
    BY <1>2, <1>3, <1>4, <1>5, <1>8, <2>1 DEF Snapping
<1>10. \A x \in Dir : kids'[x] # kids[x] => x \in layout
  BY <1>4, <1>6 DEF Snapping
<1> QED
  BY <1>1, <1>3, <1>4, <1>5, <1>7, <1>8, <1>9, <1>10, SnapshotStays DEF Snapping

\* What destroy_layout leaves.
LEMMA DestroyedTyped ==
  ASSUME Types, NEW d \in Dir, Destroyed(d)
  PROVE  /\ dd' \in [Dir -> Descriptor \cup {None}] /\ tmp' \in [Dir -> Descriptor \cup {None}]
         /\ dd'[d] = None /\ tmp'[d] = None
         /\ \A x \in Dir \ {d} : dd'[x] = dd[x] /\ tmp'[x] = tmp[x] /\ (x \in layout' <=> x \in layout)
         /\ layout' \subseteq Dir /\ (d \in layout /\ d \notin layout' => kids[d] = {})
         /\ kids' = kids
         /\ \A f \in DOMAIN files' : files'[f] \subseteq Written
<1>1. \A f \in DOMAIN files' : files'[f] \subseteq Written
  BY DropTyped DEF Destroyed
<1> QED
  BY <1>1 DEF Destroyed, Types

LEMMA UndoDestroyInv ==
  ASSUME Inv, NEW p \in Proc, UndoDestroy(p)
  PROVE  Inv'
<1>1. PICK c \in CloneCall \cup SnapshotCall : c = call[p]
  BY CallKind DEF Inv, UndoDestroy
<1>2. /\ c.d \in Dir /\ c.s \in Dir /\ c.d # c.s /\ ~ Made(c.d) /\ LinkedBy(c.d, {})
      /\ c.d \in layout /\ Made(c.s)
      /\ LinksOk(c.s)
  <2>1. CASE c \in CloneCall
    BY <1>1, <2>1, CloneCallIs DEF Inv, Working, Cloning
  <2>2. CASE c \in SnapshotCall
    <3>1. c.pc = "destroy" /\ Snapping(c) /\ c.d \in Dir /\ c.s \in Dir
      BY <1>1, <2>2, SnapshotCallIs DEF UndoDestroy, Inv, Working
    <3>2. LinkedBy(c.s, {c.di.parent}) /\ Continues(c.s, c.di.parent)
      BY <3>1 DEF Snapping
    <3>3. LinksOk(c.s)
      BY <3>2 DEF LinksOk, LinkedBy, Continues
    <3> QED
      BY <3>1, <3>3 DEF Snapping
  <2> QED
    BY <2>1, <2>2
<1>3. Types /\ Dirs /\ Parents
  BY DEF Inv
<1>4. /\ dd' \in [Dir -> Descriptor \cup {None}] /\ tmp' \in [Dir -> Descriptor \cup {None}]
      /\ dd'[c.d] = None
      /\ \A x \in Dir \ {c.d} : dd'[x] = dd[x] /\ tmp'[x] = tmp[x] /\ (x \in layout' <=> x \in layout)
      /\ layout' \subseteq Dir /\ (c.d \in layout /\ c.d \notin layout' => kids[c.d] = {})
      /\ kids' = kids
      /\ \A f \in DOMAIN files' : files'[f] \subseteq Written
  BY <1>1, <1>2, <1>3, DestroyedTyped DEF UndoDestroy
<1>5. UNCHANGED <<next, writes, want>> /\ Return(p)
  BY DEF UndoDestroy
<1>6. lock' \in [Dir -> Proc \cup {None}] /\ call' \in [Proc -> Call]
      /\ \A x \in Dir : lock'[x] # None => lock[x] # None
  BY <1>3, <1>5 DEF Types, Return, Call
<1>7. Types'
  BY <1>3, <1>4, <1>5, <1>6 DEF Types
<1>8. /\ Mine(p, c.d) /\ Mine(p, c.s) /\ lock[c.d] = None
      /\ \A x \in Dir : Mine(p, x) => x \in {c.s, c.d}
  <2>1. Locks(call[p]) = {c.s} /\ Target(call[p]) = {c.d}
    BY <1>1, CloneCallIs, SnapshotCallIs
  <2> QED
    BY <1>2, <2>1 DEF Mine, Inv, Targets
<1>9. Dirs'
  <2> SUFFICES ASSUME NEW x \in Dir
               PROVE  /\ dd'[x] # None => x \in layout'
                      /\ x \notin layout' => kids[x] = {}
                      /\ want[x] # None => dd'[x] # None
                      /\ lock'[x] # None => dd'[x] # None
    BY <1>4, <1>5 DEF Dirs, Made
  <2>1. /\ dd[x] # None => x \in layout
        /\ x \notin layout => kids[x] = {}
        /\ want[x] # None => dd[x] # None
        /\ lock[x] # None => dd[x] # None
    BY <1>3 DEF Dirs, Made
  <2>2. CASE x = c.d
    BY <1>2, <1>4, <1>6, <1>8, <2>1, <2>2 DEF Made
  <2>3. CASE x # c.d
    BY <1>4, <1>6, <2>1, <2>3
  <2> QED
    BY <2>2, <2>3
<1>10. Quiet
  BY <1>2, <1>4, <1>5 DEF Quiet, Made, Continues
<1>11. \A x \in Dir : Mine(p, x) => LinksOk(x)'
  <2>1. LinksOk(c.d)'
    BY <1>2, <1>4 DEF LinksOk, LinkedBy, Continues
  <2>2. LinksOk(c.s)'
    BY <1>2, <1>4 DEF LinksOk, Continues
  <2> QED
    BY <1>8, <2>1, <2>2
<1>12. \A x \in Dir : Mine(p, x) \/ lock'[x] # lock[x] \/ Same(x)
  BY <1>4, <1>5, <1>8 DEF Same
<1> QED
  BY <1>5, <1>7, <1>9, <1>10, <1>11, <1>12, QuietKids, Leaves

-----------------------------------------------------------------------------
(* A new volume, and what the remaining operations have in common.          *)

LEMMA VolumeCreateInv ==
  ASSUME Inv, NEW p \in Proc, NEW d \in Dir, ploop_volume_create(p, d),
         windows = {}, windows' = {}
  PROVE  Inv'
<1>0. Types /\ Dirs /\ Free /\ Parents /\ p # None /\ NoDir \notin Dir
  BY NoneAssumption, VolumeAssumption DEF Inv
<1>1. /\ call[p] = Idle /\ call' = [call EXCEPT ![p] = Idle] /\ When(d \in layout, "existing") = {}
      /\ Locks(call[p]) = {} /\ Target(call[p]) = {}
  BY Begins DEF ploop_volume_create
<1>2. d \notin layout /\ dd[d] = None /\ kids[d] = {} /\ ~ Made(d) /\ lock[d] = None
  BY <1>0, <1>1, NotWhen DEF Dirs
<1> DEFINE own == {[guid |-> TOPDELTA_UUID, parent |-> NONE_UUID, file |-> next]}
           r == [own |-> own, far |-> {}, top |-> TOPDELTA_UUID, parent |-> NoDir,
                 snap |-> NONE_UUID, ro |-> FALSE]
<1>3. /\ NewFile(next, IF Inside THEN d ELSE NoDir)
      /\ dd' = [dd EXCEPT ![d] = r]
      /\ layout' = layout \cup {d}
      /\ next' = next + 1
      /\ want' = [want EXCEPT ![d] = {}]
      /\ UNCHANGED <<tmp, kids, lock, writes>>
  BY <1>2 DEF ploop_volume_create
<1>4. own \in SUBSET Image
  BY <1>0 DEF Types, Image, TOPDELTA_UUID, NONE_UUID
<1>5. r \in Descriptor /\ r.parent = NoDir
  <2> HIDE DEF own
  <2> QED
    BY <1>4 DEF Descriptor, TOPDELTA_UUID, NONE_UUID
<1>6. r # None /\ {} # None /\ {} \in SUBSET Written
  BY <1>5, NoneAssumption
<1> HIDE DEF r
<1>7. /\ dd' \in [Dir -> Descriptor \cup {None}]
      /\ \A x \in Dir \ {d} : dd'[x] = dd[x]
      /\ dd'[d] # None /\ dd'[d].parent = NoDir
  BY <1>0, <1>3, <1>5, <1>6 DEF Types
<1>8. /\ want' \in [Dir -> (SUBSET Written) \cup {None}]
      /\ \A x \in Dir \ {d} : want'[x] = want[x]
      /\ want'[d] # None
  BY <1>0, <1>3, <1>6 DEF Types
<1>9. (\A f \in DOMAIN files' : files'[f] \subseteq Written) /\ next' \in Nat
  BY <1>0, <1>3, NewFileTyped DEF Types
<1>10. call' = call
  BY <1>0, <1>1 DEF Types
<1>11. Types'
  BY <1>0, <1>3, <1>7, <1>8, <1>9, <1>10 DEF Types
<1>12. \A x \in Dir : x # d => Same(x)
  BY <1>3, <1>7, <1>8 DEF Same
<1>13. \A q \in Proc : d \notin Target(call[q])
  <2> SUFFICES ASSUME NEW q \in Proc, d \in Target(call[q]) PROVE FALSE
    OBVIOUS
  <2>1. d \in layout
    BY CloneCallIs, SnapshotCallIs DEF Inv, Working, Cloning, Snapping, Target
  <2> QED
    BY <1>2, <2>1
<1>14. Spare(d) /\ LinksOk(d)
  BY <1>0, <1>2, <1>13 DEF Spare, Free
<1>15. LinksOk(d)'
  BY <1>0, <1>2, <1>3, <1>7, <1>14 DEF LinksOk, Continues
<1>16. Dirs'
  BY <1>0, <1>2, <1>3, <1>7, <1>8 DEF Dirs, Made
<1>17. \A y \in Dir : Kids(y)' = Kids(y)
  BY <1>0, <1>2, <1>7, <1>8 DEF Kids, Made, Continues
<1>18. Parents'
  BY <1>0, <1>8, <1>17 DEF Parents, Made
<1>19. Working(p)' /\ Childless(p)'
  BY <1>1, <1>10, IdleIs DEF Working, Childless
<1>20. \A x \in Dir : lock'[x] = p <=> x \in Locks(call'[p])
  BY <1>3, <1>10 DEF Inv, Holding
<1>21. \A y \in Dir : Offspring(p, y)
  BY <1>17 DEF Offspring
<1>22. \A x \in Dir : ~ Mine(p, x)
  BY <1>1 DEF Mine
<1>23. \A x \in Dir : (~ Same(x)) => LinksOk(x)'
  BY <1>12, <1>15
<1>24. \A x \in Dir : Spare(x) \/ Same(x)
  BY <1>12, <1>14
<1>25. Target(call'[p]) = {} /\ (\A x \in Dir : lock'[x] = lock[x])
       /\ \A q \in Proc \ {p} : call'[q] = call[q]
  BY <1>1, <1>3, <1>10
<1> QED
  BY <1>11, <1>16, <1>18, <1>19, <1>20, <1>21, <1>22, <1>23, <1>24, <1>25, Step

\* A volume that no call has locked is linked by its parent and nobody else.
LEMMA MadeFree ==
  ASSUME Inv, NEW x \in Dir, Made(x), lock[x] = None
  PROVE  /\ Spare(x) /\ LinksOk(x) /\ dd[x] # None
         /\ Continues(x, dd[x].parent) /\ LinkedBy(x, {dd[x].parent})
<1>1. Spare(x)
  <2> SUFFICES ASSUME NEW q \in Proc, x \in Target(call[q]) PROVE FALSE
    BY DEF Spare
  <2>1. x \in Target(call[q]) => ~ Made(x)
    BY CloneCallIs, SnapshotCallIs DEF Inv, Working, Cloning, Snapping, Target
  <2> QED
    BY <2>1
<1>2. LinksOk(x) /\ dd[x] # None
  BY <1>1 DEF Inv, Free, Spare, Dirs
<1> QED
  BY <1>1, <1>2 DEF LinksOk, LinkedBy, Continues

\* Links and descriptor agree when the one link is that of the parent.
LEMMA LinkedOk ==
  ASSUME NEW x \in Dir, NEW y, Continues(x, y), LinkedBy(x, {y})
  PROVE  LinksOk(x)
BY DEF LinksOk, LinkedBy, Continues

\* The call ends without a change to descriptors and links.
LEMMA Quits ==
  ASSUME Inv, NEW p \in Proc, Return(p), UNCHANGED <<dd, tmp, layout, kids, want, next, writes>>,
         \A f \in DOMAIN files' : files'[f] \subseteq Written,
         \A x \in Dir : Mine(p, x) => LinksOk(x)
  PROVE  Inv'
<1>1. lock' \in [Dir -> Proc \cup {None}] /\ call' \in [Proc -> Call]
      /\ \A x \in Dir : lock'[x] # None => lock[x] # None
  BY DEF Inv, Types, Return, Call
<1>2. Types' /\ Dirs' /\ Quiet
  BY <1>1 DEF Inv, Types, Dirs, Quiet, Made, Continues
<1>3. \A x \in Dir : Mine(p, x) => LinksOk(x)'
  BY DEF LinksOk, Continues
<1>4. \A x \in Dir : Mine(p, x) \/ lock'[x] # lock[x] \/ Same(x)
  BY DEF Same
<1> QED
  BY <1>2, <1>3, <1>4, QuietKids, Leaves

\* The call changes links of what it has locked.
LEMMA Relinks ==
  ASSUME Inv, NEW p \in Proc, NEW n \in Call,
         call' = [call EXCEPT ![p] = n], lock' = lock,
         Locks(n) = Locks(call[p]), Target(n) = Target(call[p]),
         UNCHANGED <<dd, tmp, layout, files, want, next, writes>>,
         kids' \in [Dir -> SUBSET Dir],
         \A x \in Dir : Mine(p, x) \/ \A y \in Dir : x \in kids'[y] <=> x \in kids[y],
         \A y \in Dir : kids'[y] # {} => y \in layout,
         Working(p)', Childless(p)'
  PROVE  Inv'
<1>1. Types' /\ Dirs' /\ Quiet
  BY DEF Inv, Types, Dirs, Quiet, Made, Continues
<1>2. \A x \in Dir : Mine(p, x) \/ Same(x)
  BY DEF Same
<1> QED
  BY <1>1, <1>2, QuietKids, Stays

\* A volume that continues in one no merge or switch works on is linked there,
\* or its snapshot is that is about to take its place.
LEMMA ChildLinked ==
  ASSUME Inv, NEW d \in Dir,
         \A q \in Proc : lock[d] = q => call[q] \notin DeleteChild \cup SwitchCall,
         NEW x \in Kids(d)
  PROVE  x \in kids[d] \/ \E q \in Proc : /\ call[q] \in SnapshotCall
                                          /\ call[q].s = x /\ call[q].d \in kids[d]
                                          /\ ~ Made(call[q].d)
<1>0. x \in Dir /\ Made(x) /\ Continues(x, d)
  BY DEF Kids
<1>1. CASE lock[x] = None
  BY <1>0, <1>1, MadeFree DEF LinksOk
<1>2. CASE lock[x] # None
  <2>1. PICK q \in Proc : lock[x] = q
    BY <1>0, <1>2 DEF Inv, Types
  <2>2. PICK c \in Call : c = call[q]
    BY DEF Inv, Types
  <2>3. x \in Locks(c) /\ Working(q)
    BY <1>0, <2>1, <2>2 DEF Inv, Holding
  <2>4. \A y : Continues(x, y) => y = d
    BY <1>0 DEF Continues
  <2>5. c # Idle
    BY <2>3, IdleIs
  <2>6. CASE c \in CloneCall
    BY <1>0, <2>2, <2>3, <2>6, CloneCallIs DEF Working, Cloning, LinksOk
  <2>7. CASE c \in SnapshotCall
    <3>1. x = c.s /\ Snapping(c) /\ c.pc \in SnapshotStep /\ c.d \in Dir
      BY <2>2, <2>3, <2>7, SnapshotCallIs DEF Working
    <3>2. d = c.di.parent
      BY <2>4, <3>1 DEF Snapping
    <3>3. CASE c.pc = "rename"
      BY <2>2, <2>7, <3>1, <3>2, <3>3 DEF Snapping, LinkedBy
    <3>4. CASE c.pc # "rename"
      <4>1. LinkedBy(c.s, {c.di.parent}) \/ LinkedBy(c.s, {c.d, c.di.parent})
        BY <3>1, <3>4 DEF Snapping, SnapshotStep
      <4> QED
        BY <3>1, <3>2, <4>1 DEF LinkedBy
    <3> QED
      BY <3>3, <3>4
  <2>8. CASE c \in DeleteCall \cup DeleteChoice \cup DeleteChild
    <3>1. Deleting(c) /\ c.d \in Dir
      BY <2>2, <2>3, <2>8, DeleteCallIs, DeleteChoiceIs, DeleteChildIs DEF Working
    <3>2. CASE x = c.d
      <4>1. LinkedBy(x, {c.di.parent}) /\ Continues(x, c.di.parent)
        BY <1>0, <3>1, <3>2 DEF Deleting
      <4> QED
        BY <2>4, <4>1 DEF LinkedBy
    <3>3. CASE x = c.di.parent /\ x # c.d
      <4>1. c.pc # "parent" /\ c.di.parent # NoDir
        BY <1>0, <2>3, <2>8, <3>3, VolumeAssumption, DeleteCallIs, DeleteChoiceIs, DeleteChildIs
      <4>2. LinksOk(x)
        BY <3>1, <3>3, <4>1 DEF Deleting
      <4> QED
        BY <1>0, <4>2 DEF LinksOk
    <3>4. CASE x # c.d /\ x # c.di.parent
      <4>1. c \in DeleteChild /\ x = c.c
        BY <2>3, <2>8, <3>4, DeleteCallIs, DeleteChoiceIs, DeleteChildIs
      <4>2. DeletingChild(c) /\ c.d \in Dir
        BY <2>2, <2>3, <4>1, DeleteChildIs DEF Working
      <4>3. lock[d] # q
        BY <2>2, <4>1
      <4>4. d # c.d /\ d # c.di.parent
        BY <2>2, <4>1, <4>3, DeleteChildIs DEF Inv, Holding
      <4> QED
        BY <2>4, <4>1, <4>2, <4>4 DEF DeletingChild
    <3> QED
      BY <3>2, <3>3, <3>4
  <2>9. CASE c \in SwitchWait \cup SwitchCall
    <3>1. Switching(c) /\ c.d \in Dir
      BY <2>2, <2>3, <2>9, SwitchWaitIs, SwitchCallIs DEF Working
    <3>2. CASE x = c.d
      <4>1. c \in SwitchCall => lock[d] # q
        BY <2>2
      <4>2. c \in SwitchCall => d # c.s
        <5> SUFFICES ASSUME c \in SwitchCall, d = c.s PROVE FALSE
          OBVIOUS
        <5>1. d \in Locks(call[q])
          BY <2>2, SwitchCallIs
        <5>2. lock[d] = q
          BY <5>1 DEF Inv, Holding
        <5> QED
          BY <4>1, <5>2
      <4>3. c.pc \in {"lock", "volume"}
        <5>1. CASE c \in SwitchWait
          BY <5>1, SwitchWaitIs
        <5>2. CASE c \in SwitchCall
          BY <2>4, <3>1, <3>2, <4>2, <5>2, SwitchCallIs DEF Switching
        <5> QED
          BY <2>9, <5>1, <5>2
      <4>4. LinkedBy(x, {c.di.parent}) /\ Continues(x, c.di.parent)
        BY <3>1, <3>2, <4>3 DEF Switching
      <4> QED
        BY <2>4, <4>4 DEF LinkedBy
    <3>3. CASE x # c.d
      <4>1. c \in SwitchCall /\ x = c.s
        BY <2>3, <2>9, <3>3, SwitchWaitIs, SwitchCallIs
      <4>2. LinksOk(x)
        BY <3>1, <4>1, SwitchCallIs DEF Switching
      <4> QED
        BY <1>0, <4>2 DEF LinksOk
    <3> QED
      BY <3>2, <3>3
  <2> QED
    BY <2>5, <2>6, <2>7, <2>8, <2>9 DEF Call
<1> QED
  BY <1>1, <1>2

-----------------------------------------------------------------------------
(* Delete.                                                                  *)

LEMMA DeleteBeginInv ==
  ASSUME Inv, NEW p \in Proc, NEW d \in Dir, DeleteBegin(p, d), windows = {}, windows' = {}
  PROVE  Inv'
<1> DEFINE di == ploop_read_dd(d)
           pc == IF dd[d].parent # NoDir THEN "parent" ELSE "children"
           m == [op |-> "delete", pc |-> pc, d |-> d, di |-> di]
<1>1. Begin(p, m, {})
  BY DEF DeleteBegin
<1>2. call[p] = Idle /\ call' = [call EXCEPT ![p] = m]
      /\ Locks(call[p]) = {} /\ Target(call[p]) = {}
  BY <1>1, Begins
<1>3. di \in Descriptor /\ di.parent = dd[d].parent
  BY ReadTyped DEF Inv, DeleteBegin, Locked
<1>4. m \in DeleteCall /\ m.d = d /\ m.pc = pc /\ m.di = di
  <2>1. pc \in {"parent", "children", "images", "unregister", "destroy"}
    OBVIOUS
  <2> HIDE DEF di, pc
  <2> QED
    BY <1>3, <2>1 DEF DeleteCall
<1> HIDE DEF m, di
<1>5. PICK n \in DeleteCall : n = m
  BY <1>4
<1>6. n \in Call /\ n.d = d /\ n.pc = pc /\ n.di.parent = dd[d].parent
  BY <1>3, <1>4, <1>5 DEF Call
<1>7. Made(d) /\ lock[d] = None /\ lock' = [lock EXCEPT ![d] = p]
  BY KnownMade DEF DeleteBegin, Locked
<1>8. dd[d] # None /\ Continues(d, dd[d].parent) /\ LinkedBy(d, {dd[d].parent})
  BY <1>7, MadeFree
<1>9. NoDir \notin Dir
  BY VolumeAssumption
<1>10. Target(n) = {} /\ \A x \in Dir : x \in Locks(n) <=> x \in Locks(call[p]) \cup {d}
  BY <1>2, <1>6, <1>9, DeleteCallIs
<1>11. UNCHANGED <<dd, tmp, layout, kids, files, place, next, writes, want>>
  BY DEF DeleteBegin, disk
<1>12. call'[p] = n /\ call' \in [Proc -> Call]
  BY <1>2, <1>5, <1>6 DEF Inv, Types
<1>13. Types'
  <2>1. lock' \in [Dir -> Proc \cup {None}]
    BY <1>7 DEF Inv, Types
  <2> QED
    BY <1>11, <1>12, <2>1 DEF Inv, Types
<1>14. Deleting(n)'
  BY <1>6, <1>7, <1>8, <1>9, <1>11 DEF Deleting, Made, Continues, LinkedBy
<1>15. Working(p)'
  BY <1>12, <1>14, DeleteCallIs DEF Working
<1>16. Childless(p)'
  BY <1>6, <1>12, DeleteCallIs DEF Childless
<1> QED
  BY <1>2, <1>5, <1>6, <1>7, <1>10, <1>11, <1>13, <1>15, <1>16, Takes

LEMMA DeleteParentInv ==
  ASSUME Inv, NEW p \in Proc, DeleteParent(p)
  PROVE  Inv'
<1>1. PICK c \in DeleteCall : c = call[p]
  BY CallKind, DeleteChoiceIs, DeleteChildIs DEF Inv, DeleteParent, At
<1>2. c.pc = "parent" /\ c.d \in Dir /\ Deleting(c) /\ c.di \in Descriptor
  BY <1>1, DeleteCallIs DEF DeleteParent, At, Inv, Working
<1> DEFINE par == c.di.parent
<1>3. par \in Dir /\ Made(c.d) /\ Continues(c.d, par) /\ LinkedBy(c.d, {par})
  BY <1>2, ParentIs DEF Deleting
<1>4. Locks(c) = {c.d} /\ Target(c) = {} /\ lock[c.d] = p
  <2>1. Locks(c) = {c.d} /\ Target(c) = {}
    BY <1>2, DeleteCallIs
  <2> QED
    BY <1>1, <1>2, <2>1 DEF Inv, Holding
<1>5. UNCHANGED <<dd, tmp, layout, kids, files, next, writes, want>>
  BY DEF DeleteParent, disk
<1>6. CASE Locked(p, par) /\ Goto(p, "children")
  <2>1. PICK pc \in {"parent", "children", "images", "unregister", "destroy"} :
          Goto(p, pc) /\ pc = "children"
    BY <1>6
  <2>2. PICK n \in DeleteCall :
          /\ call' = [call EXCEPT ![p] = n] /\ call'[p] = n
          /\ call' \in [Proc -> Call] /\ n \in Call
          /\ n.d = c.d /\ n.di = c.di /\ n.pc = pc /\ Target(n) = Target(c)
    <3>1. Goto(p, pc)
      BY <2>1
    <3> QED
      BY <1>1, <3>1, DeleteGoes
  <2>3. Made(par) /\ lock[par] = None /\ lock' = [lock EXCEPT ![par] = p] /\ par # c.d
    <3>1. c.d \in Kids(par)
      BY <1>2, <1>3 DEF Kids
    <3>2. Made(par)
      BY <1>3, <3>1 DEF Inv, Parents
    <3> QED
      BY <1>4, <1>6, <3>2, NoneAssumption DEF Locked
  <2>4. LinksOk(par)
    BY <1>3, <2>3, MadeFree
  <2>5. \A x \in Dir : x \in Locks(n) <=> x \in Locks(call[p]) \cup {par}
    BY <1>1, <1>4, <2>1, <2>2, DeleteCallIs
  <2>6. Types'
    <3>1. lock' \in [Dir -> Proc \cup {None}]
      BY <1>3, <2>3 DEF Inv, Types
    <3> QED
      BY <1>5, <2>2, <3>1 DEF Inv, Types
  <2>7. Deleting(n)'
    BY <1>2, <1>3, <1>5, <2>1, <2>2, <2>3, <2>4 DEF Deleting, Made, Continues, LinkedBy, LinksOk
  <2>8. Working(p)' /\ Childless(p)'
    BY <2>1, <2>2, <2>7, DeleteCallIs DEF Working, Childless
  <2> QED
    BY <1>1, <1>3, <1>4, <1>5, <2>2, <2>3, <2>5, <2>6, <2>8, Takes
<1>7. CASE Return(p)
  <2>1. \A x \in Dir : Mine(p, x) => LinksOk(x)
    BY <1>1, <1>2, <1>3, <1>4, LinkedOk DEF Mine
  <2>2. \A f \in DOMAIN files' : files'[f] \subseteq Written
    BY <1>5 DEF Inv, Types
  <2> QED
    BY <1>5, <1>7, <2>1, <2>2, Quits
<1> QED
  BY <1>1, <1>6, <1>7 DEF DeleteParent

\* What a call that deletes has locked agrees with the links, up to the merge.
LEMMA DeletingOk ==
  ASSUME Inv, NEW p \in Proc, call[p] \in DeleteCall \cup DeleteChoice,
         call[p].pc \in {"children", "images", "lock child"}
  PROVE  \A x \in Dir : Mine(p, x) => LinksOk(x)
<1> DEFINE c == call[p]
<1>1. c.d \in Dir /\ Deleting(c) /\ Locks(c) = {c.d, c.di.parent} /\ Target(c) = {}
  BY DeleteCallIs, DeleteChoiceIs DEF Inv, Working
<1>2. LinksOk(c.d)
  <2>1. Continues(c.d, c.di.parent) /\ LinkedBy(c.d, {c.di.parent})
    BY <1>1 DEF Deleting
  <2> QED
    BY <1>1, <2>1, LinkedOk
<1>3. c.di.parent \in Dir => LinksOk(c.di.parent)
  BY <1>1, VolumeAssumption DEF Deleting
<1> QED
  BY <1>1, <1>2, <1>3 DEF Mine

LEMMA SiblingInv ==
  ASSUME Inv, NEW p \in Proc, get_first_sibling(p)
  PROVE  Inv'
<1>1. PICK c \in DeleteCall : c = call[p]
  BY CallKind, DeleteChoiceIs, DeleteChildIs DEF Inv, get_first_sibling, At
<1>2. c.pc = "children" /\ c.d \in Dir /\ Deleting(c) /\ c.di \in Descriptor
      /\ Locks(c) = {c.d, c.di.parent} /\ Target(c) = {}
  BY <1>1, DeleteCallIs DEF get_first_sibling, At, Inv, Working
<1>3. UNCHANGED <<dd, tmp, layout, kids, files, next, writes, want>>
  BY DEF get_first_sibling, disk
<1>4. \A q \in Proc : lock[c.d] = q => call[q] \notin DeleteChild \cup SwitchCall
  <2>1. lock[c.d] = p
    BY <1>1, <1>2 DEF Inv, Holding
  <2> QED
    BY <1>1, <2>1, DeleteCallIs
<1>5. \A x \in Kids(c.d) : x \in kids[c.d] \/ \E q \in Proc : /\ call[q] \in SnapshotCall
                                        /\ call[q].s = x /\ call[q].d \in kids[c.d]
                                        /\ ~ Made(call[q].d)
  BY <1>2, <1>4, ChildLinked
<1>6. CASE kids[c.d] = {} /\ Goto(p, "images") /\ UNCHANGED lock
  <2>1. PICK pc \in {"parent", "children", "images", "unregister", "destroy"} :
          Goto(p, pc) /\ pc = "images"
    BY <1>6
  <2>2. PICK n \in DeleteCall :
          /\ call' = [call EXCEPT ![p] = n] /\ call'[p] = n
          /\ call' \in [Proc -> Call] /\ n \in Call
          /\ n.d = c.d /\ n.di = c.di /\ n.pc = pc
          /\ Target(n) = Target(c) /\ (c.pc # "parent" /\ pc # "parent" => Locks(n) = Locks(c))
    <3>1. Goto(p, pc)
      BY <2>1
    <3> QED
      BY <1>1, <3>1, DeleteGoes
  <2>3. Locks(n) = Locks(c)
    BY <1>2, <2>1, <2>2
  <2>4. Kids(c.d) = {}
    BY <1>5, <1>6
  <2>5. Kids(c.d)' = {}
    BY <1>3, <2>4 DEF Kids, Made, Continues
  <2>6. Deleting(n)'
    BY <1>2, <1>3, <2>1, <2>2 DEF Deleting, Made, Continues, LinkedBy, LinksOk
  <2>7. Working(p)' /\ Childless(p)'
    BY <2>1, <2>2, <2>5, <2>6, DeleteCallIs DEF Working, Childless
  <2>8. (kids' \in [Dir -> SUBSET Dir]) /\ \A y \in Dir : kids'[y] # {} => y \in layout
    BY <1>3 DEF Inv, Types, Dirs
  <2> QED
    BY <1>1, <1>3, <1>6, <2>2, <2>3, <2>7, <2>8, Relinks
<1>7. CASE \E k \in kids[c.d] :
             /\ kids[c.d] = {k} /\ k \in layout
             /\ call' = [call EXCEPT ![p] = [op |-> "delete", pc |-> "lock child", d |-> c.d,
                                             di |-> c.di, c |-> k]]
             /\ UNCHANGED lock
  <2>1. PICK k \in kids[c.d] :
             /\ kids[c.d] = {k} /\ k \in layout
             /\ call' = [call EXCEPT ![p] = [op |-> "delete", pc |-> "lock child", d |-> c.d,
                                             di |-> c.di, c |-> k]]
             /\ UNCHANGED lock
    BY <1>7
  <2> DEFINE m == [op |-> "delete", pc |-> "lock child", d |-> c.d, di |-> c.di, c |-> k]
  <2>2. m \in DeleteChoice /\ m.pc = "lock child" /\ m.d = c.d /\ m.di = c.di
    <3>1. k \in Dir
      BY <1>2, <2>1 DEF Inv, Types
    <3> QED
      BY <1>2, <3>1 DEF DeleteChoice
  <2>3. call' = [call EXCEPT ![p] = m]
    BY <2>1
  <2> HIDE DEF m
  <2>4. PICK n \in DeleteChoice : n = m
    BY <2>2
  <2>5. n \in Call /\ Locks(n) = Locks(c) /\ Target(n) = Target(c)
        /\ n.pc = "lock child" /\ n.d = c.d /\ n.di = c.di
    BY <1>2, <2>2, <2>4, DeleteChoiceIs DEF Call
  <2>6. call' = [call EXCEPT ![p] = n] /\ call'[p] = n
    BY <2>3, <2>4 DEF Inv, Types
  <2>7. \A x, y \in Kids(c.d) : x = y
    <3> SUFFICES ASSUME NEW x \in Kids(c.d), NEW y \in Kids(c.d) PROVE x = y
      OBVIOUS
    <3>1. Made(x) /\ Made(y)
      BY DEF Kids
    <3>2. CASE x = k
      BY <1>5, <2>1, <3>1, <3>2
    <3>3. CASE y = k
      BY <1>5, <2>1, <3>1, <3>3
    <3>4. CASE x # k /\ y # k
      <4>1. PICK q \in Proc : call[q] \in SnapshotCall /\ call[q].s = x /\ call[q].d = k
        BY <1>5, <2>1, <3>4
      <4>2. PICK r \in Proc : call[r] \in SnapshotCall /\ call[r].s = y /\ call[r].d = k
        BY <1>5, <2>1, <3>4
      <4>3. k \in Target(call[q]) /\ k \in Target(call[r]) /\ k \in Dir
        BY <4>1, <4>2, SnapshotCallIs
      <4>4. q = r
        BY <4>3 DEF Inv, Targets
      <4> QED
        BY <4>1, <4>2, <4>4
    <3> QED
      BY <3>2, <3>3, <3>4
  <2>8. Kids(c.d)' = Kids(c.d)
    BY <1>3 DEF Kids, Made, Continues
  <2>9. Deleting(n)'
    BY <1>2, <1>3, <2>5 DEF Deleting, Made, Continues, LinkedBy, LinksOk
  <2>10. Working(p)' /\ Childless(p)'
    BY <2>5, <2>6, <2>7, <2>8, <2>9, DeleteChoiceIs DEF Working, Childless
  <2>11. (kids' \in [Dir -> SUBSET Dir]) /\ \A y \in Dir : kids'[y] # {} => y \in layout
    BY <1>3 DEF Inv, Types, Dirs
  <2> QED
    BY <1>1, <1>3, <2>1, <2>5, <2>6, <2>10, <2>11, Relinks
<1>8. CASE Return(p)
  <2>1. \A f \in DOMAIN files' : files'[f] \subseteq Written
    BY <1>3 DEF Inv, Types
  <2> QED
    BY <1>1, <1>2, <1>3, <1>8, <2>1, DeletingOk, Quits
<1> QED
  BY <1>1, <1>6, <1>7, <1>8 DEF get_first_sibling, Inv, Types

LEMMA DeleteImagesInv ==
  ASSUME Inv, NEW p \in Proc, DeleteImages(p)
  PROVE  Inv'
<1>1. PICK c \in DeleteCall : c = call[p]
  BY CallKind, DeleteChoiceIs, DeleteChildIs DEF Inv, DeleteImages, At
<1>2. c.pc = "images" /\ c.d \in Dir /\ Deleting(c) /\ c.di \in Descriptor /\ c.op = "delete"
  BY <1>1, DeleteCallIs DEF DeleteImages, At, Inv, Working
<1>3. NoDir \notin Dir /\ Types /\ Dirs /\ Parents
  BY VolumeAssumption DEF Inv
<1>4. PICK pc \in {"parent", "children", "images", "unregister", "destroy"} :
        Goto(p, pc) /\ pc = IF c.di.parent = NoDir THEN "destroy" ELSE "unregister"
  BY <1>1 DEF DeleteImages
<1>5. PICK n \in DeleteCall :
        /\ call' = [call EXCEPT ![p] = n] /\ call'[p] = n
        /\ call' \in [Proc -> Call] /\ n \in Call
        /\ n.d = c.d /\ n.di = c.di /\ n.pc = pc
        /\ Target(n) = Target(c) /\ (c.pc # "parent" /\ pc # "parent" => Locks(n) = Locks(c))
  BY <1>1, <1>4, DeleteGoes
<1>6. Locks(n) = Locks(c)
  BY <1>2, <1>4, <1>5
<1>7. UNCHANGED <<dd, tmp, layout, kids, lock, next, writes>>
  BY DEF DeleteImages
<1>8. want' = [want EXCEPT ![c.d] = None]
  BY <1>1 DEF DeleteImages
<1>9. /\ want' \in [Dir -> (SUBSET Written) \cup {None}]
      /\ want'[c.d] = None /\ \A x \in Dir : x # c.d => want'[x] = want[x]
  BY <1>2, <1>3, <1>8 DEF Types
<1>10. \A f \in DOMAIN files' : files'[f] \subseteq Written
  BY <1>3, DropTyped DEF DeleteImages
<1>11. Types'
  BY <1>3, <1>5, <1>7, <1>9, <1>10 DEF Types
<1>12. Kids(c.d) = {}
  BY <1>1, <1>2 DEF Inv, Childless
<1>13. /\ \A x \in Dir : x # c.d => (Made(x)' <=> Made(x))
       /\ ~ Made(c.d)'
       /\ \A x, y : Continues(x, y)' <=> Continues(x, y)
       /\ \A x, Y : LinkedBy(x, Y)' <=> LinkedBy(x, Y)
       /\ \A x : LinksOk(x)' <=> LinksOk(x)
  BY <1>7, <1>9 DEF Made, Continues, LinkedBy, LinksOk
<1>14. \A y \in Dir : Kids(y)' \subseteq Kids(y)
  BY <1>13 DEF Kids
<1>15. Parents'
  BY <1>3, <1>12, <1>13, <1>14 DEF Parents
<1>16. Dirs'
  BY <1>3, <1>7, <1>13 DEF Dirs
<1>17. \A x \in Dir : Mine(p, x) \/ Same(x)
  <2>1. Mine(p, c.d)
    BY <1>1, DeleteCallIs DEF Mine
  <2> QED
    BY <1>7, <1>9, <2>1 DEF Same
<1>18. \A y \in Dir : Offspring(p, y)
  BY <1>14 DEF Offspring
<1>19. Deleting(n)'
  <2>1. c.di.parent = NoDir => LinkedBy(c.d, {})
    BY <1>2, <1>3 DEF Deleting, LinkedBy
  <2>2. Continues(c.d, c.di.parent) /\ LinkedBy(c.d, {c.di.parent})
        /\ (c.di.parent # NoDir =>
              Made(c.di.parent) /\ LinksOk(c.di.parent) /\ c.di.parent # c.d /\ c.di.parent \in Dir)
    BY <1>2, ParentIs DEF Deleting
  <2> QED
    BY <1>4, <1>5, <1>13, <2>1, <2>2 DEF Deleting
<1>20. Working(p)'
  BY <1>5, <1>19, DeleteCallIs DEF Working
<1>21. Childless(p)'
  BY <1>4, <1>5, DeleteCallIs DEF Childless
<1> QED
  BY <1>1, <1>5, <1>6, <1>7, <1>11, <1>15, <1>16, <1>17, <1>18, <1>20, <1>21, Stays

LEMMA DeleteLockChildInv ==
  ASSUME Inv, NEW p \in Proc, DeleteLockChild(p), windows' = {}
  PROVE  Inv'
<1>1. PICK c \in DeleteChoice : c = call[p]
  BY CallKind, DeleteCallIs, DeleteChildIs DEF Inv, DeleteLockChild, At
<1>2. /\ c.pc = "lock child" /\ c.op = "delete" /\ c.d \in Dir /\ c.c \in Dir /\ c.di \in Descriptor
      /\ Deleting(c) /\ Locks(c) = {c.d, c.di.parent} /\ Target(c) = {}
  BY <1>1, DeleteChoiceIs DEF Inv, Working
<1>3. UNCHANGED <<dd, tmp, layout, kids, files, next, writes, want>>
  BY DEF DeleteLockChild, disk
<1>4. lock[c.d] = p /\ (c.di.parent \in Dir => lock[c.di.parent] = p) /\ p # None
  BY <1>1, <1>2, NoneAssumption DEF Inv, Holding
<1> DEFINE child == ploop_read_dd(c.c)
           m == [op |-> "delete", pc |-> "merge", d |-> c.d, di |-> c.di, c |-> c.c,
                 child |-> child]
<1>5. CASE Locked(p, c.c) /\ call' = [call EXCEPT ![p] = m]
           /\ windows' = windows
                \cup When(dd[c.c].parent # c.d, "stale child")
                \cup When(want[c.c] = None, "half made child")
  <2>1. dd[c.c].parent = c.d /\ Made(c.c)
    <3>1. When(dd[c.c].parent # c.d, "stale child") = {}
          /\ When(want[c.c] = None, "half made child") = {}
      BY <1>5
    <3>2. ~(want[c.c] = None)
      BY <3>1, NotWhen
    <3>3. ~(dd[c.c].parent # c.d)
      BY <3>1, NotWhen
    <3> QED
      BY <3>2, <3>3 DEF Made
  <2>2. child \in Descriptor
    BY <1>2, <1>5, ReadTyped DEF Inv, Locked
  <2>3. m \in DeleteChild /\ m.pc = "merge" /\ m.d = c.d /\ m.di = c.di /\ m.c = c.c
    <3> HIDE DEF child
    <3> QED
      BY <1>2, <2>2 DEF DeleteChild
  <2> HIDE DEF m
  <2>4. PICK n \in DeleteChild : n = m
    BY <2>3
  <2>5. /\ n \in Call /\ n.pc = "merge" /\ n.d = c.d /\ n.di = c.di /\ n.c = c.c
        /\ Locks(n) = {c.d, c.c, c.di.parent} /\ Target(n) = {}
    BY <2>3, <2>4, DeleteChildIs DEF Call
  <2>6. call' = [call EXCEPT ![p] = n] /\ call'[p] = n /\ call' \in [Proc -> Call]
    BY <1>5, <2>4, <2>5 DEF Inv, Types
  <2>7. lock[c.c] = None /\ lock' = [lock EXCEPT ![c.c] = p]
    BY <1>5 DEF Locked
  <2>8. c.c # c.d /\ c.c # c.di.parent
    BY <1>2, <1>4, <2>7
  <2>9. Continues(c.c, c.d) /\ LinkedBy(c.c, {c.d})
    BY <1>2, <2>1, <2>7, MadeFree
  <2>10. Types'
    <3>1. lock' \in [Dir -> Proc \cup {None}]
      BY <1>2, <2>7 DEF Inv, Types
    <3> QED
      BY <1>3, <2>6, <3>1 DEF Inv, Types
  <2>11. /\ \A x : Made(x)' <=> Made(x)
         /\ \A x, y : Continues(x, y)' <=> Continues(x, y)
         /\ \A x, Y : LinkedBy(x, Y)' <=> LinkedBy(x, Y)
         /\ \A x : LinksOk(x)' <=> LinksOk(x)
    BY <1>3 DEF Made, Continues, LinkedBy, LinksOk
  <2>12. Deleting(n)'
    BY <1>2, <2>5, <2>11 DEF Deleting
  <2>13. DeletingChild(n)'
    BY <2>1, <2>5, <2>8, <2>9, <2>11 DEF DeletingChild
  <2>14. Working(p)'
    BY <2>6, <2>12, <2>13, DeleteChildIs DEF Working
  <2>15. Childless(p)'
    <3>1. c.c \in Kids(c.d)
      BY <1>2, <2>1, <2>9 DEF Kids
    <3>2. \A x, y \in Kids(c.d) : x = y
      BY <1>1, <1>2 DEF Inv, Childless
    <3>3. Kids(c.d)' = Kids(c.d)
      BY <2>11 DEF Kids
    <3>4. Kids(n.d)' \subseteq {n.c}
      BY <2>5, <3>1, <3>2, <3>3
    <3>5. n.op = "delete" /\ n.pc = "merge"
      BY <2>5, DeleteChildIs
    <3> QED
      BY <2>6, <3>4, <3>5 DEF Childless
  <2>16. \A x \in Dir : x \in Locks(n) <=> x \in Locks(call[p]) \cup {c.c}
    BY <1>1, <1>2, <2>5
  <2> QED
    BY <1>1, <1>2, <1>3, <2>1, <2>5, <2>6, <2>7, <2>10, <2>14, <2>15, <2>16, Takes
<1>6. CASE Return(p)
  <2>1. \A f \in DOMAIN files' : files'[f] \subseteq Written
    BY <1>3 DEF Inv, Types
  <2> QED
    BY <1>1, <1>2, <1>3, <1>6, <2>1, DeletingOk, Quits
<1> HIDE DEF child
<1> QED
  BY <1>1, <1>5, <1>6 DEF DeleteLockChild, child

\* What a call that has the child locked as well knows of its volumes.
LEMMA ChildKnown ==
  ASSUME Inv, NEW p \in Proc, NEW c \in DeleteChild, c = call[p]
  PROVE  /\ c.d \in Dir /\ c.c \in Dir /\ c.di \in Descriptor /\ c.child \in Descriptor
         /\ Deleting(c) /\ DeletingChild(c)
         /\ Locks(c) = {c.d, c.c, c.di.parent} /\ Target(c) = {}
         /\ Mine(p, c.d) /\ Mine(p, c.c) /\ Mine(p, c.di.parent)
         /\ \A x \in Dir : Mine(p, x) => x \in {c.d, c.c, c.di.parent}
         /\ lock[c.d] = p /\ lock[c.c] = p
         /\ c.di.parent \in Dir \/ c.di.parent = NoDir
         /\ NoDir \notin Dir
         /\ (c.di.parent # NoDir =>
               c.di.parent \in layout /\ Made(c.di.parent) /\ LinksOk(c.di.parent)
               /\ c.di.parent # c.d /\ c.di.parent # c.c)
         /\ c.d # c.c
         /\ c.d \in layout /\ c.c \in layout
<1>1. /\ c.d \in Dir /\ c.c \in Dir /\ c.di \in Descriptor /\ c.child \in Descriptor
      /\ Locks(c) = {c.d, c.c, c.di.parent} /\ Target(c) = {} /\ c.pc # "parent"
      /\ Deleting(c) /\ DeletingChild(c)
  BY DeleteChildIs DEF Inv, Working
<1>2. c.di.parent \in Dir \/ c.di.parent = NoDir
  BY <1>1, ParentIs
<1>3. lock[c.d] = p /\ lock[c.c] = p
  BY <1>1 DEF Inv, Holding
<1>4. NoDir \notin Dir /\ Dirs /\ p # None
  BY VolumeAssumption, NoneAssumption DEF Inv
<1>5. c.d \in layout /\ c.c \in layout
  BY <1>1, <1>3, <1>4 DEF Dirs
<1>6. c.di.parent # NoDir =>
        c.di.parent \in layout /\ Made(c.di.parent) /\ LinksOk(c.di.parent)
        /\ c.di.parent # c.d /\ c.di.parent # c.c
  BY <1>1, <1>2, <1>4 DEF Deleting, DeletingChild, Dirs
<1>7. c.d # c.c
  BY <1>1 DEF DeletingChild
<1>8. Mine(p, c.d) /\ Mine(p, c.c) /\ Mine(p, c.di.parent)
      /\ \A x \in Dir : Mine(p, x) => x \in {c.d, c.c, c.di.parent}
  BY <1>1 DEF Mine
<1> QED
  BY <1>1, <1>2, <1>3, <1>4, <1>5, <1>6, <1>7, <1>8

LEMMA DeleteMergeInv ==
  ASSUME Inv, NEW p \in Proc, DeleteMerge(p)
  PROVE  Inv'
<1>1. PICK c \in DeleteChild : c = call[p]
  BY CallKind, DeleteCallIs, DeleteChoiceIs DEF Inv, DeleteMerge, At
<1>2. c.pc = "merge" /\ c.op = "delete"
  BY <1>1, DeleteChildIs DEF DeleteMerge, At
<1>3. /\ c.d \in Dir /\ c.c \in Dir /\ c.di \in Descriptor /\ c.child \in Descriptor
      /\ Deleting(c) /\ DeletingChild(c)
      /\ \A x \in Dir : Mine(p, x) => x \in {c.d, c.c, c.di.parent}
      /\ Mine(p, c.d) /\ Mine(p, c.c) /\ Mine(p, c.di.parent)
      /\ c.di.parent \in Dir \/ c.di.parent = NoDir
      /\ NoDir \notin Dir
      /\ (c.di.parent # NoDir =>
            Made(c.di.parent) /\ LinksOk(c.di.parent) /\ c.di.parent # c.d /\ c.di.parent # c.c)
      /\ c.d # c.c
  BY <1>1, ChildKnown
<1>4. /\ Made(c.d) /\ Continues(c.d, c.di.parent) /\ LinkedBy(c.d, {c.di.parent})
      /\ Made(c.c) /\ Continues(c.c, c.d) /\ LinkedBy(c.c, {c.d})
  BY <1>2, <1>3 DEF Deleting, DeletingChild
<1>5. Types /\ Dirs /\ Parents
  BY DEF Inv
<1>6. UNCHANGED <<tmp, layout, kids, next, writes>>
  BY DEF DeleteMerge
<1> DEFINE child == [c.child EXCEPT !.parent = c.di.parent, !.snap = c.di.snap]
           g == c.child.snap
           r == ploop_store_diskdescriptor(DeletedDd(child, g))
<1>7. child \in Descriptor /\ child.parent = c.di.parent
  <2>1. PICK v \in Descriptor : v = c.child
    BY <1>3
  <2>2. c.di.parent \in Dir \cup {NoDir} /\ c.di.snap \in Int
    BY <1>3 DEF Descriptor
  <2>3. [v EXCEPT !.parent = c.di.parent, !.snap = c.di.snap] \in Descriptor
        /\ [v EXCEPT !.parent = c.di.parent, !.snap = c.di.snap].parent = c.di.parent
    BY <2>2 DEF Descriptor
  <2> QED
    BY <2>1, <2>3
<1> HIDE DEF child
<1>8. CASE /\ DeleteAllowed(child, g, c.c \in mounted)
           /\ dd' = [dd EXCEPT ![c.c] = r]
           /\ files' = DeletedFiles(child, g)
           /\ want' = [want EXCEPT ![c.d] = None]
           /\ Goto(p, "unlink child")
           /\ UNCHANGED lock
  <2>1. Has(child, g)
    BY <1>8 DEF DeleteAllowed
  <2>2. DeletedDd(child, g) \in Descriptor /\ DeletedDd(child, g).parent = c.di.parent
    BY <1>7, <2>1, DeletedTyped
  <2>3. r \in Descriptor /\ r.parent = c.di.parent /\ r # None
    BY <2>2, StoreTyped, NoneAssumption
  <2>4. \A f \in DOMAIN files' : files'[f] \subseteq Written
    BY <1>5, <1>7, <1>8, DeletedFilesTyped
  <2>5. dd' = [dd EXCEPT ![c.c] = r]
    BY <1>8
  <2> HIDE DEF r
  <2>6. /\ dd' \in [Dir -> Descriptor \cup {None}]
        /\ \A x \in Dir \ {c.c} : dd'[x] = dd[x]
        /\ dd'[c.c] # None /\ dd'[c.c].parent = c.di.parent
    BY <1>3, <1>5, <2>3, <2>5 DEF Types
  <2>7. /\ want' \in [Dir -> (SUBSET Written) \cup {None}]
        /\ want'[c.d] = None /\ \A x \in Dir : x # c.d => want'[x] = want[x]
    BY <1>3, <1>5, <1>8 DEF Types
  <2>8. PICK pc \in {"merge", "unlink child", "unregister", "register", "destroy"} :
          Goto(p, pc) /\ pc = "unlink child"
    BY <1>8
  <2>9. PICK n \in DeleteChild :
          /\ call' = [call EXCEPT ![p] = n] /\ call'[p] = n
          /\ call' \in [Proc -> Call] /\ n \in Call
          /\ n.pc = pc /\ n.d = call[p].d
          /\ n.di = call[p].di /\ n.c = call[p].c /\ n.child = call[p].child
          /\ Locks(n) = Locks(call[p]) /\ Target(n) = Target(call[p])
    <3>1. Goto(p, pc)
      BY <2>8
    <3> QED
      BY <1>1, <3>1, ChildGoes
  <2>9a. n.pc = "unlink child" /\ n.d = c.d /\ n.di = c.di /\ n.c = c.c
    BY <1>1, <2>8, <2>9
  <2>10. Types'
    BY <1>5, <1>6, <1>8, <2>4, <2>6, <2>7, <2>9 DEF Types
  <2>11. /\ \A x \in Dir : x # c.d => (Made(x)' <=> Made(x))
         /\ ~ Made(c.d)'
         /\ \A x \in Dir : \A y : x # c.c => (Continues(x, y)' <=> Continues(x, y))
         /\ \A y : Continues(c.c, y)' <=> y = c.di.parent
         /\ \A y : Continues(c.c, y) <=> y = c.d
         /\ \A x, Y : LinkedBy(x, Y)' <=> LinkedBy(x, Y)
    BY <1>4, <1>6, <2>6, <2>7 DEF Made, Continues, LinkedBy
  <2>12. \A y \in Dir : y # c.di.parent => Kids(y)' \subseteq Kids(y)
    BY <1>3, <2>11 DEF Kids
  <2>13. \A y \in Dir : Offspring(p, y)
    BY <1>3, <2>12 DEF Offspring
  <2>14. Kids(c.d)' = {}
    <3>1. Kids(c.d) \subseteq {c.c}
      BY <1>1, <1>2 DEF Inv, Childless
    <3>2. c.c \notin Kids(c.d)'
      BY <1>3, <2>11 DEF Kids
    <3>3. Kids(c.d)' \subseteq Kids(c.d)
      BY <1>3, <2>12
    <3> QED
      BY <3>1, <3>2, <3>3
  <2>15. Parents'
    <3> SUFFICES ASSUME NEW y \in Dir, Kids(y)' # {} PROVE Made(y)'
      BY DEF Parents
    <3>1. y # c.d
      BY <2>14
    <3>2. CASE y = c.di.parent
      BY <1>3, <2>11, <3>1, <3>2
    <3>3. CASE y # c.di.parent
      <4>1. Kids(y) # {}
        BY <2>12, <3>3
      <4> QED
        BY <1>5, <2>11, <3>1, <4>1 DEF Parents
    <3> QED
      BY <3>2, <3>3
  <2>16. Dirs'
    BY <1>3, <1>4, <1>5, <1>6, <1>8, <2>6, <2>7 DEF Dirs, Made, Continues
  <2>17. \A x \in Dir : Mine(p, x) \/ Same(x)
    BY <1>3, <1>6, <1>8, <2>6, <2>7 DEF Same
  <2>18. c.di.parent # NoDir => LinksOk(c.di.parent)'
    BY <1>3, <1>6, <2>6 DEF LinksOk, Continues
  <2>19. Deleting(n)'
    BY <1>3, <1>4, <2>9a, <2>11, <2>18 DEF Deleting
  <2>20. DeletingChild(n)'
    BY <1>3, <1>4, <2>9a, <2>11 DEF DeletingChild, Deleting
  <2>21. Working(p)' /\ Childless(p)'
    BY <2>9, <2>9a, <2>19, <2>20, DeleteChildIs DEF Working, Childless
  <2> QED
    BY <1>1, <1>8, <2>9, <2>10, <2>13, <2>15, <2>16, <2>17, <2>21, Stays
<1>9. CASE Return(p) /\ UNCHANGED <<dd, files, want>>
  <2>1. \A f \in DOMAIN files' : files'[f] \subseteq Written
    BY <1>5, <1>9 DEF Types
  <2>2. LinksOk(c.d) /\ LinksOk(c.c)
    BY <1>3, <1>4, LinkedOk
  <2>3. \A x \in Dir : Mine(p, x) => LinksOk(x)
    BY <1>3, <2>2
  <2> QED
    BY <1>6, <1>9, <2>1, <2>3, Quits
<1> QED
  BY <1>1, <1>8, <1>9 DEF DeleteMerge, child

LEMMA DeleteUnlinkChildInv ==
  ASSUME Inv, NEW p \in Proc, DeleteUnlinkChild(p)
  PROVE  Inv'
<1>1. PICK c \in DeleteChild : c = call[p]
  BY CallKind, DeleteCallIs, DeleteChoiceIs DEF Inv, DeleteUnlinkChild, At
<1>2. PICK pc \in {"merge", "unlink child", "unregister", "register", "destroy"} :
        Goto(p, pc) /\ pc = IF c.di.parent # NoDir THEN "unregister" ELSE "destroy"
  BY <1>1 DEF DeleteUnlinkChild
<1>3. PICK n \in DeleteChild :
        /\ call' = [call EXCEPT ![p] = n] /\ call'[p] = n
        /\ call' \in [Proc -> Call] /\ n \in Call
        /\ n.pc = pc /\ n.d = call[p].d
        /\ n.di = call[p].di /\ n.c = call[p].c /\ n.child = call[p].child
        /\ Locks(n) = Locks(call[p]) /\ Target(n) = Target(call[p])
  <2>1. call[p] \in DeleteChild
    BY <1>1
  <2> QED
    BY <1>2, <2>1, ChildGoes
<1>4. n.pc = pc /\ n.d = c.d /\ n.di = c.di /\ n.c = c.c /\ c.pc = "unlink child"
  BY <1>1, <1>3 DEF DeleteUnlinkChild, At
<1>5. /\ c.d \in Dir /\ c.c \in Dir /\ Deleting(c) /\ DeletingChild(c) /\ Mine(p, c.c)
      /\ c.di.parent \in Dir \/ c.di.parent = NoDir
      /\ NoDir \notin Dir
      /\ (c.di.parent # NoDir =>
            Made(c.di.parent) /\ LinksOk(c.di.parent) /\ c.di.parent # c.d /\ c.di.parent # c.c)
      /\ c.d # c.c
  BY <1>1, ChildKnown
<1>6. UNCHANGED <<dd, tmp, layout, files, lock, next, writes, want>>
  BY DEF DeleteUnlinkChild
<1>7. kids' \in [Dir -> SUBSET Dir]
      /\ \A y \in Dir : kids'[y] = IF y = c.d THEN kids[y] \ {c.c} ELSE kids[y]
  BY <1>1, <1>5 DEF DeleteUnlinkChild, Inv, Types
<1>8. \A x \in Dir : Mine(p, x) \/ \A y \in Dir : x \in kids'[y] <=> x \in kids[y]
  BY <1>5, <1>7
<1>9. \A y \in Dir : kids'[y] # {} => y \in layout
  BY <1>7 DEF Inv, Dirs
<1>10. /\ \A x : Made(x)' <=> Made(x)
       /\ \A x, y : Continues(x, y)' <=> Continues(x, y)
       /\ \A x \in Dir : \A Y : x # c.c => (LinkedBy(x, Y)' <=> LinkedBy(x, Y))
       /\ \A x \in Dir : x # c.c => (LinksOk(x)' <=> LinksOk(x))
  BY <1>6, <1>7 DEF Made, Continues, LinkedBy, LinksOk
<1>11. LinkedBy(c.c, {})'
  BY <1>4, <1>5, <1>7 DEF DeletingChild, LinkedBy
<1>12. /\ ~ Made(c.d) /\ Continues(c.d, c.di.parent) /\ LinkedBy(c.d, {c.di.parent})
       /\ Made(c.c) /\ Continues(c.c, c.di.parent)
  BY <1>4, <1>5 DEF Deleting, DeletingChild
<1>13. Deleting(n)'
  <2>1. c.di.parent = NoDir => LinkedBy(c.d, {})
    BY <1>5, <1>12 DEF LinkedBy
  <2> QED
    BY <1>2, <1>4, <1>5, <1>10, <1>12, <2>1 DEF Deleting
<1>14. DeletingChild(n)'
  <2>1. c.di.parent = NoDir => LinkedBy(c.c, {c.di.parent})'
    BY <1>5, <1>11 DEF LinkedBy
  <2>2. c.c # c.di.parent
    BY <1>5
  <2> QED
    BY <1>2, <1>4, <1>5, <1>10, <1>11, <1>12, <2>1, <2>2 DEF DeletingChild
<1>15. Working(p)' /\ Childless(p)'
  BY <1>2, <1>3, <1>4, <1>13, <1>14, DeleteChildIs DEF Working, Childless
<1> QED
  BY <1>3, <1>6, <1>7, <1>8, <1>9, <1>15, Relinks

LEMMA UnregisterWholeInv ==
  ASSUME Inv, NEW p \in Proc, call[p] \in DeleteCall, DeleteUnregister(p)
  PROVE  Inv'
<1>1. PICK c \in DeleteCall : c = call[p]
  OBVIOUS
<1>2. c.pc = "unregister" /\ c.d \in Dir /\ Deleting(c) /\ c.di \in Descriptor
  BY <1>1, DeleteCallIs DEF DeleteUnregister, At, Inv, Working
<1>3. PICK pc \in {"parent", "children", "images", "unregister", "destroy"} :
        Goto(p, pc) /\ pc = "destroy"
  BY ShapeDiffers DEF DeleteUnregister
<1>4. PICK n \in DeleteCall :
        /\ call' = [call EXCEPT ![p] = n] /\ call'[p] = n
        /\ call' \in [Proc -> Call] /\ n \in Call
        /\ n.d = c.d /\ n.di = c.di /\ n.pc = pc
        /\ Target(n) = Target(c) /\ (c.pc # "parent" /\ pc # "parent" => Locks(n) = Locks(c))
  <2>1. Goto(p, pc)
    BY <1>3
  <2> QED
    BY <1>1, <2>1, DeleteGoes
<1>5. Locks(n) = Locks(c)
  BY <1>2, <1>3, <1>4
<1>6. UNCHANGED <<dd, tmp, layout, files, lock, next, writes, want>>
  BY DEF DeleteUnregister
<1>7. /\ c.di.parent \in Dir /\ ~ Made(c.d) /\ Continues(c.d, c.di.parent)
      /\ LinkedBy(c.d, {c.di.parent})
      /\ Made(c.di.parent) /\ LinksOk(c.di.parent) /\ c.di.parent # c.d
  BY <1>2, ParentIs DEF Deleting
<1>8. kids' \in [Dir -> SUBSET Dir]
      /\ \A y \in Dir : kids'[y] = IF y = c.di.parent THEN kids[y] \ {c.d} ELSE kids[y]
  BY <1>1, <1>7 DEF DeleteUnregister, Inv, Types
<1>9. \A x \in Dir : Mine(p, x) \/ \A y \in Dir : x \in kids'[y] <=> x \in kids[y]
  <2>1. Mine(p, c.d)
    BY <1>1, DeleteCallIs DEF Mine
  <2> QED
    BY <1>8, <2>1
<1>10. \A y \in Dir : kids'[y] # {} => y \in layout
  BY <1>8 DEF Inv, Dirs
<1>11. Deleting(n)'
  <2>1. LinkedBy(c.d, {})'
    BY <1>7, <1>8 DEF LinkedBy
  <2>2. LinksOk(c.di.parent)'
    BY <1>6, <1>7, <1>8 DEF LinksOk, Continues
  <2>3. ~ Made(c.d)' /\ Continues(c.d, c.di.parent)' /\ Made(c.di.parent)'
    BY <1>6, <1>7 DEF Made, Continues
  <2> QED
    BY <1>3, <1>4, <1>7, <2>1, <2>2, <2>3 DEF Deleting
<1>12. Working(p)' /\ Childless(p)'
  BY <1>3, <1>4, <1>11, DeleteCallIs DEF Working, Childless
<1> QED
  BY <1>1, <1>4, <1>5, <1>6, <1>8, <1>9, <1>10, <1>12, Relinks

LEMMA UnregisterMergedInv ==
  ASSUME Inv, NEW p \in Proc, call[p] \in DeleteChild, DeleteUnregister(p)
  PROVE  Inv'
<1>1. PICK c \in DeleteChild : c = call[p]
  OBVIOUS
<1>2. PICK pc \in {"merge", "unlink child", "unregister", "register", "destroy"} :
        Goto(p, pc) /\ pc = "register"
  BY ShapeDiffers DEF DeleteUnregister
<1>3. PICK n \in DeleteChild :
        /\ call' = [call EXCEPT ![p] = n] /\ call'[p] = n
        /\ call' \in [Proc -> Call] /\ n \in Call
        /\ n.pc = pc /\ n.d = call[p].d
        /\ n.di = call[p].di /\ n.c = call[p].c /\ n.child = call[p].child
        /\ Locks(n) = Locks(call[p]) /\ Target(n) = Target(call[p])
  <2>1. call[p] \in DeleteChild /\ Goto(p, pc)
    BY <1>2
  <2> QED
    BY <2>1, ChildGoes
<1>4. n.pc = pc /\ n.d = c.d /\ n.di = c.di /\ n.c = c.c /\ c.pc = "unregister"
  BY <1>1, <1>3 DEF DeleteUnregister, At
<1>5. /\ c.d \in Dir /\ c.c \in Dir /\ Deleting(c) /\ DeletingChild(c) /\ Mine(p, c.d)
      /\ c.di.parent \in Dir \/ c.di.parent = NoDir
      /\ (c.di.parent # NoDir =>
            Made(c.di.parent) /\ LinksOk(c.di.parent) /\ c.di.parent # c.d /\ c.di.parent # c.c)
      /\ c.d # c.c
  BY <1>1, ChildKnown
<1>6. UNCHANGED <<dd, tmp, layout, files, lock, next, writes, want>>
  BY DEF DeleteUnregister
<1>7. /\ c.di.parent # NoDir /\ c.di.parent \in Dir
      /\ ~ Made(c.d) /\ Continues(c.d, c.di.parent) /\ LinkedBy(c.d, {c.di.parent})
      /\ Made(c.c) /\ Continues(c.c, c.di.parent) /\ LinkedBy(c.c, {})
  BY <1>4, <1>5 DEF Deleting, DeletingChild
<1>8. kids' \in [Dir -> SUBSET Dir]
      /\ \A y \in Dir : kids'[y] = IF y = c.di.parent THEN kids[y] \ {c.d} ELSE kids[y]
  BY <1>1, <1>7 DEF DeleteUnregister, Inv, Types
<1>9. \A x \in Dir : Mine(p, x) \/ \A y \in Dir : x \in kids'[y] <=> x \in kids[y]
  BY <1>5, <1>8
<1>10. \A y \in Dir : kids'[y] # {} => y \in layout
  BY <1>8 DEF Inv, Dirs
<1>11. /\ \A x : Made(x)' <=> Made(x)
       /\ \A x, y : Continues(x, y)' <=> Continues(x, y)
       /\ \A x \in Dir : \A Y : x # c.d => (LinkedBy(x, Y)' <=> LinkedBy(x, Y))
       /\ \A x \in Dir : x # c.d => (LinksOk(x)' <=> LinksOk(x))
  BY <1>6, <1>8 DEF Made, Continues, LinkedBy, LinksOk
<1>12. LinkedBy(c.d, {})'
  BY <1>5, <1>7, <1>8 DEF LinkedBy
<1>13. Deleting(n)'
  BY <1>2, <1>4, <1>5, <1>7, <1>11, <1>12 DEF Deleting
<1>14. DeletingChild(n)'
  BY <1>2, <1>4, <1>5, <1>7, <1>11 DEF DeletingChild
<1>15. Working(p)' /\ Childless(p)'
  BY <1>2, <1>3, <1>4, <1>13, <1>14, DeleteChildIs DEF Working, Childless
<1> QED
  BY <1>3, <1>6, <1>8, <1>9, <1>10, <1>15, Relinks

LEMMA DeleteRegisterInv ==
  ASSUME Inv, NEW p \in Proc, DeleteRegister(p)
  PROVE  Inv'
<1>1. PICK c \in DeleteChild : c = call[p]
  BY CallKind, DeleteCallIs, DeleteChoiceIs DEF Inv, DeleteRegister, At
<1>2. PICK pc \in {"merge", "unlink child", "unregister", "register", "destroy"} :
        Goto(p, pc) /\ pc = "destroy"
  BY DEF DeleteRegister
<1>3. PICK n \in DeleteChild :
        /\ call' = [call EXCEPT ![p] = n] /\ call'[p] = n
        /\ call' \in [Proc -> Call] /\ n \in Call
        /\ n.pc = pc /\ n.d = call[p].d
        /\ n.di = call[p].di /\ n.c = call[p].c /\ n.child = call[p].child
        /\ Locks(n) = Locks(call[p]) /\ Target(n) = Target(call[p])
  <2>1. call[p] \in DeleteChild /\ Goto(p, pc)
    BY <1>1, <1>2
  <2> QED
    BY <2>1, ChildGoes
<1>4. n.pc = pc /\ n.d = c.d /\ n.di = c.di /\ n.c = c.c /\ c.pc = "register"
  BY <1>1, <1>3 DEF DeleteRegister, At
<1>5. /\ c.d \in Dir /\ c.c \in Dir /\ Deleting(c) /\ DeletingChild(c) /\ Mine(p, c.c)
      /\ c.di.parent \in Dir \/ c.di.parent = NoDir
      /\ (c.di.parent # NoDir => c.di.parent \in layout /\
            Made(c.di.parent) /\ LinksOk(c.di.parent) /\ c.di.parent # c.d /\ c.di.parent # c.c)
      /\ c.d # c.c
  BY <1>1, ChildKnown
<1>6. UNCHANGED <<dd, tmp, layout, files, lock, next, writes, want>>
  BY DEF DeleteRegister
<1>7. /\ c.di.parent # NoDir /\ c.di.parent \in Dir
      /\ ~ Made(c.d) /\ Continues(c.d, c.di.parent) /\ LinkedBy(c.d, {})
      /\ Made(c.c) /\ Continues(c.c, c.di.parent) /\ LinkedBy(c.c, {})
  BY <1>4, <1>5 DEF Deleting, DeletingChild
<1>8. kids' \in [Dir -> SUBSET Dir]
      /\ \A y \in Dir : kids'[y] = IF y = c.di.parent THEN kids[y] \cup {c.c} ELSE kids[y]
  BY <1>1, <1>5, <1>7 DEF DeleteRegister, Inv, Types
<1>9. \A x \in Dir : Mine(p, x) \/ \A y \in Dir : x \in kids'[y] <=> x \in kids[y]
  BY <1>5, <1>8
<1>10. \A y \in Dir : kids'[y] # {} => y \in layout
  BY <1>5, <1>7, <1>8 DEF Inv, Dirs
<1>11. /\ \A x : Made(x)' <=> Made(x)
       /\ \A x, y : Continues(x, y)' <=> Continues(x, y)
       /\ \A x \in Dir : \A Y : x # c.c => (LinkedBy(x, Y)' <=> LinkedBy(x, Y))
       /\ \A x \in Dir : x # c.c => (LinksOk(x)' <=> LinksOk(x))
  <2>1. \A x, y \in Dir : x # c.c => (x \in kids'[y] <=> x \in kids[y])
    BY <1>8
  <2>2. (\A x : Made(x)' <=> Made(x)) /\ \A x, y : Continues(x, y)' <=> Continues(x, y)
    BY <1>6 DEF Made, Continues
  <2>3. \A x \in Dir : \A Y : x # c.c => (LinkedBy(x, Y)' <=> LinkedBy(x, Y))
    BY <2>1 DEF LinkedBy
  <2>4. \A x \in Dir : x # c.c => (LinksOk(x)' <=> LinksOk(x))
    BY <2>1, <2>2 DEF LinksOk
  <2> QED
    BY <2>2, <2>3, <2>4
<1>12. LinkedBy(c.c, {c.di.parent})'
  BY <1>5, <1>7, <1>8 DEF LinkedBy
<1>13. Deleting(n)'
  BY <1>2, <1>4, <1>5, <1>7, <1>11 DEF Deleting
<1>14. DeletingChild(n)'
  BY <1>2, <1>4, <1>5, <1>7, <1>11, <1>12 DEF DeletingChild
<1>15. Working(p)' /\ Childless(p)'
  BY <1>2, <1>3, <1>4, <1>13, <1>14, DeleteChildIs DEF Working, Childless
<1> QED
  BY <1>3, <1>6, <1>8, <1>9, <1>10, <1>15, Relinks

LEMMA DeleteDestroyInv ==
  ASSUME Inv, NEW p \in Proc, DeleteDestroy(p)
  PROVE  Inv'
<1>1. PICK c \in DeleteCall \cup DeleteChild : c = call[p]
  BY CallKind, DeleteChoiceIs DEF Inv, DeleteDestroy, At
<1>2. c.pc = "destroy" /\ c.d \in Dir /\ Deleting(c) /\ c.di \in Descriptor
      /\ (c \in DeleteChild => DeletingChild(c)) /\ NoDir \notin Dir
  BY <1>1, DeleteCallIs, DeleteChildIs, VolumeAssumption DEF DeleteDestroy, At, Inv, Working
<1>3. /\ ~ Made(c.d) /\ LinkedBy(c.d, {}) /\ Continues(c.d, c.di.parent)
      /\ (c.di.parent # NoDir => LinksOk(c.di.parent) /\ c.di.parent # c.d)
  BY <1>2 DEF Deleting
<1>4. Types /\ Dirs
  BY DEF Inv
<1>5. /\ dd' \in [Dir -> Descriptor \cup {None}] /\ tmp' \in [Dir -> Descriptor \cup {None}]
      /\ dd'[c.d] = None
      /\ \A x \in Dir \ {c.d} : dd'[x] = dd[x] /\ tmp'[x] = tmp[x] /\ (x \in layout' <=> x \in layout)
      /\ layout' \subseteq Dir /\ (c.d \in layout /\ c.d \notin layout' => kids[c.d] = {})
      /\ kids' = kids
      /\ \A f \in DOMAIN files' : files'[f] \subseteq Written
  BY <1>1, <1>2, <1>4, DestroyedTyped DEF DeleteDestroy
<1>6. UNCHANGED <<next, writes, want>> /\ Return(p)
  BY DEF DeleteDestroy
<1>7. lock' \in [Dir -> Proc \cup {None}] /\ call' \in [Proc -> Call]
      /\ \A x \in Dir : lock'[x] = IF lock[x] = p THEN None ELSE lock[x]
  BY <1>4, <1>6 DEF Types, Return, Call
<1>8. Types'
  BY <1>4, <1>5, <1>6, <1>7 DEF Types
<1>9. /\ Mine(p, c.d) /\ lock[c.d] = p
      /\ c \in DeleteCall => \A x \in Dir : Mine(p, x) => x \in {c.d, c.di.parent}
      /\ c \in DeleteChild => c.c \in Dir /\ \A x \in Dir : Mine(p, x) => x \in {c.d, c.c, c.di.parent}
  <2>1. c.d \in Locks(call[p])
    BY <1>1, DeleteCallIs, DeleteChildIs
  <2>2. c \in DeleteCall => \A x \in Dir : Mine(p, x) => x \in {c.d, c.di.parent}
    BY <1>1, DeleteCallIs DEF Mine
  <2>3. c \in DeleteChild => c.c \in Dir /\ \A x \in Dir : Mine(p, x) => x \in {c.d, c.c, c.di.parent}
    BY <1>1, DeleteChildIs DEF Mine
  <2> QED
    BY <1>2, <2>1, <2>2, <2>3 DEF Mine, Inv, Holding
<1>10. c.d \in layout
  BY <1>2, <1>3, <1>4 DEF Dirs, Continues
<1>11. Dirs'
  <2> SUFFICES ASSUME NEW x \in Dir
               PROVE  /\ dd'[x] # None => x \in layout'
                      /\ x \notin layout' => kids[x] = {}
                      /\ want[x] # None => dd'[x] # None
                      /\ lock'[x] # None => dd'[x] # None
    BY <1>5, <1>6 DEF Dirs, Made
  <2>1. /\ dd[x] # None => x \in layout
        /\ x \notin layout => kids[x] = {}
        /\ want[x] # None => dd[x] # None
        /\ lock[x] # None => dd[x] # None
    BY <1>4 DEF Dirs, Made
  <2>2. CASE x = c.d
    BY <1>3, <1>5, <1>7, <1>9, <1>10, <2>2 DEF Made
  <2>3. CASE x # c.d
    BY <1>5, <1>7, <2>1, <2>3
  <2> QED
    BY <2>2, <2>3
<1>12. Quiet
  BY <1>3, <1>5, <1>6 DEF Quiet, Made, Continues
<1>13. \A x \in Dir : x # c.d => (LinksOk(x)' <=> LinksOk(x))
  BY <1>5 DEF LinksOk, Continues
<1>14. LinksOk(c.d)'
  BY <1>3, <1>5 DEF LinksOk, LinkedBy, Continues
<1>15. c \in DeleteChild => c.c # c.d /\ LinksOk(c.c)
  <2> SUFFICES ASSUME c \in DeleteChild PROVE c.c # c.d /\ LinksOk(c.c)
    OBVIOUS
  <2>1. c.c # c.d /\ Continues(c.c, c.di.parent) /\ LinkedBy(c.c, {c.di.parent})
    BY <1>2 DEF DeletingChild
  <2> QED
    BY <1>9, <2>1, LinkedOk
<1>16. \A x \in Dir : Mine(p, x) => LinksOk(x)'
  <2> SUFFICES ASSUME NEW x \in Dir, Mine(p, x) PROVE LinksOk(x)'
    OBVIOUS
  <2>1. x \in {c.d, c.di.parent} \/ (c \in DeleteChild /\ x = c.c)
    BY <1>1, <1>9
  <2> QED
    BY <1>2, <1>3, <1>13, <1>14, <1>15, <2>1
<1>17. \A x \in Dir : Mine(p, x) \/ lock'[x] # lock[x] \/ Same(x)
  BY <1>5, <1>6, <1>9 DEF Same
<1> QED
  BY <1>6, <1>8, <1>11, <1>12, <1>16, <1>17, QuietKids, Leaves

-----------------------------------------------------------------------------
(* Switch.                                                                  *)

LEMMA SwitchBeginInv ==
  ASSUME Inv, NEW p \in Proc, NEW d \in Dir, NEW s \in Dir, SwitchBegin(p, d, s),
         windows = {}, windows' = {}
  PROVE  Inv'
<1> DEFINE di == ploop_read_dd(d)
           m == [op |-> "switch", pc |-> "lock", d |-> d, s |-> s, di |-> di]
<1>1. Begin(p, m, {})
  BY DEF SwitchBegin
<1>2. call[p] = Idle /\ call' = [call EXCEPT ![p] = m]
      /\ Locks(call[p]) = {} /\ Target(call[p]) = {}
  BY <1>1, Begins
<1>3. di \in Descriptor /\ di.parent = dd[d].parent
  BY ReadTyped DEF Inv, SwitchBegin, Locked
<1>4. m \in SwitchWait /\ m.d = d /\ m.pc = "lock" /\ m.di = di
  <2> HIDE DEF di
  <2> QED
    BY <1>3 DEF SwitchWait
<1> HIDE DEF m, di
<1>5. PICK n \in SwitchWait : n = m
  BY <1>4
<1>6. n \in Call /\ n.d = d /\ n.pc = "lock" /\ n.di.parent = dd[d].parent
      /\ Locks(n) = {d} /\ Target(n) = {}
  BY <1>3, <1>4, <1>5, SwitchWaitIs DEF Call
<1>7. Made(d) /\ lock[d] = None /\ lock' = [lock EXCEPT ![d] = p] /\ kids[d] = {}
  BY KnownMade DEF SwitchBegin, Locked
<1>8. dd[d] # None /\ Continues(d, dd[d].parent) /\ LinkedBy(d, {dd[d].parent})
  BY <1>7, MadeFree
<1>10. \A x \in Dir : x \in Locks(n) <=> x \in Locks(call[p]) \cup {d}
  BY <1>2, <1>6
<1>11. UNCHANGED <<dd, tmp, layout, kids, files, place, next, writes, want>>
  BY DEF SwitchBegin, disk
<1>12. call' = [call EXCEPT ![p] = n] /\ call'[p] = n /\ call' \in [Proc -> Call]
  BY <1>2, <1>5, <1>6 DEF Inv, Types
<1>13. Types'
  <2>1. lock' \in [Dir -> Proc \cup {None}]
    BY <1>7 DEF Inv, Types
  <2> QED
    BY <1>11, <1>12, <2>1 DEF Inv, Types
<1>14. Switching(n)'
  BY <1>6, <1>7, <1>8, <1>11 DEF Switching, Made, Continues, LinkedBy
<1>15. Working(p)'
  BY <1>12, <1>14, SwitchWaitIs DEF Working
<1>16. Childless(p)'
  <2>1. Kids(d) = {}
    <3>1. \A q \in Proc : lock[d] # q
      BY <1>7, NoneAssumption
    <3> QED
      BY <1>7, <3>1, ChildLinked
  <2>2. Kids(d)' = {}
    BY <1>11, <2>1 DEF Kids, Made, Continues
  <2> QED
    BY <1>6, <1>12, <2>2, SwitchWaitIs DEF Childless
<1> QED
  BY <1>2, <1>6, <1>7, <1>10, <1>11, <1>12, <1>13, <1>15, <1>16, Takes

LEMMA SwitchLockInv ==
  ASSUME Inv, NEW p \in Proc, SwitchLock(p), windows' = {}
  PROVE  Inv'
<1>1. PICK c \in SwitchWait : c = call[p]
  BY CallKind, SwitchCallIs DEF Inv, SwitchLock, At
<1>2. /\ c.pc = "lock" /\ c.op = "switch" /\ c.d \in Dir /\ c.s \in Dir /\ c.di \in Descriptor
      /\ Switching(c) /\ Locks(c) = {c.d} /\ Target(c) = {}
  BY <1>1, SwitchWaitIs DEF Inv, Working
<1>3. UNCHANGED <<dd, tmp, layout, kids, files, next, writes, want>>
  BY DEF SwitchLock, disk
<1>4. lock[c.d] = p /\ p # None
  BY <1>1, <1>2, NoneAssumption DEF Inv, Holding
<1>4a. Made(c.d) /\ Continues(c.d, c.di.parent) /\ LinkedBy(c.d, {c.di.parent})
  BY <1>2 DEF Switching
<1> DEFINE to == ploop_read_dd(c.s)
           m == [op |-> "switch", pc |-> "volume", d |-> c.d, s |-> c.s, di |-> c.di, to |-> to]
<1>5. CASE Locked(p, c.s) /\ call' = [call EXCEPT ![p] = m]
           /\ windows' = windows \cup When(want[c.s] = None, "half made target")
  <2>1. Made(c.s)
    <3>1. When(want[c.s] = None, "half made target") = {}
      BY <1>5
    <3>2. ~(want[c.s] = None)
      BY <3>1, NotWhen
    <3> QED
      BY <3>2 DEF Made
  <2>2. to \in Descriptor
    BY <1>2, <1>5, ReadTyped DEF Inv, Locked
  <2>3. m \in SwitchCall /\ m.pc = "volume" /\ m.d = c.d /\ m.s = c.s /\ m.di = c.di
    <3> HIDE DEF to
    <3> QED
      BY <1>2, <2>2 DEF SwitchCall
  <2> HIDE DEF m
  <2>4. PICK n \in SwitchCall : n = m
    BY <2>3
  <2>5. /\ n \in Call /\ n.pc = "volume" /\ n.d = c.d /\ n.s = c.s /\ n.di = c.di
        /\ Locks(n) = {c.d, c.s} /\ Target(n) = {}
    BY <2>3, <2>4, SwitchCallIs DEF Call
  <2>6. call' = [call EXCEPT ![p] = n] /\ call'[p] = n /\ call' \in [Proc -> Call]
    BY <1>5, <2>4, <2>5 DEF Inv, Types
  <2>7. lock[c.s] = None /\ lock' = [lock EXCEPT ![c.s] = p] /\ c.s # c.d
    BY <1>4, <1>5 DEF Locked
  <2>8. LinksOk(c.s)
    BY <1>2, <2>1, <2>7, MadeFree
  <2>9. Types'
    <3>1. lock' \in [Dir -> Proc \cup {None}]
      BY <1>2, <2>7 DEF Inv, Types
    <3> QED
      BY <1>3, <2>6, <3>1 DEF Inv, Types
  <2>10. /\ \A x : Made(x)' <=> Made(x)
         /\ \A x, y : Continues(x, y)' <=> Continues(x, y)
         /\ \A x, Y : LinkedBy(x, Y)' <=> LinkedBy(x, Y)
         /\ \A x : LinksOk(x)' <=> LinksOk(x)
    BY <1>3 DEF Made, Continues, LinkedBy, LinksOk
  <2>11. Switching(n)'
    BY <1>4a, <2>1, <2>5, <2>7, <2>8, <2>10 DEF Switching
  <2>12. Working(p)'
    BY <2>6, <2>11, SwitchCallIs DEF Working
  <2>13. Childless(p)'
    <3>1. Kids(c.d) = {}
      BY <1>1, <1>2 DEF Inv, Childless
    <3>2. Kids(n.d)' = {}
      BY <2>5, <2>10, <3>1 DEF Kids
    <3>3. n.op = "switch"
      BY SwitchCallIs
    <3> QED
      BY <2>6, <3>2, <3>3 DEF Childless
  <2>14. \A x \in Dir : x \in Locks(n) <=> x \in Locks(call[p]) \cup {c.s}
    BY <1>1, <1>2, <2>5
  <2> QED
    BY <1>1, <1>2, <1>3, <2>1, <2>5, <2>6, <2>7, <2>9, <2>12, <2>13, <2>14, Takes
<1>6. CASE Return(p)
  <2>1. \A f \in DOMAIN files' : files'[f] \subseteq Written
    BY <1>3 DEF Inv, Types
  <2>2. \A x \in Dir : Mine(p, x) => LinksOk(x)
    BY <1>1, <1>2, <1>4a, LinkedOk DEF Mine
  <2> QED
    BY <1>3, <1>6, <2>1, <2>2, Quits
<1> HIDE DEF to
<1> QED
  BY <1>1, <1>5, <1>6 DEF SwitchLock, to

\* What a call that has both volumes of a switch locked knows of them.
LEMMA SwitchKnown ==
  ASSUME Inv, NEW p \in Proc, NEW c \in SwitchCall, c = call[p]
  PROVE  /\ c.d \in Dir /\ c.s \in Dir /\ c.di \in Descriptor /\ c.to \in Descriptor
         /\ c.s # c.d /\ Made(c.s) /\ LinksOk(c.s) /\ Switching(c)
         /\ Mine(p, c.d) /\ Mine(p, c.s) /\ \A x \in Dir : Mine(p, x) => x \in {c.d, c.s}
         /\ c.d \in layout /\ c.s \in layout
         /\ c.di.parent \in Dir \/ c.di.parent = NoDir
         /\ NoDir \notin Dir
<1>1. /\ c.d \in Dir /\ c.s \in Dir /\ c.di \in Descriptor /\ c.to \in Descriptor
      /\ Locks(c) = {c.d, c.s} /\ Target(c) = {} /\ c.pc # "lock" /\ Switching(c)
  BY SwitchCallIs DEF Inv, Working
<1>2. c.s # c.d /\ Made(c.s) /\ LinksOk(c.s)
  BY <1>1 DEF Switching
<1>3. Mine(p, c.d) /\ Mine(p, c.s) /\ \A x \in Dir : Mine(p, x) => x \in {c.d, c.s}
  BY <1>1 DEF Mine
<1>4. lock[c.d] = p /\ lock[c.s] = p /\ p # None
  BY <1>1, NoneAssumption DEF Inv, Holding
<1>5. c.d \in layout /\ c.s \in layout
  BY <1>1, <1>4 DEF Inv, Dirs
<1> QED
  BY <1>1, <1>2, <1>3, <1>5, ParentIs, VolumeAssumption

LEMMA SwitchGuidTyped ==
  ASSUME NEW di \in Descriptor
  PROVE  SwitchGuid(di) \in Int
<1>1. di.top \in Nat /\ di.snap \in Int
  BY DEF Descriptor
<1>2. ploop_find_parent_by_guid(di, di.top) \in Int
  <2>1. CASE Has(di, di.top)
    <3>1. Entry(di, di.top) \in Image
      BY <2>1, EntryIn
    <3>2. Entry(di, di.top).parent \in Int
      BY <3>1 DEF Image
    <3> QED
      BY <2>1, <3>2 DEF ploop_find_parent_by_guid
  <2>2. CASE ~ Has(di, di.top)
    BY <2>2 DEF ploop_find_parent_by_guid, NONE_UUID
  <2> QED
    BY <2>1, <2>2
<1> QED
  BY <1>1, <1>2 DEF SwitchGuid

LEMMA SwitchVolumeInv ==
  ASSUME Inv, NEW p \in Proc, SwitchVolume(p)
  PROVE  Inv'
<1>1. PICK c \in SwitchCall : c = call[p]
  BY CallKind, SwitchWaitIs DEF Inv, SwitchVolume, At
<1>2. c.pc = "volume" /\ c.op = "switch"
  BY <1>1, SwitchCallIs DEF SwitchVolume, At
<1>3. /\ c.d \in Dir /\ c.s \in Dir /\ c.di \in Descriptor /\ c.to \in Descriptor
      /\ c.s # c.d /\ Made(c.s) /\ LinksOk(c.s) /\ Switching(c)
      /\ Mine(p, c.d) /\ Mine(p, c.s) /\ \A x \in Dir : Mine(p, x) => x \in {c.d, c.s}
      /\ c.d \in layout /\ c.s \in layout
  BY <1>1, SwitchKnown
<1>4. Made(c.d) /\ Continues(c.d, c.di.parent) /\ LinkedBy(c.d, {c.di.parent})
  BY <1>2, <1>3 DEF Switching
<1>5. Types /\ Dirs /\ Parents
  BY DEF Inv
<1>6. UNCHANGED <<tmp, layout, kids, writes>>
  BY DEF SwitchVolume
<1> DEFINE g == SwitchGuid(c.to)
<1>7. g \in Int
  BY <1>3, SwitchGuidTyped
<1>8. CASE /\ create_volume(c.s, c.d, get_delta_storage_dir(c.di), g)
           /\ want' = [want EXCEPT ![c.d] = IF want[c.s] # None /\ Whole(c.to, g)
                                            THEN Held(c.to, g) ELSE None]
           /\ Goto(p, "unregister")
           /\ UNCHANGED lock
  <2>1. /\ dd' \in [Dir -> Descriptor \cup {None}]
        /\ \A x \in Dir \ {c.d} : dd'[x] = dd[x]
        /\ dd'[c.d] # None /\ dd'[c.d].parent = c.s
        /\ \A f \in DOMAIN files' : files'[f] \subseteq Written
        /\ next' \in Nat
    <3> HIDE DEF g
    <3> QED
      BY <1>3, <1>7, <1>8, CreateVolumeTyped
  <2>2. /\ want' \in [Dir -> (SUBSET Written) \cup {None}]
        /\ \A x \in Dir : x # c.d => want'[x] = want[x]
    <3> DEFINE w == IF want[c.s] # None /\ Whole(c.to, g) THEN Held(c.to, g) ELSE None
    <3>1. w \in (SUBSET Written) \cup {None}
      <4>1. Whole(c.to, g) => Held(c.to, g) \in SUBSET Written
        BY <1>5, HeldTyped
      <4> QED
        BY <4>1
    <3>2. want' = [want EXCEPT ![c.d] = w]
      BY <1>8
    <3> HIDE DEF w
    <3> QED
      BY <1>3, <1>5, <3>1, <3>2 DEF Types
  <2>3. PICK pc \in {"volume", "unregister", "register", "old delta"} :
          Goto(p, pc) /\ pc = "unregister"
    BY <1>8
  <2>4. PICK n \in SwitchCall :
          /\ call' = [call EXCEPT ![p] = n] /\ call'[p] = n
          /\ call' \in [Proc -> Call] /\ n \in Call
          /\ n.pc = pc /\ n.d = call[p].d
          /\ n.s = call[p].s /\ n.di = call[p].di /\ n.to = call[p].to
          /\ Locks(n) = Locks(call[p]) /\ Target(n) = Target(call[p])
    <3>1. call[p] \in SwitchCall /\ Goto(p, pc)
      BY <1>1, <2>3
    <3> QED
      BY <3>1, SwitchGoes
  <2>5. n.pc = "unregister" /\ n.d = c.d /\ n.s = c.s /\ n.di = c.di
    BY <1>1, <2>3, <2>4
  <2>6. Types'
    BY <1>5, <1>6, <1>8, <2>1, <2>2, <2>4 DEF Types
  <2>7. /\ \A x \in Dir : x # c.d => (Made(x)' <=> Made(x))
        /\ \A x \in Dir : \A y : x # c.d => (Continues(x, y)' <=> Continues(x, y))
        /\ \A y : Continues(c.d, y)' <=> y = c.s
    BY <2>1, <2>2 DEF Made, Continues
  <2>8. \A y \in Dir : y # c.s => Kids(y)' \subseteq Kids(y)
    BY <2>7 DEF Kids
  <2>9. \A y \in Dir : Offspring(p, y)
    BY <1>3, <2>8 DEF Offspring
  <2>10. Kids(c.d) = {}
    BY <1>1, <1>2 DEF Inv, Childless
  <2>11. Parents'
    <3> SUFFICES ASSUME NEW y \in Dir, Kids(y)' # {} PROVE Made(y)'
      BY DEF Parents
    <3>1. y # c.d
      BY <1>3, <2>8, <2>10
    <3>2. Made(y)
      BY <1>3, <1>5, <2>8 DEF Parents
    <3> QED
      BY <2>7, <3>1, <3>2
  <2>12. Dirs'
    BY <1>3, <1>5, <1>6, <1>8, <2>1, <2>2 DEF Dirs, Made
  <2>13. \A x \in Dir : Mine(p, x) \/ Same(x)
    BY <1>3, <1>6, <1>8, <2>1, <2>2 DEF Same
  <2>14. LinkedBy(c.d, {c.di.parent})' /\ LinksOk(c.s)' /\ Made(c.s)'
    BY <1>3, <1>4, <1>6, <2>7 DEF LinkedBy, LinksOk
  <2>15. Switching(n)'
    BY <1>3, <2>5, <2>7, <2>14 DEF Switching
  <2>16. Working(p)' /\ Childless(p)'
    BY <2>4, <2>5, <2>15, SwitchCallIs DEF Working, Childless
  <2> QED
    BY <1>8, <2>4, <2>6, <2>9, <2>11, <2>12, <2>13, <2>16, Stays
<1>9. CASE Return(p) /\ UNCHANGED <<dd, files, next, want>>
  <2>1. \A f \in DOMAIN files' : files'[f] \subseteq Written
    BY <1>5, <1>9 DEF Types
  <2>2. \A x \in Dir : Mine(p, x) => LinksOk(x)
    BY <1>3, <1>4, LinkedOk
  <2> QED
    BY <1>6, <1>9, <2>1, <2>2, Quits
<1> HIDE DEF g
<1> QED
  BY <1>1, <1>8, <1>9 DEF SwitchVolume, g

LEMMA SwitchUnregisterInv ==
  ASSUME Inv, NEW p \in Proc, SwitchUnregister(p)
  PROVE  Inv'
<1>1. PICK c \in SwitchCall : c = call[p]
  BY CallKind, SwitchWaitIs DEF Inv, SwitchUnregister, At
<1>2. PICK pc \in {"volume", "unregister", "register", "old delta"} :
        Goto(p, pc) /\ pc = "register"
  BY DEF SwitchUnregister
<1>3. PICK n \in SwitchCall :
        /\ call' = [call EXCEPT ![p] = n] /\ call'[p] = n
        /\ call' \in [Proc -> Call] /\ n \in Call
        /\ n.pc = pc /\ n.d = call[p].d
        /\ n.s = call[p].s /\ n.di = call[p].di /\ n.to = call[p].to
        /\ Locks(n) = Locks(call[p]) /\ Target(n) = Target(call[p])
  <2>1. call[p] \in SwitchCall /\ Goto(p, pc)
    BY <1>1, <1>2
  <2> QED
    BY <2>1, SwitchGoes
<1>4. n.pc = "register" /\ n.d = c.d /\ n.s = c.s /\ n.di = c.di /\ c.pc = "unregister"
  BY <1>1, <1>2, <1>3 DEF SwitchUnregister, At
<1>5. /\ c.d \in Dir /\ c.s \in Dir /\ c.s # c.d /\ Made(c.s) /\ LinksOk(c.s) /\ Switching(c)
      /\ Mine(p, c.d) /\ (c.di.parent \in Dir \/ c.di.parent = NoDir)
  BY <1>1, SwitchKnown
<1>5a. NoDir \notin Dir
  BY VolumeAssumption
<1>6. UNCHANGED <<dd, tmp, layout, files, lock, next, writes, want>>
  BY DEF SwitchUnregister
<1>7. Continues(c.d, c.s) /\ LinkedBy(c.d, {c.di.parent})
  BY <1>4, <1>5 DEF Switching
<1>8. kids' \in [Dir -> SUBSET Dir]
      /\ \A y \in Dir : kids'[y] = IF y = c.di.parent THEN kids[y] \ {c.d} ELSE kids[y]
  BY <1>1, <1>5a DEF SwitchUnregister, Inv, Types
<1>9. \A x \in Dir : Mine(p, x) \/ \A y \in Dir : x \in kids'[y] <=> x \in kids[y]
  BY <1>5, <1>8
<1>10. \A y \in Dir : kids'[y] # {} => y \in layout
  BY <1>8 DEF Inv, Dirs
<1>11. Switching(n)'
  <2>1. LinkedBy(c.d, {})'
    BY <1>7, <1>8 DEF LinkedBy
  <2>2. LinksOk(c.s)' /\ Made(c.s)' /\ Continues(c.d, c.s)'
    BY <1>5, <1>6, <1>7, <1>8 DEF LinksOk, Continues, Made
  <2> QED
    BY <1>4, <1>5, <2>1, <2>2 DEF Switching
<1>12. Working(p)' /\ Childless(p)'
  BY <1>3, <1>4, <1>11, SwitchCallIs DEF Working, Childless
<1> QED
  BY <1>3, <1>6, <1>8, <1>9, <1>10, <1>12, Relinks

LEMMA SwitchRegisterInv ==
  ASSUME Inv, NEW p \in Proc, SwitchRegister(p)
  PROVE  Inv'
<1>1. PICK c \in SwitchCall : c = call[p]
  BY CallKind, SwitchWaitIs DEF Inv, SwitchRegister, At
<1>2. PICK pc \in {"volume", "unregister", "register", "old delta"} :
        Goto(p, pc) /\ pc = "old delta"
  BY DEF SwitchRegister
<1>3. PICK n \in SwitchCall :
        /\ call' = [call EXCEPT ![p] = n] /\ call'[p] = n
        /\ call' \in [Proc -> Call] /\ n \in Call
        /\ n.pc = pc /\ n.d = call[p].d
        /\ n.s = call[p].s /\ n.di = call[p].di /\ n.to = call[p].to
        /\ Locks(n) = Locks(call[p]) /\ Target(n) = Target(call[p])
  <2>1. call[p] \in SwitchCall /\ Goto(p, pc)
    BY <1>1, <1>2
  <2> QED
    BY <2>1, SwitchGoes
<1>4. n.pc = "old delta" /\ n.d = c.d /\ n.s = c.s /\ n.di = c.di /\ c.pc = "register"
  BY <1>1, <1>2, <1>3 DEF SwitchRegister, At
<1>5. /\ c.d \in Dir /\ c.s \in Dir /\ c.s # c.d /\ Made(c.s) /\ LinksOk(c.s) /\ Switching(c)
      /\ Mine(p, c.d) /\ c.s \in layout
  BY <1>1, SwitchKnown
<1>6. UNCHANGED <<dd, tmp, layout, files, lock, next, writes, want>>
  BY DEF SwitchRegister
<1>7. Continues(c.d, c.s) /\ LinkedBy(c.d, {})
  BY <1>4, <1>5 DEF Switching
<1>8. kids' \in [Dir -> SUBSET Dir]
      /\ \A y \in Dir : kids'[y] = IF y = c.s THEN kids[y] \cup {c.d} ELSE kids[y]
  BY <1>1, <1>5 DEF SwitchRegister, Inv, Types
<1>9. \A x \in Dir : Mine(p, x) \/ \A y \in Dir : x \in kids'[y] <=> x \in kids[y]
  BY <1>5, <1>8
<1>10. \A y \in Dir : kids'[y] # {} => y \in layout
  BY <1>5, <1>8 DEF Inv, Dirs
<1>11. Switching(n)'
  <2>1. LinkedBy(c.d, {c.s})'
    BY <1>7, <1>8 DEF LinkedBy
  <2>2. LinksOk(c.s)' /\ Made(c.s)' /\ Continues(c.d, c.s)'
    <3>1. \A y \in Dir : c.s \in kids'[y] <=> c.s \in kids[y]
      BY <1>5, <1>8
    <3> QED
      BY <1>5, <1>6, <1>7, <3>1 DEF LinksOk, Continues, Made
  <2> QED
    BY <1>4, <1>5, <2>1, <2>2 DEF Switching
<1>12. Working(p)' /\ Childless(p)'
  BY <1>3, <1>4, <1>11, SwitchCallIs DEF Working, Childless
<1> QED
  BY <1>3, <1>6, <1>8, <1>9, <1>10, <1>12, Relinks

LEMMA SwitchOldDeltaInv ==
  ASSUME Inv, NEW p \in Proc, SwitchOldDelta(p)
  PROVE  Inv'
<1>1. PICK c \in SwitchCall : c = call[p]
  BY CallKind, SwitchWaitIs DEF Inv, SwitchOldDelta, At
<1>2. c.pc = "old delta"
  BY <1>1 DEF SwitchOldDelta, At
<1>3. /\ c.d \in Dir /\ LinksOk(c.s) /\ Switching(c)
      /\ \A x \in Dir : Mine(p, x) => x \in {c.d, c.s}
  BY <1>1, SwitchKnown
<1>4. LinksOk(c.d)
  <2>1. Continues(c.d, c.s) /\ LinkedBy(c.d, {c.s})
    BY <1>2, <1>3 DEF Switching
  <2> QED
    BY <1>3, <2>1, LinkedOk
<1>5. \A f \in DOMAIN files' : files'[f] \subseteq Written
  BY DropTyped DEF SwitchOldDelta, Inv
<1>6. \A x \in Dir : Mine(p, x) => LinksOk(x)
  BY <1>3, <1>4
<1>7. UNCHANGED <<dd, tmp, layout, kids, want, next, writes>> /\ Return(p)
  BY DEF SwitchOldDelta
<1> QED
  BY <1>5, <1>6, <1>7, Quits

-----------------------------------------------------------------------------
(* Devices.                                                                 *)

\* A step of no call.
LEMMA Outside ==
  ASSUME Inv, UNCHANGED <<dd, tmp, layout, kids, lock, call>>, Types',
         \A d \in Dir : Made(d)' <=> Made(d)
  PROVE  Inv'
<1>1. \A d \in Dir : Same(d)
  BY DEF Same, Made
<1>2. Quiet
  BY DEF Quiet, Continues
<1>3. Parents' /\ \A y \in Dir : Kids(y)' = Kids(y)
  BY <1>2, QuietKids
<1>4. ASSUME NEW q \in Proc PROVE Working(q)'
  BY <1>1, WorkingFrame
<1>5. ASSUME NEW q \in Proc PROVE Childless(q)'
  <2>1. Childless(q) /\ call[q] \in Call
    BY DEF Inv, Types
  <2>2. call[q].op \in {"delete", "switch"} => call[q].d \in Dir
    BY <2>1, CloneCallIs, SnapshotCallIs, DeleteCallIs, DeleteChoiceIs, DeleteChildIs,
       SwitchWaitIs, SwitchCallIs, IdleIs DEF Call
  <2> QED
    BY <1>3, <2>1, <2>2 DEF Childless
<1>6. Holding' /\ Targets'
  BY DEF Inv, Holding, Targets
<1>7. Dirs'
  BY DEF Inv, Dirs
<1>8. Free'
  BY DEF Inv, Free, LinksOk, Continues
<1> QED
  BY <1>3, <1>4, <1>5, <1>6, <1>7, <1>8 DEF Inv

LEMMA MountInv ==
  ASSUME Inv, NEW d \in Dir, Mount(d) \/ Umount(d)
  PROVE  Inv'
<1>1. UNCHANGED <<dd, tmp, layout, kids, files, lock, call, next, writes, want>>
  BY DEF Mount, Umount, disk
<1> QED
  BY <1>1, Outside DEF Inv, Types, Made

LEMMA WriteInv ==
  ASSUME Inv, NEW d \in Dir, Write(d)
  PROVE  Inv'
<1>1. UNCHANGED <<dd, tmp, layout, kids, lock, call, next>>
  BY DEF Write
<1>2. Types
  BY DEF Inv
<1>3. writes \in Written /\ writes' \in Nat
  BY <1>2, VolumeAssumption DEF Types, Write, Written
<1>4. \A f \in DOMAIN files' : files'[f] \subseteq Written
  BY <1>2, <1>3 DEF Types, Write
<1>5. want' \in [Dir -> (SUBSET Written) \cup {None}] /\ \A x \in Dir : Made(x)' <=> Made(x)
  <2> DEFINE w == IF want[d] = None THEN None ELSE want[d] \cup {writes}
  <2>1. want' = [want EXCEPT ![d] = w]
    BY <1>2 DEF Types, Write
  <2>2. w \in (SUBSET Written) \cup {None} /\ (w = None <=> want[d] = None)
    <3>1. CASE want[d] = None
      BY <3>1
    <3>2. CASE want[d] # None
      <4>1. w \in SUBSET Written
        BY <1>2, <1>3, <3>2 DEF Types
      <4>2. w # None
        BY <4>1, NoneAssumption DEF Written
      <4> QED
        BY <3>2, <4>1, <4>2
    <3> QED
      BY <3>1, <3>2
  <2> HIDE DEF w
  <2> QED
    BY <1>2, <2>1, <2>2 DEF Types, Made
<1>6. Types'
  BY <1>1, <1>2, <1>3, <1>4, <1>5 DEF Types
<1> QED
  BY <1>1, <1>5, <1>6, Outside

-----------------------------------------------------------------------------
(* The invariant, and what follows from it.                                 *)

LEMMA InitInv == Init => Inv
<1> SUFFICES ASSUME Init PROVE Inv
  OBVIOUS
<1>1. /\ \A p \in Proc : call[p] = Idle /\ Locks(call[p]) = {} /\ Target(call[p]) = {}
      /\ \A d \in Dir : dd[d] = None /\ kids[d] = {} /\ lock[d] = None /\ want[d] = None
  BY IdleIs DEF Init
<1>2. Types
  <2>1. \A f \in DOMAIN files : files[f] \subseteq Written
    BY DEF Init
  <2>2. call \in [Proc -> Call]
    BY DEF Init, Call
  <2> QED
    BY <2>1, <2>2 DEF Init, Types
<1>3. Holding /\ Targets
  BY <1>1, NoneAssumption DEF Holding, Targets
<1>4. Dirs /\ Free /\ Parents
  BY <1>1 DEF Dirs, Free, LinksOk, Continues, Parents, Kids, Made
<1>5. ASSUME NEW p \in Proc PROVE Working(p) /\ Childless(p)
  BY <1>1, IdleIs DEF Working, Childless
<1> QED
  BY <1>2, <1>3, <1>4, <1>5 DEF Inv

\* What is known to do damage stays known.
LEMMA WindowsStay ==
  ASSUME Next, windows' = {}
  PROVE  windows = {}
<1>1. ASSUME NEW p \in Proc, NEW rec, NEW cs, Begin(p, rec, cs) PROVE windows = {}
  BY <1>1 DEF Begin
<1>2. ASSUME NEW p \in Proc, NEW d \in Dir, ploop_volume_create(p, d) \/ DeleteBegin(p, d)
      PROVE  windows = {}
  BY <1>1, <1>2 DEF ploop_volume_create, DeleteBegin
<1>3. ASSUME NEW p \in Proc, NEW s \in Dir, NEW d \in Dir,
             CloneBegin(p, s, d) \/ SnapshotBegin(p, s, d) \/ SwitchBegin(p, s, d)
      PROVE  windows = {}
  BY <1>1, <1>3 DEF CloneBegin, SnapshotBegin, SwitchBegin
<1>4. ASSUME NEW p \in Proc,
             \/ CloneVolume(p) \/ CloneSnapshot(p) \/ CloneLink(p) \/ CloneFails(p)
             \/ SnapshotLink(p) \/ SnapshotCreate(p) \/ create_snapshot_dd(p) \/ update_child_dd(p)
             \/ SnapshotRegister(p) \/ SnapshotUnregister(p) \/ SnapshotRename(p)
             \/ SnapshotFails(p) \/ Undo(p) \/ SnapshotUnlink(p) \/ UndoDestroy(p)
      PROVE  windows = {}
  BY <1>4 DEF CloneVolume, CloneSnapshot, CloneLink, CloneFails, SnapshotLink, SnapshotCreate,
     create_snapshot_dd, update_child_dd, SnapshotRegister, SnapshotUnregister, SnapshotRename,
     SnapshotFails, Undo, SnapshotUnlink, UndoDestroy
<1>5. ASSUME NEW p \in Proc,
             \/ DeleteParent(p) \/ get_first_sibling(p) \/ DeleteImages(p) \/ DeleteLockChild(p)
             \/ DeleteMerge(p) \/ DeleteUnlinkChild(p) \/ DeleteUnregister(p) \/ DeleteRegister(p)
             \/ DeleteDestroy(p)
      PROVE  windows = {}
  BY <1>5 DEF DeleteParent, get_first_sibling, DeleteImages, DeleteLockChild, DeleteMerge,
     DeleteUnlinkChild, DeleteUnregister, DeleteRegister, DeleteDestroy
<1>6. ASSUME NEW p \in Proc,
             \/ SwitchLock(p) \/ SwitchVolume(p) \/ SwitchUnregister(p) \/ SwitchRegister(p)
             \/ SwitchOldDelta(p) \/ LinkLost(p) \/ Kill(p)
      PROVE  windows = {}
  BY <1>6 DEF SwitchLock, SwitchVolume, SwitchUnregister, SwitchRegister, SwitchOldDelta,
     LinkLost, Kill
<1>7. ASSUME NEW d \in Dir, Mount(d) \/ Umount(d) \/ Write(d) PROVE windows = {}
  BY <1>7 DEF Mount, Umount, Write
<1> QED
  BY <1>2, <1>3, <1>4, <1>5, <1>6, <1>7 DEF Next

LEMMA NextInv ==
  ASSUME Inv, Next, windows = {}, windows' = {}
  PROVE  Inv'
<1>1. ASSUME NEW p \in Proc, NEW d \in Dir, ploop_volume_create(p, d) \/ DeleteBegin(p, d)
      PROVE  Inv'
  BY <1>1, VolumeCreateInv, DeleteBeginInv
<1>2. ASSUME NEW p \in Proc, NEW s \in Dir, NEW d \in Dir,
             CloneBegin(p, s, d) \/ SnapshotBegin(p, s, d) \/ SwitchBegin(p, s, d)
      PROVE  Inv'
  BY <1>2, CloneBeginInv, SnapshotBeginInv, SwitchBeginInv
<1>3. ASSUME NEW p \in Proc,
             CloneVolume(p) \/ CloneSnapshot(p) \/ CloneLink(p) \/ CloneFails(p)
      PROVE  Inv'
  BY <1>3, CloneVolumeInv, CloneSnapshotInv, CloneLinkInv, CloneFailsInv
<1>4. ASSUME NEW p \in Proc,
             \/ SnapshotLink(p) \/ SnapshotCreate(p) \/ create_snapshot_dd(p) \/ update_child_dd(p)
             \/ SnapshotRegister(p) \/ SnapshotUnregister(p) \/ SnapshotRename(p)
             \/ SnapshotFails(p)
      PROVE  Inv'
  BY <1>4, SnapshotLinkInv, SnapshotCreateInv, CreateSnapshotDdInv, UpdateChildInv,
     SnapshotRegisterInv, SnapshotUnregisterInv, SnapshotRenameInv, SnapshotFailsInv
<1>5. ASSUME NEW p \in Proc, Undo(p) \/ SnapshotUnlink(p) \/ UndoDestroy(p)
      PROVE  Inv'
  <2>1. Undo(p) => call[p].op = "clone" \/ call[p].op = "snapshot"
    BY DEF Undo
  <2> QED
    BY <1>5, <2>1, UndoCloneInv, UndoSnapshotInv, SnapshotUnlinkInv, UndoDestroyInv
<1>6. ASSUME NEW p \in Proc,
             \/ DeleteParent(p) \/ get_first_sibling(p) \/ DeleteImages(p) \/ DeleteLockChild(p)
             \/ DeleteMerge(p) \/ DeleteUnlinkChild(p) \/ DeleteUnregister(p) \/ DeleteRegister(p)
             \/ DeleteDestroy(p)
      PROVE  Inv'
  <2>1. DeleteUnregister(p) => call[p] \in DeleteCall \/ call[p] \in DeleteChild
    BY CallKind, DeleteChoiceIs DEF DeleteUnregister, At, Inv
  <2> QED
    BY <1>6, <2>1, DeleteParentInv, SiblingInv, DeleteImagesInv, DeleteLockChildInv,
       DeleteMergeInv, DeleteUnlinkChildInv, UnregisterWholeInv, UnregisterMergedInv,
       DeleteRegisterInv, DeleteDestroyInv
<1>7. ASSUME NEW p \in Proc,
             \/ SwitchLock(p) \/ SwitchVolume(p) \/ SwitchUnregister(p) \/ SwitchRegister(p)
             \/ SwitchOldDelta(p)
      PROVE  Inv'
  BY <1>7, SwitchLockInv, SwitchVolumeInv, SwitchUnregisterInv, SwitchRegisterInv,
     SwitchOldDeltaInv
<1>8. ASSUME NEW p \in Proc, LinkLost(p) \/ Kill(p) PROVE Inv'
  <2>1. windows' = windows \cup {"killed"} \/ windows' = windows \cup {"link lost"}
    BY <1>8 DEF LinkLost, Kill
  <2> QED
    BY <2>1
<1>9. ASSUME NEW d \in Dir, Mount(d) \/ Umount(d) \/ Write(d) PROVE Inv'
  BY <1>9, MountInv, WriteInv
<1> QED
  BY <1>1, <1>2, <1>3, <1>4, <1>5, <1>6, <1>7, <1>8, <1>9 DEF Next

\* A step that changes nothing.
LEMMA StutterInv == ASSUME Inv, UNCHANGED vars PROVE Inv'
<1>1. UNCHANGED <<dd, tmp, layout, kids, files, lock, call, next, writes, want>>
  BY DEF vars
<1> QED
  BY <1>1, Outside DEF Inv, Types, Made

\* As long as nothing happened that is known to do damage: at every step of
\* every call the locks, descriptors and links are what the steps of the calls
\* in progress say, and elsewhere the links agree with the descriptors.
THEOREM Invariant == Spec => []IInv
<1>1. Init => IInv
  BY InitInv DEF IInv
<1>2. IInv /\ [Next]_vars => IInv'
  <2> SUFFICES ASSUME IInv, [Next]_vars, windows' = {} PROVE Inv'
    BY DEF IInv
  <2>1. CASE Next
    BY <2>1, WindowsStay, NextInv DEF IInv
  <2>2. CASE UNCHANGED vars
    BY <2>2, StutterInv DEF IInv, vars
  <2> QED
    BY <2>1, <2>2
<1> QED
  BY <1>1, <1>2, PTL DEF Spec

\* Between calls a volume links exactly the volumes whose descriptors continue
\* in it: whatever clone, snapshot, delete and switch do at the same time, and
\* whichever of their steps fail, no volume is linked by two or by none.
THEOREM LinksConsistent == Spec => []LinksAgree
<1>1. IInv => LinksAgree
  <2> SUFFICES ASSUME IInv, windows = {}, \A p \in Proc : call[p] = Idle,
                      NEW c \in Dir, NEW d \in Dir
               PROVE  c \in kids[d] <=> (dd[c] # None /\ dd[c].parent = d)
    BY DEF LinksAgree
  <2>1. Inv
    BY DEF IInv
  <2>2. \A p \in Proc : Locks(call[p]) = {} /\ Target(call[p]) = {}
    BY IdleIs
  <2>3. lock[c] = None
    BY <2>1, <2>2 DEF Inv, Types, Holding
  <2>4. LinksOk(c)
    BY <2>1, <2>2, <2>3 DEF Inv, Free
  <2> QED
    BY <2>4 DEF LinksOk, Continues
<1> QED
  BY <1>1, Invariant, PTL

\* A volume that was made continues in a volume that was made, at every step
\* of any call: no delete, switch or failed snapshot takes away a directory
\* that the images of another volume continue in.
ParentsKept ==
  windows = {} => \A d \in Dir : want[d] # None /\ dd[d].parent # NoDir =>
                    want[dd[d].parent] # None /\ dd[dd[d].parent] # None

THEOREM ParentsStay == Spec => []ParentsKept
<1>1. IInv => ParentsKept
  <2> SUFFICES ASSUME IInv, windows = {}, NEW d \in Dir, want[d] # None, dd[d].parent # NoDir
               PROVE  want[dd[d].parent] # None /\ dd[dd[d].parent] # None
    BY DEF ParentsKept
  <2>1. Types /\ Dirs /\ Parents
    BY DEF IInv, Inv
  <2>2. dd[d] # None
    BY <2>1 DEF Dirs, Made
  <2>3. dd[d].parent \in Dir
    BY <2>1, <2>2, ParentIs DEF Types
  <2>4. d \in Kids(dd[d].parent)
    BY <2>2 DEF Kids, Made, Continues
  <2> QED
    BY <2>1, <2>3, <2>4 DEF Parents, Dirs, Made
<1> QED
  BY <1>1, Invariant, PTL

-----------------------------------------------------------------------------
(* Which images a volume owns, and what each call knows of them.            *)

Live(d) == dd[d] # None
Owns(di, v) == \E e \in di.own : e.guid = v

\* A descriptor whose images have uuids and files of their own.  The top is
\* listed; every other image has another of the same volume on top of it.
Solid(di) ==
  /\ \A e, f \in di.own : e.guid = f.guid \/ e.file = f.file => e = f
  /\ Owns(di, di.top)
  /\ \A e \in di.own : e.guid # di.top => \E f \in di.own : f.parent = e.guid
  /\ Owns(di, TOPDELTA_UUID) => di.top = TOPDELTA_UUID /\ di.ro = FALSE
Used(di) ==
  /\ \A e \in di.own : e.guid < next /\ e.file < next
  /\ di.snap < next /\ di.top < next
Stored == next >= 1 /\ \A d \in Dir : Live(d) => Solid(dd[d]) /\ Used(dd[d])

\* A volume with the uuid every first top image gets has no parent, or one
\* snapshot without a parent: no two images of a chain have it.
FirstTop(d) ==
  Owns(dd[d], TOPDELTA_UUID) /\ dd[d].parent # NoDir =>
    dd[dd[d].parent].ro /\ dd[dd[d].parent].parent = NoDir
FirstTops == \A d \in Dir : Made(d) => FirstTop(d)

\* The volume that is being snapshotted and its snapshot; a volume that is
\* being deleted and the child that took its image.
Twin(x, y) ==
  \E p \in Proc : /\ call[p] \in SnapshotCall
                  /\ \/ x = call[p].d /\ y = call[p].s
                     \/ x = call[p].s /\ y = call[p].d
Heir(x, y) ==
  \E p \in Proc : /\ call[p] \in DeleteChild /\ call[p].pc # "merge"
                  /\ \/ x = call[p].d /\ y = call[p].c
                     \/ x = call[p].c /\ y = call[p].d

NamesApart(a, b) == \A e \in a.own, f \in b.own : e.guid = f.guid => e.guid = TOPDELTA_UUID
FilesApart(a, b) == \A e \in a.own, f \in b.own : e.file # f.file
Distinct ==
  \A x, y \in Dir : x # y /\ Live(x) /\ Live(y) /\ ~ Twin(x, y) =>
    /\ NamesApart(dd[x], dd[y])
    /\ ~ Heir(x, y) => FilesApart(dd[x], dd[y])

\* The image x continues in is one of its parent's; or one of a snapshot
\* further down the chain, where another image continues in it as well, so that
\* no merge on behalf of x takes it away.  Ranks order the volumes of a chain.
Forked(z, x) == dd[z].ro /\ \E f \in dd[z].own : f.parent = dd[x].snap
Rests(r, x) ==
  /\ dd[x].snap >= 1
  /\ r[dd[x].parent] < r[x]
  /\ dd[dd[x].parent].ro = FALSE => dd[x].snap # dd[dd[x].parent].top
  /\ \A z \in Dir : Live(z) => \A q \in dd[z].own : q.guid = dd[x].snap =>
       z = dd[x].parent \/ ((Made(z) => r[z] < r[x]) /\ Forked(z, x))
Ranked(r) == \A x \in Dir : Made(x) /\ dd[x].parent # NoDir => Rests(r, x)
Ranks == [Dir -> Int]
Chains == \E r \in Ranks : Ranked(r)

\* What a call read is still there.
Reads(d, di) ==
  /\ dd[d].own = di.own /\ dd[d].top = di.top /\ dd[d].parent = di.parent
  /\ dd[d].snap = di.snap /\ dd[d].ro = di.ro

\* The uuid a call chose for a snapshot is nobody else's; before the source
\* has the snapshot, and after that.
Naming(c) == c \in SnapshotCall \/ (c \in CloneCall /\ c.di.ro = FALSE)
Names == \A p, q \in Proc : Naming(call[p]) /\ Naming(call[q]) /\ p # q => call[p].g # call[q].g
Where(c) == {c.s} \cup (IF c \in SnapshotCall THEN {c.d} ELSE {})
New(c) ==
  /\ c.g >= 1 /\ c.g < next
  /\ \A y \in Dir : Live(y) /\ Owns(dd[y], c.g) => y \in Where(c)
  /\ \A x \in Dir : Made(x) => dd[x].snap # c.g
Plain(c) ==
  /\ ~ Owns(dd[c.s], c.g)
  /\ \A e \in c.di.far : e.guid # c.g /\ e.guid # c.di.top
Topped(c) ==
  /\ c.di.top # c.g /\ Owns(c.di, c.g)
  /\ c.di.parent # NoDir => c.di.top # TOPDELTA_UUID
  /\ \A e \in c.di.far : e.guid # c.g
  /\ \A t \in c.di.own : t.guid = c.di.top => t.parent = c.g

CloneFact(c) ==
  /\ c.pc # "destroy" => Reads(c.s, c.di)
  /\ c.di.ro \in BOOLEAN
  /\ c.di.ro => c.g = c.di.top /\ c.pc \notin {"snapshot", "undo"}
  /\ c.di.ro = FALSE => New(c)
  /\ c.di.ro = FALSE /\ c.pc \in {"volume", "snapshot"} => Plain(c)
  /\ c.di.ro = FALSE /\ c.pc \in {"link", "undo"} => Topped(c)
  /\ c.pc \in {"snapshot", "link"} =>
       dd[c.d].snap = c.g /\ dd[c.d].ro = FALSE /\ ~ Owns(dd[c.d], TOPDELTA_UUID)

\* The descriptor of the snapshot, and the one the source gets.
IsSnapshot(di, c) ==
  /\ di.own = {e \in c.di.own : e.guid # c.di.top}
  /\ di.top = c.g /\ di.ro = TRUE /\ di.snap = c.di.snap
IsChild(di, c) ==
  /\ di.own = {e \in c.di.own : e.guid = c.di.top}
  /\ di.top = c.di.top /\ di.snap = c.g /\ di.ro = FALSE

\* How far a snapshot is: not given up; before the source has a new top image,
\* and before the snapshot has a descriptor; with it, and with that of the source.
Active(pc) == pc \notin {"unlink", "destroy"}
Waiting(pc) == pc \in {"link", "snapshot"}
Early(pc) == pc \in {"link", "snapshot", "snap dd"}
Filled(pc) == pc \in {"child dd", "register", "unregister", "rename"}
Ready(pc) == pc \in {"register", "unregister", "rename"}

SnapshotFact(c) ==
  /\ c.di.ro = FALSE /\ New(c)
  /\ Active(c.pc) => Reads(c.s, c.di)
  /\ Waiting(c.pc) => Plain(c)
  /\ Active(c.pc) /\ ~ Waiting(c.pc) => Topped(c)
  /\ Early(c.pc) => ~ Live(c.d)
  /\ Filled(c.pc) => IsSnapshot(dd[c.d], c)
  /\ Ready(c.pc) => IsChild(tmp[c.s], c)

\* A merge on behalf of a child takes an image of the deleted volume only.
Inherits(c) ==
  \A e \in c.child.own :
    Has(c.child, c.child.snap) /\ Children(c.child, c.child.snap) = {e} =>
      Entry(c.child, c.child.snap) \in c.di.own
Standing(pc) == pc \in {"parent", "children", "images", "lock child", "merge"}
DeleteFact(c) == Standing(c.pc) => Reads(c.d, c.di)
MergeFact(c) == c.pc = "merge" => Reads(c.c, c.child) /\ Inherits(c)
SwitchFact(c) == c.pc = "volume" => Reads(c.s, c.to)

Fact(p) ==
  /\ call[p] \in CloneCall => CloneFact(call[p])
  /\ call[p] \in SnapshotCall => SnapshotFact(call[p])
  /\ call[p] \in DeleteCall \cup DeleteChoice \cup DeleteChild => DeleteFact(call[p])
  /\ call[p] \in DeleteChild => MergeFact(call[p])
  /\ call[p] \in SwitchCall => SwitchFact(call[p])

Owned ==
  /\ Stored /\ FirstTops /\ Distinct /\ Chains /\ Names
  /\ \A p \in Proc : Fact(p)

-----------------------------------------------------------------------------
(* What a step of one call leaves to the others. *)

\* A uuid that no other call chose for a snapshot.
Given(p, v) ==
  \/ v <= 0 \/ v >= next
  \/ Naming(call[p]) /\ v = call[p].g
  \/ \E z \in Dir : lock[z] = p /\ Live(z) /\ Owns(dd[z], v)
GuidsFrom(p) ==
  \A y \in Dir : dd'[y] # None => \A e \in dd'[y].own :
    Given(p, e.guid) \/ (Live(y) /\ Owns(dd[y], e.guid))
SnapsFrom(p) ==
  \A x \in Dir : want'[x] # None =>
    Given(p, dd'[x].snap) \/ \E z \in Dir : Made(z) /\ dd[z].snap = dd'[x].snap

LEMMA NamingIs ==
  ASSUME Inv, NEW q \in Proc, Naming(call[q])
  PROVE  /\ call[q].g \in Nat /\ call[q].s \in Dir /\ call[q].d \in Dir
         /\ lock[call[q].s] = q /\ lock[call[q].d] = None
         /\ \A y \in Where(call[q]) : y = call[q].s \/ y = call[q].d
<1> DEFINE c == call[q]
<1>1. c \in CloneCall \/ c \in SnapshotCall
  BY DEF Naming
<1>2. c.g \in Nat /\ c.s \in Dir /\ c.d \in Dir /\ c.s \in Locks(c) /\ c.d \in Target(c)
  BY <1>1, CloneCallIs, SnapshotCallIs DEF CloneCall, SnapshotCall
<1>3. lock[c.s] = q /\ lock[c.d] = None
  BY <1>2 DEF Inv, Holding, Targets
<1> QED
  BY <1>2, <1>3 DEF Where

LEMMA NamingNew ==
  ASSUME Owned, NEW q \in Proc, Naming(call[q])
  PROVE  New(call[q])
BY DEF Owned, Fact, Naming, CloneFact, SnapshotFact

LEMMA NewStays ==
  ASSUME Inv, Owned, NEW p \in Proc, NEW q \in Proc, p # q, Naming(call[q]), call'[q] = call[q],
         next' \in Nat, next' >= next, GuidsFrom(p), SnapsFrom(p)
  PROVE  New(call[q])'
<1> DEFINE c == call[q]
<1>1. /\ c.g \in Nat /\ c.s \in Dir /\ c.d \in Dir /\ lock[c.s] = q /\ lock[c.d] = None
      /\ \A y \in Where(c) : y = c.s \/ y = c.d
  BY NamingIs
<1>2. New(c) /\ next \in Nat
  BY NamingNew DEF Inv, Types
<1>3. ~ Given(p, c.g)
  <2>1. \A z \in Dir : lock[z] = p => z \notin Where(c)
    BY <1>1, NoneAssumption
  <2>2. ~ (Naming(call[p]) /\ c.g = call[p].g)
    BY DEF Owned, Names
  <2> QED
    BY <1>1, <1>2, <2>1, <2>2 DEF Given, New
<1>4. call'[q] = c
  OBVIOUS
<1>5. \A y \in Dir : Live(y)' /\ Owns(dd[y], c.g)' => y \in Where(c)
  <2> SUFFICES ASSUME NEW y \in Dir, dd'[y] # None, Owns(dd'[y], c.g) PROVE y \in Where(c)
    BY DEF Live, Owns
  <2>1. Live(y) /\ Owns(dd[y], c.g)
    BY <1>3 DEF GuidsFrom, Owns
  <2> QED
    BY <1>2, <2>1 DEF New
<1>6. \A x \in Dir : want'[x] # None => dd'[x].snap # c.g
  BY <1>2, <1>3 DEF SnapsFrom, New
<1>7. c.g < next'
  BY <1>1, <1>2 DEF New
<1>8. Where(c)' = Where(c)
  BY DEF Where
<1> QED
  BY <1>2, <1>4, <1>5, <1>6, <1>7, <1>8 DEF New, Made

LEMMA FactStays ==
  ASSUME Inv, Owned, NEW q \in Proc, call'[q] = call[q],
         \A d \in Dir : Mine(q, d) => dd'[d] = dd[d] /\ tmp'[d] = tmp[d],
         Naming(call[q]) => New(call[q])'
  PROVE  Fact(q)'
<1> PICK c \in Call : c = call[q]
  BY DEF Inv, Types
<1>0. Fact(q) /\ call[q] = c /\ call'[q] = c
  BY DEF Owned
<1>1. CASE c \in CloneCall
  <2>1. c.d \in Dir /\ c.s \in Dir /\ Mine(q, c.d) /\ Mine(q, c.s)
    BY <1>0, <1>1, CloneCallIs DEF Mine
  <2>2. dd'[c.d] = dd[c.d] /\ dd'[c.s] = dd[c.s]
    BY <2>1
  <2>3. CloneFact(c) /\ (c.di.ro = FALSE => New(c)')
    BY <1>0, <1>1 DEF Fact, Naming
  <2>4. CloneFact(c)'
    BY <2>2, <2>3 DEF CloneFact, Reads, Plain, Topped, Owns
  <2> QED
    BY <1>0, <1>1, <2>4, CloneCallIs DEF Fact
<1>2. CASE c \in SnapshotCall
  <2>1. c.d \in Dir /\ c.s \in Dir /\ Mine(q, c.d) /\ Mine(q, c.s)
    BY <1>0, <1>2, SnapshotCallIs DEF Mine
  <2>2. dd'[c.d] = dd[c.d] /\ dd'[c.s] = dd[c.s] /\ tmp'[c.s] = tmp[c.s]
    BY <2>1
  <2>3. SnapshotFact(c) /\ New(c)'
    BY <1>0, <1>2 DEF Fact, Naming
  <2>4. SnapshotFact(c)'
    BY <2>2, <2>3 DEF SnapshotFact, Reads, Plain, Topped, Owns, Live
  <2> QED
    BY <1>0, <1>2, <2>4, SnapshotCallIs DEF Fact
<1>3. CASE c \in DeleteCall \cup DeleteChoice \cup DeleteChild
  <2>1. c.d \in Dir /\ Mine(q, c.d)
    BY <1>0, <1>3, DeleteCallIs, DeleteChoiceIs, DeleteChildIs DEF Mine
  <2>2. DeleteFact(c)'
    BY <1>0, <1>3, <2>1 DEF Fact, DeleteFact, Reads
  <2>3. c \in DeleteChild => MergeFact(c)'
    <3> SUFFICES ASSUME c \in DeleteChild PROVE MergeFact(c)'
      OBVIOUS
    <3>1. c.c \in Dir /\ Mine(q, c.c)
      BY <1>0, DeleteChildIs DEF Mine
    <3>2. dd'[c.c] = dd[c.c] /\ MergeFact(c)
      BY <1>0, <3>1 DEF Fact
    <3>3. Inherits(c)' <=> Inherits(c)
      BY DEF Inherits, Has, Children, Images, Entry
    <3> QED
      BY <3>2, <3>3 DEF MergeFact, Reads
  <2> QED
    BY <1>0, <1>3, <2>2, <2>3, DeleteCallIs, DeleteChoiceIs, DeleteChildIs DEF Fact
<1>4. CASE c \in SwitchCall
  <2>1. c.s \in Dir /\ Mine(q, c.s)
    BY <1>0, <1>4, SwitchCallIs DEF Mine
  <2>2. SwitchFact(c)'
    BY <1>0, <1>4, <2>1 DEF Fact, SwitchFact, Reads
  <2> QED
    BY <1>0, <1>4, <2>2, SwitchCallIs DEF Fact
<1>5. CASE c \in SwitchWait \/ c = Idle
  BY <1>0, <1>5, SwitchWaitIs, IdleIs DEF Fact
<1> QED
  BY <1>1, <1>2, <1>3, <1>4, <1>5 DEF Call

\* What a step of p has to show of the descriptors and of its own call.
LEMMA OwnStep ==
  ASSUME Inv, Owned, NEW p \in Proc, \A q \in Proc \ {p} : call'[q] = call[q],
         \A d \in Dir : Mine(p, d) \/ Spare(d) \/ (dd'[d] = dd[d] /\ tmp'[d] = tmp[d]),
         next' \in Nat, next' >= next, GuidsFrom(p), SnapsFrom(p),
         Naming(call'[p]) => \/ Naming(call[p]) /\ call'[p].g = call[p].g
                             \/ call'[p].g >= next,
         Stored', FirstTops', Distinct', Chains', Fact(p)'
  PROVE  Owned'
<1>1. ASSUME NEW q \in Proc \ {p} PROVE Fact(q)'
  <2>1. \A d \in Dir : Mine(q, d) => dd'[d] = dd[d] /\ tmp'[d] = tmp[d]
    BY Apart
  <2>2. Naming(call[q]) => New(call[q])'
    BY NewStays
  <2> QED
    BY <2>1, <2>2, FactStays
<1>2. Names'
  <2> SUFFICES ASSUME NEW a \in Proc, NEW b \in Proc, a # b, Naming(call'[a]), Naming(call'[b])
               PROVE  call'[a].g # call'[b].g
    BY DEF Names, Naming
  <2>1. \A q \in Proc \ {p} : Naming(call'[q]) =>
          Naming(call[q]) /\ call'[q].g = call[q].g /\ call[q].g \in Nat /\ call[q].g < next
    BY NamingIs, NamingNew DEF New
  <2>2. Naming(call[p]) => call[p].g \in Nat /\ call[p].g < next
    BY NamingIs, NamingNew DEF New
  <2>3. \A q, r \in Proc : Naming(call[q]) /\ Naming(call[r]) /\ q # r => call[q].g # call[r].g
    BY DEF Owned, Names
  <2>4. next \in Nat
    BY DEF Inv, Types
  <2> QED
    BY <2>1, <2>2, <2>3, <2>4
<1> QED
  BY <1>1, <1>2 DEF Owned

\* A volume that was made has a descriptor, and so has what it continues in.
Grounded ==
  \A x \in Dir : Made(x) =>
    /\ Live(x) /\ dd[x] \in Descriptor
    /\ dd[x].parent = NoDir \/ (dd[x].parent \in Dir /\ Made(dd[x].parent))
LEMMA InvGrounded == Inv => Grounded
<1> SUFFICES ASSUME Inv, NEW x \in Dir, Made(x)
             PROVE  /\ Live(x) /\ dd[x] \in Descriptor
                    /\ dd[x].parent = NoDir \/ (dd[x].parent \in Dir /\ Made(dd[x].parent))
  BY DEF Grounded
<1>1. Live(x) /\ dd[x] \in Descriptor
  BY DEF Inv, Dirs, Types, Live
<1>2. dd[x].parent # NoDir => dd[x].parent \in Dir
  BY <1>1, ParentIs
<1>3. dd[x].parent # NoDir => x \in Kids(dd[x].parent)
  BY <1>1 DEF Kids, Continues, Live
<1> QED
  BY <1>1, <1>2, <1>3 DEF Inv, Parents
LEMMA InvGroundedNext == Inv' => Grounded'
BY InvGrounded, PTL

\* No descriptor changes but those that go.
LEMMA OwnKeeps ==
  ASSUME Inv, Inv', Owned, NEW p \in Proc, \A q \in Proc \ {p} : call'[q] = call[q],
         \A d \in Dir : dd'[d] = dd[d] \/ (dd'[d] = None /\ want'[d] = None),
         \A d \in Dir : Mine(p, d) \/ (dd'[d] = dd[d] /\ tmp'[d] = tmp[d]),
         \A d \in Dir : want'[d] # None => want[d] # None,
         next' >= next,
         \A x, y \in Dir : dd'[x] # None /\ dd'[y] # None =>
           (Twin(x, y) => Twin(x, y)') /\ (Heir(x, y) => Heir(x, y)'),
         Naming(call'[p]) => \/ Naming(call[p]) /\ call'[p].g = call[p].g
                             \/ call'[p].g >= next,
         Fact(p)'
  PROVE  Owned'
<1>1. next \in Nat /\ next' \in Nat /\ Grounded /\ Grounded'
  BY InvGrounded, InvGroundedNext DEF Inv, Types
<1>2. \A d \in Dir : dd'[d] # None => dd'[d] = dd[d] /\ Live(d)
  BY DEF Live
<1>3. Stored'
  <2> SUFFICES ASSUME NEW d \in Dir, dd'[d] # None PROVE Solid(dd[d])' /\ Used(dd[d])'
    BY <1>1 DEF Owned, Stored, Live
  <2>1. Solid(dd[d]) /\ Used(dd[d]) /\ dd'[d] = dd[d]
    BY <1>2 DEF Owned, Stored
  <2>2. dd[d] \in Descriptor
    BY <1>2 DEF Inv, Types, Live
  <2>3. \A e \in dd[d].own : e.guid \in Nat /\ e.file \in Nat
    BY <2>2 DEF Descriptor, Image
  <2>4. dd[d].snap \in Int /\ dd[d].top \in Int
    BY <2>2 DEF Descriptor
  <2>5. Used(dd[d])'
    BY <1>1, <2>1, <2>3, <2>4 DEF Used
  <2>6. Solid(dd[d])'
    BY <2>1 DEF Solid, Owns
  <2> QED
    BY <2>5, <2>6
<1>4. ASSUME NEW x \in Dir, want'[x] # None
      PROVE  /\ want[x] # None /\ dd'[x] = dd[x]
             /\ dd[x].parent # NoDir =>
                  /\ dd[x].parent \in Dir /\ want[dd[x].parent] # None
                  /\ dd'[dd[x].parent] = dd[dd[x].parent]
  BY <1>1, <1>4 DEF Grounded, Made, Live
<1>5. FirstTops'
  <2> SUFFICES ASSUME NEW x \in Dir, want'[x] # None PROVE FirstTop(x)'
    BY DEF FirstTops, Made
  <2>1. FirstTop(x)
    BY <1>4 DEF Owned, FirstTops, Made
  <2> QED
    BY <1>4, <2>1 DEF FirstTop, Owns
<1>6. Distinct'
  <2> SUFFICES ASSUME NEW x \in Dir, NEW y \in Dir, x # y, dd'[x] # None, dd'[y] # None,
                      ~ Twin(x, y)'
               PROVE  /\ NamesApart(dd[x], dd[y])
                      /\ ~ Heir(x, y)' => FilesApart(dd[x], dd[y])
    BY <1>2 DEF Distinct, Live, NamesApart, FilesApart
  <2> QED
    BY <1>2 DEF Owned, Distinct
<1>7. Chains'
  <2>1. PICK r \in Ranks : Ranked(r)
    BY DEF Owned, Chains
  <2>2. ASSUME NEW x \in Dir, want'[x] # None, dd'[x].parent # NoDir PROVE Rests(r, x)'
    <3>1. Rests(r, x)
      BY <1>4, <2>1, <2>2 DEF Ranked, Made
    <3>2. dd'[x] = dd[x] /\ dd'[dd[x].parent] = dd[dd[x].parent]
      BY <1>4, <2>2
    <3>3. ASSUME NEW z \in Dir, dd'[z] # None, NEW q \in dd'[z].own, q.guid = dd[x].snap
          PROVE  z = dd[x].parent \/ ((want'[z] # None => r[z] < r[x]) /\ Forked(z, x)')
      <4>1. dd'[z] = dd[z] /\ Live(z)
        BY <1>2, <3>3
      <4>2. z = dd[x].parent \/ ((Made(z) => r[z] < r[x]) /\ Forked(z, x))
        BY <3>1, <3>3, <4>1 DEF Rests
      <4> QED
        BY <3>2, <4>1, <4>2 DEF Forked, Made
    <3> QED
      BY <3>1, <3>2, <3>3 DEF Rests, Live, Made
  <2>3. Ranked(r)'
    BY <2>2 DEF Ranked, Made
  <2> QED
    BY <2>3 DEF Chains, Ranks
<1>8. GuidsFrom(p)
  <2>1. \A y \in Dir : dd'[y] # None => Live(y) /\ \A e \in dd'[y].own : Owns(dd[y], e.guid)
    BY <1>2 DEF Owns
  <2> QED
    BY <2>1 DEF GuidsFrom
<1>9. SnapsFrom(p)
  BY <1>4 DEF SnapsFrom, Made
<1> QED
  BY <1>1, <1>3, <1>5, <1>6, <1>7, <1>8, <1>9, OwnStep

\* The same when the call goes on at n and no descriptor changes.
LEMMA OwnGoes ==
  ASSUME Inv, Inv', Owned, NEW p \in Proc, NEW n, call' = [call EXCEPT ![p] = n],
         dd' = dd, \A d \in Dir : Mine(p, d) \/ tmp'[d] = tmp[d],
         \A d \in Dir : want'[d] # None => want[d] # None, next' >= next,
         call[p] \in SnapshotCall =>
           n \in SnapshotCall /\ n.d = call[p].d /\ n.s = call[p].s,
         call[p] \in DeleteChild /\ call[p].pc # "merge" =>
           n \in DeleteChild /\ n.pc # "merge" /\ n.d = call[p].d /\ n.c = call[p].c,
         Naming(n) => \/ Naming(call[p]) /\ n.g = call[p].g
                      \/ n.g >= next,
         Fact(p)'
  PROVE  Owned'
<1>1. call'[p] = n /\ \A q \in Proc \ {p} : call'[q] = call[q]
  BY DEF Inv, Types
<1>2. \A x, y : Twin(x, y) => Twin(x, y)'
  BY <1>1 DEF Twin
<1>3. \A x, y : Heir(x, y) => Heir(x, y)'
  BY <1>1 DEF Heir
<1>4. \A d \in Dir : Mine(p, d) \/ (dd'[d] = dd[d] /\ tmp'[d] = tmp[d])
  OBVIOUS
<1>5. Naming(call'[p]) => \/ Naming(call[p]) /\ call'[p].g = call[p].g
                         \/ call'[p].g >= next
  BY <1>1
<1> QED
  BY <1>1, <1>2, <1>3, <1>4, <1>5, OwnKeeps

\* The call ends, and nothing it made or took over is left.
LEMMA OwnLeaves ==
  ASSUME Inv, Inv', Owned, NEW p \in Proc, Return(p), next' = next,
         \A d \in Dir : Mine(p, d) \/ tmp'[d] = tmp[d],
         \A d \in Dir : dd'[d] = dd[d] \/ (dd'[d] = None /\ want'[d] = None /\ Mine(p, d)),
         \A d \in Dir : want'[d] # None => want[d] # None,
         call[p] \in SnapshotCall => dd'[call[p].d] = None,
         call[p] \in DeleteChild /\ call[p].pc # "merge" => dd'[call[p].d] = None
  PROVE  Owned'
<1>1. call'[p] = Idle /\ \A q \in Proc \ {p} : call'[q] = call[q]
  BY DEF Return, Inv, Types
<1>2. \A x, y : dd'[x] # None /\ dd'[y] # None /\ Twin(x, y) => Twin(x, y)'
  BY <1>1 DEF Twin
<1>3. \A x, y : dd'[x] # None /\ dd'[y] # None /\ Heir(x, y) => Heir(x, y)'
  BY <1>1 DEF Heir
<1>4. \A d \in Dir : Mine(p, d) \/ (dd'[d] = dd[d] /\ tmp'[d] = tmp[d])
  OBVIOUS
<1>5. ~ Naming(call'[p]) /\ Fact(p)'
  BY <1>1, IdleIs DEF Naming, Fact
<1>6. next' >= next
  BY DEF Inv, Types
<1> QED
  BY <1>1, <1>2, <1>3, <1>4, <1>5, <1>6, OwnKeeps

-----------------------------------------------------------------------------
(* What a call reads when it begins. *)

LEMMA LineWithin ==
  ASSUME NEW s \in Dir, NEW S \in SUBSET Dir, s \in S,
         \A x \in S : Live(x) /\ dd[x].parent # NoDir => dd[x].parent \in S
  PROVE  Line(s) \subseteq S
BY DEF Line, Live

LEMMA Reading ==
  ASSUME Types, NEW s \in Dir, dd[s] # None, Readable(s), NEW di, di = ploop_read_dd(s)
  PROVE  /\ Reads(s, di)
         /\ \A e \in di.far : \E x \in Line(s) \ {s} : Live(x) /\ x \in Dir /\ e \in dd[x].own
         /\ \A x \in Line(s) \ {s} : dd[x].own \subseteq di.far
<1>1. PICK v \in Descriptor : v = dd[s]
  BY DEF Types
<1> DEFINE far == UNION {dd[x].own : x \in Line(s) \ {s}}
<1>2. di = [v EXCEPT !.far = far]
  BY <1>1 DEF ploop_read_dd
<1>3. \A e \in far : \E x \in Line(s) \ {s} : Live(x) /\ x \in Dir /\ e \in dd[x].own
  BY LineIn DEF Readable, Live
<1>3a. \A x \in Line(s) \ {s} : dd[x].own \subseteq far
  OBVIOUS
<1> HIDE DEF far
<1>4. /\ v.own = di.own /\ v.top = di.top /\ v.parent = di.parent
      /\ v.snap = di.snap /\ v.ro = di.ro /\ di.far = far
  BY <1>2 DEF Descriptor
<1> QED
  BY <1>1, <1>3, <1>3a, <1>4 DEF Reads

\* No image below a volume has the uuid of its top image.
LEMMA FarApart ==
  ASSUME Inv, Owned, NEW s \in Dir, Made(s), lock[s] = None, Readable(s), dd[s].ro = FALSE,
         NEW di, di = ploop_read_dd(s), NEW e \in di.far
  PROVE  e.guid < next /\ e.guid # di.top
<1>1. Grounded /\ Types /\ Live(s) /\ dd[s] \in Descriptor /\ dd[s] # None
  BY InvGrounded DEF Grounded, Inv, Live
<1>2. PICK x \in Line(s) \ {s} : Live(x) /\ x \in Dir /\ e \in dd[x].own
  BY <1>1, Reading
<1>3. di.top = dd[s].top
  BY <1>1, Reading DEF Reads
<1>4. Solid(dd[s]) /\ Solid(dd[x]) /\ Used(dd[x])
  BY <1>1, <1>2 DEF Owned, Stored
<1>5. CASE dd[s].top # TOPDELTA_UUID
  <2>1. ~ Twin(x, s)
    <3> SUFFICES ASSUME NEW q \in Proc, call[q] \in SnapshotCall, s = call[q].s \/ s = call[q].d
                 PROVE  FALSE
      BY DEF Twin
    <3>1. Locks(call[q]) = {call[q].s} /\ Snapping(call[q]) /\ q # None
      BY SnapshotCallIs, NoneAssumption DEF Inv, Working
    <3> QED
      BY <1>1, <3>1 DEF Inv, Holding, Snapping
  <2>2. NamesApart(dd[x], dd[s])
    BY <1>1, <1>2, <2>1 DEF Owned, Distinct
  <2> QED
    BY <1>2, <1>3, <1>4, <1>5, <2>2 DEF NamesApart, Used, Solid, Owns
<1>6. CASE dd[s].top = TOPDELTA_UUID
  <2> DEFINE y == dd[s].parent
             S == {s} \cup (IF y = NoDir THEN {} ELSE {y})
  <2>1. FirstTop(s) /\ Owns(dd[s], TOPDELTA_UUID)
    BY <1>4, <1>6 DEF Owned, FirstTops, Solid
  <2>2. y # NoDir => y \in Dir /\ dd[y].ro /\ dd[y].parent = NoDir
    BY <1>1, <2>1 DEF FirstTop, Grounded
  <2>3. S \in SUBSET Dir /\ s \in S
    BY <2>2
  <2>4. \A u \in S : Live(u) /\ dd[u].parent # NoDir => dd[u].parent \in S
    BY <2>2
  <2> HIDE DEF S
  <2>5. x \in S
    BY <1>2, <2>3, <2>4, LineWithin
  <2>6. y # NoDir /\ x = y
    BY <1>2, <2>5 DEF S
  <2>7. ~ Owns(dd[x], TOPDELTA_UUID)
    BY <1>4, <2>2, <2>6 DEF Solid
  <2> QED
    BY <1>2, <1>3, <1>4, <1>6, <2>7 DEF Owns, Used
<1> QED
  BY <1>5, <1>6

\* The next unused uuid is nobody's.
LEMMA NextNew ==
  ASSUME Inv, Owned, NEW c, c.g = next, next' = next + 1, dd' = dd, want' = want
  PROVE  New(c)'
<1>1. next \in Nat /\ next >= 1 /\ \A d \in Dir : Live(d) => Used(dd[d]) /\ dd[d] \in Descriptor
  BY DEF Owned, Stored, Inv, Types, Live
<1>2. \A y \in Dir : Live(y) => ~ Owns(dd[y], next)
  <2> SUFFICES ASSUME NEW y \in Dir, Live(y), NEW e \in dd[y].own, e.guid = next PROVE FALSE
    BY DEF Owns
  <2> QED
    BY <1>1 DEF Used
<1>3. \A x \in Dir : Made(x) => dd[x].snap # next
  <2>1. \A x \in Dir : Made(x) => Live(x)
    BY InvGrounded DEF Grounded
  <2> QED
    BY <1>1, <2>1 DEF Used
<1> QED
  BY <1>1, <1>2, <1>3 DEF New, Live, Made, Owns

LEMMA CloneBeginOwn ==
  ASSUME Inv, Inv', Owned, NEW p \in Proc, NEW s \in Dir, NEW d \in Dir, CloneBegin(p, s, d),
         windows = {}, windows' = {}
  PROVE  Owned'
<1> DEFINE di == ploop_read_dd(s)
           g == IF ~di.ro THEN next ELSE IF di.snap # NONE_UUID THEN di.snap ELSE di.top
           n == [op |-> "clone", pc |-> "volume", d |-> d, s |-> s, di |-> di, g |-> g]
<1>1. Begin(p, n, When(d \in layout, "existing") \cup When(di.ro /\ g # di.top, "nested"))
  BY DEF CloneBegin
<1>2. call[p] = Idle /\ call' = [call EXCEPT ![p] = n]
  BY <1>1, Begins
<1>3. ~(di.ro /\ g # di.top)
  <2>1. When(d \in layout, "existing") \cup When(di.ro /\ g # di.top, "nested") = {}
    BY <1>1, Begins
  <2>2. When(di.ro /\ g # di.top, "nested") = {}
    BY <2>1
  <2> QED
    BY <2>2, NotWhen
<1>4. Types /\ dd[s] # None /\ Readable(s) /\ lock[s] = None /\ Made(s)
  BY KnownMade DEF Inv, CloneBegin, Locked
<1>5. di \in Descriptor
  BY <1>4, ReadTyped
<1>6. Reads(s, di) /\ di.ro \in BOOLEAN
  BY <1>4, <1>5, Reading DEF Descriptor
<1>7. UNCHANGED <<dd, tmp, want>> /\ next' = IF di.ro THEN next ELSE next + 1
  BY DEF CloneBegin
<1>8. n.pc = "volume" /\ n.d = d /\ n.s = s /\ n.di = di /\ n.g = g
  OBVIOUS
<1>9. di.ro => g = di.top
  BY <1>3
<1>10. di.ro = FALSE => g = next
  OBVIOUS
<1>11. g \in Nat
  BY <1>4, <1>5, <1>6, <1>9, <1>10 DEF Types, Descriptor
<1>12. n \in CloneCall
  <2> HIDE DEF di, g
  <2> QED
    BY <1>5, <1>11 DEF CloneCall
<1>13. \A e \in di.far : di.ro = FALSE => e.guid < next /\ e.guid # di.top
  <2>1. di.ro = FALSE => dd[s].ro = FALSE
    BY <1>6 DEF Reads
  <2> QED
    BY <1>4, <2>1, FarApart
<1> HIDE DEF n, di, g
<1> PICK v \in Descriptor : v = di
  BY <1>5
<1> PICK h \in Nat : h = g
  BY <1>11
<1> PICK m \in CloneCall : m = n
  BY <1>12
<1>14. CloneFact(m)'
  <2>1. Reads(s, v)'
    BY <1>6, <1>7 DEF Reads
  <2>2. CASE v.ro
    BY <1>6, <1>8, <1>9, <2>1, <2>2 DEF CloneFact
  <2>3. CASE v.ro = FALSE
    <3>1. New(m)'
      BY <1>7, <1>8, <1>10, <2>3, NextNew
    <3>2. \A e \in v.far : e.guid # h /\ e.guid # v.top
      <4>1. \A e \in v.far : e.guid \in Nat
        BY <1>5 DEF Descriptor, Image
      <4> QED
        BY <1>4, <1>10, <1>13, <2>3, <4>1 DEF Types
    <3>3. ~ Owns(dd[s], h)
      <4>1. Used(dd[s]) /\ dd[s] \in Descriptor
        BY <1>4 DEF Owned, Stored, Live, Types
      <4> QED
        BY <1>4, <1>10, <2>3, <4>1 DEF Used, Owns, Types, Descriptor, Image
    <3>4. Plain(m)'
      BY <1>7, <1>8, <3>2, <3>3 DEF Plain, Owns
    <3> QED
      BY <1>6, <1>8, <2>1, <2>3, <3>1, <3>4 DEF CloneFact
  <2> QED
    BY <1>6, <2>2, <2>3
<1>15. Fact(p)'
  <2>1. call'[p] = m
    BY <1>2, <1>4 DEF Types
  <2> QED
    BY <1>14, <2>1, CloneCallIs DEF Fact
<1>16. Naming(m) => m.g >= next
  BY <1>4, <1>8, <1>10, CloneCallIs DEF Naming, Types
<1>17. next' >= next
  BY <1>4, <1>7 DEF Types
<1> QED
  BY <1>2, <1>7, <1>15, <1>16, <1>17, OwnGoes, IdleIs

LEMMA SnapshotBeginOwn ==
  ASSUME Inv, Inv', Owned, NEW p \in Proc, NEW s \in Dir, NEW d \in Dir, SnapshotBegin(p, s, d),
         windows = {}, windows' = {}
  PROVE  Owned'
<1> DEFINE di == ploop_read_dd(s)
           n == [op |-> "snapshot", pc |-> "link", d |-> d, s |-> s, di |-> di, g |-> next]
<1>1. Begin(p, n, When(d \in layout, "existing"))
  BY DEF SnapshotBegin
<1>2. call[p] = Idle /\ call' = [call EXCEPT ![p] = n] /\ When(d \in layout, "existing") = {}
  BY <1>1, Begins
<1>3. d \notin layout
  BY <1>2, NotWhen
<1>4. Types /\ dd[s] # None /\ Readable(s) /\ lock[s] = None /\ Made(s) /\ ~ dd[s].ro /\ dd[d] = None
  BY <1>3, KnownMade DEF Inv, Dirs, SnapshotBegin, Locked
<1>5. di \in Descriptor
  BY <1>4, ReadTyped
<1>6. Reads(s, di) /\ di.ro = FALSE /\ dd[s].ro = FALSE
  BY <1>4, <1>5, Reading DEF Descriptor, Reads
<1>7. UNCHANGED <<dd, tmp, want>> /\ next' = next + 1
  BY DEF SnapshotBegin
<1>8. n.pc = "link" /\ n.d = d /\ n.s = s /\ n.di = di /\ n.g = next
  OBVIOUS
<1>12. n \in SnapshotCall
  <2>1. next \in Nat
    BY <1>4 DEF Types
  <2> HIDE DEF di
  <2> QED
    BY <1>5, <2>1 DEF SnapshotCall, SnapshotStep
<1>13. \A e \in di.far : e.guid < next /\ e.guid # di.top
  BY <1>4, <1>6, FarApart
<1> HIDE DEF n, di
<1> PICK v \in Descriptor : v = di
  BY <1>5
<1> PICK h \in Nat : h = next
  BY <1>4 DEF Types
<1> PICK m \in SnapshotCall : m = n
  BY <1>12
<1>14. SnapshotFact(m)'
  <2>1. Reads(s, v)' /\ ~ Live(d)' /\ Waiting(m.pc) /\ ~ Filled(m.pc) /\ ~ Ready(m.pc)
    BY <1>4, <1>6, <1>7, <1>8 DEF Reads, Live, Waiting, Filled, Ready
  <2>2. New(m)'
    BY <1>7, <1>8, NextNew
  <2>3. \A e \in v.far : e.guid # h /\ e.guid # v.top
    <3>1. \A e \in v.far : e.guid \in Nat
      BY <1>5 DEF Descriptor, Image
    <3> QED
      BY <1>4, <1>13, <3>1 DEF Types
  <2>4. ~ Owns(dd[s], h)
    <3>1. Used(dd[s]) /\ dd[s] \in Descriptor
      BY <1>4 DEF Owned, Stored, Live, Types
    <3> QED
      BY <1>4, <3>1 DEF Used, Owns, Types, Descriptor, Image
  <2>5. Plain(m)'
    BY <1>7, <1>8, <2>3, <2>4 DEF Plain, Owns
  <2> QED
    BY <1>6, <1>8, <2>1, <2>2, <2>5 DEF SnapshotFact
<1>15. Fact(p)'
  <2>1. call'[p] = m
    BY <1>2, <1>4 DEF Types
  <2> QED
    BY <1>14, <2>1, SnapshotCallIs DEF Fact
<1>16. next' >= next /\ m.g >= next
  BY <1>4, <1>7, <1>8 DEF Types
<1> QED
  BY <1>2, <1>7, <1>15, <1>16, OwnGoes, IdleIs

-----------------------------------------------------------------------------
(* Steps of clone and snapshot that change no descriptor. *)

LEMMA NewSame ==
  ASSUME NEW c, dd' = dd, want' = want, next' = next, New(c)
  PROVE  New(c)'
<1>1. Where(c)' = Where(c)
  BY DEF Where
<1> QED
  BY <1>1 DEF New, Live, Made, Owns

LEMMA CloneFailsOwn ==
  ASSUME Inv, Inv', Owned, NEW p \in Proc, CloneFails(p)
  PROVE  Owned'
<1>1. PICK c \in CloneCall : c = call[p]
  BY CallKind DEF Inv, CloneFails, At
<1>2. PICK pc \in {"undo", "destroy"} :
        Goto(p, pc) /\ (pc = "undo" => c.pc = "link" /\ ~ c.di.ro)
  BY <1>1 DEF CloneFails, At
<1>3. PICK n \in CloneCall :
        /\ call' = [call EXCEPT ![p] = n] /\ call'[p] = n
        /\ n.d = c.d /\ n.s = c.s /\ n.di = c.di /\ n.g = c.g /\ n.pc = pc
  BY <1>1, <1>2, CloneGoes
<1>4. CloneFact(c)
  BY <1>1 DEF Owned, Fact
<1>5. UNCHANGED <<dd, tmp, next, want>>
  BY DEF CloneFails, disk
<1>6. New(c) => New(n)'
  <2> SUFFICES ASSUME New(c) PROVE New(n)'
    OBVIOUS
  <2>1. New(n)
    BY <1>3, CloneCallIs DEF New, Where
  <2> QED
    BY <1>5, <2>1, NewSame
<1>7. CloneFact(n)'
  BY <1>2, <1>3, <1>4, <1>5, <1>6 DEF CloneFact, Reads, Topped
<1>8. Fact(p)'
  BY <1>3, <1>7, CloneCallIs DEF Fact
<1>9. next' >= next /\ (Naming(n) => Naming(call[p]) /\ n.g = call[p].g)
  BY <1>1, <1>3, <1>5, CloneCallIs DEF Inv, Types, Naming
<1> QED
  BY <1>1, <1>3, <1>5, <1>8, <1>9, OwnGoes, CloneCallIs

LEMMA SnapshotMoves ==
  ASSUME Inv, Inv', Owned, NEW p \in Proc, NEW c \in SnapshotCall, c = call[p],
         NEW pc \in SnapshotStep, Goto(p, pc), UNCHANGED <<dd, next, want>>,
         \A d \in Dir \ {c.s} : tmp'[d] = tmp[d],
         Active(pc) => Active(c.pc), Waiting(pc) => Waiting(c.pc),
         Active(pc) /\ ~ Waiting(pc) => ~ Waiting(c.pc), Early(pc) => Early(c.pc),
         Filled(pc) => Filled(c.pc), Ready(pc) => IsChild(tmp'[c.s], c)
  PROVE  Owned'
<1>1. PICK n \in SnapshotCall :
        /\ call' = [call EXCEPT ![p] = n] /\ call'[p] = n
        /\ n.d = c.d /\ n.s = c.s /\ n.di = c.di /\ n.g = c.g /\ n.pc = pc
  BY SnapshotGoes
<1>2. SnapshotFact(c) /\ c.s \in Dir /\ Mine(p, c.s)
  BY SnapshotCallIs DEF Owned, Fact, Mine
<1>3. New(n)'
  <2>1. New(n)
    BY <1>1, <1>2 DEF SnapshotFact, New, Where
  <2> QED
    BY <2>1, NewSame
<1>4. (Reads(c.s, c.di)' <=> Reads(c.s, c.di)) /\ (IsSnapshot(dd[n.d], n)' <=> IsSnapshot(dd[c.d], c))
      /\ (IsChild(tmp[n.s], n)' <=> IsChild(tmp'[c.s], c))
  BY <1>1 DEF Reads, IsSnapshot, IsChild
<1>5. Plain(c) <=> Plain(n)'
  BY <1>1 DEF Plain, Owns
<1>6. Topped(c) <=> Topped(n)'
  BY <1>1 DEF Topped
<1>7. SnapshotFact(n)'
  BY <1>1, <1>2, <1>3, <1>4, <1>5, <1>6 DEF SnapshotFact, Live
<1>8. Fact(p)'
  BY <1>1, <1>7, SnapshotCallIs DEF Fact
<1>9. next' >= next /\ n.g = call[p].g /\ Naming(call[p])
  BY <1>1 DEF Inv, Types, Naming
<1> QED
  BY <1>1, <1>2, <1>8, <1>9, OwnGoes, SnapshotCallIs

\* The steps with which a snapshot changes links, fails or goes back.
LEMMA SnapshotLinksOwn ==
  ASSUME Inv, Inv', Owned, NEW p \in Proc,
         \/ SnapshotLink(p) \/ SnapshotRegister(p) \/ SnapshotUnregister(p)
         \/ SnapshotFails(p) \/ SnapshotUnlink(p)
  PROVE  Owned'
<1>1. PICK c \in SnapshotCall : c = call[p]
  BY CallKind DEF Inv, SnapshotLink, SnapshotRegister, SnapshotUnregister, SnapshotFails,
     SnapshotUnlink, At
<1>2. UNCHANGED <<dd, tmp, next, want>>
  BY DEF SnapshotLink, SnapshotRegister, SnapshotUnregister, SnapshotFails, SnapshotUnlink, disk
<1>3. PICK pc \in SnapshotStep :
        /\ Goto(p, pc)
        /\ \/ c.pc = "link" /\ pc = "snapshot"
           \/ c.pc = "register" /\ pc = "unregister"
           \/ c.pc = "unregister" /\ pc = "rename"
           \/ pc \in {"unlink", "destroy"}
           \/ c.pc \in {"snap dd", "child dd", "register", "unregister", "rename"} /\ pc = "undo"
  BY <1>1 DEF SnapshotLink, SnapshotRegister, SnapshotUnregister, SnapshotFails, SnapshotUnlink,
     SnapshotStep, At
<1>4. SnapshotFact(c)
  BY <1>1 DEF Owned, Fact
<1>5. /\ Active(pc) => Active(c.pc)
      /\ Waiting(pc) => Waiting(c.pc)
      /\ Active(pc) /\ ~ Waiting(pc) => ~ Waiting(c.pc)
      /\ Early(pc) => Early(c.pc)
      /\ Filled(pc) => Filled(c.pc)
      /\ Ready(pc) => Ready(c.pc)
  BY <1>3 DEF Active, Waiting, Early, Filled, Ready
<1>5a. Ready(pc) => IsChild(tmp'[c.s], c)
  BY <1>2, <1>4, <1>5 DEF SnapshotFact
<1>6. Goto(p, pc)
  BY <1>3
<1> QED
  BY <1>1, <1>2, <1>5, <1>5a, <1>6, SnapshotMoves

LEMMA UpdateChildOwn ==
  ASSUME Inv, Inv', Owned, NEW p \in Proc, update_child_dd(p)
  PROVE  Owned'
<1>1. PICK c \in SnapshotCall : c = call[p]
  BY CallKind DEF Inv, update_child_dd, At
<1>2. PICK pc \in SnapshotStep : Goto(p, pc) /\ pc \in {"register", "rename"}
  BY <1>1 DEF update_child_dd, SnapshotStep
<1>3. c.pc = "child dd" /\ c.s \in Dir /\ Snapping(c) /\ SnapshotFact(c)
  BY <1>1, SnapshotCallIs DEF update_child_dd, At, Inv, Working, Owned, Fact
<1>4. PICK w \in Descriptor : w = dd[c.s]
  BY <1>3 DEF Snapping, Continues, Inv, Types
<1>5. UNCHANGED <<dd, next, want>>
  BY DEF update_child_dd
<1>6. tmp' = [tmp EXCEPT ![c.s] = [w EXCEPT !.own = {e \in w.own : e.guid = w.top},
                                            !.parent = c.d, !.snap = c.g, !.ro = FALSE]]
  <2>1. [w EXCEPT !.own = {e \in @ : e.guid = w.top}, !.parent = c.d, !.snap = c.g, !.ro = FALSE]
        = [w EXCEPT !.own = {e \in w.own : e.guid = w.top}, !.parent = c.d, !.snap = c.g,
                    !.ro = FALSE]
    OBVIOUS
  <2> QED
    BY <1>1, <1>4, <2>1 DEF update_child_dd
<1>7. /\ \A d \in Dir \ {c.s} : tmp'[d] = tmp[d]
      /\ tmp'[c.s].own = {e \in w.own : e.guid = w.top}
      /\ tmp'[c.s].top = w.top /\ tmp'[c.s].snap = c.g /\ tmp'[c.s].ro = FALSE
  BY <1>3, <1>6 DEF Inv, Types, Descriptor
<1>8. w.own = c.di.own /\ w.top = c.di.top
  <2>1. Active(c.pc)
    BY <1>3 DEF Active
  <2> QED
    BY <1>3, <1>4, <2>1 DEF SnapshotFact, Reads
<1>9. IsChild(tmp'[c.s], c)
  BY <1>7, <1>8 DEF IsChild
<1>10. Goto(p, pc)
  BY <1>2
<1>11. Active(c.pc) /\ ~ Waiting(c.pc) /\ Filled(c.pc) /\ ~ Waiting(pc) /\ ~ Early(pc)
  BY <1>2, <1>3 DEF Active, Waiting, Early, Filled
<1> QED
  BY <1>1, <1>5, <1>7, <1>9, <1>10, <1>11, SnapshotMoves

-----------------------------------------------------------------------------
(* Steps of delete and switch that change no descriptor. *)

LEMMA DeleteMovesOwn ==
  ASSUME Inv, Inv', Owned, NEW p \in Proc, NEW c \in DeleteCall, c = call[p],
         NEW pc \in {"parent", "children", "images", "unregister", "destroy"}, Goto(p, pc),
         UNCHANGED <<dd, tmp, next>>, \A d \in Dir : want'[d] # None => want[d] # None,
         Standing(pc) => Standing(c.pc)
  PROVE  Owned'
<1>1. PICK n \in DeleteCall :
        /\ call' = [call EXCEPT ![p] = n] /\ call'[p] = n
        /\ n.pc = pc /\ n.d = c.d /\ n.di = c.di
  BY DeleteGoes
<1>2. DeleteFact(n)'
  BY <1>1 DEF Owned, Fact, DeleteFact, Reads
<1>3. Fact(p)' /\ ~ Naming(n)
  BY <1>1, <1>2, DeleteCallIs DEF Fact, Naming
<1>4. next' >= next
  BY DEF Inv, Types
<1> QED
  BY <1>1, <1>3, <1>4, OwnGoes, DeleteCallIs

\* What is known of a call that found a child, without the names of its steps.
LEMMA DeleteChildFacts ==
  ASSUME NEW c \in DeleteChild
  PROVE  /\ c.op = "delete" /\ c.d \in Dir /\ c.di \in Descriptor /\ c.c \in Dir /\ c.child \in Descriptor
         /\ c \notin CloneCall /\ c \notin SnapshotCall /\ c \notin DeleteCall
         /\ c \notin DeleteChoice /\ c \notin SwitchWait /\ c \notin SwitchCall
         /\ Locks(c) = {c.d, c.c, c.di.parent} /\ Target(c) = {}
BY DeleteChildIs, Zenon

ChildStep == {"merge", "unlink child", "unregister", "register", "destroy"}
LEMMA ChildGone ==
  ASSUME Inv, NEW p \in Proc, call[p] \in DeleteChild, NEW pc \in ChildStep, Goto(p, pc)
  PROVE  \E n \in DeleteChild :
           /\ call' = [call EXCEPT ![p] = n] /\ call'[p] = n
           /\ n.pc = pc /\ n.d = call[p].d
           /\ n.di = call[p].di /\ n.c = call[p].c /\ n.child = call[p].child
<1>1. pc \in {"merge", "unlink child", "unregister", "register", "destroy"}
  BY Zenon DEF ChildStep
<1>2. PICK n \in DeleteChild :
           /\ call' = [call EXCEPT ![p] = n] /\ call'[p] = n
           /\ call' \in [Proc -> Call] /\ n \in Call
           /\ n.pc = pc /\ n.d = call[p].d
           /\ n.di = call[p].di /\ n.c = call[p].c /\ n.child = call[p].child
           /\ Locks(n) = Locks(call[p]) /\ Target(n) = Target(call[p])
  BY <1>1, ChildGoes, Zenon
<1> QED
  BY <1>2, Zenon

LEMMA ChildMovesOwn ==
  ASSUME Inv, Inv', Owned, NEW p \in Proc, NEW c \in DeleteChild, c = call[p],
         NEW pc \in ChildStep, Goto(p, pc),
         pc # "merge", ~ Standing(pc), UNCHANGED <<dd, tmp, next, want>>
  PROVE  Owned'
<1>1. PICK n \in DeleteChild :
        /\ call' = [call EXCEPT ![p] = n] /\ call'[p] = n
        /\ n.pc = pc /\ n.d = c.d
        /\ n.di = c.di /\ n.c = c.c /\ n.child = c.child
  BY ChildGone
<1>2. DeleteFact(n)' /\ MergeFact(n)'
  BY <1>1 DEF DeleteFact, MergeFact
<1>3. Fact(p)' /\ ~ Naming(n)
  BY <1>1, <1>2, DeleteChildFacts DEF Fact, Naming
<1>4. next' >= next
  BY DEF Inv, Types
<1> QED
  BY <1>1, <1>3, <1>4, OwnGoes, DeleteChildFacts

LEMMA DeleteBeginOwn ==
  ASSUME Inv, Inv', Owned, NEW p \in Proc, NEW d \in Dir, DeleteBegin(p, d),
         windows = {}, windows' = {}
  PROVE  Owned'
<1> DEFINE di == ploop_read_dd(d)
           pc == IF dd[d].parent # NoDir THEN "parent" ELSE "children"
           m == [op |-> "delete", pc |-> pc, d |-> d, di |-> di]
<1>1. call[p] = Idle /\ call' = [call EXCEPT ![p] = m]
  <2>1. Begin(p, m, {})
    BY DEF DeleteBegin
  <2> QED
    BY <2>1, Begins
<1>2. di \in Descriptor /\ Reads(d, di)
  BY ReadTyped, Reading DEF Inv, DeleteBegin, Locked
<1>3. m \in DeleteCall /\ m.d = d /\ m.di = di
  <2>1. pc \in {"parent", "children", "images", "unregister", "destroy"}
    OBVIOUS
  <2> HIDE DEF di, pc
  <2> QED
    BY <1>2, <2>1 DEF DeleteCall
<1>4. UNCHANGED <<dd, tmp, next, want>>
  BY DEF DeleteBegin, disk
<1> HIDE DEF m, di
<1>5. PICK n \in DeleteCall : n = m
  BY <1>3
<1>6. PICK v \in Descriptor : v = di
  BY <1>2
<1>7. Reads(d, v)' /\ n.d = d /\ n.di = v
  BY <1>2, <1>3, <1>4, <1>5, <1>6 DEF Reads
<1>8. call'[p] = n
  BY <1>1, <1>5 DEF Inv, Types
<1>9. Fact(p)' /\ ~ Naming(n)
  BY <1>7, <1>8, DeleteCallIs DEF Fact, DeleteFact, Naming
<1>10. next' >= next
  BY <1>4 DEF Inv, Types
<1> QED
  BY <1>1, <1>4, <1>5, <1>9, <1>10, OwnGoes, IdleIs

LEMMA DeleteParentOwn ==
  ASSUME Inv, Inv', Owned, NEW p \in Proc, DeleteParent(p)
  PROVE  Owned'
<1>1. PICK c \in DeleteCall : c = call[p]
  BY CallKind, DeleteChoiceIs, DeleteChildIs DEF Inv, DeleteParent, At
<1>2. UNCHANGED <<dd, tmp, next, want>> /\ c.pc = "parent"
  BY <1>1 DEF DeleteParent, disk, At
<1>3. CASE Goto(p, "children")
  <2>1. PICK pc \in {"parent", "children", "images", "unregister", "destroy"} :
          Goto(p, pc) /\ pc = "children"
    BY <1>3
  <2>2. Goto(p, pc) /\ Standing(c.pc)
    BY <1>2, <2>1 DEF Standing
  <2> QED
    BY <1>1, <1>2, <2>2, DeleteMovesOwn
<1>4. CASE Return(p)
  BY <1>1, <1>2, <1>4, OwnLeaves, DeleteCallIs
<1> QED
  BY <1>3, <1>4 DEF DeleteParent

LEMMA SiblingOwn ==
  ASSUME Inv, Inv', Owned, NEW p \in Proc, get_first_sibling(p)
  PROVE  Owned'
<1>1. PICK c \in DeleteCall : c = call[p]
  BY CallKind, DeleteChoiceIs, DeleteChildIs DEF Inv, get_first_sibling, At
<1>2. /\ UNCHANGED <<dd, tmp, next, want>> /\ c.pc = "children" /\ Standing(c.pc)
      /\ c.d \in Dir /\ c.di \in Descriptor
  BY <1>1, DeleteCallIs DEF get_first_sibling, disk, At, Standing
<1>3. CASE Goto(p, "images")
  <2>1. PICK pc \in {"parent", "children", "images", "unregister", "destroy"} :
          Goto(p, pc) /\ pc = "images"
    BY <1>3
  <2>2. Goto(p, pc)
    BY <2>1
  <2> QED
    BY <1>1, <1>2, <2>2, DeleteMovesOwn
<1>4. CASE \E k \in kids[c.d] :
             call' = [call EXCEPT ![p] = [op |-> "delete", pc |-> "lock child", d |-> c.d,
                                          di |-> c.di, c |-> k]]
  <2>1. PICK k \in kids[c.d] :
             call' = [call EXCEPT ![p] = [op |-> "delete", pc |-> "lock child", d |-> c.d,
                                          di |-> c.di, c |-> k]]
    BY <1>4
  <2> DEFINE m == [op |-> "delete", pc |-> "lock child", d |-> c.d, di |-> c.di, c |-> k]
  <2>2. m \in DeleteChoice /\ m.d = c.d /\ m.di = c.di
    <3>1. k \in Dir
      BY <1>2, <2>1 DEF Inv, Types
    <3> QED
      BY <1>2, <3>1 DEF DeleteChoice
  <2>3. call' = [call EXCEPT ![p] = m]
    BY <2>1
  <2> HIDE DEF m
  <2>4. PICK n \in DeleteChoice : n = m
    BY <2>2
  <2>5. n.d = c.d /\ n.di = c.di /\ call' = [call EXCEPT ![p] = n] /\ call'[p] = n
    BY <2>2, <2>3, <2>4 DEF Inv, Types
  <2>6. DeleteFact(n)'
    BY <1>1, <1>2, <2>5 DEF Owned, Fact, DeleteFact, Reads
  <2>7. Fact(p)' /\ ~ Naming(n)
    BY <2>5, <2>6, DeleteChoiceIs DEF Fact, Naming
  <2>8. next' >= next
    BY <1>2 DEF Inv, Types
  <2> QED
    BY <1>1, <1>2, <2>5, <2>7, <2>8, OwnGoes, DeleteCallIs
<1>5. CASE Return(p)
  BY <1>1, <1>2, <1>5, OwnLeaves, DeleteCallIs
<1> QED
  BY <1>1, <1>3, <1>4, <1>5 DEF get_first_sibling, Inv, Types

LEMMA DeleteImagesOwn ==
  ASSUME Inv, Inv', Owned, NEW p \in Proc, DeleteImages(p)
  PROVE  Owned'
<1>1. PICK c \in DeleteCall : c = call[p]
  BY CallKind, DeleteChoiceIs, DeleteChildIs DEF Inv, DeleteImages, At
<1>2. PICK pc \in {"parent", "children", "images", "unregister", "destroy"} :
        Goto(p, pc) /\ pc = IF c.di.parent = NoDir THEN "destroy" ELSE "unregister"
  BY <1>1 DEF DeleteImages
<1>3. UNCHANGED <<dd, tmp, next>> /\ want' = [want EXCEPT ![c.d] = None]
  BY <1>1 DEF DeleteImages
<1>4. \A d \in Dir : want'[d] # None => want[d] # None
  BY <1>3 DEF Inv, Types
<1>5. Goto(p, pc) /\ ~ Standing(pc)
  BY <1>2 DEF Standing
<1> QED
  BY <1>1, <1>3, <1>4, <1>5, DeleteMovesOwn

\* The call found the child and reads it: what a merge would take is the image
\* of the deleted volume, since the child of another snapshot would be read too.
LEMMA Inheriting ==
  ASSUME Inv, Owned, NEW d \in Dir, NEW x \in Dir, x # d, Made(x), lock[x] = None, Readable(x),
         dd[x].parent = d, NEW di \in Descriptor, Reads(d, di),
         NEW child \in Descriptor, child = ploop_read_dd(x), NEW e \in child.own,
         Has(child, child.snap), Children(child, child.snap) = {e}
  PROVE  Entry(child, child.snap) \in di.own
<1> DEFINE q == Entry(child, child.snap)
<1>1. q \in Images(child) /\ q.guid = child.snap
  BY EntryIn
<1>2. Types /\ Live(x) /\ dd[x] # None
  BY InvGrounded DEF Grounded, Inv, Live
<1>3. /\ Reads(x, child)
      /\ \A f \in child.far : \E z \in Line(x) \ {x} : Live(z) /\ z \in Dir /\ f \in dd[z].own
      /\ \A z \in Line(x) \ {x} : dd[z].own \subseteq child.far
  BY <1>2, Reading
<1>4. child.own = dd[x].own /\ child.snap = dd[x].snap /\ d # NoDir
  BY <1>3, VolumeAssumption DEF Reads
<1> HIDE DEF q
<1>5. PICK r \in Ranks : Rests(r, x)
  <2>1. PICK r \in Ranks : Ranked(r)
    BY DEF Owned, Chains
  <2>2. Rests(r, x)
    BY <1>4, <2>1 DEF Ranked
  <2> QED
    BY <2>2
<1>6. q \notin child.own
  <2>1. r[x] \in Int
    BY DEF Ranks
  <2> QED
    BY <1>1, <1>2, <1>4, <1>5, <2>1 DEF Rests
<1>7. PICK z \in Dir : z \in Line(x) \ {x} /\ Live(z) /\ q \in dd[z].own
  BY <1>1, <1>3, <1>6 DEF Images
<1>8. CASE z = d
  BY <1>7, <1>8 DEF Reads, q
<1>9. CASE z # d
  <2>1. PICK f \in dd[z].own : f.parent = child.snap
    BY <1>1, <1>4, <1>5, <1>7, <1>9 DEF Rests, Forked
  <2>2. f \in Children(child, child.snap)
    BY <1>3, <1>7, <2>1 DEF Children, Images
  <2>3. e \in dd[x].own /\ e \in dd[z].own
    BY <1>4, <2>1, <2>2
  <2>4. \A c \in Proc : c # None
    BY NoneAssumption
  <2>5. ~ Twin(x, z)
    <3> SUFFICES ASSUME NEW c \in Proc, call[c] \in SnapshotCall, x = call[c].s \/ x = call[c].d
                 PROVE  FALSE
      BY DEF Twin
    <3>1. Locks(call[c]) = {call[c].s} /\ Snapping(call[c])
      BY SnapshotCallIs DEF Inv, Working
    <3> QED
      BY <2>4, <3>1 DEF Inv, Holding, Snapping
  <2>6. ~ Heir(x, z)
    <3> SUFFICES ASSUME NEW c \in Proc, call[c] \in DeleteChild, x = call[c].d \/ x = call[c].c
                 PROVE  FALSE
      BY DEF Heir
    <3>1. x \in Locks(call[c])
      BY DeleteChildFacts
    <3> QED
      BY <2>4, <3>1 DEF Inv, Holding
  <2>7. FilesApart(dd[x], dd[z])
    BY <1>2, <1>7, <2>5, <2>6 DEF Owned, Distinct
  <2> QED
    BY <2>3, <2>7 DEF FilesApart
<1> QED
  BY <1>8, <1>9

LEMMA DeleteLockChildOwn ==
  ASSUME Inv, Inv', Owned, NEW p \in Proc, DeleteLockChild(p), windows' = {}
  PROVE  Owned'
<1>1. PICK c \in DeleteChoice : c = call[p]
  BY CallKind, DeleteCallIs, DeleteChildIs DEF Inv, DeleteLockChild, At
<1>2. c.pc = "lock child" /\ c.d \in Dir /\ c.c \in Dir /\ c.di \in Descriptor /\ Deleting(c)
      /\ Locks(c) = {c.d, c.di.parent}
  BY <1>1, DeleteChoiceIs DEF Inv, Working
<1>2a. c \notin SnapshotCall /\ c \notin DeleteChild
  BY DeleteChoiceIs
<1>2b. Standing(c.pc)
  BY <1>2 DEF Standing
<1>3. UNCHANGED <<dd, tmp, next, want>>
  BY DEF DeleteLockChild, disk
<1> DEFINE child == ploop_read_dd(c.c)
           m == [op |-> "delete", pc |-> "merge", d |-> c.d, di |-> c.di, c |-> c.c,
                 child |-> child]
<1>5. CASE Locked(p, c.c) /\ call' = [call EXCEPT ![p] = m]
           /\ windows' = windows
                \cup When(dd[c.c].parent # c.d, "stale child")
                \cup When(want[c.c] = None, "half made child")
  <2>1. dd[c.c].parent = c.d /\ Made(c.c)
    <3>1. When(dd[c.c].parent # c.d, "stale child") = {}
          /\ When(want[c.c] = None, "half made child") = {}
      BY <1>5
    <3>2. ~(want[c.c] = None)
      BY <3>1, NotWhen
    <3>3. ~(dd[c.c].parent # c.d)
      BY <3>1, NotWhen
    <3> QED
      BY <3>2, <3>3 DEF Made
  <2>2. lock[c.c] = None /\ Readable(c.c) /\ dd[c.c] # None
    BY <1>5 DEF Locked
  <2>3. child \in Descriptor /\ Reads(c.c, child)
    BY <1>2, <2>2, ReadTyped, Reading DEF Inv
  <2>4. m \in DeleteChild /\ m.pc = "merge" /\ m.d = c.d /\ m.di = c.di /\ m.c = c.c
        /\ m.child = child
    <3> HIDE DEF child
    <3> QED
      BY <1>2, <2>3 DEF DeleteChild
  <2>5. call' = [call EXCEPT ![p] = m]
    BY <1>5
  <2>6. PICK v \in Descriptor : v = child
    BY <2>3
  <2> HIDE DEF m, child
  <2>7. PICK n \in DeleteChild : n = m
    BY <2>4
  <2>8. call'[p] = n /\ call' = [call EXCEPT ![p] = n]
    BY <2>5, <2>7 DEF Inv, Types
  <2>9. n.pc = "merge" /\ n.d = c.d /\ n.di = c.di /\ n.c = c.c /\ n.child = v
    BY <2>4, <2>6, <2>7
  <2>10. Reads(c.d, c.di)
    BY <1>1, <1>2b DEF Owned, Fact, DeleteFact
  <2>11. c.d # c.c
    <3>1. lock[c.d] = p
      BY <1>1, <1>2 DEF Inv, Holding
    <3> QED
      BY <2>2, <3>1, NoneAssumption
  <2>12. Inherits(n)
    <3> SUFFICES ASSUME NEW e \in v.own, Has(v, v.snap), Children(v, v.snap) = {e}
                 PROVE  Entry(v, v.snap) \in c.di.own
      BY <2>9 DEF Inherits
    <3>1. v = ploop_read_dd(c.c)
      BY <2>6 DEF child
    <3> QED
      BY <1>2, <2>1, <2>2, <2>10, <2>11, <3>1, Inheriting
  <2>13. Inherits(n)' <=> Inherits(n)
    BY DEF Inherits, Has, Children, Images, Entry
  <2>14. DeleteFact(n)' /\ MergeFact(n)'
    <3>1. Reads(c.d, c.di)' /\ Reads(c.c, v)'
      BY <1>3, <2>3, <2>6, <2>10 DEF Reads
    <3> QED
      BY <2>9, <2>12, <2>13, <3>1 DEF DeleteFact, MergeFact
  <2>15. Fact(p)' /\ ~ Naming(n)
    BY <2>8, <2>14, DeleteChildFacts DEF Fact, Naming
  <2>16. next' >= next
    BY <1>3 DEF Inv, Types
  <2> QED
    BY <1>1, <1>2a, <1>3, <2>8, <2>15, <2>16, OwnGoes
<1>6. CASE Return(p)
  BY <1>1, <1>2a, <1>3, <1>6, OwnLeaves
<1> HIDE DEF child
<1> QED
  BY <1>1, <1>5, <1>6 DEF DeleteLockChild, child

\* What a call that has the child locked does with links only, or gives up.
LEMMA DeleteLinksOwn ==
  ASSUME Inv, Inv', Owned, NEW p \in Proc,
         DeleteUnlinkChild(p) \/ DeleteUnregister(p) \/ DeleteRegister(p)
  PROVE  Owned'
<1>1. UNCHANGED <<dd, tmp, next, want>>
  BY DEF DeleteUnlinkChild, DeleteUnregister, DeleteRegister
<1>2. CASE DeleteUnlinkChild(p) \/ DeleteRegister(p)
  <2>1. PICK c \in DeleteChild : c = call[p]
    BY <1>2, CallKind, DeleteCallIs, DeleteChoiceIs DEF Inv, DeleteUnlinkChild, DeleteRegister, At
  <2>2. Goto(p, "unregister") \/ Goto(p, "destroy")
    BY <1>2 DEF DeleteUnlinkChild, DeleteRegister
  <2>3. PICK pc \in ChildStep : Goto(p, pc) /\ (pc = "unregister" \/ pc = "destroy")
    BY <2>2, Zenon DEF ChildStep
  <2>4. pc # "merge" /\ ~ Standing(pc)
    BY <2>3 DEF Standing
  <2>5. Goto(p, pc)
    BY <2>3
  <2> QED
    BY <1>1, <2>1, <2>4, <2>5, ChildMovesOwn
<1>3. CASE DeleteUnregister(p)
  <2>1. call[p] \in DeleteCall \/ call[p] \in DeleteChild
    BY <1>3, CallKind, DeleteChoiceIs DEF Inv, DeleteUnregister, At
  <2>2. Goto(p, "register") \/ Goto(p, "destroy")
    BY <1>3 DEF DeleteUnregister
  <2>3. CASE call[p] \in DeleteCall
    <3>1. Goto(p, "destroy")
      BY <1>3, <2>3, ShapeDiffers DEF DeleteUnregister
    <3>2. PICK pc \in {"parent", "children", "images", "unregister", "destroy"} :
            Goto(p, pc) /\ pc = "destroy"
      BY <3>1
    <3>3. ~ Standing(pc)
      BY <3>2 DEF Standing
    <3>4. Goto(p, pc)
      BY <3>2
    <3> QED
      BY <1>1, <2>3, <3>3, <3>4, DeleteMovesOwn
  <2>4. CASE call[p] \in DeleteChild
    <3>1. PICK pc \in ChildStep : Goto(p, pc) /\ (pc = "register" \/ pc = "destroy")
      BY <2>2, Zenon DEF ChildStep
    <3>2. pc # "merge" /\ ~ Standing(pc)
      BY <3>1 DEF Standing
    <3>3. Goto(p, pc)
      BY <3>1
    <3> QED
      BY <1>1, <2>4, <3>2, <3>3, ChildMovesOwn
  <2> QED
    BY <2>1, <2>3, <2>4
<1> QED
  BY <1>2, <1>3

LEMMA DeleteDestroyOwn ==
  ASSUME Inv, Inv', Owned, NEW p \in Proc, DeleteDestroy(p)
  PROVE  Owned'
<1>1. PICK c \in DeleteCall \cup DeleteChild : c = call[p]
  BY CallKind, DeleteChoiceIs DEF Inv, DeleteDestroy, At
<1>2. c.pc = "destroy" /\ c.d \in Dir /\ Deleting(c)
  BY <1>1, DeleteCallIs, DeleteChildIs DEF DeleteDestroy, At, Inv, Working
<1>3. ~ Made(c.d) /\ c \notin SnapshotCall /\ Mine(p, c.d)
  BY <1>1, <1>2, DeleteCallIs, DeleteChildIs DEF Deleting, Mine
<1>4. Destroyed(c.d) /\ Return(p) /\ UNCHANGED <<next, want>>
  BY <1>1 DEF DeleteDestroy
<1>5. /\ dd' = [dd EXCEPT ![c.d] = None] /\ tmp' = [tmp EXCEPT ![c.d] = None]
  BY <1>4 DEF Destroyed
<1>6. /\ dd'[c.d] = None /\ want'[c.d] = None
      /\ \A x \in Dir \ {c.d} : dd'[x] = dd[x] /\ tmp'[x] = tmp[x]
  BY <1>2, <1>3, <1>4, <1>5 DEF Inv, Types, Made
<1> QED
  BY <1>1, <1>3, <1>4, <1>6, OwnLeaves

LEMMA UndoDestroyOwn ==
  ASSUME Inv, Inv', Owned, NEW p \in Proc, UndoDestroy(p)
  PROVE  Owned'
<1>1. PICK c \in CloneCall \cup SnapshotCall : c = call[p]
  BY CallKind DEF Inv, UndoDestroy
<1>2. c.d \in Dir /\ Mine(p, c.d) /\ ~ Made(c.d) /\ c \notin DeleteChild
  BY <1>1, CloneCallIs, SnapshotCallIs DEF Inv, Working, Cloning, Snapping, Mine
<1>3. Destroyed(c.d) /\ Return(p) /\ UNCHANGED <<next, want>>
  BY <1>1 DEF UndoDestroy
<1>4. /\ dd' = [dd EXCEPT ![c.d] = None] /\ tmp' = [tmp EXCEPT ![c.d] = None]
  BY <1>3 DEF Destroyed
<1>5. /\ dd'[c.d] = None /\ want'[c.d] = None
      /\ \A x \in Dir \ {c.d} : dd'[x] = dd[x] /\ tmp'[x] = tmp[x]
  BY <1>2, <1>3, <1>4 DEF Inv, Types, Made
<1> QED
  BY <1>1, <1>2, <1>3, <1>5, OwnLeaves

LEMMA SwitchCallFacts ==
  ASSUME NEW c \in SwitchCall
  PROVE  /\ c.op = "switch" /\ c.d \in Dir /\ c.s \in Dir /\ c.di \in Descriptor /\ c.to \in Descriptor
         /\ c \notin CloneCall /\ c \notin SnapshotCall /\ c \notin DeleteCall
         /\ c \notin DeleteChoice /\ c \notin DeleteChild /\ c \notin SwitchWait
         /\ Locks(c) = {c.d, c.s} /\ Target(c) = {}
BY SwitchCallIs, Zenon

LEMMA SwitchBeginOwn ==
  ASSUME Inv, Inv', Owned, NEW p \in Proc, NEW d \in Dir, NEW s \in Dir, SwitchBegin(p, d, s),
         windows = {}, windows' = {}
  PROVE  Owned'
<1> DEFINE di == ploop_read_dd(d)
           m == [op |-> "switch", pc |-> "lock", d |-> d, s |-> s, di |-> di]
<1>1. call[p] = Idle /\ call' = [call EXCEPT ![p] = m]
  <2>1. Begin(p, m, {})
    BY DEF SwitchBegin
  <2> QED
    BY <2>1, Begins
<1>2. di \in Descriptor
  BY ReadTyped DEF Inv, SwitchBegin, Locked
<1>3. m \in SwitchWait
  <2> HIDE DEF di
  <2> QED
    BY <1>2 DEF SwitchWait
<1> HIDE DEF m, di
<1>4. PICK n \in SwitchWait : n = m
  BY <1>3
<1>5. UNCHANGED <<dd, tmp, next, want>>
  BY DEF SwitchBegin, disk
<1>6. call' = [call EXCEPT ![p] = n] /\ call'[p] = n
  BY <1>1, <1>4 DEF Inv, Types
<1>7. Fact(p)' /\ ~ Naming(n)
  BY <1>6, SwitchWaitIs DEF Fact, Naming
<1>8. next' >= next
  BY <1>5 DEF Inv, Types
<1> QED
  BY <1>1, <1>5, <1>6, <1>7, <1>8, OwnGoes, IdleIs

LEMMA SwitchLockOwn ==
  ASSUME Inv, Inv', Owned, NEW p \in Proc, SwitchLock(p)
  PROVE  Owned'
<1>1. PICK c \in SwitchWait : c = call[p]
  BY CallKind, SwitchCallIs DEF Inv, SwitchLock, At
<1>2. c.d \in Dir /\ c.s \in Dir /\ c.di \in Descriptor
  BY SwitchWaitIs
<1>3. UNCHANGED <<dd, tmp, next, want>>
  BY DEF SwitchLock, disk
<1> DEFINE to == ploop_read_dd(c.s)
           m == [op |-> "switch", pc |-> "volume", d |-> c.d, s |-> c.s, di |-> c.di, to |-> to]
<1>4. CASE Locked(p, c.s) /\ call' = [call EXCEPT ![p] = m]
  <2>1. to \in Descriptor /\ Reads(c.s, to)
    BY <1>2, <1>4, ReadTyped, Reading DEF Inv, Locked
  <2>2. m \in SwitchCall /\ m.s = c.s /\ m.to = to
    <3> HIDE DEF to
    <3> QED
      BY <1>2, <2>1 DEF SwitchCall
  <2>3. call' = [call EXCEPT ![p] = m]
    BY <1>4
  <2> HIDE DEF m, to
  <2>4. PICK n \in SwitchCall : n = m
    BY <2>2
  <2>5. PICK v \in Descriptor : v = to
    BY <2>1
  <2>6. call' = [call EXCEPT ![p] = n] /\ call'[p] = n /\ n.s = c.s /\ n.to = v
    BY <2>2, <2>3, <2>4, <2>5 DEF Inv, Types
  <2>7. SwitchFact(n)'
    BY <1>3, <2>1, <2>5, <2>6 DEF SwitchFact, Reads
  <2>8. Fact(p)' /\ ~ Naming(n)
    BY <2>6, <2>7, SwitchCallIs DEF Fact, Naming
  <2>9. next' >= next
    BY <1>3 DEF Inv, Types
  <2> QED
    BY <1>1, <1>3, <2>6, <2>8, <2>9, OwnGoes, SwitchWaitIs
<1>5. CASE Return(p)
  BY <1>1, <1>3, <1>5, OwnLeaves, SwitchWaitIs
<1> HIDE DEF to
<1> QED
  BY <1>1, <1>4, <1>5 DEF SwitchLock, to

\* The links of a switch, and the old image that goes.
LEMMA SwitchLinksOwn ==
  ASSUME Inv, Inv', Owned, NEW p \in Proc,
         SwitchUnregister(p) \/ SwitchRegister(p) \/ SwitchOldDelta(p)
  PROVE  Owned'
<1>1. PICK c \in SwitchCall : c = call[p]
  BY CallKind, SwitchWaitIs DEF Inv, SwitchUnregister, SwitchRegister, SwitchOldDelta, At
<1>2. UNCHANGED <<dd, tmp, next, want>>
  BY DEF SwitchUnregister, SwitchRegister, SwitchOldDelta
<1>2a. next' >= next
  BY <1>2 DEF Inv, Types
<1>2b. call[p] \notin SnapshotCall /\ call[p] \notin DeleteChild
  BY <1>1, SwitchCallFacts
<1>3. CASE SwitchOldDelta(p)
  <2>1. Return(p)
    BY <1>3 DEF SwitchOldDelta
  <2> QED
    BY <1>1, <1>2, <2>1, OwnLeaves, SwitchCallIs
<1>4. CASE SwitchUnregister(p) \/ SwitchRegister(p)
  <2>1. PICK pc \in {"volume", "unregister", "register", "old delta"} :
          Goto(p, pc) /\ pc # "volume"
    BY <1>4 DEF SwitchUnregister, SwitchRegister
  <2>2. PICK n \in SwitchCall :
          /\ call' = [call EXCEPT ![p] = n] /\ call'[p] = n
          /\ call' \in [Proc -> Call] /\ n \in Call
          /\ n.pc = pc /\ n.d = call[p].d
          /\ n.s = call[p].s /\ n.di = call[p].di /\ n.to = call[p].to
          /\ Locks(n) = Locks(call[p]) /\ Target(n) = Target(call[p])
    <3>1. call[p] \in SwitchCall /\ Goto(p, pc)
      BY <1>1, <2>1
    <3> QED
      BY <3>1, SwitchGoes
  <2>3. n.pc # "volume"
    <3>1. n.pc = pc
      BY <2>2, Zenon
    <3> QED
      BY <2>1, <3>1, Zenon
  <2>4. call'[p] = n /\ n \in SwitchCall
    BY <2>2, Zenon
  <2>4a. Fact(p)' /\ ~ Naming(n)
    BY <2>3, <2>4, SwitchCallFacts DEF Fact, SwitchFact, Naming
  <2>7. call' = [call EXCEPT ![p] = n]
    BY <2>2, Zenon
  <2> QED
    BY <1>2, <1>2a, <1>2b, <2>4a, <2>7, OwnGoes
<1> QED
  BY <1>3, <1>4

\* Devices and guests change no descriptor, and neither does a step that
\* changes nothing.
LEMMA OwnSame ==
  ASSUME Inv, Owned, UNCHANGED <<dd, tmp, call, next>>,
         \A d \in Dir : want'[d] # None <=> want[d] # None
  PROVE  Owned'
<1>1. \A d \in Dir : Made(d)' <=> Made(d)
  BY DEF Made
<1>2. Stored'
  BY DEF Owned, Stored, Live, Used, Solid, Owns
<1>3. FirstTops'
  BY <1>1 DEF Owned, FirstTops, FirstTop, Owns
<1>4. Distinct'
  <2>1. \A x, y : (Twin(x, y)' <=> Twin(x, y)) /\ (Heir(x, y)' <=> Heir(x, y))
    BY DEF Twin, Heir
  <2> QED
    BY <2>1 DEF Owned, Distinct, Live, NamesApart, FilesApart
<1>5. Chains'
  <2>1. PICK r \in Ranks : Ranked(r)
    BY DEF Owned, Chains
  <2>2. Ranked(r)'
    BY <1>1, <2>1 DEF Ranked, Rests, Live, Forked
  <2> QED
    BY <2>2 DEF Chains, Ranks
<1>6. Names'
  BY DEF Owned, Names, Naming
<1>7. ASSUME NEW p \in Proc PROVE Fact(p)'
  <2>1. ASSUME Naming(call[p]), New(call[p]) PROVE New(call[p])'
    <3>1. Where(call[p])' = Where(call[p])
      BY DEF Where
    <3> QED
      BY <1>1, <2>1, <3>1 DEF New, Live, Made, Owns
  <2> QED
    BY <2>1, NamingNew, FactStays
<1> QED
  BY <1>2, <1>3, <1>4, <1>5, <1>6, <1>7 DEF Owned

-----------------------------------------------------------------------------
(* Steps that change the descriptor of one directory. *)

\* Only d gets another descriptor; the promises of the others stay.
Only(d) ==
  /\ \A x \in Dir \ {d} : dd'[x] = dd[x]
  /\ dd'[d] # None /\ next' \in Nat /\ next' >= next
Kept(d) == \A x \in Dir \ {d} : want'[x] # None <=> want[x] # None

LEMMA StoredOnly ==
  ASSUME Inv, Owned, NEW d \in Dir, Only(d), Solid(dd'[d]), Used(dd[d])'
  PROVE  Stored'
<1>1. next \in Nat /\ next >= 1 /\ next' \in Nat /\ next' >= next
  BY DEF Inv, Types, Owned, Stored, Only
<1>2. ASSUME NEW x \in Dir, x # d, dd'[x] # None PROVE Solid(dd'[x]) /\ Used(dd[x])'
  <2>1. PICK v \in Descriptor : v = dd[x] /\ v = dd'[x]
    BY <1>2 DEF Inv, Types, Only
  <2>2. Solid(v) /\ Used(v)
    BY <1>2, <2>1 DEF Owned, Stored, Live, Only
  <2>3. \A e \in v.own : e.guid \in Nat /\ e.file \in Nat
    BY DEF Descriptor, Image
  <2>4. v.snap \in Int /\ v.top \in Int
    BY DEF Descriptor
  <2>5. Used(v)'
    BY <1>1, <2>2, <2>3, <2>4 DEF Used
  <2> QED
    BY <2>1, <2>2, <2>5 DEF Used
<1>3. \A x \in Dir : Solid(dd[x])' <=> Solid(dd'[x])
  BY DEF Solid, Owns
<1> QED
  BY <1>1, <1>2, <1>3 DEF Stored, Live

LEMMA DistinctOnly ==
  ASSUME Inv, Owned, NEW d \in Dir, Only(d),
         \A x, y \in Dir \ {d} : (Twin(x, y) => Twin(x, y)') /\ (Heir(x, y) => Heir(x, y)'),
         \A y \in Dir \ {d} : Live(y) /\ ~ Twin(d, y)' =>
           /\ NamesApart(dd'[d], dd[y])
           /\ ~ Heir(d, y)' => FilesApart(dd'[d], dd[y])
  PROVE  Distinct'
<1>1. \A x, y : (Twin(x, y)' <=> Twin(y, x)') /\ (Heir(x, y)' <=> Heir(y, x)')
  BY DEF Twin, Heir
<1>2. \A a, b : (NamesApart(a, b) <=> NamesApart(b, a)) /\ (FilesApart(a, b) <=> FilesApart(b, a))
  BY DEF NamesApart, FilesApart
<1>3. \A x, y \in Dir : /\ NamesApart(dd[x], dd[y])' <=> NamesApart(dd'[x], dd'[y])
                        /\ FilesApart(dd[x], dd[y])' <=> FilesApart(dd'[x], dd'[y])
  BY DEF NamesApart, FilesApart
<1>4. ASSUME NEW x \in Dir, NEW y \in Dir, x # y, dd'[x] # None, dd'[y] # None, ~ Twin(x, y)'
      PROVE  /\ NamesApart(dd'[x], dd'[y])
             /\ ~ Heir(x, y)' => FilesApart(dd'[x], dd'[y])
  <2>1. CASE x # d /\ y # d
    <3>1. dd'[x] = dd[x] /\ dd'[y] = dd[y] /\ Live(x) /\ Live(y) /\ ~ Twin(x, y)
          /\ (~ Heir(x, y)' => ~ Heir(x, y))
      BY <1>4, <2>1 DEF Only, Live
    <3> QED
      BY <1>4, <3>1 DEF Owned, Distinct
  <2>2. CASE x = d
    <3>1. dd'[y] = dd[y] /\ Live(y)
      BY <1>4, <2>2 DEF Only, Live
    <3> QED
      BY <1>4, <2>2, <3>1
  <2>3. CASE y = d
    <3>1. dd'[x] = dd[x] /\ Live(x) /\ ~ Twin(d, x)' /\ (~ Heir(x, d)' => ~ Heir(d, x)')
      BY <1>1, <1>4, <2>3 DEF Only, Live
    <3> QED
      BY <1>2, <1>4, <2>3, <3>1
  <2> QED
    BY <2>1, <2>2, <2>3
<1> QED
  BY <1>3, <1>4 DEF Distinct, Live

\* A volume with a new image of its own, its only one.
Fresh(di, h, g) ==
  /\ di.own = {[guid |-> h, parent |-> g, file |-> next]}
  /\ di.top = h /\ di.snap = g /\ di.ro = FALSE

LEMMA FreshOwn ==
  ASSUME Inv, Inv', Owned, NEW p \in Proc, NEW d \in Dir, Only(d), Kept(d), next' = next + 1,
         NEW h \in Nat, NEW g \in Int, Fresh(dd'[d], h, g), g < next,
         h = next \/ (h = TOPDELTA_UUID /\ dd'[d].parent = NoDir),
         \A x \in Dir : Made(x) => dd[x].parent # d,
         \A x, y \in Dir \ {d} : (Twin(x, y) => Twin(x, y)') /\ (Heir(x, y) => Heir(x, y)')
  PROVE  /\ Stored' /\ Distinct' /\ FirstTops' /\ GuidsFrom(p)
         /\ \A r, k \in Ranks : Ranked(r) /\ (\A x \in Dir \ {d} : k[x] = r[x]) =>
              \A x \in Dir \ {d} : Made(x) /\ dd[x].parent # NoDir => Rests(k, x)'
<1>1. next \in Nat /\ next >= 1 /\ Grounded /\ Grounded'
  BY InvGrounded, InvGroundedNext DEF Inv, Types, Owned, Stored
<1>2. PICK v \in Descriptor : v = dd'[d]
  <2>1. dd' \in [Dir -> Descriptor \cup {None}]
    BY DEF Inv, Types
  <2> QED
    BY <2>1 DEF Only
<1>3. /\ \A e \in v.own : e.guid = h /\ e.parent = g /\ e.file = next
      /\ \E e \in v.own : e.guid = h
      /\ \A e, f \in v.own : e = f
      /\ v.top = h /\ v.snap = g /\ v.ro = FALSE
  <2> DEFINE i == [guid |-> h, parent |-> g, file |-> next]
  <2>1. i.guid = h /\ i.parent = g /\ i.file = next
    OBVIOUS
  <2>2. v.own = {i} /\ v.top = h /\ v.snap = g /\ v.ro = FALSE
    BY <1>2 DEF Fresh
  <2> HIDE DEF i
  <2> QED
    BY <2>1, <2>2
<1>4. Stored'
  <2>1. Solid(v)
    BY <1>3 DEF Solid, Owns
  <2>2. Used(v)'
    BY <1>1, <1>3 DEF Used, TOPDELTA_UUID
  <2> QED
    BY <1>2, <2>1, <2>2, StoredOnly DEF Used
<1>5. \A y \in Dir : Live(y) => \A e \in dd[y].own : e.guid \in Nat /\ e.file \in Nat /\ e.guid < next /\ e.file < next
  <2> SUFFICES ASSUME NEW y \in Dir, Live(y), NEW e \in dd[y].own
               PROVE  e.guid \in Nat /\ e.file \in Nat /\ e.guid < next /\ e.file < next
    OBVIOUS
  <2>1. dd[y] \in Descriptor /\ Used(dd[y])
    BY DEF Inv, Types, Live, Owned, Stored
  <2> QED
    BY <2>1 DEF Used, Descriptor, Image
<1>6. Distinct'
  <2>1. \A y \in Dir \ {d} : Live(y) => NamesApart(v, dd[y]) /\ FilesApart(v, dd[y])
    BY <1>1, <1>3, <1>5 DEF NamesApart, FilesApart
  <2> QED
    BY <1>2, <2>1, DistinctOnly
<1>7. \A x \in Dir \ {d} : want'[x] # None => Made(x) /\ dd'[x] = dd[x] /\ dd[x].parent # d
        /\ (dd[x].parent # NoDir => dd[x].parent \in Dir /\ dd'[dd[x].parent] = dd[dd[x].parent])
  BY <1>1 DEF Only, Kept, Made, Grounded
<1>8. FirstTops'
  <2> SUFFICES ASSUME NEW x \in Dir, want'[x] # None PROVE FirstTop(x)'
    BY DEF FirstTops, Made
  <2>1. CASE x = d
    BY <1>1, <1>2, <1>3, <2>1 DEF FirstTop, Owns, TOPDELTA_UUID
  <2>2. CASE x # d
    <3>1. FirstTop(x)
      BY <1>7, <2>2 DEF Owned, FirstTops
    <3> QED
      BY <1>7, <2>2, <3>1 DEF FirstTop, Owns
  <2> QED
    BY <2>1, <2>2
<1>9. GuidsFrom(p)
  <2> SUFFICES ASSUME NEW y \in Dir, dd'[y] # None, NEW e \in dd'[y].own
               PROVE  Given(p, e.guid) \/ (Live(y) /\ Owns(dd[y], e.guid))
    BY DEF GuidsFrom
  <2>1. CASE y = d
    BY <1>1, <1>2, <1>3, <2>1 DEF Given, TOPDELTA_UUID
  <2>2. CASE y # d
    BY <2>2 DEF Only, Live, Owns
  <2> QED
    BY <2>1, <2>2
<1>10. ASSUME NEW r \in Ranks, NEW k \in Ranks, Ranked(r), \A x \in Dir \ {d} : k[x] = r[x],
              NEW x \in Dir \ {d}, Made(x), dd[x].parent # NoDir
       PROVE  Rests(k, x)'
  <2>1. Rests(r, x)
    BY <1>10 DEF Ranked
  <2>2. dd'[x] = dd[x] /\ dd[x].parent \in Dir /\ dd[x].parent # d
        /\ dd'[dd[x].parent] = dd[dd[x].parent] /\ Live(x)
    BY <1>1, <1>10 DEF Only, Grounded
  <2>3. dd[x].snap \in Int /\ dd[x].snap >= 1 /\ dd[x].snap < next
    <3>1. dd[x] \in Descriptor /\ Used(dd[x])
      BY <1>1, <1>10 DEF Grounded, Owned, Stored
    <3> QED
      BY <2>1, <3>1 DEF Rests, Used, Descriptor
  <2>4. ASSUME NEW z \in Dir, dd'[z] # None, NEW q \in dd'[z].own, q.guid = dd[x].snap
        PROVE  z = dd[x].parent \/ ((want'[z] # None => k[z] < k[x]) /\ Forked(z, x)')
    <3>1. z # d
      BY <1>1, <1>2, <1>3, <2>3, <2>4 DEF TOPDELTA_UUID
    <3>2. dd'[z] = dd[z] /\ Live(z) /\ k[z] = r[z] /\ (want'[z] # None => Made(z))
      BY <1>10, <2>4, <3>1 DEF Only, Kept, Live, Made
    <3>3. z = dd[x].parent \/ ((Made(z) => r[z] < r[x]) /\ Forked(z, x))
      BY <2>1, <2>4, <3>2 DEF Rests
    <3> QED
      BY <1>10, <2>2, <3>2, <3>3 DEF Forked
  <2> QED
    BY <1>10, <2>1, <2>2, <2>4 DEF Rests, Live, Made
<1> QED
  BY <1>4, <1>6, <1>8, <1>9, <1>10

\* A volume that was made and that no snapshot is being made of is nobody's twin;
\* one that no delete has merged is nobody's heir.
LEMMA NoTwin ==
  ASSUME Inv, NEW x \in Dir, Made(x), \A q \in Proc : lock[x] = q => call[q] \notin SnapshotCall
  PROVE  \A y : ~ Twin(x, y) /\ ~ Twin(y, x)
<1> SUFFICES ASSUME NEW q \in Proc, call[q] \in SnapshotCall, x = call[q].s \/ x = call[q].d
             PROVE  FALSE
  BY DEF Twin
<1>1. Locks(call[q]) = {call[q].s} /\ Snapping(call[q])
  BY SnapshotCallIs DEF Inv, Working
<1> QED
  BY <1>1 DEF Inv, Holding, Snapping

LEMMA NoHeir ==
  ASSUME Inv, NEW x \in Dir,
         \A q \in Proc : lock[x] = q => call[q] \notin DeleteChild \/ call[q].pc = "merge"
  PROVE  \A y : ~ Heir(x, y) /\ ~ Heir(y, x)
<1> SUFFICES ASSUME NEW q \in Proc, call[q] \in DeleteChild, call[q].pc # "merge",
                    x = call[q].d \/ x = call[q].c
             PROVE  FALSE
  BY DEF Heir
<1>1. x \in Locks(call[q])
  BY DeleteChildFacts
<1> QED
  BY <1>1 DEF Inv, Holding

\* The images of such a volume have uuids that no other volume has.
LEMMA Owner ==
  ASSUME Owned, NEW s \in Dir, Live(s), NEW z \in Dir, Live(z), ~ Twin(s, z),
         NEW v, v # TOPDELTA_UUID, Owns(dd[s], v), Owns(dd[z], v)
  PROVE  z = s
<1>1. PICK e \in dd[s].own : e.guid = v
  BY DEF Owns
<1>2. PICK f \in dd[z].own : f.guid = v
  BY DEF Owns
<1> QED
  BY <1>1, <1>2 DEF Owned, Distinct, NamesApart

LEMMA ReadonlyTop ==
  ASSUME Inv, Owned, NEW s \in Dir, Live(s), dd[s].ro
  PROVE  /\ dd[s].top \in Nat /\ dd[s].top >= 1 /\ Owns(dd[s], dd[s].top)
         /\ ~ Owns(dd[s], TOPDELTA_UUID)
<1>1. Solid(dd[s]) /\ dd[s].top \in Nat
  BY DEF Owned, Stored, Inv, Types, Live, Descriptor
<1>2. dd[s].ro # FALSE
  OBVIOUS
<1>3. ~ Owns(dd[s], TOPDELTA_UUID) /\ Owns(dd[s], dd[s].top)
  BY <1>1, <1>2 DEF Solid
<1> QED
  BY <1>1, <1>3 DEF TOPDELTA_UUID

\* A volume whose image continues in one that only its parent has.
LEMMA RestsOn ==
  ASSUME NEW k \in Ranks, NEW d \in Dir, NEW s \in Dir, NEW g \in Int, g >= 1, k[s] < k[d],
         dd'[d].parent = s, dd'[d].snap = g, dd'[s].ro = FALSE => g # dd'[s].top,
         \A z \in Dir : dd'[z] # None /\ Owns(dd'[z], g) => z = s
  PROVE  Rests(k, d)'
BY DEF Rests, Live, Owns

\* The uuid a call chose stays its own.
LEMMA NewKeeps ==
  ASSUME NEW c, NEW n, c.g \in Nat, New(c), n.g = c.g, Where(n) = Where(c),
         next \in Nat, next' \in Nat, next' >= next,
         \A y \in Dir : dd'[y] # None /\ Owns(dd'[y], c.g) => y \in Where(c),
         \A x \in Dir : want'[x] # None => dd'[x].snap # c.g
  PROVE  New(n)'
<1>1. Where(n)' = Where(n)
  BY DEF Where
<1>2. \A y \in Dir : Owns(dd[y], c.g)' <=> Owns(dd'[y], c.g)
  BY DEF Owns
<1>3. n.g >= 1 /\ n.g < next'
  BY DEF New
<1>4. \A y \in Dir : Live(y)' /\ Owns(dd[y], n.g)' => y \in Where(n)'
  BY <1>1, <1>2 DEF Live
<1>5. \A x \in Dir : Made(x)' => dd'[x].snap # n.g
  BY DEF Made
<1> QED
  BY <1>3, <1>4, <1>5 DEF New

LEMMA VolumeCreateOwn ==
  ASSUME Inv, Inv', Owned, NEW p \in Proc, NEW d \in Dir, ploop_volume_create(p, d),
         windows = {}, windows' = {}
  PROVE  Owned'
<1>1. call[p] = Idle /\ call' = [call EXCEPT ![p] = Idle] /\ When(d \in layout, "existing") = {}
  BY Begins DEF ploop_volume_create
<1>2. d \notin layout /\ dd[d] = None /\ ~ Made(d) /\ lock[d] = None
  BY <1>1, NotWhen DEF Inv, Dirs
<1> DEFINE own == {[guid |-> TOPDELTA_UUID, parent |-> NONE_UUID, file |-> next]}
           v == [own |-> own, far |-> {}, top |-> TOPDELTA_UUID, parent |-> NoDir,
                 snap |-> NONE_UUID, ro |-> FALSE]
<1>3. dd' = [dd EXCEPT ![d] = v] /\ next' = next + 1 /\ want' = [want EXCEPT ![d] = {}] /\ tmp' = tmp
  BY <1>2 DEF ploop_volume_create
<1>4. v.own = own /\ v.top = TOPDELTA_UUID /\ v.parent = NoDir /\ v.snap = NONE_UUID /\ v.ro = FALSE
  OBVIOUS
<1> HIDE DEF v
<1>5. Types /\ Grounded /\ Grounded' /\ next \in Nat /\ next >= 1 /\ NoDir \notin Dir
  BY InvGrounded, InvGroundedNext, VolumeAssumption DEF Inv, Types, Owned, Stored
<1>6. dd'[d] = v /\ (\A x \in Dir \ {d} : dd'[x] = dd[x] /\ want'[x] = want[x]) /\ want'[d] = {}
  BY <1>3, <1>5 DEF Types
<1>7. v # None
  <2>1. want'[d] # None
    BY <1>6, NoneAssumption
  <2> QED
    BY <1>5, <1>6, <2>1 DEF Grounded, Made, Live
<1>8. Only(d) /\ Kept(d)
  BY <1>3, <1>5, <1>6, <1>7 DEF Only, Kept
<1>9. Fresh(dd'[d], TOPDELTA_UUID, NONE_UUID)
  BY <1>4, <1>6 DEF Fresh
<1>10. \A x \in Dir : Made(x) => dd[x].parent # d
  BY <1>2, <1>5 DEF Grounded
<1>11. call' = call
  BY <1>1, <1>5 DEF Types
<1>12. \A x, y \in Dir \ {d} : (Twin(x, y) => Twin(x, y)') /\ (Heir(x, y) => Heir(x, y)')
  BY <1>11 DEF Twin, Heir
<1>13. TOPDELTA_UUID \in Nat /\ NONE_UUID \in Int /\ NONE_UUID < next
  BY <1>5 DEF TOPDELTA_UUID, NONE_UUID
<1>14. /\ Stored' /\ Distinct' /\ FirstTops' /\ GuidsFrom(p)
       /\ \A r, k \in Ranks : Ranked(r) /\ (\A x \in Dir \ {d} : k[x] = r[x]) =>
            \A x \in Dir \ {d} : Made(x) /\ dd[x].parent # NoDir => Rests(k, x)'
  BY <1>3, <1>4, <1>6, <1>8, <1>9, <1>10, <1>12, <1>13, FreshOwn
<1>15. Chains'
  <2>1. PICK r \in Ranks : Ranked(r)
    BY DEF Owned, Chains
  <2>2. \A x \in Dir \ {d} : Made(x) /\ dd[x].parent # NoDir => Rests(r, x)'
    BY <1>14, <2>1
  <2>3. Ranked(r)'
    BY <1>4, <1>6, <2>2 DEF Ranked, Made
  <2> QED
    BY <2>3 DEF Chains, Ranks
<1>16. SnapsFrom(p)
  BY <1>4, <1>6 DEF SnapsFrom, Given, Made, NONE_UUID
<1>17. Spare(d)
  <2> SUFFICES ASSUME NEW q \in Proc, d \in Target(call[q]) PROVE FALSE
    BY <1>2 DEF Spare
  <2>1. d \in layout
    BY CloneCallIs, SnapshotCallIs DEF Inv, Working, Cloning, Snapping, Target
  <2> QED
    BY <1>2, <2>1
<1>18. call'[p] = Idle
  BY <1>1, <1>11
<1>19. Fact(p)' /\ ~ Naming(call'[p])
  BY <1>18, IdleIs DEF Fact, Naming
<1>20. \A x \in Dir : Spare(x) \/ (dd'[x] = dd[x] /\ tmp'[x] = tmp[x])
  BY <1>3, <1>6, <1>17
<1>21. next' \in Nat /\ next' >= next /\ \A q \in Proc \ {p} : call'[q] = call[q]
  BY <1>3, <1>5, <1>11
<1> QED
  BY <1>14, <1>15, <1>16, <1>19, <1>20, <1>21, OwnStep

\* What create_volume stores.
LEMMA CreatedFresh ==
  ASSUME Types, NEW src \in Dir, NEW dst \in Dir, NEW dir, NEW g \in Int,
         create_volume(src, dst, dir, g)
  PROVE  /\ Fresh(dd'[dst], next, g) /\ dd'[dst].parent = src /\ next' = next + 1
         /\ ~ Owns(dd'[dst], g) \/ g = next
<1> DEFINE i == [guid |-> next, parent |-> g, file |-> next]
           v == [own |-> {i}, far |-> {}, top |-> next, parent |-> src, snap |-> g, ro |-> FALSE]
<1>1. dd' = [dd EXCEPT ![dst] = v] /\ next' = next + 1
  BY DEF create_volume
<1>2. v.own = {i} /\ v.top = next /\ v.snap = g /\ v.ro = FALSE /\ v.parent = src /\ i.guid = next
  OBVIOUS
<1> HIDE DEF v
<1>3. dd'[dst] = v
  BY <1>1 DEF Types
<1>4. Fresh(dd'[dst], next, g)
  BY <1>2, <1>3 DEF Fresh
<1> HIDE DEF i
<1> QED
  BY <1>1, <1>2, <1>3, <1>4 DEF Owns

LEMMA CloneVolumeOwn ==
  ASSUME Inv, Inv', Owned, NEW p \in Proc, CloneVolume(p)
  PROVE  Owned'
<1>1. PICK c \in CloneCall : c = call[p]
  BY CallKind DEF Inv, CloneVolume, At
<1>2. PICK pc \in {"volume", "snapshot", "link", "undo", "destroy"} :
        Goto(p, pc) /\ pc = IF c.di.ro THEN "link" ELSE "snapshot"
  BY <1>1 DEF CloneVolume
<1>3. PICK n \in CloneCall :
        /\ call' = [call EXCEPT ![p] = n] /\ call'[p] = n
        /\ n.d = c.d /\ n.s = c.s /\ n.di = c.di /\ n.g = c.g /\ n.pc = pc
  BY <1>1, <1>2, CloneGoes
<1>4. c.pc = "volume" /\ c.d \in Dir /\ c.s \in Dir /\ c.g \in Nat /\ Cloning(c) /\ CloneFact(c)
  BY <1>1, CloneCallIs DEF CloneVolume, At, Inv, Working, Owned, Fact
<1>5. c.d # c.s /\ ~ Made(c.d) /\ dd[c.d] = None /\ Made(c.s)
  BY <1>4 DEF Cloning
<1>6. Types /\ Grounded /\ next \in Nat /\ next >= 1
  BY InvGrounded DEF Inv, Types, Owned, Stored
<1>7. create_volume(c.s, c.d, IF Inside THEN c.d ELSE NoDir, c.g)
  BY <1>1 DEF CloneVolume
<1>8. /\ dd'[c.d] # None /\ dd'[c.d].parent = c.s /\ next' \in Nat
      /\ \A x \in Dir \ {c.d} : dd'[x] = dd[x]
  BY <1>4, <1>7, CreateVolumeTyped
<1>9. Fresh(dd'[c.d], next, c.g) /\ next' = next + 1 /\ (~ Owns(dd'[c.d], c.g) \/ c.g = next)
  BY <1>4, <1>6, <1>7, CreatedFresh
<1>10. UNCHANGED <<tmp, want>>
  BY DEF CloneVolume
<1>11. c.g < next /\ c.g >= 1
  <2>1. CASE c.di.ro = FALSE
    BY <1>4, <2>1 DEF CloneFact, New
  <2>2. CASE c.di.ro
    <3>1. c.g = dd[c.s].top /\ dd[c.s].ro /\ Live(c.s)
      BY <1>4, <1>5, <1>6, <2>2 DEF CloneFact, Reads, Grounded
    <3>2. Used(dd[c.s])
      BY <1>4, <3>1 DEF Owned, Stored
    <3> QED
      BY <1>4, <3>1, <3>2, ReadonlyTop DEF Used
  <2> QED
    BY <1>4, <2>1, <2>2 DEF CloneFact
<1>12. Only(c.d) /\ Kept(c.d)
  BY <1>6, <1>8, <1>9, <1>10 DEF Only, Kept
<1>13. \A x \in Dir : Made(x) => dd[x].parent # c.d
  BY <1>4, <1>5, <1>6, VolumeAssumption DEF Grounded
<1>14. \A x, y : (Twin(x, y) => Twin(x, y)') /\ (Heir(x, y) => Heir(x, y)')
  <2>1. call[p] \notin SnapshotCall /\ call[p] \notin DeleteChild
    BY <1>1, CloneCallIs
  <2>2. \A q \in Proc \ {p} : call'[q] = call[q]
    BY <1>3, <1>6 DEF Types
  <2> QED
    BY <2>1, <2>2 DEF Twin, Heir
<1>15. /\ Stored' /\ Distinct' /\ FirstTops' /\ GuidsFrom(p)
       /\ \A r, k \in Ranks : Ranked(r) /\ (\A x \in Dir \ {c.d} : k[x] = r[x]) =>
            \A x \in Dir \ {c.d} : Made(x) /\ dd[x].parent # NoDir => Rests(k, x)'
  BY <1>4, <1>6, <1>9, <1>11, <1>12, <1>13, <1>14, FreshOwn
<1>16. Chains'
  <2>1. PICK r \in Ranks : Ranked(r)
    BY DEF Owned, Chains
  <2>2. \A x \in Dir \ {c.d} : Made(x) /\ dd[x].parent # NoDir => Rests(r, x)'
    BY <1>15, <2>1
  <2>3. Ranked(r)'
    BY <1>5, <1>8, <1>10, <2>2 DEF Ranked, Made
  <2> QED
    BY <2>3 DEF Chains, Ranks
<1>17. SnapsFrom(p)
  BY <1>5, <1>8, <1>10 DEF SnapsFrom, Made
<1>18. c.di.ro = FALSE => New(n)'
  <2> SUFFICES ASSUME c.di.ro = FALSE PROVE New(n)'
    OBVIOUS
  <2>1. New(c) /\ Where(n) = Where(c)
    BY <1>3, <1>4, CloneCallIs DEF CloneFact, Where
  <2>2. \A y \in Dir : dd'[y] # None /\ Owns(dd'[y], c.g) => y \in Where(c)
    BY <1>4, <1>8, <1>9, <1>11, <2>1 DEF New, Live
  <2>3. \A x \in Dir : want'[x] # None => dd'[x].snap # c.g
    BY <1>5, <1>8, <1>10, <2>1 DEF New, Made
  <2> QED
    BY <1>3, <1>4, <1>6, <1>9, <2>1, <2>2, <2>3, NewKeeps
<1>19. CloneFact(n)'
  <2>1. Reads(c.s, c.di)'
    BY <1>4, <1>5, <1>8 DEF CloneFact, Reads
  <2>2. dd'[c.d].snap = c.g /\ dd'[c.d].ro = FALSE /\ ~ Owns(dd'[c.d], TOPDELTA_UUID)
    <3> DEFINE i == [guid |-> next, parent |-> c.g, file |-> next]
    <3>1. i.guid = next
      OBVIOUS
    <3>2. dd'[c.d].own = {i} /\ dd'[c.d].snap = c.g /\ dd'[c.d].ro = FALSE
      BY <1>9 DEF Fresh
    <3> HIDE DEF i
    <3> QED
      BY <1>6, <3>1, <3>2 DEF Owns, TOPDELTA_UUID
  <2>3. ~ Owns(dd[c.d], TOPDELTA_UUID)' /\ (Plain(n)' <=> (~ Owns(dd'[c.s], c.g) /\ \A e \in c.di.far : e.guid # c.g /\ e.guid # c.di.top))
    BY <1>3, <2>2 DEF Owns, Plain
  <2>4. c.di.ro = FALSE => Plain(n)'
    BY <1>4, <1>5, <1>8, <2>3 DEF CloneFact, Plain
  <2> QED
    BY <1>2, <1>3, <1>4, <1>18, <2>1, <2>2, <2>3, <2>4 DEF CloneFact
<1>20. Fact(p)'
  BY <1>3, <1>19, CloneCallIs DEF Fact
<1>21. Naming(call'[p]) => Naming(call[p]) /\ call'[p].g = call[p].g
  BY <1>1, <1>3, CloneCallIs DEF Naming
<1>22. \A x \in Dir : Mine(p, x) \/ (dd'[x] = dd[x] /\ tmp'[x] = tmp[x])
  BY <1>1, <1>8, <1>10, CloneCallIs DEF Mine
<1>23. next' >= next /\ \A q \in Proc \ {p} : call'[q] = call[q]
  BY <1>3, <1>6, <1>9 DEF Types
<1> QED
  BY <1>8, <1>15, <1>16, <1>17, <1>20, <1>21, <1>22, <1>23, OwnStep

\* A switched volume gets an image on top of the top image of a snapshot.
LEMMA SwitchVolumeOwn ==
  ASSUME Inv, Inv', Owned, NEW p \in Proc, SwitchVolume(p), windows' = {}
  PROVE  Owned'
<1>1. PICK c \in SwitchCall : c = call[p]
  BY CallKind, SwitchWaitIs DEF Inv, SwitchVolume, At
<1>2. c.pc = "volume" /\ c.op = "switch"
  BY <1>1, SwitchCallFacts DEF SwitchVolume, At
<1>3. /\ c.d \in Dir /\ c.s \in Dir /\ c.to \in Descriptor /\ c.s # c.d /\ Made(c.s)
      /\ Mine(p, c.d) /\ Mine(p, c.s)
  BY <1>1, SwitchKnown
<1>4. call[p] \notin SnapshotCall /\ call[p] \notin DeleteChild /\ ~ Naming(call[p])
      /\ Locks(call[p]) = {c.d, c.s}
  BY <1>1, SwitchCallFacts DEF Naming
<1>5. Types /\ Grounded /\ next \in Nat /\ next >= 1
  BY InvGrounded DEF Inv, Types, Owned, Stored
<1>6. lock[c.s] = p /\ lock[c.d] = p /\ Reads(c.s, c.to)
  BY <1>1, <1>2, <1>3, <1>4 DEF Inv, Holding, Owned, Fact, SwitchFact
<1>7. Kids(c.d) = {}
  BY <1>1, <1>2 DEF Inv, Childless
<1>8. tmp' = tmp
  BY DEF SwitchVolume
<1> DEFINE g == SwitchGuid(c.to)
<1>9. CASE /\ create_volume(c.s, c.d, get_delta_storage_dir(c.di), g)
           /\ \A x \in Dir \ {c.d} : want'[x] = want[x]
           /\ windows' = windows \cup When(~c.to.ro, "switch to a volume")
           /\ \E pc \in {"volume", "unregister", "register", "old delta"} :
                Goto(p, pc) /\ pc # "volume"
  <2>0. /\ create_volume(c.s, c.d, get_delta_storage_dir(c.di), g)
        /\ \A x \in Dir \ {c.d} : want'[x] = want[x]
    BY <1>9, Zenon
  <2>1. When(~c.to.ro, "switch to a volume") = {}
    BY <1>9
  <2>2. c.to.ro /\ g = c.to.top
    BY <2>1, NotWhen DEF SwitchGuid
  <2> HIDE DEF g
  <2>3. Live(c.s) /\ dd[c.s].ro /\ g = dd[c.s].top /\ dd[c.s] \in Descriptor
    BY <1>3, <1>5, <1>6, <2>2 DEF Reads, Grounded
  <2>4. g \in Nat /\ g >= 1 /\ Owns(dd[c.s], g) /\ Used(dd[c.s])
    BY <1>3, <2>3, ReadonlyTop DEF Owned, Stored
  <2>5. g < next
    BY <2>3, <2>4 DEF Used
  <2>6. /\ dd'[c.d] # None /\ dd'[c.d].parent = c.s /\ next' \in Nat
        /\ \A x \in Dir \ {c.d} : dd'[x] = dd[x]
    BY <1>3, <2>0, <2>4, CreateVolumeTyped
  <2>7. Fresh(dd'[c.d], next, g) /\ next' = next + 1 /\ (~ Owns(dd'[c.d], g) \/ g = next)
    BY <1>3, <1>5, <2>0, <2>4, CreatedFresh
  <2>8. Only(c.d) /\ Kept(c.d)
    BY <1>5, <2>0, <2>6, <2>7 DEF Only, Kept
  <2>9. \A x \in Dir : Made(x) => dd[x].parent # c.d
    BY <1>5, <1>7 DEF Kids, Continues, Grounded, Live
  <2>10. PICK n \in SwitchCall : call' = [call EXCEPT ![p] = n] /\ n.pc # "volume"
    <3>1. PICK pc \in {"volume", "unregister", "register", "old delta"} :
            Goto(p, pc) /\ pc # "volume"
      BY <1>9
    <3>2. \E n \in SwitchCall :
            /\ call' = [call EXCEPT ![p] = n] /\ call'[p] = n
            /\ call' \in [Proc -> Call] /\ n \in Call
            /\ n.pc = pc /\ n.d = call[p].d
            /\ n.s = call[p].s /\ n.di = call[p].di /\ n.to = call[p].to
            /\ Locks(n) = Locks(call[p]) /\ Target(n) = Target(call[p])
      BY <1>1, <3>1, SwitchGoes, Zenon
    <3> QED
      BY <3>1, <3>2, Zenon
  <2>11. call'[p] = n /\ \A q \in Proc \ {p} : call'[q] = call[q]
    BY <1>5, <2>10 DEF Types
  <2>12. \A x, y : (Twin(x, y) => Twin(x, y)') /\ (Heir(x, y) => Heir(x, y)')
    BY <1>4, <2>11 DEF Twin, Heir
  <2>13. n \notin CloneCall /\ n \notin SnapshotCall /\ n \notin DeleteCall
         /\ n \notin DeleteChoice /\ n \notin DeleteChild
    BY SwitchCallFacts, Zenon
  <2>14. Fact(p)' /\ ~ Naming(call'[p])
    BY <2>10, <2>11, <2>13 DEF Fact, SwitchFact, Naming
  <2>15. /\ Stored' /\ Distinct' /\ FirstTops' /\ GuidsFrom(p)
         /\ \A r, k \in Ranks : Ranked(r) /\ (\A x \in Dir \ {c.d} : k[x] = r[x]) =>
              \A x \in Dir \ {c.d} : Made(x) /\ dd[x].parent # NoDir => Rests(k, x)'
    BY <1>3, <1>5, <2>4, <2>5, <2>7, <2>8, <2>9, <2>12, FreshOwn
  <2>16. \A z \in Dir : dd'[z] # None /\ Owns(dd'[z], g) => z = c.s
    <3> SUFFICES ASSUME NEW z \in Dir, dd'[z] # None, Owns(dd'[z], g) PROVE z = c.s
      OBVIOUS
    <3>1. z # c.d
      BY <1>5, <2>5, <2>7
    <3>2. Live(z) /\ Owns(dd[z], g)
      BY <2>6, <3>1 DEF Live
    <3>3. ~ Twin(c.s, z)
      BY <1>3, <1>4, <1>6, NoTwin
    <3> QED
      BY <1>3, <2>3, <2>4, <3>2, <3>3, Owner DEF TOPDELTA_UUID
  <2>17. Chains'
    <3>1. PICK r \in Ranks : Ranked(r)
      BY DEF Owned, Chains
    <3> DEFINE k == [r EXCEPT ![c.d] = r[c.s] + 1]
    <3>2. k \in Ranks /\ (\A x \in Dir \ {c.d} : k[x] = r[x]) /\ k[c.s] < k[c.d]
      BY <1>3, <3>1 DEF Ranks
    <3> HIDE DEF k
    <3>3. \A x \in Dir \ {c.d} : Made(x) /\ dd[x].parent # NoDir => Rests(k, x)'
      BY <2>15, <3>1, <3>2
    <3>4. dd'[c.d].snap = g /\ dd'[c.s].ro # FALSE
      BY <1>3, <2>3, <2>6, <2>7 DEF Fresh
    <3>5. Rests(k, c.d)'
      <4>1. \E h \in Int : h = g
        BY <2>4
      <4>2. PICK h \in Int : h = g
        BY <4>1
      <4>3. h >= 1 /\ dd'[c.d].snap = h /\ k[c.s] < k[c.d] /\ dd'[c.d].parent = c.s
            /\ (dd'[c.s].ro = FALSE => h # dd'[c.s].top)
            /\ \A z \in Dir : dd'[z] # None /\ Owns(dd'[z], h) => z = c.s
        BY <2>4, <2>6, <2>16, <3>2, <3>4, <4>2
      <4> QED
        BY <1>3, <3>2, <4>3, RestsOn
    <3>6. \A x \in Dir \ {c.d} : want'[x] # None /\ dd'[x].parent # NoDir =>
            Made(x) /\ dd[x].parent # NoDir
      BY <2>0, <2>6 DEF Made
    <3>7. Ranked(k)'
      BY <3>3, <3>5, <3>6 DEF Ranked, Made
    <3> QED
      BY <3>2, <3>7 DEF Chains, Ranks
  <2>18. SnapsFrom(p)
    <3>1. Given(p, dd'[c.d].snap)
      BY <1>3, <1>6, <2>3, <2>4, <2>7 DEF Given, Fresh
    <3> QED
      BY <2>0, <2>6, <3>1 DEF SnapsFrom, Made
  <2>19. \A x \in Dir : Mine(p, x) \/ (dd'[x] = dd[x] /\ tmp'[x] = tmp[x])
    BY <1>3, <1>8, <2>6
  <2>20. next' >= next
    BY <1>5, <2>7
  <2> QED
    BY <2>6, <2>11, <2>14, <2>15, <2>17, <2>18, <2>19, <2>20, OwnStep
<1>10. CASE Return(p) /\ UNCHANGED <<dd, next, want>>
  BY <1>4, <1>8, <1>10, OwnLeaves
<1> HIDE DEF g
<1>11. \A W : want' = [want EXCEPT ![c.d] = W] => \A x \in Dir \ {c.d} : want'[x] = want[x]
  BY <1>5 DEF Types
<1> QED
  BY <1>1, <1>9, <1>10, <1>11 DEF SwitchVolume, g

\* The clone becomes a volume that was made.
LEMMA CloneLinkOwn ==
  ASSUME Inv, Inv', Owned, NEW p \in Proc, CloneLink(p)
  PROVE  Owned'
<1>1. PICK c \in CloneCall : c = call[p]
  BY CallKind DEF Inv, CloneLink, At
<1>2. c.pc = "link" /\ c.d \in Dir /\ c.s \in Dir /\ c.g \in Nat /\ Cloning(c) /\ CloneFact(c)
  BY <1>1, CloneCallIs DEF CloneLink, At, Inv, Working, Owned, Fact
<1>3. c.d # c.s /\ ~ Made(c.d) /\ Made(c.s) /\ Live(c.d) /\ dd[c.d].parent = c.s
  BY <1>2 DEF Cloning, Continues, Live
<1>4. /\ Reads(c.s, c.di) /\ dd[c.d].snap = c.g /\ dd[c.d].ro = FALSE
      /\ ~ Owns(dd[c.d], TOPDELTA_UUID)
  BY <1>2 DEF CloneFact
<1>5. Types /\ Grounded /\ next \in Nat /\ Live(c.s)
  BY <1>2, <1>3, InvGrounded DEF Inv, Types, Grounded
<1>6. UNCHANGED <<dd, tmp, next>> /\ Return(p)
  BY DEF CloneLink
<1>7. \A x \in Dir \ {c.d} : want'[x] = want[x]
  BY <1>1, <1>2, <1>5 DEF CloneLink, Types
<1>8. call'[p] = Idle /\ \A q \in Proc \ {p} : call'[q] = call[q]
  BY <1>5, <1>6 DEF Return, Types
<1>9. lock[c.s] = p /\ call[p] \notin SnapshotCall /\ call[p] \notin DeleteChild
      /\ (c.di.ro = FALSE => Naming(call[p]))
  BY <1>1, <1>2, CloneCallIs DEF Inv, Holding, Naming
<1>10. c.g >= 1 /\ (\A z \in Dir : Live(z) /\ Owns(dd[z], c.g) => z = c.s)
       /\ (dd[c.s].ro = FALSE => c.g # dd[c.s].top)
       /\ (c.di.ro => Owns(dd[c.s], c.g))
  <2>1. CASE c.di.ro = FALSE
    <3>1. New(c) /\ Topped(c) /\ Where(c) = {c.s}
      BY <1>2, <2>1, CloneCallIs DEF CloneFact, Where
    <3> QED
      BY <1>4, <2>1, <3>1 DEF New, Topped, Reads
  <2>2. CASE c.di.ro
    <3>1. c.g = dd[c.s].top /\ dd[c.s].ro
      BY <1>2, <1>4, <2>2 DEF CloneFact, Reads
    <3>2. c.g >= 1 /\ Owns(dd[c.s], c.g)
      BY <1>2, <1>5, <3>1, ReadonlyTop
    <3>3. \A z \in Dir : Live(z) /\ Owns(dd[z], c.g) => z = c.s
      <4> SUFFICES ASSUME NEW z \in Dir, Live(z), Owns(dd[z], c.g) PROVE z = c.s
        OBVIOUS
      <4>1. ~ Twin(c.s, z)
        BY <1>2, <1>3, <1>9, NoTwin
      <4> QED
        BY <1>2, <1>5, <3>2, <4>1, Owner DEF TOPDELTA_UUID
    <3> QED
      BY <3>1, <3>2, <3>3
  <2> QED
    BY <1>2, <2>1, <2>2 DEF CloneFact
<1>11. \A x, y : (Twin(x, y)' <=> Twin(x, y)) /\ (Heir(x, y)' <=> Heir(x, y))
  BY <1>8, <1>9, IdleIs DEF Twin, Heir
<1>12. Stored'
  BY <1>6 DEF Owned, Stored, Live, Used, Solid, Owns
<1>13. Distinct'
  BY <1>6, <1>11 DEF Owned, Distinct, Live, NamesApart, FilesApart
<1>14. FirstTops'
  <2> SUFFICES ASSUME NEW x \in Dir, want'[x] # None PROVE FirstTop(x)'
    BY DEF FirstTops, Made
  <2>1. FirstTop(x)
    BY <1>4, <1>7 DEF Owned, FirstTops, Made, FirstTop
  <2> QED
    BY <1>6, <2>1 DEF FirstTop, Owns
<1>15. Chains'
  <2>1. PICK r \in Ranks : Ranked(r)
    BY DEF Owned, Chains
  <2> DEFINE k == [r EXCEPT ![c.d] = r[c.s] + 1]
  <2>2. k \in Ranks /\ (\A x \in Dir \ {c.d} : k[x] = r[x]) /\ k[c.s] < k[c.d]
    BY <1>2, <1>3, <2>1 DEF Ranks
  <2> HIDE DEF k
  <2>3. Rests(k, c.d)'
    <3>0. PICK g \in Int : g = c.g
      BY <1>2
    <3>1. /\ g >= 1 /\ k[c.s] < k[c.d] /\ dd'[c.d].parent = c.s /\ dd'[c.d].snap = g
          /\ (dd'[c.s].ro = FALSE => g # dd'[c.s].top)
          /\ \A z \in Dir : dd'[z] # None /\ Owns(dd'[z], g) => z = c.s
      BY <1>3, <1>4, <1>6, <1>10, <2>2, <3>0 DEF Live
    <3> QED
      BY <1>2, <2>2, <3>1, RestsOn
  <2>4. ASSUME NEW x \in Dir \ {c.d}, want'[x] # None, dd'[x].parent # NoDir PROVE Rests(k, x)'
    <3>1. Made(x) /\ dd[x].parent # NoDir
      BY <1>6, <1>7, <2>4 DEF Made
    <3>2. Rests(r, x) /\ dd[x].parent \in Dir /\ dd[x].parent # c.d
      BY <1>3, <1>5, <2>1, <3>1 DEF Ranked, Grounded
    <3>3. ASSUME NEW z \in Dir, Live(z), NEW q \in dd[z].own, q.guid = dd[x].snap
          PROVE  z = dd[x].parent \/ ((want'[z] # None => k[z] < k[x]) /\ Forked(z, x))
      <4>1. z = dd[x].parent \/ ((Made(z) => r[z] < r[x]) /\ Forked(z, x))
        BY <3>2, <3>3 DEF Rests
      <4>2. z = c.d => ~ Forked(z, x)
        BY <1>4 DEF Forked
      <4> QED
        BY <1>7, <2>2, <4>1, <4>2 DEF Made
    <3> QED
      BY <1>6, <2>2, <3>2, <3>3 DEF Rests, Live, Made, Forked
  <2>5. Ranked(k)'
    BY <2>3, <2>4 DEF Ranked, Made
  <2> QED
    BY <2>2, <2>5 DEF Chains, Ranks
<1>16. GuidsFrom(p)
  BY <1>6 DEF GuidsFrom, Live, Owns
<1>17. SnapsFrom(p)
  <2>1. Given(p, c.g)
    BY <1>1, <1>2, <1>5, <1>9, <1>10 DEF Given, CloneFact
  <2> QED
    BY <1>4, <1>6, <1>7, <2>1 DEF SnapsFrom, Made
<1>18. Fact(p)' /\ ~ Naming(call'[p])
  BY <1>8, IdleIs DEF Fact, Naming
<1>19. next' \in Nat /\ next' >= next
  BY <1>5, <1>6
<1> QED
  BY <1>6, <1>8, <1>12, <1>13, <1>14, <1>15, <1>16, <1>17, <1>18, <1>19, OwnStep

-----------------------------------------------------------------------------
(* A new top image.                                                         *)

LEMMA ImageSame ==
  ASSUME NEW e \in Image, NEW f \in Image,
         e.guid = f.guid, e.parent = f.parent, e.file = f.file
  PROVE  e = f
BY DEF Image

\* The top image has become snapshot g.
Renamed(x, top, g) == IF x = top THEN g ELSE x
Copies(e, o, top, g) ==
  /\ e.file = o.file
  /\ e.guid = Renamed(o.guid, top, g) /\ e.parent = Renamed(o.parent, top, g)

LEMMA Snapshots ==
  ASSUME NEW di \in Descriptor, NEW g \in Nat, NEW f \in Nat, NEW v, v = Snapshotted(di, g, f)
  PROVE  /\ v.parent = di.parent /\ v.snap = di.snap /\ v.ro = di.ro
         /\ v.top = IF di.parent # NoDir THEN f ELSE TOPDELTA_UUID
         /\ \A e \in v.own : \/ e.guid = v.top /\ e.parent = g /\ e.file = f
                             \/ \E o \in di.own : Copies(e, o, di.top, g)
         /\ \A o \in di.own : \E e \in v.own : Copies(e, o, di.top, g)
         /\ \E e \in v.own : e.guid = v.top /\ e.parent = g /\ e.file = f
         /\ \A e \in v.far : \E o \in di.far : Copies(e, o, di.top, g)
<1> DEFINE top == IF di.parent # NoDir THEN f ELSE TOPDELTA_UUID
           new(x) == IF x = di.top THEN g ELSE x
           all(S) == {[e EXCEPT !.guid = new(@), !.parent = new(@)] : e \in S}
           old == ploop_di_change_guid(di, di.top, g)
           i == [guid |-> top, parent |-> g, file |-> f]
<1>1. \A S \in SUBSET Image : /\ \A e \in all(S) : \E o \in S : Copies(e, o, di.top, g)
                              /\ \A o \in S : \E e \in all(S) : Copies(e, o, di.top, g)
  <2>1. \A o \in Image : LET e == [o EXCEPT !.guid = new(@), !.parent = new(@)]
                         IN  Copies(e, o, di.top, g)
    BY DEF Image, Copies, Renamed
  <2> QED
    BY <2>1
<1>2. di.own \in SUBSET Image /\ di.far \in SUBSET Image
  BY DEF Descriptor
<1> DEFINE O == all(di.own)
           F == all(di.far)
<1>3. old = [di EXCEPT !.own = O, !.far = F, !.top = new(di.top)]
  <2>1. old = [di EXCEPT !.own = all(@), !.far = all(@), !.top = new(@)]
    BY DEF ploop_di_change_guid
  <2> QED
    BY <2>1
<1>4. v = [old EXCEPT !.own = @ \cup {i}, !.top = top]
  BY DEF Snapshotted
<1>5. /\ \A e \in O : \E o \in di.own : Copies(e, o, di.top, g)
      /\ \A o \in di.own : \E e \in O : Copies(e, o, di.top, g)
      /\ \A e \in F : \E o \in di.far : Copies(e, o, di.top, g)
  BY <1>1, <1>2
<1>6. i.guid = top /\ i.parent = g /\ i.file = f
  OBVIOUS
<1> HIDE DEF i, O, F, top, old, all, new
<1>7. /\ old.own = O /\ old.far = F /\ old.parent = di.parent /\ old.snap = di.snap
      /\ old.ro = di.ro /\ v.own = old.own \cup {i} /\ v.far = old.far /\ v.top = top
      /\ v.parent = old.parent /\ v.snap = old.snap /\ v.ro = old.ro
  BY <1>3, <1>4 DEF Descriptor
<1> QED
  BY <1>5, <1>6, <1>7 DEF top

\* do_create_snapshot with a uuid of nobody's.
LEMMA CreateSnapshotOwn ==
  ASSUME Inv, Owned, NEW p \in Proc, NEW c \in CloneCall \cup SnapshotCall, c = call[p],
         do_create_snapshot(p), want' = want, Made(c.s),
         Reads(c.s, c.di), c.di.ro = FALSE, New(c), Plain(c), Naming(c),
         \A y \in Dir : Live(y) => ~ Owns(dd[y], c.g),
         \A x, y : (Twin(x, y) => Twin(x, y)') /\ (Heir(x, y) => Heir(x, y)'),
         NEW n, n.g = c.g, n.s = c.s, Where(n) = Where(c), n.di = Snapshotted(c.di, c.g, next)
  PROVE  /\ Stored' /\ Distinct' /\ FirstTops' /\ Chains' /\ GuidsFrom(p) /\ SnapsFrom(p)
         /\ next' = next + 1 /\ \A x \in Dir \ {c.s} : dd'[x] = dd[x]
         /\ Reads(n.s, n.di)' /\ n.di.ro = FALSE /\ New(n)' /\ Topped(n)'
<1>1. c.di \in Descriptor /\ c.g \in Nat /\ c.s \in Dir /\ c.s \in Where(c)
  BY CloneCallIs, SnapshotCallIs DEF Where
<1>2. Types /\ Grounded /\ next \in Nat /\ next >= 1 /\ Live(c.s)
  BY <1>1, InvGrounded DEF Inv, Types, Owned, Stored, Grounded
<1>3. PICK di \in Descriptor : di = c.di
  BY <1>1
<1>4. PICK o \in Descriptor : o = dd[c.s]
  BY <1>1, <1>2 DEF Grounded
<1>5. PICK g \in Nat : g = c.g
  BY <1>1
<1>6. PICK f \in Nat : f = next
  BY <1>2
<1>7. PICK w \in Descriptor : w = Snapshotted(di, g, f)
  BY SnapshottedTyped
<1> DEFINE t == w.top
<1>8. /\ w.parent = di.parent /\ w.snap = di.snap /\ w.ro = di.ro
      /\ w.top = IF di.parent # NoDir THEN f ELSE TOPDELTA_UUID
      /\ \A e \in w.own : \/ e.guid = w.top /\ e.parent = g /\ e.file = f
                          \/ \E i \in di.own : Copies(e, i, di.top, g)
      /\ \A i \in di.own : \E e \in w.own : Copies(e, i, di.top, g)
      /\ \E e \in w.own : e.guid = w.top /\ e.parent = g /\ e.file = f
      /\ \A e \in w.far : \E i \in di.far : Copies(e, i, di.top, g)
  BY <1>7, Snapshots
<1>9. PICK v \in Descriptor : v = ploop_store_diskdescriptor(w)
  BY StoreTyped
<1>10. v.own = w.own /\ v.top = w.top /\ v.parent = w.parent /\ v.snap = w.snap /\ v.ro = w.ro
  BY <1>9 DEF ploop_store_diskdescriptor, Descriptor
<1>11. dd' = [dd EXCEPT ![c.s] = v] /\ next' = next + 1
  BY <1>3, <1>5, <1>6, <1>7, <1>9 DEF do_create_snapshot
<1>12. dd'[c.s] = v /\ (\A x \in Dir \ {c.s} : dd'[x] = dd[x]) /\ next' \in Nat
  BY <1>1, <1>2, <1>11 DEF Types
<1>13. v # None /\ o # None
  BY NoneAssumption
<1>14. /\ o.own = di.own /\ o.top = di.top /\ o.parent = di.parent /\ o.snap = di.snap
       /\ o.ro = FALSE /\ di.ro = FALSE
  BY <1>3, <1>4 DEF Reads
<1>15. Solid(o) /\ Used(o) /\ ~ Owns(o, g) /\ g >= 1 /\ g < f
  BY <1>1, <1>2, <1>4, <1>5, <1>6 DEF Owned, Stored, New
<1>16. \A i \in di.own : /\ i \in Image /\ i.guid \in Nat /\ i.file \in Nat /\ i.guid # g
                         /\ i.guid < f /\ i.file < f
  BY <1>6, <1>14, <1>15 DEF Used, Owns, Descriptor, Image
<1>17. \A e \in w.own : e \in Image /\ e.guid \in Nat /\ e.file \in Nat
  BY DEF Descriptor, Image
<1>18. t = f \/ (t = TOPDELTA_UUID /\ di.parent = NoDir)
  BY <1>8
<1>18a. di.parent # NoDir => t = f
  BY <1>8
\* An old image keeps its uuid or has g, and is not mistaken for the new one.
<1>19. \A e \in w.own : \A i \in di.own : Copies(e, i, di.top, g) =>
         /\ e.guid = (IF i.guid = di.top THEN g ELSE i.guid) /\ e.file = i.file
         /\ e.guid # t /\ e.file # f
  <2> SUFFICES ASSUME NEW e \in w.own, NEW i \in di.own, Copies(e, i, di.top, g)
               PROVE  /\ e.guid = (IF i.guid = di.top THEN g ELSE i.guid) /\ e.file = i.file
                      /\ e.guid # t /\ e.file # f
    OBVIOUS
  <2>1. e.guid = (IF i.guid = di.top THEN g ELSE i.guid) /\ e.file = i.file
    BY DEF Copies, Renamed
  <2>2. e.guid < f /\ e.file < f
    BY <1>15, <1>16, <2>1
  <2>3. e.guid # TOPDELTA_UUID
    BY <1>14, <1>15, <2>1 DEF Solid, Owns, TOPDELTA_UUID
  <2> QED
    BY <1>18, <2>1, <2>2, <2>3
<1>20. \A e \in w.own : e.guid = t => e.parent = g /\ e.file = f
  BY <1>8, <1>19
<1>21. \A e, h \in w.own : e.guid = h.guid \/ e.file = h.file => e = h
  <2> SUFFICES ASSUME NEW e \in w.own, NEW h \in w.own, e.guid = h.guid \/ e.file = h.file
               PROVE  e = h
    OBVIOUS
  <2>1. CASE e.guid = t \/ h.guid = t
    <3>1. e.guid = t /\ h.guid = t
      BY <1>8, <1>19, <2>1
    <3> QED
      BY <1>17, <1>20, <3>1, ImageSame
  <2>2. CASE e.guid # t /\ h.guid # t
    <3>1. PICK i \in di.own : Copies(e, i, di.top, g)
      BY <1>8, <2>2
    <3>2. PICK j \in di.own : Copies(h, j, di.top, g)
      BY <1>8, <2>2
    <3>3. i.guid = j.guid \/ i.file = j.file
      BY <1>16, <1>19, <3>1, <3>2
    <3>4. i = j
      BY <1>14, <1>15, <3>3 DEF Solid
    <3> QED
      BY <1>17, <3>1, <3>2, <3>4, ImageSame DEF Copies
  <2> QED
    BY <2>1, <2>2
<1>22. Solid(v)
  <2>1. Owns(v, v.top)
    BY <1>8, <1>10 DEF Owns
  <2>2. ASSUME NEW e \in v.own, e.guid # v.top PROVE \E h \in v.own : h.parent = e.guid
    <3>1. PICK i \in di.own : Copies(e, i, di.top, g)
      BY <1>8, <1>10, <2>2
    <3>2. CASE i.guid = di.top
      BY <1>8, <1>10, <3>1, <3>2 DEF Copies, Renamed
    <3>3. CASE i.guid # di.top
      <4>1. PICK j \in di.own : j.parent = i.guid
        BY <1>14, <1>15, <3>3 DEF Solid
      <4>2. PICK h \in w.own : Copies(h, j, di.top, g)
        BY <1>8
      <4> QED
        BY <1>10, <3>1, <3>3, <4>1, <4>2 DEF Copies, Renamed
    <3> QED
      BY <3>2, <3>3
  <2>3. Owns(v, TOPDELTA_UUID) => v.top = TOPDELTA_UUID /\ v.ro = FALSE
    <3> SUFFICES ASSUME NEW e \in w.own, e.guid = TOPDELTA_UUID PROVE t = TOPDELTA_UUID
      BY <1>8, <1>10, <1>14 DEF Owns
    <3>1. CASE e.guid = t
      BY <3>1
    <3>2. CASE e.guid # t
      <4>1. PICK i \in di.own : Copies(e, i, di.top, g)
        BY <1>8, <3>2
      <4>2. i.guid = TOPDELTA_UUID /\ i.guid # di.top
        BY <1>15, <1>19, <4>1 DEF TOPDELTA_UUID
      <4> QED
        BY <1>14, <1>15, <4>2 DEF Solid, Owns
    <3> QED
      BY <3>1, <3>2
  <2> QED
    BY <1>10, <1>21, <2>1, <2>2, <2>3 DEF Solid
<1>23. /\ \A e \in w.own : e.guid < f + 1 /\ e.file < f + 1
       /\ t \in Nat /\ t < f + 1
  <2>1. t \in Nat /\ t < f + 1
    BY <1>18 DEF TOPDELTA_UUID
  <2>2. ASSUME NEW e \in w.own PROVE e.guid < f + 1 /\ e.file < f + 1
    <3>1. CASE e.guid = t /\ e.file = f
      BY <2>1, <3>1
    <3>2. CASE ~ (e.guid = t /\ e.file = f)
      <4>1. PICK i \in di.own : Copies(e, i, di.top, g)
        BY <1>8, <3>2
      <4>2. i.guid \in Nat /\ i.file \in Nat /\ i.guid < f /\ i.file < f
        BY <1>16
      <4>3. e.guid = (IF i.guid = di.top THEN g ELSE i.guid) /\ e.file = i.file
        BY <1>19, <4>1
      <4> QED
        BY <1>15, <4>2, <4>3
    <3> QED
      BY <3>1, <3>2
  <2> QED
    BY <2>1, <2>2
<1>24. Only(c.s)
  BY <1>2, <1>11, <1>12, <1>13 DEF Only
<1>25. Stored'
  <2>1. v.snap < next'
    BY <1>2, <1>6, <1>8, <1>10, <1>11, <1>14, <1>15 DEF Used, Descriptor
  <2>2. Used(v)'
    BY <1>6, <1>10, <1>11, <1>23, <2>1 DEF Used
  <2> QED
    BY <1>1, <1>12, <1>22, <1>24, <2>2, StoredOnly DEF Used
<1>26. \A y \in Dir : Live(y) => \A h \in dd[y].own : h.guid \in Nat /\ h.file \in Nat /\ h.guid < f /\ h.file < f /\ h.guid # g
  <2> SUFFICES ASSUME NEW y \in Dir, Live(y), NEW h \in dd[y].own
               PROVE  h.guid \in Nat /\ h.file \in Nat /\ h.guid < f /\ h.file < f /\ h.guid # g
    OBVIOUS
  <2>1. dd[y] \in Descriptor /\ Used(dd[y]) /\ ~ Owns(dd[y], g)
    BY <1>2, <1>5 DEF Types, Live, Owned, Stored
  <2> QED
    BY <1>6, <2>1 DEF Used, Descriptor, Image, Owns
<1>27. Distinct'
  <2> SUFFICES ASSUME NEW y \in Dir \ {c.s}, Live(y), ~ Twin(c.s, y)'
               PROVE  NamesApart(v, dd[y]) /\ (~ Heir(c.s, y)' => FilesApart(v, dd[y]))
    BY <1>1, <1>12, <1>24, DistinctOnly
  <2>1. NamesApart(o, dd[y]) /\ (~ Heir(c.s, y)' => FilesApart(o, dd[y]))
    BY <1>1, <1>2, <1>4 DEF Owned, Distinct
  <2>2. ASSUME NEW e \in w.own, NEW h \in dd[y].own, e.guid = h.guid PROVE e.guid = TOPDELTA_UUID
    BY <1>8, <1>14, <1>18, <1>19, <1>26, <2>1, <2>2 DEF NamesApart
  <2>3. ASSUME FilesApart(o, dd[y]), NEW e \in w.own, NEW h \in dd[y].own PROVE e.file # h.file
    BY <1>8, <1>14, <1>19, <1>26, <2>3 DEF FilesApart
  <2> QED
    BY <1>10, <2>1, <2>2, <2>3 DEF NamesApart, FilesApart
<1>28. \A x \in Dir : Made(x) =>
         /\ dd'[x] # None /\ dd'[x].parent = dd[x].parent /\ dd'[x].snap = dd[x].snap
         /\ dd'[x].ro = dd[x].ro
  <2> SUFFICES ASSUME NEW x \in Dir, Made(x)
               PROVE  /\ dd'[x] # None /\ dd'[x].parent = dd[x].parent
                      /\ dd'[x].snap = dd[x].snap /\ dd'[x].ro = dd[x].ro
    OBVIOUS
  <2>1. CASE x = c.s
    <3>1. v.parent = o.parent /\ v.snap = o.snap /\ v.ro = o.ro
      BY <1>8, <1>10, <1>14
    <3> QED
      BY <1>4, <1>12, <1>13, <2>1, <3>1
  <2>2. CASE x # c.s
    BY <1>2, <1>12, <2>2 DEF Grounded, Live
  <2> QED
    BY <2>1, <2>2
<1>29. FirstTops'
  <2> SUFFICES ASSUME NEW x \in Dir, Made(x), Owns(dd'[x], TOPDELTA_UUID), dd'[x].parent # NoDir
               PROVE  dd'[dd'[x].parent].ro /\ dd'[dd'[x].parent].parent = NoDir
    BY DEF FirstTops, FirstTop, Made, Owns
  <2>1. FirstTop(x) /\ dd[x].parent \in Dir /\ Made(dd[x].parent) /\ dd[x].parent # NoDir
    BY <1>2, <1>28 DEF Owned, FirstTops, Grounded
  <2>2. Owns(dd[x], TOPDELTA_UUID)
    <3>1. CASE x = c.s
      <4>1. PICK e \in w.own : e.guid = TOPDELTA_UUID
        BY <1>10, <1>12, <3>1 DEF Owns
      <4>2. e.guid # t
        BY <1>2, <1>4, <1>6, <1>14, <1>18a, <2>1, <3>1, <4>1 DEF TOPDELTA_UUID
      <4>3. PICK i \in di.own : Copies(e, i, di.top, g)
        BY <1>8, <4>2
      <4>4. i.guid = TOPDELTA_UUID
        BY <1>15, <1>19, <4>1, <4>3 DEF TOPDELTA_UUID
      <4> QED
        BY <1>4, <1>14, <3>1, <4>4 DEF Owns
    <3>2. CASE x # c.s
      BY <1>12, <3>2 DEF Owns
    <3> QED
      BY <3>1, <3>2
  <2> QED
    BY <1>28, <2>1, <2>2 DEF FirstTop
<1>30. Chains'
  <2>1. PICK r \in Ranks : Ranked(r)
    BY DEF Owned, Chains
  <2>2. ASSUME NEW x \in Dir, Made(x), dd[x].parent # NoDir PROVE Rests(r, x)'
    <3>1. Rests(r, x) /\ dd[x].parent \in Dir /\ Made(dd[x].parent)
      BY <1>2, <2>1, <2>2 DEF Ranked, Grounded
    <3>2. PICK m \in Int : m = dd[x].snap
      BY <1>2, <2>2 DEF Grounded, Descriptor
    <3>3. m >= 1 /\ m < f /\ m # g
      <4>1. Used(dd[x])
        BY <1>2, <2>2 DEF Owned, Stored, Grounded
      <4> QED
        BY <1>5, <1>6, <2>2, <3>1, <3>2, <4>1 DEF Rests, Used, New
    <3>4. m # t
      BY <1>18, <3>3 DEF TOPDELTA_UUID
    <3>5. dd'[dd[x].parent].ro = FALSE => m # dd'[dd[x].parent].top
      <4>1. CASE dd[x].parent = c.s
        BY <1>10, <1>12, <3>4, <4>1
      <4>2. CASE dd[x].parent # c.s
        BY <1>12, <3>1, <3>2, <4>2 DEF Rests
      <4> QED
        BY <4>1, <4>2
    <3>6. ASSUME NEW z \in Dir, dd'[z] # None, NEW q \in dd'[z].own, q.guid = m
          PROVE  z = dd[x].parent \/ ((Made(z) => r[z] < r[x]) /\ dd'[z].ro /\ \E h \in dd'[z].own : h.parent = m)
      <4>1. CASE z = c.s
        <5>1. PICK i \in di.own : Copies(q, i, di.top, g)
          BY <1>8, <1>10, <1>12, <3>4, <3>6, <4>1
        <5>2. i.guid = m /\ i \in dd[z].own /\ Live(z)
          BY <1>2, <1>4, <1>10, <1>12, <1>14, <1>19, <3>3, <3>6, <4>1, <5>1
        <5>3. ~ Forked(z, x)
          BY <1>4, <1>14, <4>1 DEF Forked
        <5> QED
          BY <3>1, <3>2, <5>2, <5>3 DEF Rests
      <4>2. CASE z # c.s
        <5>1. dd'[z] = dd[z] /\ Live(z)
          BY <1>12, <3>6, <4>2 DEF Live
        <5> QED
          BY <3>1, <3>2, <3>6, <5>1 DEF Rests, Forked
      <4> QED
        BY <4>1, <4>2
    <3>7. dd'[x].snap = m /\ dd'[x].parent = dd[x].parent
      BY <1>28, <2>2, <3>2
    <3> QED
      BY <3>1, <3>3, <3>5, <3>6, <3>7 DEF Rests, Live, Made, Forked
  <2>3. Ranked(r)'
    BY <1>28, <2>2 DEF Ranked, Made
  <2> QED
    BY <2>3 DEF Chains, Ranks
<1>31. GuidsFrom(p)
  <2> SUFFICES ASSUME NEW y \in Dir, dd'[y] # None, NEW e \in dd'[y].own
               PROVE  Given(p, e.guid) \/ (Live(y) /\ Owns(dd[y], e.guid))
    BY DEF GuidsFrom
  <2>1. CASE y = c.s
    <3>1. e \in w.own
      BY <1>10, <1>12, <2>1
    <3>2. CASE e.guid = t
      BY <1>6, <1>18, <3>2 DEF Given, TOPDELTA_UUID
    <3>3. CASE e.guid # t
      <4>1. PICK i \in di.own : Copies(e, i, di.top, g)
        BY <1>8, <3>1, <3>3
      <4>2. e.guid = g \/ e.guid = i.guid
        BY <1>19, <3>1, <4>1
      <4> QED
        BY <1>2, <1>4, <1>5, <1>14, <2>1, <4>2 DEF Given, Owns
    <3> QED
      BY <3>2, <3>3
  <2>2. CASE y # c.s
    BY <1>12, <2>2 DEF Live, Owns
  <2> QED
    BY <2>1, <2>2
<1>32. SnapsFrom(p)
  BY <1>28 DEF SnapsFrom, Made
<1>33. PICK k \in Nat : k = n.g
  BY <1>1
<1>34. Reads(n.s, n.di)' /\ n.di.ro = FALSE
  <2>1. n.s = c.s /\ n.di = w
    BY <1>3, <1>5, <1>6, <1>7
  <2> QED
    BY <1>8, <1>10, <1>12, <1>14, <2>1 DEF Reads
<1>35. New(n)'
  <2>1. \A y \in Dir : dd'[y] # None /\ Owns(dd'[y], c.g) => y \in Where(c)
    BY <1>1, <1>12 DEF Live
  <2>2. \A x \in Dir : want'[x] # None => dd'[x].snap # c.g
    BY <1>28 DEF New, Made
  <2>3. next' >= next
    BY <1>2, <1>11
  <2> QED
    BY <1>1, <1>2, <1>12, <2>1, <2>2, <2>3, NewKeeps
<1>36. t # g /\ Owns(w, g) /\ (w.parent # NoDir => t # TOPDELTA_UUID)
  <2>1. PICK i \in di.own : i.guid = di.top
    BY <1>14, <1>15 DEF Solid, Owns
  <2>2. PICK e \in w.own : Copies(e, i, di.top, g)
    BY <1>8
  <2>3. Owns(w, g)
    BY <2>1, <2>2 DEF Owns, Copies, Renamed
  <2>4. f >= 1
    BY <1>2, <1>6
  <2>5. t # g
    BY <1>15, <1>18 DEF TOPDELTA_UUID
  <2>6. w.parent # NoDir => t # TOPDELTA_UUID
    BY <1>8, <1>18a, <2>4 DEF TOPDELTA_UUID
  <2> QED
    BY <2>3, <2>5, <2>6
<1>37. \A e \in w.far : e.guid # g
  <2> SUFFICES ASSUME NEW e \in w.far PROVE e.guid # g
    OBVIOUS
  <2>1. PICK i \in di.far : Copies(e, i, di.top, g)
    BY <1>8
  <2>2. i.guid # g /\ i.guid # di.top
    BY <1>3, <1>5 DEF Plain
  <2> QED
    BY <2>1, <2>2 DEF Copies, Renamed
<1>38. Topped(n)'
  <2>1. n.di = w /\ n.g = g
    BY <1>3, <1>5, <1>6, <1>7
  <2> QED
    BY <1>20, <1>36, <1>37, <2>1 DEF Topped, Owns
<1> QED
  BY <1>11, <1>12, <1>25, <1>27, <1>29, <1>30, <1>31, <1>32, <1>34, <1>35, <1>38

LEMMA CloneSnapshotOwn ==
  ASSUME Inv, Inv', Owned, NEW p \in Proc, CloneSnapshot(p)
  PROVE  Owned'
<1>1. PICK c \in CloneCall : c = call[p]
  BY CallKind DEF Inv, CloneSnapshot, At
<1>2. c.pc = "snapshot" /\ c.d \in Dir /\ c.s \in Dir /\ Cloning(c) /\ CloneFact(c)
  BY <1>1, CloneCallIs DEF CloneSnapshot, At, Inv, Working, Owned, Fact
<1>3. c.d # c.s /\ Made(c.s)
  BY <1>2 DEF Cloning
<1>4. /\ c.di.ro = FALSE /\ Reads(c.s, c.di) /\ New(c) /\ Plain(c)
      /\ dd[c.d].snap = c.g /\ dd[c.d].ro = FALSE /\ ~ Owns(dd[c.d], TOPDELTA_UUID)
  BY <1>2 DEF CloneFact
<1>5. Naming(c) /\ Where(c) = {c.s} /\ \A y \in Dir : Live(y) => ~ Owns(dd[y], c.g)
  <2>1. Naming(c) /\ Where(c) = {c.s}
    BY <1>4, CloneCallIs DEF Naming, Where
  <2> QED
    BY <1>4, <2>1 DEF New, Plain
<1>6. do_create_snapshot(p) /\ UNCHANGED <<tmp, want>>
  BY DEF CloneSnapshot
<1> DEFINE w == Snapshotted(c.di, c.g, next)
           m == [c EXCEPT !.pc = "link", !.di = w]
<1>7. w \in Descriptor
  BY <1>1, <1>6, CreateSnapshotTyped
<1>8. call' = [call EXCEPT ![p] = m]
  BY <1>1 DEF CloneSnapshot, Inv, Types
<1>9. m \in CloneCall /\ m.pc = "link" /\ m.d = c.d /\ m.s = c.s /\ m.di = w /\ m.g = c.g
  <2> HIDE DEF w
  <2> QED
    BY <1>7 DEF CloneCall
<1>10. PICK n \in CloneCall :
         /\ call' = [call EXCEPT ![p] = n] /\ n.pc = "link" /\ n.d = c.d /\ n.s = c.s
         /\ n.di = Snapshotted(c.di, c.g, next) /\ n.g = c.g
  <2> HIDE DEF w, m
  <2>1. w = Snapshotted(c.di, c.g, next)
    BY DEF w
  <2> QED
    BY <1>8, <1>9, <2>1
<1> HIDE DEF w, m
<1>11. call'[p] = n /\ \A q \in Proc \ {p} : call'[q] = call[q]
  BY <1>10 DEF Inv, Types
<1>12. \A x, y : (Twin(x, y) => Twin(x, y)') /\ (Heir(x, y) => Heir(x, y)')
  <2>1. call[p] \notin SnapshotCall /\ call[p] \notin DeleteChild
    BY <1>1, CloneCallIs
  <2> QED
    BY <1>11, <2>1 DEF Twin, Heir
<1>13. Where(n) = Where(c)
  BY <1>5, <1>10, CloneCallIs DEF Where
<1>14. /\ Stored' /\ Distinct' /\ FirstTops' /\ Chains' /\ GuidsFrom(p) /\ SnapsFrom(p)
       /\ next' = next + 1 /\ \A x \in Dir \ {c.s} : dd'[x] = dd[x]
       /\ Reads(n.s, n.di)' /\ n.di.ro = FALSE /\ New(n)' /\ Topped(n)'
  BY <1>1, <1>3, <1>4, <1>5, <1>6, <1>10, <1>12, <1>13, CreateSnapshotOwn
<1>15. ~ Owns(dd[n.d], TOPDELTA_UUID)'
  BY <1>2, <1>3, <1>4, <1>10, <1>14 DEF Owns
<1>16. CloneFact(n)'
  BY <1>2, <1>3, <1>4, <1>10, <1>14, <1>15 DEF CloneFact
<1>17. Fact(p)' /\ Naming(call'[p]) /\ call'[p].g = call[p].g /\ Naming(call[p])
  BY <1>1, <1>5, <1>10, <1>11, <1>14, <1>16, CloneCallIs DEF Fact, Naming
<1>18. \A x \in Dir : Mine(p, x) \/ (dd'[x] = dd[x] /\ tmp'[x] = tmp[x])
  BY <1>1, <1>6, <1>14, CloneCallIs DEF Mine
<1>19. next' \in Nat /\ next' >= next
  BY <1>14 DEF Inv, Types
<1> QED
  BY <1>11, <1>14, <1>17, <1>18, <1>19, OwnStep

LEMMA SnapshotCreateOwn ==
  ASSUME Inv, Inv', Owned, NEW p \in Proc, SnapshotCreate(p)
  PROVE  Owned'
<1>1. PICK c \in SnapshotCall : c = call[p]
  BY CallKind DEF Inv, SnapshotCreate, At
<1>2. c.pc = "snapshot" /\ c.d \in Dir /\ c.s \in Dir /\ Snapping(c) /\ SnapshotFact(c)
  BY <1>1, SnapshotCallIs DEF SnapshotCreate, At, Inv, Working, Owned, Fact
<1>3. c.d # c.s /\ Made(c.s)
  BY <1>2 DEF Snapping
<1>4. /\ c.di.ro = FALSE /\ Reads(c.s, c.di) /\ New(c) /\ Plain(c) /\ ~ Live(c.d)
  BY <1>2 DEF SnapshotFact, Active, Waiting, Early
<1>5. Naming(c) /\ Where(c) = {c.s, c.d} /\ \A y \in Dir : Live(y) => ~ Owns(dd[y], c.g)
  <2>1. Naming(c) /\ Where(c) = {c.s, c.d}
    BY SnapshotCallIs DEF Naming, Where
  <2> QED
    BY <1>4, <2>1 DEF New, Plain
<1>6. do_create_snapshot(p) /\ UNCHANGED <<tmp, want>>
  BY DEF SnapshotCreate
<1> DEFINE w == Snapshotted(c.di, c.g, next)
           m == [c EXCEPT !.pc = "snap dd", !.di = w]
<1>7. w \in Descriptor
  BY <1>1, <1>6, CreateSnapshotTyped
<1>8. call' = [call EXCEPT ![p] = m]
  BY <1>1 DEF SnapshotCreate, Inv, Types
<1>9. m \in SnapshotCall /\ m.pc = "snap dd" /\ m.d = c.d /\ m.s = c.s /\ m.di = w /\ m.g = c.g
  <2> HIDE DEF w
  <2> QED
    BY <1>7 DEF SnapshotCall, SnapshotStep
<1>9a. m.pc \notin {"unlink", "destroy"} /\ ~ Waiting(m.pc) /\ Early(m.pc) /\ ~ Filled(m.pc) /\ ~ Ready(m.pc)
  BY <1>9 DEF Waiting, Early, Filled, Ready
<1>9b. Active(m.pc)
  BY <1>9a DEF Active
<1>10. PICK n \in SnapshotCall :
         /\ call' = [call EXCEPT ![p] = n] /\ n.d = c.d /\ n.s = c.s
         /\ Active(n.pc) /\ ~ Waiting(n.pc) /\ ~ Filled(n.pc) /\ ~ Ready(n.pc)
         /\ n.di = Snapshotted(c.di, c.g, next) /\ n.g = c.g
  <2> HIDE DEF w, m
  <2>1. w = Snapshotted(c.di, c.g, next)
    BY DEF w
  <2>2. m \in SnapshotCall /\ m.d = c.d /\ m.s = c.s /\ m.di = w /\ m.g = c.g
    BY <1>9, Zenon
  <2> QED
    BY <1>8, <1>9a, <1>9b, <2>1, <2>2, Zenon
<1> HIDE DEF w, m
<1>11. call'[p] = n /\ \A q \in Proc \ {p} : call'[q] = call[q]
  BY <1>10 DEF Inv, Types
<1>12. \A x, y : (Twin(x, y) => Twin(x, y)') /\ (Heir(x, y) => Heir(x, y)')
  <2>1. call[p] \notin DeleteChild
    BY <1>1, SnapshotCallIs
  <2> QED
    BY <1>1, <1>10, <1>11, <2>1 DEF Twin, Heir
<1>13. Where(n) = Where(c)
  BY <1>5, <1>10, SnapshotCallIs DEF Where
<1>14. /\ Stored' /\ Distinct' /\ FirstTops' /\ Chains' /\ GuidsFrom(p) /\ SnapsFrom(p)
       /\ next' = next + 1 /\ \A x \in Dir \ {c.s} : dd'[x] = dd[x]
       /\ Reads(n.s, n.di)' /\ n.di.ro = FALSE /\ New(n)' /\ Topped(n)'
  BY <1>1, <1>3, <1>4, <1>5, <1>6, <1>10, <1>12, <1>13, CreateSnapshotOwn
<1>15. ~ Live(n.d)'
  BY <1>2, <1>3, <1>4, <1>10, <1>14 DEF Live
<1>16. SnapshotFact(n)'
  BY <1>10, <1>14, <1>15 DEF SnapshotFact
<1>17. Fact(p)' /\ Naming(call'[p]) /\ call'[p].g = call[p].g /\ Naming(call[p])
  BY <1>1, <1>5, <1>10, <1>11, <1>14, <1>16, SnapshotCallIs DEF Fact, Naming
<1>18. \A x \in Dir : Mine(p, x) \/ (dd'[x] = dd[x] /\ tmp'[x] = tmp[x])
  BY <1>1, <1>6, <1>14, SnapshotCallIs DEF Mine
<1>19. next' \in Nat /\ next' >= next
  BY <1>14 DEF Inv, Types
<1> QED
  BY <1>11, <1>14, <1>17, <1>18, <1>19, OwnStep

\* A volume that is being snapshotted has one twin, and is no heir.
LEMMA TwinOnly ==
  ASSUME Inv, NEW p \in Proc, NEW c \in SnapshotCall, c = call[p]
  PROVE  \A y : /\ Twin(c.s, y) \/ Twin(y, c.s) => y = c.d
                /\ ~ Heir(c.s, y) /\ ~ Heir(y, c.s)
<1>1. c.s \in Dir /\ Made(c.s) /\ lock[c.s] = p
  BY SnapshotCallIs DEF Inv, Working, Snapping, Holding
<1>2. \A y : ~ Heir(c.s, y) /\ ~ Heir(y, c.s)
  BY <1>1, NoHeir, SnapshotCallIs
<1>3. ASSUME NEW q \in Proc, call[q] \in SnapshotCall
      PROVE  /\ c.s # call[q].d
             /\ c.s = call[q].s => call[q].d = c.d
  <2>1. call[q].s \in Locks(call[q]) /\ ~ Made(call[q].d) /\ call[q].s \in Dir
    BY <1>3, SnapshotCallIs DEF Inv, Working, Snapping
  <2>2. lock[call[q].s] = q
    BY <2>1 DEF Inv, Holding
  <2> QED
    BY <1>1, <2>1, <2>2
<1>4. \A y : Twin(c.s, y) \/ Twin(y, c.s) => y = c.d
  BY <1>3 DEF Twin
<1> QED
  BY <1>2, <1>4

\* The snapshot takes over the images of the source but its top.
LEMMA CreateSnapshotDdOwn ==
  ASSUME Inv, Inv', Owned, NEW p \in Proc, create_snapshot_dd(p)
  PROVE  Owned'
<1>1. PICK c \in SnapshotCall : c = call[p]
  BY CallKind DEF Inv, create_snapshot_dd, At
<1>2. PICK pc \in SnapshotStep : Goto(p, pc) /\ pc = "child dd"
  BY DEF create_snapshot_dd, SnapshotStep
<1>2a. Active(pc) /\ ~ Waiting(pc) /\ ~ Early(pc) /\ ~ Ready(pc)
  BY <1>2 DEF Active, Waiting, Early, Ready
<1>3. PICK n \in SnapshotCall :
        /\ call' = [call EXCEPT ![p] = n] /\ call'[p] = n
        /\ n.d = c.d /\ n.s = c.s /\ n.di = c.di /\ n.g = c.g /\ n.pc = pc
  <2>1. Goto(p, pc)
    BY <1>2
  <2> QED
    BY <1>1, <2>1, SnapshotGoes
<1>4. c.pc = "snap dd" /\ c.d \in Dir /\ c.s \in Dir /\ c.g \in Nat /\ Snapping(c) /\ SnapshotFact(c)
  BY <1>1, SnapshotCallIs DEF create_snapshot_dd, At, Inv, Working, Owned, Fact
<1>5. c.d # c.s /\ Made(c.s) /\ ~ Made(c.d)
  BY <1>4 DEF Snapping
<1>6. c.di.ro = FALSE /\ New(c) /\ Reads(c.s, c.di) /\ Topped(c) /\ ~ Live(c.d)
  BY <1>4 DEF SnapshotFact, Active, Waiting, Early
<1>7. Types /\ Grounded /\ next \in Nat /\ next >= 1 /\ Live(c.s) /\ lock[c.s] = p
  BY <1>1, <1>4, <1>5, InvGrounded, SnapshotCallIs DEF Inv, Types, Owned, Stored, Grounded, Holding
<1>8. PICK o \in Descriptor : o = dd[c.s]
  BY <1>4, <1>7 DEF Types, Live
<1>9. PICK g \in Nat : g = c.g
  BY <1>4
<1> DEFINE own == {e \in o.own : e.guid # o.top}
           w == Without(o, o.top)
           m == [w EXCEPT !.ro = TRUE, !.top = g]
<1>10. w.own = own /\ w.parent = o.parent /\ w.snap = o.snap /\ w \in Descriptor
  <2>1. w \in Descriptor /\ w.parent = o.parent
    BY WithoutTyped
  <2> QED
    BY <2>1 DEF Without, Descriptor
<1>11. m \in Descriptor /\ m.own = own /\ m.parent = o.parent /\ m.snap = o.snap /\ m.top = g /\ m.ro = TRUE
  <2> HIDE DEF w, own
  <2> QED
    BY <1>10 DEF Descriptor
<1>12. dd' = [dd EXCEPT ![c.d] = m]
  BY <1>1, <1>8, <1>9 DEF create_snapshot_dd
<1> HIDE DEF m, w
<1>13. PICK v \in Descriptor : /\ dd' = [dd EXCEPT ![c.d] = v] /\ v.own = own /\ v.parent = o.parent
                               /\ v.snap = o.snap /\ v.top = g /\ v.ro = TRUE
  BY <1>11, <1>12
<1>14. dd'[c.d] = v /\ (\A x \in Dir \ {c.d} : dd'[x] = dd[x]) /\ v # None
  BY <1>4, <1>7, <1>13, NoneAssumption DEF Types
<1>15. UNCHANGED <<tmp, next, want>>
  BY DEF create_snapshot_dd
<1>16. /\ \A e \in v.own : e \in o.own /\ e.guid # o.top
       /\ \A e \in o.own : e.guid # o.top => e \in v.own
  BY <1>13
<1> HIDE DEF own
<1>17. o.own = c.di.own /\ o.top = c.di.top /\ o.snap = c.di.snap /\ o.ro = FALSE
  BY <1>6, <1>8 DEF Reads
<1>18. Solid(o) /\ Used(o) /\ g >= 1 /\ g < next /\ g # o.top
       /\ (\E e \in o.own : e.guid = g) /\ (\A e \in o.own : e.guid = o.top => e.parent = g)
  BY <1>4, <1>6, <1>7, <1>8, <1>9, <1>17 DEF Owned, Stored, New, Topped, Owns
<1>19. Solid(v)
  <2>1. Owns(v, v.top) /\ ~ Owns(v, TOPDELTA_UUID)
    BY <1>13, <1>16, <1>18 DEF Solid, Owns
  <2>2. ASSUME NEW e \in v.own, e.guid # v.top PROVE \E f \in v.own : f.parent = e.guid
    <3>1. PICK f \in o.own : f.parent = e.guid
      BY <1>16, <1>18 DEF Solid
    <3>2. f.guid # o.top
      BY <1>13, <1>18, <2>2, <3>1
    <3> QED
      BY <1>16, <3>1, <3>2
  <2> QED
    BY <1>16, <1>18, <2>1, <2>2 DEF Solid
<1>20. Only(c.d)
  BY <1>7, <1>14, <1>15 DEF Only
<1>21. Stored'
  <2>1. Used(v)'
    BY <1>13, <1>15, <1>16, <1>18 DEF Used
  <2> QED
    BY <1>4, <1>14, <1>19, <1>20, <2>1, StoredOnly DEF Used
<1>22. \A x, y : (Twin(x, y)' <=> Twin(x, y)) /\ (Heir(x, y)' <=> Heir(x, y))
  <2>1. \A q \in Proc \ {p} : call'[q] = call[q]
    BY <1>3, <1>7 DEF Types
  <2>2. call[p] \notin DeleteChild /\ n \notin DeleteChild
    BY <1>1, SnapshotCallIs
  <2> QED
    BY <1>1, <1>3, <2>1, <2>2 DEF Twin, Heir
<1>23. Distinct'
  <2> SUFFICES ASSUME NEW y \in Dir \ {c.d}, Live(y), ~ Twin(c.d, y)'
               PROVE  NamesApart(v, dd[y]) /\ FilesApart(v, dd[y])
    BY <1>4, <1>14, <1>20, <1>22, DistinctOnly
  <2>0. ~ Twin(c.d, y)
    BY <1>22
  <2>1. y # c.s
    <3>1. Twin(c.d, c.s)
      BY <1>1 DEF Twin
    <3> QED
      BY <2>0, <3>1
  <2>2. ~ Twin(c.s, y) /\ ~ Heir(c.s, y)
    BY <1>1, TwinOnly
  <2>3. NamesApart(o, dd[y]) /\ FilesApart(o, dd[y])
    BY <1>4, <1>7, <1>8, <2>1, <2>2 DEF Owned, Distinct
  <2> QED
    BY <1>16, <2>3 DEF NamesApart, FilesApart
<1>24. \A x \in Dir : Made(x) =>
         /\ x # c.d /\ dd'[x] = dd[x] /\ dd[x].parent # c.d
         /\ dd[x].parent # NoDir => dd[x].parent \in Dir /\ dd'[dd[x].parent] = dd[dd[x].parent]
  BY <1>4, <1>5, <1>7, <1>14, VolumeAssumption DEF Grounded
<1>25. FirstTops'
  <2> SUFFICES ASSUME NEW x \in Dir, Made(x) PROVE FirstTop(x)'
    BY <1>15 DEF FirstTops, Made
  <2>1. FirstTop(x)
    BY DEF Owned, FirstTops
  <2> QED
    BY <1>24, <2>1 DEF FirstTop, Owns
<1>26. Chains'
  <2>1. PICK r \in Ranks : Ranked(r)
    BY DEF Owned, Chains
  <2>2. ASSUME NEW x \in Dir, Made(x), dd[x].parent # NoDir PROVE Rests(r, x)'
    <3>1. Rests(r, x) /\ dd[x].snap # g
      BY <1>6, <1>9, <2>1, <2>2 DEF Ranked, New
    <3>2. ASSUME NEW z \in Dir, dd'[z] # None, NEW q \in dd'[z].own, q.guid = dd[x].snap
          PROVE  z = dd[x].parent \/ ((Made(z) => r[z] < r[x]) /\ dd'[z].ro /\ \E h \in dd'[z].own : h.parent = dd[x].snap)
      <4>1. CASE z = c.d
        BY <1>5, <1>13, <1>14, <1>19, <3>1, <3>2, <4>1 DEF Solid
      <4>2. CASE z # c.d
        <5>1. dd'[z] = dd[z] /\ Live(z)
          BY <1>14, <3>2, <4>2 DEF Live
        <5> QED
          BY <3>1, <3>2, <5>1 DEF Rests, Forked
      <4> QED
        BY <4>1, <4>2
    <3> QED
      BY <1>15, <1>24, <2>2, <3>1, <3>2 DEF Rests, Live, Made, Forked
  <2>3. Ranked(r)'
    BY <1>15, <1>24, <2>2 DEF Ranked, Made
  <2> QED
    BY <2>3 DEF Chains, Ranks
<1>27. GuidsFrom(p)
  <2> SUFFICES ASSUME NEW y \in Dir, dd'[y] # None, NEW e \in dd'[y].own
               PROVE  Given(p, e.guid) \/ (Live(y) /\ Owns(dd[y], e.guid))
    BY DEF GuidsFrom
  <2>1. CASE y = c.d
    BY <1>4, <1>7, <1>8, <1>14, <1>16, <2>1 DEF Given, Owns
  <2>2. CASE y # c.d
    BY <1>14, <2>2 DEF Live, Owns
  <2> QED
    BY <2>1, <2>2
<1>28. SnapsFrom(p)
  BY <1>15, <1>24 DEF SnapsFrom, Made
<1>29. New(n)'
  <2>1. Where(n) = Where(c) /\ c.d \in Where(c)
    BY <1>3, SnapshotCallIs DEF Where
  <2>2. \A y \in Dir : dd'[y] # None /\ Owns(dd'[y], c.g) => y \in Where(c)
    BY <1>6, <1>14, <2>1 DEF New, Live
  <2>3. \A x \in Dir : want'[x] # None => dd'[x].snap # c.g
    BY <1>6, <1>15, <1>24 DEF New, Made
  <2> QED
    BY <1>3, <1>6, <1>7, <1>9, <1>15, <2>1, <2>2, <2>3, NewKeeps
<1>30. SnapshotFact(n)'
  <2>1. Reads(n.s, n.di)' /\ n.di.ro = FALSE
    BY <1>3, <1>4, <1>5, <1>6, <1>14 DEF Reads
  <2>2. Topped(n)'
    BY <1>3, <1>6 DEF Topped, Owns
  <2>3. IsSnapshot(dd[n.d], n)'
    BY <1>3, <1>9, <1>13, <1>14, <1>17 DEF IsSnapshot, own
  <2> QED
    BY <1>2a, <1>3, <1>29, <2>1, <2>2, <2>3 DEF SnapshotFact
<1>31. Fact(p)' /\ Naming(call'[p]) /\ call'[p].g = call[p].g /\ Naming(call[p])
  BY <1>1, <1>3, <1>30, SnapshotCallIs DEF Fact, Naming
<1>32. \A x \in Dir : Mine(p, x) \/ (dd'[x] = dd[x] /\ tmp'[x] = tmp[x])
  BY <1>1, <1>14, <1>15, SnapshotCallIs DEF Mine
<1>33. next' \in Nat /\ next' >= next /\ \A q \in Proc \ {p} : call'[q] = call[q]
  BY <1>3, <1>7, <1>15 DEF Types
<1> QED
  BY <1>21, <1>23, <1>25, <1>26, <1>27, <1>28, <1>31, <1>32, <1>33, OwnStep

\* The snapshot becomes a volume that was made, and the source its child.
LEMMA SnapshotRenameOwn ==
  ASSUME Inv, Inv', Owned, NEW p \in Proc, SnapshotRename(p)
  PROVE  Owned'
<1>1. PICK c \in SnapshotCall : c = call[p]
  BY CallKind DEF Inv, SnapshotRename, At
<1>2. c.pc = "rename" /\ c.d \in Dir /\ c.s \in Dir /\ c.g \in Nat /\ Snapping(c) /\ SnapshotFact(c)
  BY <1>1, SnapshotCallIs DEF SnapshotRename, At, Inv, Working, Owned, Fact
<1>3. /\ c.d # c.s /\ Made(c.s) /\ ~ Made(c.d) /\ tmp[c.s] # None /\ tmp[c.s].parent = c.d
      /\ Continues(c.d, c.di.parent) /\ Continues(c.s, c.di.parent) /\ c.di.parent # c.d
  BY <1>2 DEF Snapping
<1>4. /\ c.di.ro = FALSE /\ New(c) /\ Reads(c.s, c.di) /\ Topped(c)
      /\ IsSnapshot(dd[c.d], c) /\ IsChild(tmp[c.s], c)
  BY <1>2 DEF SnapshotFact, Active, Waiting, Filled, Ready
<1>5. Types /\ Grounded /\ next \in Nat /\ next >= 1 /\ Live(c.s) /\ Live(c.d) /\ lock[c.s] = p
  BY <1>1, <1>2, <1>3, InvGrounded, SnapshotCallIs
  DEF Inv, Types, Owned, Stored, Grounded, Holding, Continues, Live
<1>6. PICK o \in Descriptor : o = dd[c.s]
  BY <1>2, <1>5 DEF Types, Live
<1>7. PICK u \in Descriptor : u = dd[c.d]
  BY <1>2, <1>5 DEF Types, Live
<1>8. PICK v \in Descriptor : v = tmp[c.s]
  BY <1>2, <1>3, <1>5 DEF Types
<1>9. PICK g \in Nat : g = c.g
  BY <1>2
<1>10. UNCHANGED next /\ Return(p)
  BY DEF SnapshotRename
<1>11. /\ dd'[c.s] = v /\ (\A x \in Dir \ {c.s} : dd'[x] = dd[x] /\ tmp'[x] = tmp[x]) /\ v # None
       /\ want'[c.d] # None /\ (\A x \in Dir \ {c.d} : want'[x] = want[x])
  <2>1. /\ dd' = [dd EXCEPT ![c.s] = tmp[c.s]] /\ tmp' = [tmp EXCEPT ![c.s] = None]
        /\ want' = [want EXCEPT ![c.d] = Before(c.s, c.di)]
    BY <1>1 DEF SnapshotRename
  <2>2. Before(c.s, c.di) # None
    BY <1>2, <1>3, BeforeTyped
  <2> QED
    BY <1>2, <1>3, <1>5, <1>8, <2>1, <2>2 DEF Types
<1>12. /\ \A e \in v.own : e \in o.own /\ e.guid = o.top
       /\ \A e \in o.own : e.guid = o.top => e \in v.own
       /\ v.top = o.top /\ v.snap = g /\ v.ro = FALSE /\ v.parent = c.d
  BY <1>3, <1>4, <1>6, <1>8, <1>9 DEF IsChild, Reads
<1>13. /\ \A e \in u.own : e \in o.own /\ e.guid # o.top
       /\ u.top = g /\ u.ro = TRUE /\ u.snap = o.snap /\ u.parent = o.parent
  BY <1>3, <1>4, <1>6, <1>7, <1>9 DEF IsSnapshot, Reads, Continues
<1>14. o.ro = FALSE /\ g >= 1 /\ g < next /\ g # o.top /\ o.parent = c.di.parent
       /\ (o.parent # NoDir => o.top # TOPDELTA_UUID)
  BY <1>4, <1>6, <1>9 DEF Reads, New, Topped
<1>15. Solid(o) /\ Used(o) /\ Solid(u)
  BY <1>2, <1>5, <1>6, <1>7 DEF Owned, Stored
<1>16. Only(c.s)
  BY <1>5, <1>10, <1>11 DEF Only
<1>17. Stored'
  <2>1. Solid(v)
    BY <1>12, <1>15 DEF Solid, Owns
  <2>2. Used(v)'
    BY <1>10, <1>12, <1>14, <1>15 DEF Used
  <2> QED
    BY <1>2, <1>11, <1>16, <2>1, <2>2, StoredOnly DEF Used
<1>18. call'[p] = Idle /\ \A q \in Proc \ {p} : call'[q] = call[q]
  BY <1>5, <1>10 DEF Return, Types
<1>19. \A x, y \in Dir \ {c.s} : (Twin(x, y) => Twin(x, y)') /\ (Heir(x, y) => Heir(x, y)')
  BY <1>1, <1>18, SnapshotCallIs DEF Twin, Heir
<1>20. Distinct'
  <2> SUFFICES ASSUME NEW y \in Dir \ {c.s}, Live(y)
               PROVE  NamesApart(v, dd[y]) /\ FilesApart(v, dd[y])
    BY <1>2, <1>11, <1>16, <1>19, DistinctOnly
  <2>1. CASE y = c.d
    <3>1. \A e \in v.own, f \in u.own : e.guid # f.guid /\ e.file # f.file
      BY <1>12, <1>13, <1>15 DEF Solid
    <3> QED
      BY <1>7, <2>1, <3>1 DEF NamesApart, FilesApart
  <2>2. CASE y # c.d
    <3>1. ~ Twin(c.s, y) /\ ~ Heir(c.s, y)
      BY <1>1, <2>2, TwinOnly
    <3>2. NamesApart(o, dd[y]) /\ FilesApart(o, dd[y])
      BY <1>2, <1>5, <1>6, <3>1 DEF Owned, Distinct
    <3> QED
      BY <1>12, <3>2 DEF NamesApart, FilesApart
  <2> QED
    BY <2>1, <2>2
<1>21. \A x \in Dir : want'[x] # None =>
         \/ x = c.s \/ x = c.d
         \/ /\ Made(x) /\ x # c.s /\ x # c.d /\ dd'[x] = dd[x]
            /\ dd[x].parent # NoDir => dd[x].parent \in Dir /\ dd[x].parent # c.d
  BY <1>2, <1>3, <1>5, <1>11 DEF Made, Grounded
<1>22. FirstTops'
  <2> SUFFICES ASSUME NEW x \in Dir, want'[x] # None, Owns(dd'[x], TOPDELTA_UUID), dd'[x].parent # NoDir
               PROVE  dd'[dd'[x].parent].ro /\ dd'[dd'[x].parent].parent = NoDir
    BY DEF FirstTops, FirstTop, Made, Owns
  <2>1. CASE x = c.s
    <3>1. o.top = TOPDELTA_UUID
      BY <1>11, <1>12, <2>1 DEF Owns
    <3>2. dd'[c.d] = u
      BY <1>2, <1>3, <1>7, <1>11
    <3> QED
      BY <1>11, <1>12, <1>13, <1>14, <2>1, <3>1, <3>2
  <2>2. CASE x = c.d
    <3>1. dd'[x] = u
      BY <1>2, <1>3, <1>7, <1>11, <2>2
    <3> QED
      BY <1>13, <1>15, <3>1 DEF Solid
  <2>3. CASE x # c.s /\ x # c.d
    <3>1. FirstTop(x) /\ dd'[x] = dd[x] /\ dd[x].parent \in Dir
      BY <1>21, <2>3 DEF Owned, FirstTops
    <3>2. dd[dd[x].parent].ro /\ dd[dd[x].parent].parent = NoDir
      BY <3>1 DEF FirstTop
    <3>3. dd[x].parent # c.s
      BY <1>6, <1>14, <3>2
    <3> QED
      BY <1>11, <3>1, <3>2, <3>3
  <2> QED
    BY <2>1, <2>2, <2>3
<1>23. Chains'
  <2>1. PICK r \in Ranks : Ranked(r)
    BY DEF Owned, Chains
  <2> DEFINE k == [x \in Dir |-> IF x = c.d THEN 2 * r[c.s] - 1 ELSE 2 * r[x]]
  <2>2. k \in Ranks /\ (\A x \in Dir \ {c.d} : k[x] = 2 * r[x]) /\ k[c.d] = 2 * r[c.s] - 1
        /\ \A x \in Dir : r[x] \in Int
    BY <1>2, <2>1 DEF Ranks
  <2> HIDE DEF k
  <2>3. Rests(k, c.s)'
    <3>1. k[c.d] < k[c.s]
      BY <1>2, <1>3, <2>2
    <3>2. \A z \in Dir : dd'[z] # None /\ Owns(dd'[z], g) => z = c.d
      <4> SUFFICES ASSUME NEW z \in Dir, dd'[z] # None, Owns(dd'[z], g) PROVE z = c.d
        OBVIOUS
      <4>1. z # c.s
        BY <1>11, <1>12, <1>14 DEF Owns
      <4>2. z \in Where(c)
        BY <1>4, <1>9, <1>11, <4>1 DEF New, Live
      <4> QED
        BY <4>1, <4>2, SnapshotCallIs DEF Where
    <3>3. dd'[c.s].parent = c.d /\ dd'[c.s].snap = g /\ dd'[c.d].ro = TRUE
      BY <1>2, <1>3, <1>7, <1>11, <1>12, <1>13
    <3>4. c.s \in Dir /\ c.d \in Dir /\ g \in Int /\ g >= 1 /\ k \in Ranks
      BY <1>2, <1>14, <2>2
    <3>5. dd'[c.d].ro = FALSE => g # dd'[c.d].top
      BY <3>3
    <3> QED
      BY <3>1, <3>2, <3>3, <3>4, <3>5, RestsOn
  <2>4. ASSUME o.parent # NoDir PROVE Rests(k, c.d)'
    <3>1. Rests(r, c.s) /\ o.parent \in Dir /\ o.parent # c.d
      BY <1>2, <1>3, <1>5, <1>6, <1>14, <2>1, <2>4 DEF Ranked, Grounded
    <3>2. o.snap >= 1 /\ r[o.parent] < r[c.s] /\ o.parent # c.s
      BY <1>2, <1>6, <2>2, <3>1 DEF Rests
    <3>3. k[o.parent] < k[c.d]
      BY <1>2, <2>2, <3>1, <3>2
    <3>4. dd'[c.d] = u /\ dd'[o.parent] = dd[o.parent]
      BY <1>2, <1>3, <1>7, <1>11, <3>1, <3>2
    <3>5. ASSUME NEW z \in Dir, dd'[z] # None, NEW q \in dd'[z].own, q.guid = o.snap
          PROVE  z = o.parent \/ ((want'[z] # None => k[z] < k[c.d]) /\ Forked(z, c.d)')
      <4>1. \A i \in o.own : i.guid # o.snap
        BY <1>2, <1>3, <1>5, <1>6, <2>2, <3>1, <3>2 DEF Rests
      <4>2. z # c.s /\ z # c.d
        BY <1>11, <1>12, <1>13, <3>4, <3>5, <4>1
      <4>3. dd'[z] = dd[z] /\ Live(z) /\ (want'[z] # None => Made(z))
        BY <1>11, <3>5, <4>2 DEF Live, Made
      <4>4. z = o.parent \/ ((Made(z) => r[z] < r[c.s]) /\ Forked(z, c.s))
        BY <1>6, <3>1, <3>5, <4>3 DEF Rests
      <4>5. r[z] < r[c.s] => k[z] < k[c.d]
        BY <1>2, <2>2, <4>2
      <4>6. Forked(z, c.s) => Forked(z, c.d)'
        BY <1>6, <1>13, <3>4, <4>3 DEF Forked
      <4> QED
        BY <4>3, <4>4, <4>5, <4>6
    <3>6. dd[o.parent].ro = FALSE => o.snap # dd[o.parent].top
      BY <1>6, <3>1 DEF Rests
    <3> QED
      BY <1>13, <3>2, <3>3, <3>4, <3>5, <3>6 DEF Rests, Live, Made
  <2>5. ASSUME NEW x \in Dir, want'[x] # None, x # c.s, x # c.d, dd'[x].parent # NoDir
        PROVE  Rests(k, x)'
    <3>1. Made(x) /\ dd'[x] = dd[x] /\ dd[x].parent \in Dir /\ dd[x].parent # c.d
      BY <1>21, <2>5
    <3>2. Rests(r, x) /\ dd[x].snap # g
      BY <1>4, <1>9, <2>1, <2>5, <3>1 DEF Ranked, New
    <3>3. k[dd[x].parent] < k[x]
      <4>1. r[dd[x].parent] < r[x]
        BY <3>2 DEF Rests
      <4> QED
        BY <2>2, <2>5, <3>1, <4>1
    <3>4. dd'[dd[x].parent].ro = FALSE => dd[x].snap # dd'[dd[x].parent].top
      <4>1. CASE dd[x].parent = c.s
        BY <1>6, <1>11, <1>12, <1>14, <3>2, <4>1 DEF Rests
      <4>2. CASE dd[x].parent # c.s
        BY <1>11, <3>1, <3>2, <4>2 DEF Rests
      <4> QED
        BY <4>1, <4>2
    <3>5. (\E i \in o.own : i.guid = dd[x].snap) => dd[x].parent = c.s
      <4>1. ~ Forked(c.s, x)
        BY <1>6, <1>14 DEF Forked
      <4> QED
        BY <1>2, <1>5, <1>6, <3>2, <4>1 DEF Rests
    <3>6. ASSUME NEW z \in Dir, dd'[z] # None, NEW q \in dd'[z].own, q.guid = dd[x].snap
          PROVE  z = dd[x].parent \/ ((want'[z] # None => k[z] < k[x]) /\ Forked(z, x)')
      <4>1. CASE z = c.s
        BY <1>11, <1>12, <3>5, <3>6, <4>1
      <4>2. CASE z = c.d
        <5>1. q \in o.own /\ q \in dd[z].own /\ dd'[z] = dd[z]
          BY <1>2, <1>3, <1>7, <1>11, <1>13, <3>6, <4>2
        <5>2. Forked(z, x)
          BY <1>5, <3>1, <3>2, <3>6, <4>2, <5>1 DEF Rests
        <5>3. r[c.s] < r[x]
          BY <3>2, <3>5, <3>6, <5>1 DEF Rests
        <5>4. k[z] < k[x]
          BY <1>2, <2>2, <2>5, <4>2, <5>3
        <5> QED
          BY <3>1, <5>1, <5>2, <5>4 DEF Forked
      <4>3. CASE z # c.s /\ z # c.d
        <5>1. dd'[z] = dd[z] /\ Live(z) /\ (want'[z] # None => Made(z))
          BY <1>11, <3>6, <4>3 DEF Live, Made
        <5>2. z = dd[x].parent \/ ((Made(z) => r[z] < r[x]) /\ Forked(z, x))
          BY <3>2, <3>6, <5>1 DEF Rests
        <5>3. r[z] < r[x] => k[z] < k[x]
          BY <2>2, <2>5, <4>3
        <5>4. Forked(z, x) => Forked(z, x)'
          BY <3>1, <5>1 DEF Forked
        <5> QED
          BY <5>1, <5>2, <5>3, <5>4
      <4> QED
        BY <4>1, <4>2, <4>3
    <3>7. dd[x].snap >= 1
      BY <3>2 DEF Rests
    <3> QED
      BY <3>1, <3>3, <3>4, <3>6, <3>7 DEF Rests, Live, Made
  <2>6. dd'[c.d].parent = o.parent
    BY <1>2, <1>3, <1>7, <1>11, <1>13
  <2>7. Ranked(k)'
    BY <2>3, <2>4, <2>5, <2>6 DEF Ranked, Made
  <2> QED
    BY <2>2, <2>7 DEF Chains, Ranks
<1>24. GuidsFrom(p)
  BY <1>5, <1>6, <1>11, <1>12 DEF GuidsFrom, Live, Owns
<1>25. SnapsFrom(p)
  <2> SUFFICES ASSUME NEW x \in Dir, want'[x] # None
               PROVE  Given(p, dd'[x].snap) \/ \E z \in Dir : Made(z) /\ dd[z].snap = dd'[x].snap
    BY DEF SnapsFrom
  <2>1. CASE x = c.s
    BY <1>1, <1>9, <1>11, <1>12, <2>1 DEF Given, Naming
  <2>2. CASE x = c.d
    BY <1>2, <1>3, <1>6, <1>7, <1>11, <1>13, <2>2
  <2>3. CASE x # c.s /\ x # c.d
    BY <1>21, <2>3
  <2> QED
    BY <2>1, <2>2, <2>3
<1>26. Fact(p)' /\ ~ Naming(call'[p])
  BY <1>18, IdleIs DEF Fact, Naming
<1>27. \A x \in Dir : Mine(p, x) \/ (dd'[x] = dd[x] /\ tmp'[x] = tmp[x])
  BY <1>1, <1>11, SnapshotCallIs DEF Mine
<1>28. next' \in Nat /\ next' >= next
  BY <1>5, <1>10
<1> QED
  BY <1>17, <1>18, <1>20, <1>22, <1>23, <1>24, <1>25, <1>26, <1>27, <1>28, OwnStep

-----------------------------------------------------------------------------
(* Images are merged.                                                       *)

\* The merged image has the uuid of the child and the file of the image below.
LEMMA MergedIs ==
  ASSUME NEW di \in Descriptor, NEW g, Has(di, g), NEW e \in di.own, Children(di, g) = {e},
         NEW q, q = Entry(di, g), NEW v, v = Merged(di, g)
  PROVE  /\ v.top = di.top /\ v.parent = di.parent /\ v.snap = di.snap /\ v.ro = di.ro
         /\ \A i \in v.own : \/ i \in di.own /\ i # e /\ i # q
                             \/ i.guid = e.guid /\ i.parent = q.parent /\ i.file = q.file
         /\ \A i \in di.own : i = e \/ i = q \/ i \in v.own
         /\ \E i \in v.own : i.guid = e.guid /\ i.parent = q.parent /\ i.file = q.file
<1>1. (CHOOSE x \in Images(di) : x.parent = g) = e
  <2>1. \E x \in Images(di) : x.parent = g
    BY DEF Children
  <2>2. \A x \in Images(di) : x.parent = g => x = e
    BY DEF Children
  <2> QED
    BY <2>1, <2>2
<1> DEFINE m == [q EXCEPT !.guid = e.guid]
           put(S) == (S \ {e, q}) \cup (IF e \in S THEN {m} ELSE {})
           a == put(di.own)
           b == put(di.far)
<1>2. v = [di EXCEPT !.own = a, !.far = b]
  BY <1>1 DEF Merged
<1>3. a = (di.own \ {e, q}) \cup {m}
  OBVIOUS
<1>4. m.guid = e.guid /\ m.parent = q.parent /\ m.file = q.file
  <2>1. q \in Image
    BY EntryIn
  <2> QED
    BY <2>1 DEF Image
<1> HIDE DEF a, b, m, put
<1>5. v.own = a /\ v.top = di.top /\ v.parent = di.parent /\ v.snap = di.snap /\ v.ro = di.ro
  BY <1>2 DEF Descriptor
<1> QED
  BY <1>3, <1>4, <1>5

\* What is left when the snapshot below the top is merged back, or nothing was.
\* A descriptor with the images of another, or some of them.
Shrunk(v, o) ==
  /\ v.top = o.top /\ v.parent = o.parent /\ v.snap = o.snap /\ v.ro = o.ro
  /\ Solid(v)
  /\ \A i \in v.own : Owns(o, i.guid) /\ \E j \in o.own : j.file = i.file

LEMMA UndoneIs ==
  ASSUME NEW di \in Descriptor, NEW o \in Descriptor, NEW g \in Nat, Solid(o), o.ro = FALSE,
         o.own = di.own, o.top = di.top, o.parent = di.parent, o.snap = di.snap, o.ro = di.ro,
         di.top # g, Owns(di, g), \A e \in di.far : e.guid # g,
         \A t \in di.own : t.guid = di.top => t.parent = g,
         NEW v, v = ploop_store_diskdescriptor(DeletedDd(di, g))
  PROVE  Shrunk(v, o)
<1> SUFFICES /\ v.top = o.top /\ v.parent = o.parent /\ v.snap = o.snap /\ v.ro = o.ro
             /\ Solid(v)
             /\ \A i \in v.own : Owns(o, i.guid) /\ \E j \in o.own : j.file = i.file
  BY DEF Shrunk
<1>1. PICK t \in di.own : t.guid = di.top
  BY DEF Solid, Owns
<1>2. t \in Children(di, g) /\ Has(di, g)
  BY <1>1 DEF Children, Images, Has, Owns
<1>3. PICK w \in Descriptor : w = DeletedDd(di, g)
  BY <1>2, DeletedTyped
<1>4. v.own = w.own /\ v.top = w.top /\ v.parent = w.parent /\ v.snap = w.snap /\ v.ro = w.ro
  BY <1>3 DEF ploop_store_diskdescriptor, Descriptor
<1>5. CASE ~ OneChild(di, g)
  <2>1. w = di
    BY <1>2, <1>3, <1>5 DEF DeletedDd
  <2>2. Solid(v)
    BY <1>4, <2>1 DEF Solid, Owns
  <2> QED
    BY <1>4, <2>1, <2>2 DEF Owns
<1>6. CASE OneChild(di, g)
  <2>1. Children(di, g) = {t} /\ w = Merged(di, g)
    BY <1>2, <1>3, <1>6 DEF OneChild, DeletedDd
  <2>2. PICK q \in Image : q = Entry(di, g)
    BY <1>2, EntryIn
  <2>3. q \in di.own /\ q.guid = g
    BY <1>2, <2>2, EntryIn DEF Images
  <2>4. /\ w.top = di.top /\ w.parent = di.parent /\ w.snap = di.snap /\ w.ro = di.ro
        /\ \A i \in w.own : \/ i \in di.own /\ i # t /\ i # q
                            \/ i.guid = t.guid /\ i.parent = q.parent /\ i.file = q.file
        /\ \A i \in di.own : i = t \/ i = q \/ i \in w.own
        /\ \E i \in w.own : i.guid = t.guid /\ i.parent = q.parent /\ i.file = q.file
    BY <1>2, <2>1, <2>2, MergedIs
  <2>5. \A i \in w.own : Owns(o, i.guid) /\ \E j \in o.own : j.file = i.file
    BY <2>3, <2>4 DEF Owns
  <2>6. \A i, j \in w.own : i.guid = j.guid \/ i.file = j.file => i = j
    <3> SUFFICES ASSUME NEW i \in w.own, NEW j \in w.own, i.guid = j.guid \/ i.file = j.file
                 PROVE  i = j
      OBVIOUS
    <3>1. i \in Image /\ j \in Image
      BY DEF Descriptor
    <3>2. CASE i \in di.own /\ i # t /\ i # q /\ j \in di.own
      BY <3>2 DEF Solid
    <3>3. CASE i \in di.own /\ i # t /\ i # q /\ j.guid = t.guid /\ j.file = q.file
      BY <2>3, <3>3 DEF Solid
    <3>4. CASE j \in di.own /\ j # t /\ j # q /\ i.guid = t.guid /\ i.file = q.file
      BY <2>3, <3>4 DEF Solid
    <3>5. CASE /\ i.guid = t.guid /\ i.parent = q.parent /\ i.file = q.file
               /\ j.guid = t.guid /\ j.parent = q.parent /\ j.file = q.file
      BY <3>1, <3>5, ImageSame
    <3> QED
      BY <2>4, <3>2, <3>3, <3>4, <3>5
  <2>7. ASSUME NEW i \in w.own, i.guid # w.top PROVE \E f \in w.own : f.parent = i.guid
    <3>1. i \in di.own /\ i # t /\ i # q
      BY <1>1, <2>4, <2>7
    <3>2. PICK f \in di.own : f.parent = i.guid
      BY <1>1, <2>4, <2>7, <3>1 DEF Solid
    <3>3. f # t
      BY <1>1, <2>3, <3>1, <3>2 DEF Solid
    <3> QED
      BY <2>4, <3>2, <3>3
  <2>8. Solid(v)
    BY <1>1, <1>4, <2>4, <2>5, <2>6, <2>7 DEF Solid, Owns
  <2> QED
    BY <1>4, <2>4, <2>5, <2>8
<1> QED
  BY <1>5, <1>6

LEMMA UndoOwn ==
  ASSUME Inv, Inv', Owned, NEW p \in Proc, Undo(p)
  PROVE  Owned'
<1>1. PICK c \in CloneCall \cup SnapshotCall : c = call[p]
  BY CallKind DEF Inv, Undo
<1>2. c.pc = "undo" /\ c.d \in Dir /\ c.s \in Dir /\ c.g \in Nat /\ c.di \in Descriptor /\ Mine(p, c.s)
  BY <1>1, CloneCallIs, SnapshotCallIs DEF Undo, Mine
<1>3. Made(c.s) /\ Naming(c) /\ New(c) /\ Topped(c) /\ Reads(c.s, c.di) /\ c.di.ro = FALSE
  <2>1. CASE c \in CloneCall
    <3>1. CloneFact(c) /\ Cloning(c)
      BY <1>1, <2>1 DEF Owned, Fact, Inv, Working
    <3> QED
      BY <1>2, <2>1, <3>1 DEF CloneFact, Cloning, Naming
  <2>2. CASE c \in SnapshotCall
    <3>1. SnapshotFact(c) /\ Snapping(c)
      BY <1>1, <2>2 DEF Owned, Fact, Inv, Working
    <3> QED
      BY <1>2, <2>2, <3>1 DEF SnapshotFact, Snapping, Naming, Active, Waiting
  <2> QED
    BY <2>1, <2>2
<1>4. Types /\ Grounded /\ next \in Nat /\ next >= 1 /\ Live(c.s)
  BY <1>2, <1>3, InvGrounded DEF Inv, Types, Owned, Stored, Grounded
<1>5. UNCHANGED <<tmp, next, want>>
  BY DEF Undo
<1>6. PICK n \in CloneCall \cup SnapshotCall :
        /\ call' = [call EXCEPT ![p] = n] /\ call'[p] = n
        /\ n.d = c.d /\ n.s = c.s /\ n.di = c.di /\ n.g = c.g
        /\ c \in CloneCall => n \in CloneCall /\ n.pc = "destroy"
        /\ c \in SnapshotCall => n \in SnapshotCall /\ n.pc = "unlink"
  <2>1. CASE c \in CloneCall
    <3>1. Goto(p, "destroy")
      BY <1>1, <2>1, CloneCallIs DEF Undo
    <3>2. c \notin SnapshotCall
      BY <2>1, CloneCallIs
    <3> QED
      BY <1>1, <2>1, <3>1, <3>2, CloneGoes
  <2>2. CASE c \in SnapshotCall
    <3>1. PICK pc \in SnapshotStep : Goto(p, pc) /\ pc = "unlink"
      BY <1>1, <2>2, SnapshotCallIs DEF Undo, SnapshotStep
    <3>2. c \notin CloneCall
      BY <2>2, SnapshotCallIs
    <3> QED
      BY <1>1, <2>2, <3>1, <3>2, SnapshotGoes
  <2> QED
    BY <2>1, <2>2
<1>7. PICK o \in Descriptor : o = dd[c.s]
  BY <1>2, <1>4 DEF Types, Live
<1>8. PICK di \in Descriptor : di = c.di
  BY <1>2
<1>9. PICK g \in Nat : g = c.g
  BY <1>2
<1>10. /\ o.own = di.own /\ o.top = di.top /\ o.parent = di.parent /\ o.snap = di.snap
       /\ o.ro = di.ro /\ o.ro = FALSE
  BY <1>3, <1>7, <1>8 DEF Reads
<1>11. Solid(o) /\ Used(o)
  BY <1>2, <1>4, <1>7 DEF Owned, Stored
<1>12. PICK v \in Descriptor :
         /\ dd' = [dd EXCEPT ![c.s] = v]
         /\ v.top = o.top /\ v.parent = o.parent /\ v.snap = o.snap /\ v.ro = o.ro
         /\ Solid(v)
         /\ \A i \in v.own : Owns(o, i.guid) /\ \E j \in o.own : j.file = i.file
  <2>1. CASE dd' = dd
    <3>1. dd' = [dd EXCEPT ![c.s] = o]
      BY <1>4, <1>7, <2>1 DEF Types
    <3> QED
      BY <1>11, <3>1 DEF Owns
  <2>2. CASE /\ dd' = [dd EXCEPT ![c.s] = ploop_store_diskdescriptor(DeletedDd(di, g))]
             /\ DeleteAllowed(di, g, c.s \in mounted)
    <3>1. Has(di, g)
      BY <2>2 DEF DeleteAllowed
    <3>2. PICK w \in Descriptor : w = ploop_store_diskdescriptor(DeletedDd(di, g))
      BY <3>1, DeletedTyped, StoreTyped
    <3>3. di.top # g /\ Owns(di, g)
      BY <1>3, <1>8, <1>9 DEF Topped
    <3>4. \A e \in di.far : e.guid # g
      BY <1>3, <1>8, <1>9 DEF Topped
    <3>5. \A t \in di.own : t.guid = di.top => t.parent = g
      BY <1>3, <1>8, <1>9 DEF Topped
    <3>6. Shrunk(w, o)
      <4>1. Solid(o) /\ o.ro = FALSE /\ o.own = di.own /\ o.top = di.top /\ o.parent = di.parent
            /\ o.snap = di.snap /\ o.ro = di.ro
        BY <1>10, <1>11
      <4> HIDE <1>10, <1>11
      <4> QED
        BY <3>2, <3>3, <3>4, <3>5, <4>1, UndoneIs
    <3> QED
      BY <2>2, <3>2, <3>6 DEF Shrunk
  <2> QED
    BY <1>1, <1>8, <1>9, <2>1, <2>2 DEF Undo
<1>13. dd'[c.s] = v /\ (\A x \in Dir \ {c.s} : dd'[x] = dd[x]) /\ v # None
  BY <1>2, <1>4, <1>12, NoneAssumption DEF Types
<1>14. Only(c.s)
  BY <1>4, <1>5, <1>13 DEF Only
<1>15. Stored'
  <2>1. Used(v)'
    <3>1. \A i \in v.own : i.guid < next /\ i.file < next
      BY <1>11, <1>12 DEF Used, Owns
    <3> QED
      BY <1>5, <1>11, <1>12, <3>1 DEF Used
  <2> QED
    BY <1>2, <1>12, <1>13, <1>14, <2>1, StoredOnly DEF Used
<1>16. \A q \in Proc \ {p} : call'[q] = call[q]
  BY <1>6, <1>4 DEF Types
<1>17. \A x, y : (Twin(x, y)' <=> Twin(x, y)) /\ (Heir(x, y)' <=> Heir(x, y))
  <2>1. call[p] \notin DeleteChild /\ n \notin DeleteChild
        /\ (n \in SnapshotCall <=> c \in SnapshotCall)
    BY <1>1, <1>6, CloneCallIs, SnapshotCallIs
  <2> QED
    BY <1>1, <1>6, <1>16, <2>1 DEF Twin, Heir
<1>18. Distinct'
  <2> SUFFICES ASSUME NEW y \in Dir \ {c.s}, Live(y), ~ Twin(c.s, y)'
               PROVE  NamesApart(v, dd[y]) /\ (~ Heir(c.s, y)' => FilesApart(v, dd[y]))
    BY <1>2, <1>13, <1>14, <1>17, DistinctOnly
  <2>1. ~ Twin(c.s, y) /\ (Heir(c.s, y)' <=> Heir(c.s, y))
    BY <1>17
  <2>2. NamesApart(o, dd[y]) /\ (~ Heir(c.s, y)' => FilesApart(o, dd[y]))
    BY <1>2, <1>4, <1>7, <2>1 DEF Owned, Distinct
  <2> QED
    BY <1>12, <2>2 DEF NamesApart, FilesApart, Owns
<1>19. \A x \in Dir : Made(x) =>
         /\ dd'[x] # None /\ dd'[x].parent = dd[x].parent /\ dd'[x].snap = dd[x].snap
         /\ dd'[x].ro = dd[x].ro /\ dd'[x].top = dd[x].top
  <2> SUFFICES ASSUME NEW x \in Dir, Made(x)
               PROVE  /\ dd'[x] # None /\ dd'[x].parent = dd[x].parent
                      /\ dd'[x].snap = dd[x].snap /\ dd'[x].ro = dd[x].ro /\ dd'[x].top = dd[x].top
    OBVIOUS
  <2>1. CASE x = c.s
    BY <1>7, <1>12, <1>13, <2>1
  <2>2. CASE x # c.s
    BY <1>4, <1>13, <2>2 DEF Grounded, Live
  <2> QED
    BY <2>1, <2>2
<1>20. \A x \in Dir : dd'[x] # None => Live(x) /\ \A i \in dd'[x].own : Owns(dd[x], i.guid)
  <2> SUFFICES ASSUME NEW x \in Dir, dd'[x] # None
               PROVE  Live(x) /\ \A i \in dd'[x].own : Owns(dd[x], i.guid)
    OBVIOUS
  <2>1. CASE x = c.s
    BY <1>4, <1>7, <1>12, <1>13, <2>1
  <2>2. CASE x # c.s
    BY <1>13, <2>2 DEF Live, Owns
  <2> QED
    BY <2>1, <2>2
<1>21. FirstTops'
  <2> SUFFICES ASSUME NEW x \in Dir, Made(x), Owns(dd'[x], TOPDELTA_UUID), dd'[x].parent # NoDir
               PROVE  dd'[dd'[x].parent].ro /\ dd'[dd'[x].parent].parent = NoDir
    BY <1>5 DEF FirstTops, FirstTop, Made, Owns
  <2>1. FirstTop(x) /\ dd[x].parent \in Dir /\ Made(dd[x].parent) /\ dd[x].parent # NoDir
    BY <1>4, <1>19 DEF Owned, FirstTops, Grounded
  <2>2. Owns(dd[x], TOPDELTA_UUID)
    BY <1>19, <1>20 DEF Owns
  <2> QED
    BY <1>19, <2>1, <2>2 DEF FirstTop
<1>22. Chains'
  <2>1. PICK r \in Ranks : Ranked(r)
    BY DEF Owned, Chains
  <2>2. ASSUME NEW x \in Dir, Made(x), dd[x].parent # NoDir PROVE Rests(r, x)'
    <3>1. Rests(r, x) /\ dd[x].parent \in Dir /\ Made(dd[x].parent)
      BY <1>4, <2>1, <2>2 DEF Ranked, Grounded
    <3>2. ASSUME NEW z \in Dir, dd'[z] # None, NEW q \in dd'[z].own, q.guid = dd[x].snap
          PROVE  z = dd[x].parent \/ ((Made(z) => r[z] < r[x]) /\ dd'[z].ro /\ \E h \in dd'[z].own : h.parent = dd[x].snap)
      <4>1. PICK i \in dd[z].own : i.guid = dd[x].snap
        BY <1>20, <3>2 DEF Owns
      <4>2. z = dd[x].parent \/ ((Made(z) => r[z] < r[x]) /\ Forked(z, x))
        BY <1>20, <3>1, <3>2, <4>1 DEF Rests
      <4>3. CASE z = c.s
        BY <1>7, <1>10, <4>2, <4>3 DEF Forked
      <4>4. CASE z # c.s
        BY <1>13, <4>2, <4>4 DEF Forked
      <4> QED
        BY <4>3, <4>4
    <3>3. /\ dd'[x].snap = dd[x].snap /\ dd'[x].parent = dd[x].parent
          /\ dd'[dd[x].parent].ro = dd[dd[x].parent].ro
          /\ dd'[dd[x].parent].top = dd[dd[x].parent].top
      BY <1>19, <2>2, <3>1
    <3>4. dd[x].snap >= 1 /\ r[dd[x].parent] < r[x]
          /\ (dd[dd[x].parent].ro = FALSE => dd[x].snap # dd[dd[x].parent].top)
      BY <3>1 DEF Rests
    <3> QED
      BY <1>5, <3>2, <3>3, <3>4 DEF Rests, Live, Made, Forked
  <2>3. Ranked(r)'
    BY <1>5, <1>19, <2>2 DEF Ranked, Made
  <2> QED
    BY <2>3 DEF Chains, Ranks
<1>23. GuidsFrom(p)
  BY <1>20 DEF GuidsFrom
<1>24. SnapsFrom(p)
  BY <1>5, <1>19 DEF SnapsFrom, Made
<1>25. New(n)'
  <2>1. Where(n) = Where(c)
    BY <1>6, CloneCallIs, SnapshotCallIs DEF Where
  <2>2. \A y \in Dir : dd'[y] # None /\ Owns(dd'[y], c.g) => y \in Where(c)
    BY <1>3, <1>20 DEF New, Owns
  <2>3. \A x \in Dir : want'[x] # None => dd'[x].snap # c.g
    BY <1>3, <1>5, <1>19 DEF New, Made
  <2>4. next' \in Nat /\ next' >= next
    BY <1>4, <1>5
  <2> QED
    BY <1>2, <1>3, <1>4, <1>6, <2>1, <2>2, <2>3, <2>4, NewKeeps
<1>26. Fact(p)'
  <2>1. CASE c \in CloneCall
    <3>1. CloneFact(n)'
      BY <1>3, <1>6, <1>25, <2>1 DEF CloneFact
    <3> QED
      BY <1>6, <2>1, <3>1, CloneCallIs DEF Fact
  <2>2. CASE c \in SnapshotCall
    <3>1. SnapshotFact(n)'
      BY <1>3, <1>6, <1>25, <2>2 DEF SnapshotFact, Active, Waiting, Early, Filled, Ready
    <3> QED
      BY <1>6, <2>2, <3>1, SnapshotCallIs DEF Fact
  <2> QED
    BY <2>1, <2>2
<1>27. Naming(call[p]) /\ call'[p].g = call[p].g
  BY <1>1, <1>3, <1>6
<1>28. \A x \in Dir : Mine(p, x) \/ (dd'[x] = dd[x] /\ tmp'[x] = tmp[x])
  BY <1>2, <1>5, <1>13
<1>29. next' \in Nat /\ next' >= next
  BY <1>4, <1>5
<1> QED
  BY <1>15, <1>16, <1>18, <1>21, <1>22, <1>23, <1>24, <1>26, <1>27, <1>28, <1>29, OwnStep

\* A child that took over an image of the volume below, whose images are b: what
\* continued in other images than g does so still.
Passed(v, o, b, g) ==
  /\ v.top = o.top /\ v.ro = o.ro
  /\ Solid(v)
  /\ \A i \in v.own : Owns(o, i.guid)
  /\ \A i \in v.own : (\E j \in o.own : j.file = i.file) \/ (\E j \in b : j.file = i.file)
  /\ \A f \in o.own : f.parent # g => f \in v.own

LEMMA PassedIs ==
  ASSUME NEW di \in Descriptor, NEW o \in Descriptor, NEW b \in SUBSET Image, NEW g \in Int,
         Solid(o), o.own = di.own, o.top = di.top, o.ro = di.ro, ~ Owns(o, g), Has(di, g),
         \A e \in di.own : Children(di, g) = {e} => Entry(di, g) \in b,
         \A i \in o.own, j \in b : i.file # j.file,
         NEW v \in Descriptor, v = ploop_store_diskdescriptor(DeletedDd(di, g))
  PROVE  v.parent = di.parent /\ v.snap = di.snap /\ Passed(v, o, b, g)
<1>1. PICK w \in Descriptor : w = DeletedDd(di, g)
  BY DeletedTyped
<1>2. v.own = w.own /\ v.top = w.top /\ v.parent = w.parent /\ v.snap = w.snap /\ v.ro = w.ro
  BY <1>1 DEF ploop_store_diskdescriptor, Descriptor
<1>3. \A i \in di.own : i.guid # g
  BY DEF Owns
<1>4. PICK q \in Image : q = Entry(di, g) /\ q.guid = g /\ q \notin di.own
  BY <1>3, EntryIn
<1>5. ASSUME w.top = di.top, w.parent = di.parent, w.snap = di.snap, w.ro = di.ro, w.own = di.own
      PROVE  v.parent = di.parent /\ v.snap = di.snap /\ Passed(v, o, b, g)
  <2>1. v.own = o.own /\ v.top = o.top /\ v.ro = o.ro
    BY <1>2, <1>5
  <2>2. Solid(v)
    BY <2>1 DEF Solid, Owns
  <2> QED
    BY <1>2, <1>5, <2>1, <2>2 DEF Passed, Owns
<1>6. CASE Children(di, g) = {}
  <2>1. ~ OneChild(di, g)
    BY <1>6 DEF OneChild
  <2>2. w = Without(di, g)
    BY <1>1, <1>6, <2>1 DEF DeletedDd
  <2>3. /\ w.own = {e \in di.own : e.guid # g}
        /\ w.top = di.top /\ w.parent = di.parent /\ w.snap = di.snap /\ w.ro = di.ro
    BY <2>2 DEF Without, Descriptor
  <2> QED
    BY <1>3, <1>5, <2>3
<1>7. CASE ~ OneChild(di, g) /\ Children(di, g) # {}
  <2>1. w = di
    BY <1>1, <1>7 DEF DeletedDd
  <2> QED
    BY <1>5, <2>1
<1>8. CASE OneChild(di, g)
  <2>1. PICK e \in Images(di) : Children(di, g) = {e}
    BY <1>8 DEF OneChild
  <2>2. w = Merged(di, g)
    BY <1>1, <1>8, <2>1 DEF DeletedDd
  <2>3. CASE e \notin di.own
    <3>1. (CHOOSE x \in Images(di) : x.parent = g) = e
      <4>1. \E x \in Images(di) : x.parent = g
        BY <2>1 DEF Children
      <4>2. \A x \in Images(di) : x.parent = g => x = e
        BY <2>1 DEF Children
      <4> QED
        BY <4>1, <4>2
    <3> DEFINE m == [q EXCEPT !.guid = e.guid]
               put(S) == (S \ {e, q}) \cup (IF e \in S THEN {m} ELSE {})
               h == put(di.own)
               k == put(di.far)
    <3>2. w = [di EXCEPT !.own = h, !.far = k]
      BY <1>4, <2>2, <3>1 DEF Merged
    <3>3. h = di.own
      BY <1>4, <2>3
    <3> HIDE DEF h, k, m, put
    <3>4. w.own = di.own /\ w.top = di.top /\ w.parent = di.parent /\ w.snap = di.snap /\ w.ro = di.ro
      BY <3>2, <3>3 DEF Descriptor
    <3> QED
      BY <1>5, <3>4
  <2>4. CASE e \in di.own
    <3>1. /\ w.top = di.top /\ w.parent = di.parent /\ w.snap = di.snap /\ w.ro = di.ro
          /\ \A i \in w.own : \/ i \in di.own /\ i # e /\ i # q
                              \/ i.guid = e.guid /\ i.parent = q.parent /\ i.file = q.file
          /\ \A i \in di.own : i = e \/ i = q \/ i \in w.own
          /\ \E i \in w.own : i.guid = e.guid /\ i.parent = q.parent /\ i.file = q.file
      BY <1>4, <2>1, <2>2, <2>4, MergedIs
    <3>2. q \in b /\ e.parent = g
      BY <1>4, <2>1, <2>4 DEF Children
    <3>3. \A f \in o.own : f.parent # g => f \in v.own
      BY <1>2, <1>4, <3>1, <3>2
    <3>4. \A i \in v.own : Owns(o, i.guid)
      BY <1>2, <2>4, <3>1 DEF Owns
    <3>5. \A i \in v.own : (\E j \in o.own : j.file = i.file) \/ (\E j \in b : j.file = i.file)
      BY <1>2, <3>1, <3>2
    <3>6. \A i, j \in v.own : i.guid = j.guid \/ i.file = j.file => i = j
      <4> SUFFICES ASSUME NEW i \in v.own, NEW j \in v.own, i.guid = j.guid \/ i.file = j.file
                   PROVE  i = j
        OBVIOUS
      <4>1. i \in Image /\ j \in Image
        BY DEF Descriptor
      <4>2. CASE i \in di.own /\ i # e /\ j \in di.own
        BY <4>2 DEF Solid
      <4>3. CASE i \in di.own /\ i # e /\ j.guid = e.guid /\ j.file = q.file
        BY <2>4, <3>2, <4>3 DEF Solid
      <4>4. CASE j \in di.own /\ j # e /\ i.guid = e.guid /\ i.file = q.file
        BY <2>4, <3>2, <4>4 DEF Solid
      <4>5. CASE /\ i.guid = e.guid /\ i.parent = q.parent /\ i.file = q.file
                 /\ j.guid = e.guid /\ j.parent = q.parent /\ j.file = q.file
        BY <4>1, <4>5, ImageSame
      <4> QED
        BY <1>2, <3>1, <4>2, <4>3, <4>4, <4>5
    <3>7. Owns(v, v.top)
      <4>1. PICK t \in di.own : t.guid = di.top
        BY DEF Solid, Owns
      <4> QED
        BY <1>2, <1>4, <3>1, <4>1 DEF Owns
    <3>8. ASSUME NEW i \in v.own, i.guid # v.top PROVE \E f \in v.own : f.parent = i.guid
      <4>1. PICK j \in di.own : j.guid = i.guid
        BY <3>4, <3>8 DEF Owns
      <4>2. PICK f \in di.own : f.parent = i.guid
        BY <1>2, <3>1, <3>8, <4>1 DEF Solid
      <4> QED
        BY <1>3, <3>3, <4>1, <4>2
    <3>9. Owns(v, TOPDELTA_UUID) => v.top = TOPDELTA_UUID /\ v.ro = FALSE
      <4>1. Owns(v, TOPDELTA_UUID) => Owns(o, TOPDELTA_UUID)
        BY <3>4 DEF Owns
      <4> QED
        BY <1>2, <3>1, <4>1 DEF Solid
    <3>10. Solid(v)
      BY <3>6, <3>7, <3>8, <3>9 DEF Solid
    <3> QED
      BY <1>2, <3>1, <3>3, <3>4, <3>5, <3>10 DEF Passed
  <2> QED
    BY <2>3, <2>4
<1> QED
  BY <1>6, <1>7, <1>8

\* The child of a deleted volume gets its image, and continues where it did.
LEMMA MergesOwn ==
  ASSUME Inv, Inv', Owned, NEW p \in Proc, NEW c \in DeleteChild, c = call[p], c.pc = "merge",
         Made(c.d), Made(c.c), dd[c.c].parent = c.d, Kids(c.d) \subseteq {c.c},
         NEW v \in Descriptor, dd' = [dd EXCEPT ![c.c] = v], want' = [want EXCEPT ![c.d] = None],
         tmp' = tmp, next' = next, v.parent = dd[c.d].parent, v.snap = dd[c.d].snap,
         Passed(v, dd[c.c], dd[c.d].own, dd[c.c].snap), ~ Owns(dd[c.c], dd[c.c].snap),
         NEW n \in DeleteChild, call' = [call EXCEPT ![p] = n], n.pc # "merge", ~ Standing(n.pc),
         n.d = c.d, n.c = c.c, v.parent # c.c
  PROVE  Owned'
<1>1. /\ c.d \in Dir /\ c.c \in Dir /\ Mine(p, c.c) /\ c.d # c.c
      /\ lock[c.d] = p /\ lock[c.c] = p /\ NoDir \notin Dir
  BY ChildKnown
<1>2. PICK x \in Dir : x = c.c
  BY <1>1
<1>3. PICK d \in Dir : d = c.d /\ d # x /\ d # NoDir
  BY <1>1, <1>2
<1>4. Types /\ Grounded /\ next \in Nat /\ next >= 1 /\ Live(x) /\ Live(d)
  BY <1>2, <1>3, InvGrounded DEF Inv, Types, Owned, Stored, Grounded
<1>5. PICK o \in Descriptor : o = dd[x]
  BY <1>4 DEF Types, Live
<1>6. PICK b \in Descriptor : b = dd[d]
  BY <1>4 DEF Types, Live
<1>7. Solid(o) /\ Used(o) /\ Solid(b) /\ Used(b)
  BY <1>4, <1>5, <1>6 DEF Owned, Stored
<1>8. /\ Made(x) /\ Made(d) /\ o.parent = d /\ v.parent = b.parent /\ v.snap = b.snap
      /\ Kids(d) \subseteq {x} /\ v.parent # x /\ ~ Owns(o, o.snap)
  BY <1>2, <1>3, <1>5, <1>6
<1>9. /\ v.top = o.top /\ v.ro = o.ro /\ Solid(v)
      /\ \A i \in v.own : Owns(o, i.guid)
      /\ \A i \in v.own : (\E j \in o.own : j.file = i.file) \/ (\E j \in b.own : j.file = i.file)
      /\ \A f \in o.own : f.parent # o.snap => f \in v.own
  BY <1>2, <1>3, <1>5, <1>6 DEF Passed
<1>10. dd'[x] = v /\ (\A y \in Dir \ {x} : dd'[y] = dd[y]) /\ v # None
  BY <1>2, <1>4, NoneAssumption DEF Types
<1>11. want'[d] = None /\ (\A y \in Dir \ {d} : want'[y] = want[y])
  BY <1>3, <1>4 DEF Types
<1>12. Only(x)
  BY <1>4, <1>10 DEF Only
<1>13. call'[p] = n /\ \A q \in Proc \ {p} : call'[q] = call[q]
  BY <1>4 DEF Types
<1>14. \A y, z : (Twin(y, z)' <=> Twin(y, z)) /\ (Heir(y, z) => Heir(y, z)')
  <2>1. c \notin SnapshotCall /\ n \notin SnapshotCall
    BY DeleteChildFacts
  <2> QED
    BY <1>13, <2>1 DEF Twin, Heir
<1>15. Heir(x, d)' /\ Heir(d, x)'
  BY <1>2, <1>3, <1>13 DEF Heir
<1>16. \A y : ~ Twin(x, y) /\ ~ Twin(d, y) /\ ~ Heir(x, y) /\ ~ Heir(d, y)
  <2>1. \A q \in Proc : lock[x] = q \/ lock[d] = q => q = p
    BY <1>1, <1>2, <1>3
  <2>2. call[p] \notin SnapshotCall /\ call[p].pc = "merge"
    BY DeleteChildFacts
  <2>3. \A y : ~ Twin(x, y) /\ ~ Twin(d, y)
    BY <1>8, <2>1, <2>2, NoTwin
  <2>4. \A y : ~ Heir(x, y) /\ ~ Heir(d, y)
    BY <2>1, <2>2, NoHeir
  <2> QED
    BY <2>3, <2>4
<1>17. Stored'
  <2>1. \A i \in v.own : i.guid < next
    BY <1>7, <1>9 DEF Used, Owns
  <2>2. \A i \in v.own : i.file < next
    BY <1>7, <1>9 DEF Used
  <2>3. Used(v)'
    BY <1>7, <1>8, <1>9, <2>1, <2>2 DEF Used
  <2> QED
    BY <1>9, <1>10, <1>12, <2>3, StoredOnly DEF Used
<1>18. Distinct'
  <2> SUFFICES ASSUME NEW y \in Dir \ {x}, Live(y)
               PROVE  NamesApart(v, dd[y]) /\ (~ Heir(x, y)' => FilesApart(v, dd[y]))
    BY <1>10, <1>12, <1>14, DistinctOnly
  <2>1. NamesApart(o, dd[y]) /\ FilesApart(o, dd[y])
    BY <1>4, <1>5, <1>16 DEF Owned, Distinct
  <2>2. y # d => FilesApart(b, dd[y])
    BY <1>4, <1>6, <1>16 DEF Owned, Distinct
  <2>3. NamesApart(v, dd[y])
    BY <1>9, <2>1 DEF NamesApart, Owns
  <2>4. ~ Heir(x, y)' => FilesApart(v, dd[y])
    BY <1>9, <1>15, <2>1, <2>2 DEF FilesApart
  <2> QED
    BY <2>3, <2>4
<1>19. \A y \in Dir : want'[y] # None /\ y # x =>
         /\ y # d /\ Made(y) /\ dd'[y] = dd[y]
         /\ dd[y].parent # NoDir =>
              dd[y].parent \in Dir /\ Made(dd[y].parent) /\ dd[y].parent # d
  <2> SUFFICES ASSUME NEW y \in Dir, want'[y] # None, y # x
               PROVE  /\ y # d /\ Made(y) /\ dd'[y] = dd[y]
                      /\ dd[y].parent # NoDir =>
                           dd[y].parent \in Dir /\ Made(dd[y].parent) /\ dd[y].parent # d
    OBVIOUS
  <2>1. y # d /\ Made(y) /\ dd'[y] = dd[y] /\ Live(y)
    BY <1>4, <1>10, <1>11 DEF Made, Grounded
  <2>2. dd[y].parent # d
    BY <1>8, <2>1 DEF Kids, Continues, Live
  <2> QED
    BY <1>4, <2>1, <2>2 DEF Grounded
<1>20. \A y \in Dir : dd'[y] # None => Live(y) /\ \A i \in dd'[y].own : Owns(dd[y], i.guid)
  <2> SUFFICES ASSUME NEW y \in Dir, dd'[y] # None
               PROVE  Live(y) /\ \A i \in dd'[y].own : Owns(dd[y], i.guid)
    OBVIOUS
  <2>1. CASE y = x
    BY <1>4, <1>5, <1>9, <1>10, <2>1
  <2>2. CASE y # x
    BY <1>10, <2>2 DEF Live, Owns
  <2> QED
    BY <2>1, <2>2
<1>21. FirstTops'
  <2> SUFFICES ASSUME NEW y \in Dir, want'[y] # None, Owns(dd'[y], TOPDELTA_UUID),
                      dd'[y].parent # NoDir
               PROVE  dd'[dd'[y].parent].ro /\ dd'[dd'[y].parent].parent = NoDir
    BY DEF FirstTops, FirstTop, Made, Owns
  <2>1. Live(y) /\ Owns(dd[y], TOPDELTA_UUID)
    <3>1. y # x => Made(y) /\ dd'[y] = dd[y]
      BY <1>19
    <3>2. dd'[y] # None
      BY <1>4, <1>10, <3>1 DEF Grounded, Live
    <3> QED
      BY <1>20, <3>2 DEF Owns
  <2>2. CASE y = x
    <3>1. FirstTop(x)
      BY <1>8 DEF Owned, FirstTops
    <3> QED
      BY <1>3, <1>5, <1>6, <1>8, <1>10, <2>1, <2>2, <3>1 DEF FirstTop
  <2>3. CASE y # x
    <3>1. FirstTop(y) /\ dd'[y] = dd[y] /\ dd[y].parent # NoDir /\ dd[y].parent \in Dir
      BY <1>19, <2>3 DEF Owned, FirstTops
    <3>2. dd[dd[y].parent].ro /\ dd[dd[y].parent].parent = NoDir
      BY <2>1, <3>1 DEF FirstTop
    <3>3. dd[y].parent # x
      BY <1>3, <1>5, <1>8, <3>2
    <3> QED
      BY <1>10, <3>1, <3>2, <3>3
  <2> QED
    BY <2>2, <2>3
<1>27. Chains'
  <2>1. PICK r \in Ranks : Ranked(r)
    BY DEF Owned, Chains
  <2>2. r[x] \in Int /\ r[d] \in Int /\ \A y \in Dir : r[y] \in Int
    BY DEF Ranks
  <2>3. Rests(r, x)
    BY <1>3, <1>5, <1>8, <2>1 DEF Ranked
  <2>4. r[d] < r[x]
    BY <1>5, <1>8, <2>3 DEF Rests
  <2>5. ASSUME b.parent # NoDir PROVE Rests(r, x)'
    <3>1. Rests(r, d) /\ b.parent \in Dir /\ b.parent # x
      BY <1>4, <1>6, <1>8, <2>1, <2>5 DEF Ranked, Grounded
    <3>2. /\ b.snap >= 1 /\ r[b.parent] < r[d]
          /\ dd[b.parent].ro = FALSE => b.snap # dd[b.parent].top
          /\ \A z \in Dir : Live(z) => \A q \in dd[z].own : q.guid = b.snap =>
               z = b.parent \/ ((Made(z) => r[z] < r[d]) /\ Forked(z, d))
      BY <1>6, <3>1 DEF Rests
    <3>3. dd'[b.parent] = dd[b.parent] /\ r[b.parent] < r[x]
      BY <1>10, <2>2, <2>4, <3>1, <3>2
    <3>4. ASSUME NEW z \in Dir, dd'[z] # None, NEW q \in dd'[z].own, q.guid = b.snap
          PROVE  z = b.parent \/ ((want'[z] # None => r[z] < r[x])
                                  /\ dd'[z].ro /\ \E h \in dd'[z].own : h.parent = b.snap)
      <4>1. PICK i \in dd[z].own : i.guid = b.snap
        BY <1>20, <3>4 DEF Owns
      <4>2. z = b.parent \/ ((Made(z) => r[z] < r[d]) /\ Forked(z, d))
        BY <1>20, <3>2, <3>4, <4>1
      <4>3. CASE z = x
        BY <1>8, <2>2, <2>4, <3>1, <4>2, <4>3
      <4>4. CASE z # x
        <5>1. dd'[z] = dd[z]
          BY <1>10, <4>4
        <5>2. want'[z] # None => Made(z)
          BY <1>19, <4>4
        <5> QED
          BY <1>6, <2>2, <2>4, <4>2, <5>1, <5>2 DEF Forked
      <4> QED
        BY <4>3, <4>4
    <3> QED
      BY <1>8, <1>10, <3>2, <3>3, <3>4 DEF Rests, Live, Made, Forked
  <2>6. ASSUME NEW y \in Dir, want'[y] # None, y # x, dd[y].parent # NoDir PROVE Rests(r, y)'
    <3>1. /\ Made(y) /\ dd'[y] = dd[y] /\ dd[y].parent \in Dir /\ Rests(r, y)
          /\ dd[y].parent # d
      BY <1>19, <2>1, <2>6 DEF Ranked
    <3>2. PICK s \in Dir : s = dd[y].parent
      BY <3>1
    <3>3. /\ dd[y].snap >= 1 /\ r[s] < r[y]
          /\ dd[s].ro = FALSE => dd[y].snap # dd[s].top
          /\ \A z \in Dir : Live(z) => \A q \in dd[z].own : q.guid = dd[y].snap =>
               z = s \/ ((Made(z) => r[z] < r[y]) /\ Forked(z, y))
      BY <3>1, <3>2 DEF Rests
    <3>4. dd'[s].ro = dd[s].ro /\ dd'[s].top = dd[s].top
      <4>1. CASE s = x
        BY <1>5, <1>9, <1>10, <4>1
      <4>2. CASE s # x
        BY <1>10, <4>2
      <4> QED
        BY <4>1, <4>2
    <3>5. ASSUME NEW z \in Dir, dd'[z] # None, NEW q \in dd'[z].own, q.guid = dd[y].snap
          PROVE  z = s \/ ((want'[z] # None => r[z] < r[y])
                           /\ dd'[z].ro /\ \E h \in dd'[z].own : h.parent = dd[y].snap)
      <4>1. PICK i \in dd[z].own : i.guid = dd[y].snap
        BY <1>20, <3>5 DEF Owns
      <4>2. z = s \/ ((Made(z) => r[z] < r[y]) /\ Forked(z, y))
        BY <1>20, <3>3, <3>5, <4>1
      <4>3. want'[z] # None => Made(z)
        BY <1>8, <1>19
      <4>4. CASE z = x
        <5>1. dd[y].snap # o.snap
          BY <1>5, <1>8, <4>1, <4>4 DEF Owns
        <5> QED
          BY <1>5, <1>9, <1>10, <4>2, <4>3, <4>4, <5>1 DEF Forked
      <4>5. CASE z # x
        BY <1>10, <4>2, <4>3, <4>5 DEF Forked
      <4> QED
        BY <4>4, <4>5
    <3> QED
      BY <3>1, <3>2, <3>3, <3>4, <3>5 DEF Rests, Live, Made, Forked
  <2>7. ASSUME NEW y \in Dir, want'[y] # None, dd'[y].parent # NoDir PROVE Rests(r, y)'
    <3>1. CASE y = x
      BY <1>8, <1>10, <2>5, <2>7, <3>1
    <3>2. CASE y # x
      BY <1>10, <2>6, <2>7, <3>2
    <3> QED
      BY <3>1, <3>2
  <2>8. Ranked(r)'
    BY <2>7 DEF Ranked, Made
  <2> QED
    BY <2>8 DEF Chains, Ranks
<1>22. GuidsFrom(p)
  BY <1>20 DEF GuidsFrom
<1>23. SnapsFrom(p)
  <2> SUFFICES ASSUME NEW y \in Dir, want'[y] # None
               PROVE  \E z \in Dir : Made(z) /\ dd[z].snap = dd'[y].snap
    BY DEF SnapsFrom
  <2>1. CASE y = x
    BY <1>6, <1>8, <1>10, <2>1
  <2>2. CASE y # x
    BY <1>19, <2>2
  <2> QED
    BY <2>1, <2>2
<1>24. Fact(p)' /\ ~ Naming(call'[p])
  <2>1. DeleteFact(n)' /\ MergeFact(n)'
    BY DEF DeleteFact, MergeFact
  <2> QED
    BY <1>13, <2>1, DeleteChildFacts DEF Fact, Naming
<1>25. \A y \in Dir : Mine(p, y) \/ (dd'[y] = dd[y] /\ tmp'[y] = tmp[y])
  BY <1>1, <1>2, <1>10
<1>26. next' \in Nat /\ next' >= next
  BY <1>4
<1> QED
  BY <1>13, <1>17, <1>18, <1>21, <1>22, <1>23, <1>24, <1>25, <1>26, <1>27, OwnStep

Passes(di, o, b, g) ==
  /\ Solid(o) /\ o.own = di.own /\ o.top = di.top /\ o.ro = di.ro
  /\ ~ Owns(o, g)
  /\ Has(di, g)
  /\ \A e \in di.own : Children(di, g) = {e} => Entry(di, g) \in b
  /\ \A i \in o.own, j \in b : i.file # j.file

LEMMA PassedWhen ==
  ASSUME NEW di \in Descriptor, NEW o \in Descriptor, NEW b \in SUBSET Image, NEW g \in Int,
         Passes(di, o, b, g),
         NEW v \in Descriptor, v = ploop_store_diskdescriptor(DeletedDd(di, g))
  PROVE  v.parent = di.parent /\ v.snap = di.snap /\ Passed(v, o, b, g)
<1>1. Solid(o)
  BY Zenon DEF Passes
<1>2. o.own = di.own
  BY Zenon DEF Passes
<1>3. o.top = di.top
  BY Zenon DEF Passes
<1>4. o.ro = di.ro
  BY Zenon DEF Passes
<1>5. ~ Owns(o, g)
  BY Zenon DEF Passes
<1>6. Has(di, g)
  BY Zenon DEF Passes
<1>7. \A e \in di.own : Children(di, g) = {e} => Entry(di, g) \in b
  BY Zenon DEF Passes
<1>8. \A i \in o.own, j \in b : i.file # j.file
  BY Zenon DEF Passes
<1> QED
  BY <1>1, <1>2, <1>3, <1>4, <1>5, <1>6, <1>7, <1>8, PassedIs

LEMMA DeleteMergeOwn ==
  ASSUME Inv, Inv', Owned, NEW p \in Proc, DeleteMerge(p)
  PROVE  Owned'
<1>1. PICK c \in DeleteChild : c = call[p]
  BY CallKind, DeleteCallIs, DeleteChoiceIs DEF Inv, DeleteMerge, At
<1>2. c.pc = "merge" /\ c.op = "delete"
  BY <1>1, DeleteChildFacts DEF DeleteMerge, At
<1>3. /\ c.d \in Dir /\ c.c \in Dir /\ c.di \in Descriptor /\ c.child \in Descriptor
      /\ c.di.parent \in Dir \/ c.di.parent = NoDir
      /\ NoDir \notin Dir /\ c.d # c.c
      /\ Deleting(c) /\ DeletingChild(c)
  BY <1>1, ChildKnown
<1>4. Made(c.d) /\ Made(c.c) /\ dd[c.c].parent = c.d /\ c.di.parent # c.c
  BY <1>2, <1>3, Zenon DEF Deleting, DeletingChild, Continues
<1>5. Kids(c.d) \subseteq {c.c}
  BY <1>1, <1>2 DEF Inv, Childless
<1>6. Reads(c.d, c.di) /\ Reads(c.c, c.child) /\ Inherits(c)
  <2>1. DeleteFact(c) /\ MergeFact(c)
    BY <1>1 DEF Owned, Fact
  <2>2. Standing(c.pc)
    BY <1>2, Zenon DEF Standing
  <2> QED
    BY <1>2, <2>1, <2>2, Zenon DEF DeleteFact, MergeFact
<1>7. UNCHANGED <<tmp, next>>
  BY DEF DeleteMerge
<1> DEFINE child == [c.child EXCEPT !.parent = c.di.parent, !.snap = c.di.snap]
           g == c.child.snap
           r == ploop_store_diskdescriptor(DeletedDd(child, g))
<1>8. /\ child \in Descriptor /\ child.parent = c.di.parent /\ child.snap = c.di.snap
      /\ child.own = c.child.own /\ child.far = c.child.far
      /\ child.top = c.child.top /\ child.ro = c.child.ro
  <2>1. PICK v \in Descriptor : v = c.child
    BY <1>3
  <2>2. c.di.parent \in Dir \cup {NoDir} /\ c.di.snap \in Int
    BY <1>3 DEF Descriptor
  <2>3. /\ [v EXCEPT !.parent = c.di.parent, !.snap = c.di.snap] \in Descriptor
        /\ [v EXCEPT !.parent = c.di.parent, !.snap = c.di.snap].parent = c.di.parent
        /\ [v EXCEPT !.parent = c.di.parent, !.snap = c.di.snap].snap = c.di.snap
        /\ [v EXCEPT !.parent = c.di.parent, !.snap = c.di.snap].own = v.own
        /\ [v EXCEPT !.parent = c.di.parent, !.snap = c.di.snap].far = v.far
        /\ [v EXCEPT !.parent = c.di.parent, !.snap = c.di.snap].top = v.top
        /\ [v EXCEPT !.parent = c.di.parent, !.snap = c.di.snap].ro = v.ro
    BY <2>2 DEF Descriptor
  <2> QED
    BY <2>1, <2>3
<1> HIDE DEF child
<1>9. CASE /\ DeleteAllowed(child, g, c.c \in mounted)
           /\ dd' = [dd EXCEPT ![c.c] = r]
           /\ want' = [want EXCEPT ![c.d] = None]
           /\ Goto(p, "unlink child")
  <2>1. PICK pc \in ChildStep : Goto(p, pc) /\ pc = "unlink child"
    BY <1>9, Zenon DEF ChildStep
  <2>2. pc # "merge" /\ ~ Standing(pc)
    BY <2>1 DEF Standing
  <2>3. Goto(p, pc)
    BY <2>1
  <2>4. PICK n \in DeleteChild :
          /\ call' = [call EXCEPT ![p] = n] /\ call'[p] = n
          /\ n.pc = pc /\ n.d = c.d
          /\ n.di = c.di /\ n.c = c.c /\ n.child = c.child
    BY <1>1, <2>3, ChildGone
  <2>5. PICK w \in Descriptor : w = child
    BY <1>8
  <2>6. PICK s \in Int : s = g
    BY <1>3 DEF Descriptor
  <2>7. Has(w, s) /\ dd' = [dd EXCEPT ![c.c] = r] /\ want' = [want EXCEPT ![c.d] = None]
    BY <1>9, <2>5, <2>6 DEF DeleteAllowed
  <2>8. PICK v \in Descriptor : v = ploop_store_diskdescriptor(DeletedDd(w, s))
    BY <2>7, DeletedTyped, StoreTyped
  <2>9. v = r
    BY <2>5, <2>6, <2>8
  <2> HIDE DEF r
  <2>10. Types /\ Grounded
    BY InvGrounded DEF Inv
  <2>11. PICK o \in Descriptor : o = dd[c.c]
    BY <1>3, <1>4, <2>10 DEF Grounded
  <2>12. PICK b \in Descriptor : b = dd[c.d]
    BY <1>3, <1>4, <2>10 DEF Grounded
  <2>13. /\ o.own = c.child.own /\ o.top = c.child.top /\ o.snap = s /\ o.ro = c.child.ro
         /\ b.own = c.di.own /\ b.parent = c.di.parent /\ b.snap = c.di.snap
    BY <1>6, <2>6, <2>11, <2>12 DEF Reads
  <2>14. Live(c.c) /\ Live(c.d)
    BY <1>3, <1>4, <2>10 DEF Grounded
  <2>15. Solid(o)
    BY <1>3, <2>11, <2>14 DEF Owned, Stored
  <2>16. ~ Owns(o, s)
    <3>1. PICK k \in Ranks : Ranked(k)
      BY DEF Owned, Chains
    <3>2. Rests(k, c.c)
      BY <1>3, <1>4, <3>1 DEF Ranked
    <3>3. k[c.c] \in Int
      BY <1>3 DEF Ranks
    <3> QED
      BY <1>3, <1>4, <2>11, <2>13, <2>14, <3>2, <3>3 DEF Rests, Owns
  <2>17. \A e \in w.own : Children(w, s) = {e} => Entry(w, s) \in b.own
    <3>1. Images(w) = Images(c.child)
      BY <1>8, <2>5 DEF Images
    <3>2. /\ Has(w, s) <=> Has(c.child, s)
          /\ Children(w, s) = Children(c.child, s) /\ Entry(w, s) = Entry(c.child, s)
      BY <3>1 DEF Has, Children, Entry
    <3> QED
      BY <1>6, <1>8, <2>5, <2>6, <2>7, <2>13, <3>2 DEF Inherits
  <2>18. \A i \in o.own, j \in b.own : i.file # j.file
    <3>1. lock[c.c] = p
      BY <1>1, ChildKnown
    <3>2. \A q \in Proc : lock[c.c] = q => call[q] \notin SnapshotCall /\ call[q].pc = "merge"
      BY <1>1, <1>2, <3>1, DeleteChildFacts
    <3>3. ~ Twin(c.c, c.d)
      BY <1>3, <1>4, <3>2, NoTwin
    <3>4. ~ Heir(c.c, c.d)
      BY <1>3, <3>2, NoHeir
    <3> QED
      BY <1>3, <2>11, <2>12, <2>14, <3>3, <3>4 DEF Owned, Distinct, FilesApart
  <2>19. w.own = o.own /\ w.top = o.top /\ w.ro = o.ro /\ w.parent = b.parent /\ w.snap = b.snap
    BY <1>8, <2>5, <2>13
  <2>20. b.own \in SUBSET Image
    BY DEF Descriptor
  <2>21. v.parent = w.parent /\ v.snap = w.snap /\ Passed(v, o, b.own, s)
    <3>1. o.own = w.own /\ o.top = w.top /\ o.ro = w.ro
      BY <2>19
    <3>2. Passes(w, o, b.own, s)
      <4>1. Has(w, s)
        BY <2>7
      <4> QED
        BY <4>1, <2>15, <2>16, <2>17, <2>18, <3>1, Zenon DEF Passes
    <3>3. PICK t \in SUBSET Image : t = b.own
      BY <2>20
    <3>4. Passes(w, o, t, s)
      BY <3>2, <3>3, Zenon
    <3>5. v.parent = w.parent /\ v.snap = w.snap /\ Passed(v, o, t, s)
      BY <2>8, <3>4, PassedWhen
    <3> QED
      BY <3>3, <3>5, Zenon
  <2>22. /\ v.parent = dd[c.d].parent /\ v.snap = dd[c.d].snap
         /\ Passed(v, dd[c.c], dd[c.d].own, dd[c.c].snap) /\ ~ Owns(dd[c.c], dd[c.c].snap)
         /\ v.parent # c.c
    BY <1>4, <2>11, <2>12, <2>13, <2>16, <2>19, <2>21
  <2>23. n.pc # "merge" /\ ~ Standing(n.pc)
    BY <2>2, <2>4
  <2>24. dd' = [dd EXCEPT ![c.c] = v]
    BY <2>7, <2>9
  <2> QED
    BY <1>1, <1>2, <1>4, <1>5, <1>7, <2>4, <2>7, <2>22, <2>23, <2>24, MergesOwn
<1>10. CASE Return(p) /\ UNCHANGED <<dd, want>>
  BY <1>1, <1>2, <1>7, <1>10, OwnLeaves, DeleteChildFacts
<1> QED
  BY <1>1, <1>9, <1>10 DEF DeleteMerge, child

LEMMA InitOwn == Init => Owned
<1> SUFFICES ASSUME Init PROVE Owned
  OBVIOUS
<1>1. /\ \A d \in Dir : dd[d] = None /\ want[d] = None
      /\ \A p \in Proc : call[p] = Idle
      /\ next = 1
  BY DEF Init
<1>2. Stored
  BY <1>1 DEF Stored, Live
<1>3. FirstTops /\ Distinct
  BY <1>1 DEF FirstTops, Distinct, Made, Live
<1>4. Chains
  <2>1. [d \in Dir |-> 0] \in Ranks
    BY DEF Ranks
  <2>2. Ranked([d \in Dir |-> 0])
    BY <1>1 DEF Ranked, Made
  <2> QED
    BY <2>1, <2>2 DEF Chains
<1>5. Names /\ \A p \in Proc : Fact(p)
  BY <1>1, IdleIs DEF Names, Naming, Fact
<1> QED
  BY <1>2, <1>3, <1>4, <1>5 DEF Owned

\* A guest's write makes no volume.
LEMMA WriteKeeps ==
  ASSUME Inv, NEW d \in Dir, Write(d)
  PROVE  \A x \in Dir : want'[x] # None <=> want[x] # None
<1>1. Types
  BY DEF Inv
<1>2. writes \in Written /\ writes \in Nat
  BY <1>1, VolumeAssumption DEF Types, Write, Written
<1> DEFINE w == IF want[d] = None THEN None ELSE want[d] \cup {writes}
<1>3. want' = [want EXCEPT ![d] = w]
  BY <1>1 DEF Types, Write
<1>4. want[d] # None => w # None
  <2> SUFFICES ASSUME want[d] # None PROVE w # None
    OBVIOUS
  <2>1. w \in SUBSET Written
    BY <1>1, <1>2 DEF Types
  <2> QED
    BY <2>1, NoneAssumption DEF Written
<1>5. want[d] = None => w = None
  OBVIOUS
<1>6. DOMAIN want = Dir
  BY <1>1 DEF Types
<1> HIDE DEF w
<1> QED
  BY <1>3, <1>4, <1>5, <1>6

LEMMA NextOwn ==
  ASSUME Inv, Inv', Owned, Next, windows = {}, windows' = {}
  PROVE  Owned'
<1>1. ASSUME NEW p \in Proc, NEW d \in Dir, ploop_volume_create(p, d) \/ DeleteBegin(p, d)
      PROVE  Owned'
  BY <1>1, VolumeCreateOwn, DeleteBeginOwn
<1>2. ASSUME NEW p \in Proc, NEW s \in Dir, NEW d \in Dir,
             CloneBegin(p, s, d) \/ SnapshotBegin(p, s, d) \/ SwitchBegin(p, s, d)
      PROVE  Owned'
  BY <1>2, CloneBeginOwn, SnapshotBeginOwn, SwitchBeginOwn
<1>3. ASSUME NEW p \in Proc,
             CloneVolume(p) \/ CloneSnapshot(p) \/ CloneLink(p) \/ CloneFails(p)
      PROVE  Owned'
  BY <1>3, CloneVolumeOwn, CloneSnapshotOwn, CloneLinkOwn, CloneFailsOwn
<1>4. ASSUME NEW p \in Proc,
             \/ SnapshotLink(p) \/ SnapshotCreate(p) \/ create_snapshot_dd(p) \/ update_child_dd(p)
             \/ SnapshotRegister(p) \/ SnapshotUnregister(p) \/ SnapshotRename(p)
             \/ SnapshotFails(p)
      PROVE  Owned'
  BY <1>4, SnapshotLinksOwn, SnapshotCreateOwn, CreateSnapshotDdOwn, UpdateChildOwn,
     SnapshotRenameOwn
<1>5. ASSUME NEW p \in Proc, Undo(p) \/ SnapshotUnlink(p) \/ UndoDestroy(p)
      PROVE  Owned'
  BY <1>5, UndoOwn, SnapshotLinksOwn, UndoDestroyOwn
<1>6. ASSUME NEW p \in Proc,
             \/ DeleteParent(p) \/ get_first_sibling(p) \/ DeleteImages(p) \/ DeleteLockChild(p)
             \/ DeleteMerge(p) \/ DeleteUnlinkChild(p) \/ DeleteUnregister(p) \/ DeleteRegister(p)
             \/ DeleteDestroy(p)
      PROVE  Owned'
  BY <1>6, DeleteParentOwn, SiblingOwn, DeleteImagesOwn, DeleteLockChildOwn, DeleteMergeOwn,
     DeleteLinksOwn, DeleteDestroyOwn
<1>7. ASSUME NEW p \in Proc,
             \/ SwitchLock(p) \/ SwitchVolume(p) \/ SwitchUnregister(p) \/ SwitchRegister(p)
             \/ SwitchOldDelta(p)
      PROVE  Owned'
  BY <1>7, SwitchLockOwn, SwitchVolumeOwn, SwitchLinksOwn
<1>8. ASSUME NEW p \in Proc, LinkLost(p) \/ Kill(p) PROVE Owned'
  <2>1. windows' = windows \cup {"killed"} \/ windows' = windows \cup {"link lost"}
    BY <1>8 DEF LinkLost, Kill
  <2> QED
    BY <2>1
<1>9. ASSUME NEW d \in Dir, Mount(d) \/ Umount(d) \/ Write(d) PROVE Owned'
  <2>1. UNCHANGED <<dd, tmp, call, next>>
    BY <1>9 DEF Mount, Umount, Write, disk
  <2>2. \A x \in Dir : want'[x] # None <=> want[x] # None
    BY <1>9, WriteKeeps DEF Mount, Umount
  <2> QED
    BY <2>1, <2>2, OwnSame
<1> QED
  BY <1>1, <1>2, <1>3, <1>4, <1>5, <1>6, <1>7, <1>8, <1>9 DEF Next

\* As long as nothing happened that is known to do damage: an image and its
\* uuid belong to one volume, or to the two that one operation is on.
Ownership == windows = {} => Inv /\ Owned

LEMMA OwnedInvariant == Spec => []Ownership
<1>1. Init => Ownership
  BY InitInv, InitOwn DEF Ownership
<1>2. Ownership /\ [Next]_vars => Ownership'
  <2> SUFFICES ASSUME Ownership, [Next]_vars, windows' = {} PROVE Inv' /\ Owned'
    BY DEF Ownership
  <2>1. CASE Next
    <3>1. windows = {} /\ Inv /\ Owned
      BY <2>1, WindowsStay DEF Ownership
    <3>2. Inv'
      BY <2>1, <3>1, NextInv
    <3> QED
      BY <2>1, <3>1, <3>2, NextOwn
  <2>2. CASE UNCHANGED vars
    <3>1. Inv /\ Owned /\ UNCHANGED <<dd, tmp, call, next, want>>
      BY <2>2 DEF Ownership, vars
    <3> QED
      BY <2>2, <3>1, StutterInv, OwnSame
  <2> QED
    BY <2>1, <2>2
<1> QED
  BY <1>1, <1>2, PTL DEF Spec

\* Between calls no image is listed by two volumes: a clone leaves the images
\* with the volume they were made for, a snapshot hands them over before its
\* source forgets them, and a merge takes one from the volume that is deleted
\* next; whatever other calls do at the same time and whichever steps fail.
THEOREM OneOwner == Spec => []OwnedOnce
<1>1. Ownership => OwnedOnce
  <2> SUFFICES ASSUME Ownership, windows = {}, \A p \in Proc : call[p] = Idle,
                      NEW c \in Dir, NEW d \in Dir, c # d, dd[c] # None, dd[d] # None
               PROVE  {e.file : e \in dd[c].own} \cap {e.file : e \in dd[d].own} = {}
    BY DEF OwnedOnce
  <2>1. ~ Twin(c, d) /\ ~ Heir(c, d)
    BY IdleIs DEF Twin, Heir
  <2>2. FilesApart(dd[c], dd[d])
    BY <2>1 DEF Ownership, Owned, Distinct, Live
  <2> QED
    BY <2>2 DEF FilesApart
<1> QED
  BY <1>1, OwnedInvariant, PTL
=============================================================================
