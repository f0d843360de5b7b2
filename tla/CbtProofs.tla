------------------------------ MODULE CbtProofs ------------------------------
(***************************************************************************)
(* Proofs about Cbt, for any number of blocks, uuids and deltas and any    *)
(* bounds.  The invariant has three layers, each proved from the one       *)
(* before, with one lemma per action:                                      *)
(*   FileInv   the clusters of the files, in memory and as synced, in every *)
(*             state;                                                      *)
(*   TrackInv  what the kernel, the deltas and a save under way know of the *)
(*             changes, until a fault hits one of the windows;             *)
(*   KeptInv   under which uuid they are tracked, without faults.          *)
(***************************************************************************)
EXTENDS Cbt, FiniteSetTheorems, WellFoundedInduction, SequenceTheorems, TLAPS

\* A non-empty set of numbers has a smallest element, and a bounded one a
\* largest.
LEMMA Least == \A S \in SUBSET Nat : S # {} => \E i \in S : \A j \in S : i <= j
<1> SUFFICES ASSUME NEW S \in SUBSET Nat, S # {}
             PROVE  \E i \in S : \A j \in S : i <= j
  OBVIOUS
<1> DEFINE R == OpToRel(<, Nat)
<1>1. IsWellFoundedOn(R, Nat)
  BY NatLessThanWellFounded
<1>2. \A i, j \in Nat : j < i => <<j, i>> \in R
  BY Zenon DEF OpToRel
<1> HIDE DEF R
<1>3. PICK i \in S : \A j \in S : ~ (<<j, i>> \in R)
  BY <1>1, WFMin
<1>4. \A j \in S : ~ (j < i)
  BY <1>2, <1>3
<1> QED
  BY <1>4

\* A bounded set of numbers has a greatest element.
LEMMA Greatest == ASSUME NEW n \in Nat, NEW S \in SUBSET (0 .. n), S # {}
                  PROVE  \E i \in S : \A j \in S : j <= i
<1> DEFINE T == {n - i : i \in S}
<1>1. T \in SUBSET Nat
  OBVIOUS
<1>0. T # {}
  <2>1. PICK i \in S : TRUE
    OBVIOUS
  <2>2. n - i \in T
    OBVIOUS
  <2> QED
    BY <2>2
<1>2. PICK k \in T : \A j \in T : k <= j
  BY <1>0, <1>1, Least
<1>3. PICK i \in S : k = n - i
  OBVIOUS
<1>4. \A j \in S : n - i <= n - j
  BY <1>2, <1>3
<1> QED
  BY <1>4

-----------------------------------------------------------------------------
(* Extents.                                                                *)

\* A block of s in the range lies in an extent.
LEMMA InRun == ASSUME NEW s \in SUBSET Nat, NEW from \in Nat, NEW to \in Nat,
                      NEW b \in s, b \in from .. to
               PROVE  \E r \in Runs(s, from, to) : b \in r[1] .. r[2]
<1> DEFINE L == {l \in from .. b : l .. b \subseteq s}
           H == {h \in b .. to : b .. h \subseteq s}
<1>1. b \in L /\ b \in H
  OBVIOUS
<1>2. PICK l \in L : \A j \in L : l <= j
  <2>1. L \in SUBSET Nat
    OBVIOUS
  <2> QED
    BY <1>1, <2>1, Least
<1>3. PICK h \in H : \A j \in H : j <= h
  <2>1. H \in SUBSET (0 .. to)
    OBVIOUS
  <2> QED
    BY <1>1, <2>1, Greatest
<1>4. l \in from .. to /\ h \in from .. to /\ l <= b /\ b <= h
  OBVIOUS
<1>5. l .. h \subseteq s
  <2> SUFFICES ASSUME NEW x \in l .. h PROVE x \in s
    OBVIOUS
  <2>1. x \in l .. b \/ x \in b .. h
    BY <1>4
  <2> QED
    BY <2>1
<1>6. l - 1 \notin s \cap (from .. to)
  <2> SUFFICES ASSUME l - 1 \in s, l - 1 \in from .. to PROVE FALSE
    OBVIOUS
  <2>1. (l - 1) .. b \subseteq s
    <3> SUFFICES ASSUME NEW x \in (l - 1) .. b PROVE x \in s
      OBVIOUS
    <3>1. x = l - 1 \/ x \in l .. b
      BY <1>4
    <3> QED
      BY <3>1
  <2>2. l - 1 \in L
    BY <1>4, <2>1
  <2> QED
    BY <1>2, <1>4, <2>2
<1>7. h + 1 \notin s \cap (from .. to)
  <2> SUFFICES ASSUME h + 1 \in s, h + 1 \in from .. to PROVE FALSE
    OBVIOUS
  <2>1. b .. (h + 1) \subseteq s
    <3> SUFFICES ASSUME NEW x \in b .. (h + 1) PROVE x \in s
      OBVIOUS
    <3>1. x = h + 1 \/ x \in b .. h
      BY <1>4
    <3> QED
      BY <3>1
  <2>2. h + 1 \in H
    BY <1>4, <2>1
  <2> QED
    BY <1>3, <1>4, <2>2
<1>8. <<l, h>> \in Runs(s, from, to)
  BY <1>4, <1>5, <1>6, <1>7 DEF Runs
<1> QED
  BY <1>4, <1>8

\* Extents with the same start are the same.
LEMMA RunUnique == ASSUME NEW s \in SUBSET Nat, NEW from \in Nat, NEW to \in Nat,
                          NEW q \in Runs(s, from, to), NEW r \in Runs(s, from, to),
                          q[1] = r[1]
                   PROVE  q = r
<1>1. /\ q = <<q[1], q[2]>> /\ r = <<r[1], r[2]>>
      /\ q[1] \in Nat /\ q[2] \in Nat /\ r[2] \in Nat
      /\ q[1] <= q[2] /\ r[1] <= r[2]
      /\ q[1] \in from .. to /\ q[2] \in from .. to /\ r[2] \in from .. to
  BY DEF Runs
<1>2. ASSUME NEW x \in Runs(s, from, to), NEW y \in Runs(s, from, to), x[1] = y[1],
             x[2] \in Nat, y[2] \in from .. to, x[1] \in Nat, x[1] <= x[2], x[2] \in from .. to
      PROVE  ~ (x[2] < y[2])
  <2> SUFFICES ASSUME x[2] < y[2] PROVE FALSE
    OBVIOUS
  <2>1. x[2] + 1 \in y[1] .. y[2]
    BY <1>2
  <2>2. x[2] + 1 \in s
    BY <2>1 DEF Runs
  <2>3. x[2] + 1 \in from .. to
    BY <1>2
  <2> QED
    BY <2>2, <2>3 DEF Runs
<1>3. ~ (q[2] < r[2])
  BY <1>1, <1>2
<1>4. ~ (r[2] < q[2])
  BY <1>1, <1>2
<1> QED
  BY <1>1, <1>3, <1>4

\* The extents of a range are finitely many, and so are those before one.
LEMMA RunsFinite == ASSUME NEW s \in SUBSET Nat, NEW from \in Nat, NEW to \in Nat
                    PROVE  /\ IsFiniteSet(Runs(s, from, to))
                           /\ \A T \in SUBSET Runs(s, from, to) :
                                IsFiniteSet(T) /\ Cardinality(T) \in Nat
<1>1. IsFiniteSet(from .. to)
  BY FS_Interval
<1>2. IsFiniteSet((from .. to) \X (from .. to))
  BY <1>1, FS_Product
<1>3. Runs(s, from, to) \in SUBSET ((from .. to) \X (from .. to))
  BY DEF Runs
<1>4. IsFiniteSet(Runs(s, from, to))
  BY <1>2, <1>3, FS_Subset
<1> QED
  BY <1>4, FS_Subset, FS_CardinalityType

\* When BLKCBTGET does not return all extents, it returns exactly MaxExtents:
\* a page that is not full is the last one.
LEMMA PageFull == ASSUME NEW s \in SUBSET Nat, NEW from \in Nat, NEW to \in Nat,
                         Page(s, from, to) # Runs(s, from, to)
                  PROVE  Full(Page(s, from, to))
<1> DEFINE R == Runs(s, from, to)
           P == Page(s, from, to)
           B == [n \in Nat |-> {q \in R : q[1] < n}]
           C == [n \in Nat |-> Cardinality(B[n])]
           S == {n \in Nat : MaxExtents <= C[n] /\ \E r \in R : r[1] = n}
<1>0. /\ \A r \in R : r[1] \in Nat
      /\ P = {r \in R : C[r[1]] < MaxExtents}
      /\ \A n \in Nat : B[n] \in SUBSET R
      /\ MaxExtents \in Nat \ {0}
  <2>1. \A r \in R : r[1] \in Nat
    BY DEF Runs
  <2>2. \A r \in R : C[r[1]] = Cardinality({q \in R : q[1] < r[1]})
    BY <2>1, Zenon
  <2>3. P = {r \in R : Cardinality({q \in R : q[1] < r[1]}) < MaxExtents}
    BY DEF Page
  <2>4. P = {r \in R : C[r[1]] < MaxExtents}
    BY <2>2, <2>3, Zenon
  <2> QED
    BY <2>1, <2>4, CbtAssumption
<1>1. \A n \in Nat : C[n] \in Nat /\ IsFiniteSet(B[n]) /\ C[n] = Cardinality(B[n])
  <2>1. \A n \in Nat : B[n] \in SUBSET R /\ C[n] = Cardinality(B[n])
    BY Zenon
  <2> QED
    BY <2>1, RunsFinite
<1>a. \A n \in Nat, q \in R : q \in B[n] <=> q[1] < n
  OBVIOUS
<1> HIDE DEF B, C, R, P
<1>2. S # {}
  <2>1. PICK r \in R : r \notin P
    BY <1>0 DEF R, P
  <2>2. r[1] \in S
    BY <1>0, <1>1, <2>1
  <2> QED
    BY <2>2
<1>3. PICK n \in S : \A m \in S : n <= m
  <2>1. S \in SUBSET Nat
    OBVIOUS
  <2> QED
    BY <1>2, <2>1, Least
<1>4. ASSUME NEW q \in R, n <= q[1] PROVE q \notin P
  <2>1. B[n] \subseteq B[q[1]]
    BY <1>0, <1>a, <1>4
  <2>2. C[n] <= C[q[1]]
    BY <1>0, <1>1, <2>1, FS_Subset
  <2> QED
    BY <1>0, <1>1, <2>2
<1>5. ASSUME NEW q \in R, q[1] < n PROVE q \in P
  <2>1. q[1] \notin S
    BY <1>0, <1>3, <1>5
  <2> QED
    BY <1>0, <1>1, <2>1
<1>6. P = B[n]
  BY <1>0, <1>4, <1>5, <1>a
<1>7. C[n] <= MaxExtents
  <2> DEFINE T == {q[1] : q \in B[n]}
  <2>1. B[n] # {}
    BY <1>0, <1>1, FS_EmptySet
  <2>2. T # {}
    BY <2>1
  <2>9. T \in SUBSET (0 .. n)
    BY <1>0, <1>a
  <2>3. PICK t \in T : \A u \in T : u <= t
    BY <2>2, <2>9, Greatest
  <2>4. PICK q \in B[n] : q[1] = t
    OBVIOUS
  <2>a. q \in R /\ q[1] \in Nat
    BY <1>0
  <2>5. B[n] \ {q} \subseteq B[q[1]]
    <3> SUFFICES ASSUME NEW r \in B[n], r # q PROVE r \in B[q[1]]
      OBVIOUS
    <3>1. r[1] <= q[1]
      BY <2>3, <2>4
    <3>2. r[1] # q[1]
      BY <1>0, <2>a, RunUnique DEF R
    <3> QED
      BY <1>0, <1>a, <2>a, <3>1, <3>2
  <2>6. Cardinality(B[n] \ {q}) <= C[q[1]]
    BY <1>1, <2>a, <2>5, FS_Subset
  <2>b. IsFiniteSet(B[n]) /\ C[n] = Cardinality(B[n])
    BY <1>1
  <2>7. Cardinality(B[n] \ {q}) = C[n] - 1
    <3>1. Cardinality(B[n] \ {q}) = IF q \in B[n] THEN Cardinality(B[n]) - 1
                                   ELSE Cardinality(B[n])
      BY <2>b, FS_RemoveElement, Zenon
    <3> QED
      BY <2>b, <3>1
  <2>8. C[q[1]] < MaxExtents
    BY <1>0, <1>6
  <2> QED
    BY <1>0, <1>1, <2>a, <2>6, <2>7, <2>8
<1>8. Cardinality(P) = MaxExtents
  <2>1. C[n] = Cardinality(P) /\ C[n] \in Nat
    BY <1>1, <1>6
  <2> QED
    BY <1>0, <1>7, <2>1
<1> QED
  BY <1>8 DEF Full, P

\* What one BLKCBTGET returns, and how far the loop around it has come: after
\* a page that is full everything before PageEnd, else everything.
LEMMA PageCovers == ASSUME NEW s \in SUBSET Nat, NEW from \in Nat, NEW to \in Nat
                    PROVE  /\ Covered(Page(s, from, to)) \subseteq s \cap (from .. to)
                           /\ ~ Full(Page(s, from, to)) =>
                                s \cap (from .. to) \subseteq Covered(Page(s, from, to))
                           /\ Full(Page(s, from, to)) =>
                                /\ PageEnd(Page(s, from, to)) \in Nat
                                /\ \A b \in s \cap (from .. to) :
                                     b < PageEnd(Page(s, from, to)) =>
                                       b \in Covered(Page(s, from, to))
<1> DEFINE R == Runs(s, from, to)
           P == Page(s, from, to)
<1>0. /\ \A r \in R : r[1] \in Nat /\ r[2] \in Nat /\ r[1] <= r[2]
                      /\ r[1] .. r[2] \subseteq s \cap (from .. to)
      /\ P \in SUBSET R
      /\ MaxExtents \in Nat \ {0}
  <2>1. ASSUME NEW r \in R PROVE r[1] .. r[2] \subseteq s \cap (from .. to)
    BY DEF Runs
  <2> QED
    BY <2>1, CbtAssumption DEF Page, Runs
<1>2. Covered(P) \subseteq s \cap (from .. to)
  BY <1>0 DEF Covered
<1>3. ASSUME ~ Full(P) PROVE s \cap (from .. to) \subseteq Covered(P)
  <2>1. P = R
    BY <1>3, PageFull
  <2> QED
    BY <2>1, InRun DEF Covered
<1>4. ASSUME Full(P)
      PROVE  /\ PageEnd(P) \in Nat
             /\ \A b \in s \cap (from .. to) : b < PageEnd(P) => b \in Covered(P)
  <2>1. P # {}
    BY <1>0, <1>4, FS_EmptySet DEF Full
  <2>2. Covered(P) # {}
    <3>1. PICK r \in P : TRUE
      BY <2>1
    <3>2. r[1] \in Covered(P)
      BY <1>0 DEF Covered
    <3> QED
      BY <3>2
  <2>3. Covered(P) \in SUBSET (0 .. to)
    BY <1>2
  <2>4. \E n \in Covered(P) : \A m \in Covered(P) : m <= n
    BY <2>2, <2>3, Greatest
  <2> DEFINE n == CHOOSE n \in Covered(P) : \A m \in Covered(P) : m <= n
  <2>5. n \in Covered(P) /\ n \in Nat /\ PageEnd(P) = 1 + n
    BY <2>3, <2>4 DEF PageEnd
  <2> HIDE DEF n
  <2>6. ASSUME NEW b \in s \cap (from .. to), b < PageEnd(P) PROVE b \in Covered(P)
    <3>1. PICK r \in R : b \in r[1] .. r[2]
      BY InRun
    <3>2. PICK q \in P : n \in q[1] .. q[2]
      BY <2>5 DEF Covered
    <3>3. CASE r \in P
      BY <3>1, <3>3 DEF Covered
    <3>4. CASE r \notin P
      <4>1. ~ (r[1] <= q[1])
        <5> SUFFICES ASSUME r[1] <= q[1] PROVE FALSE
          OBVIOUS
        <5> DEFINE Before(x) == {y \in R : y[1] < x}
        <5>1. Before(r[1]) \subseteq Before(q[1])
          BY <1>0
        <5>2. IsFiniteSet(Before(q[1])) /\ Cardinality(Before(q[1])) \in Nat
              /\ Cardinality(Before(r[1])) \in Nat
          BY RunsFinite
        <5>3. Cardinality(Before(r[1])) <= Cardinality(Before(q[1]))
          BY <5>1, <5>2, FS_Subset
        <5>4. Cardinality(Before(q[1])) < MaxExtents
          BY Zenon DEF Page
        <5>5. ~ (Cardinality(Before(r[1])) < MaxExtents)
          BY <3>4, Zenon DEF Page
        <5> HIDE DEF Before
        <5> QED
          BY <1>0, <5>2, <5>3, <5>4, <5>5
      <4>2. b \in q[1] .. q[2]
        BY <1>0, <2>5, <2>6, <3>1, <3>2, <4>1
      <4> QED
        BY <4>2 DEF Covered
    <3> QED
      BY <3>3, <3>4
  <2> QED
    BY <2>5, <2>6
<1> QED
  BY <1>2, <1>3, <1>4

-----------------------------------------------------------------------------
(* Chunks.                                                                 *)

\* Chunk i is the range that the loop over chunks asks for.
LEMMA ChunkRange == ASSUME NEW i \in Nat \ {0}, NEW b \in Bits
                    PROVE  b \in Chunk(i) <=> (i - 1) * ChunkBits <= b /\ b < i * ChunkBits
  BY CbtAssumption DEF Chunk, Bits

\* Every block is in one of the chunks.
LEMMA ChunksCover == ASSUME NEW b \in Bits
                     PROVE  \E i \in 1 .. NChunks : b \in Chunk(i)
  BY CbtAssumption DEF Chunk, Bits, NChunks

-----------------------------------------------------------------------------
(* The inductive invariant.                                                *)

Id == Uuid \cup {None}
Block == {DataBlock(b) : b \in Bits} \cup {BitsBlock(s) : s \in SUBSET Bits}
         \cup {ExtBlock(id, l1) : id \in Id, l1 \in Seq(Nat)} \cup {ZeroBlock}
Sinces == UNION {[U -> SUBSET Bits] : U \in SUBSET Uuid}
Delta == [use : {"v20", "v21", "yes"}, ext : Nat, map : SUBSET Bits,
          blk : Seq(Block), since : Sinces]
Part == [const : BOOLEAN, s : SUBSET Bits]
RawCbt == [id : Id, parts : Seq(Part)]
Dev == [on : BOOLEAN, top : Nat, id : Id, bits : SUBSET Bits]
Op == [pc : {"idle", "save", "save_chunk", "save_ext", "prepare", "ioctl", "cbt", "uuid",
             "unlink", "load", "start", "send", "stop"},
       id : Id, img : Nat, next : {"", "end", "uuid", "unlink", "stop"}, pos : Nat,
       i : Nat \ {0}, got : SUBSET Bits, or : SUBSET Bits, l1 : Seq(Nat), raw : RawCbt]

Saving == op.pc \in {"save", "save_chunk", "save_ext"}

\* the process is at pc, or on its way there through a save
Towards(pc) == op.pc = pc \/ (Saving /\ op.next = pc)

Shape ==
  /\ deltas \in Seq(Delta) /\ disk \in Seq(Delta) /\ Len(disk) = Len(deltas)
  /\ dev \in Dev /\ op \in Op /\ since \in Sinces /\ kept \in Id /\ faults \in Nat

Control ==
  /\ Top > 0
  /\ op.pc = "idle" => op = NoOp
  /\ dev.on => dev.top \in DOMAIN deltas /\ deltas[dev.top].use = "yes"
  /\ Saving => op.next # "" /\ op.img \in DOMAIN deltas /\ (dev.on => op.img # dev.top)
  /\ op.pc \in {"prepare", "ioctl", "cbt"} \/ Towards("uuid") => dev.on /\ dev.top = Top
  /\ op.pc = "cbt" => /\ Top > 1 /\ disk[Top - 1] = deltas[Top - 1]
                       /\ deltas[Top - 1].use = "v20"
  /\ op.pc \in {"prepare", "ioctl", "cbt", "uuid", "load"} => op.raw = NoCbt
  /\ Saving /\ op.next = "uuid" => op.raw = NoCbt /\ Top > 1 /\ op.img = Top - 1
  /\ Towards("unlink") => ~ dev.on /\ Top > 1
  /\ Saving /\ op.next = "unlink" => op.img = Top - 1
  /\ op.pc \in {"load", "start"} => ~ dev.on
  /\ op.pc = "load" => deltas[Top].use # "yes"
  /\ op.pc = "send" => dev.on /\ op.raw # NoCbt
  /\ Towards("stop") => ~ dev.on
  /\ Saving /\ op.raw # NoCbt => ~ dev.on /\ op.next \in {"end", "unlink"}
  /\ Saving /\ op.next = "end" /\ op.raw # NoCbt => op.img = Top
  /\ op.raw = NoCbt \/ op.raw.id \in Uuid

\* The files, as seen (c) and as synced (d).
Agree(c, d) == \A n \in DOMAIN c.blk \cap DOMAIN d.blk : c.blk[n] = d.blk[n]
ExtLast(c, d) == c.use = "v21" => c.ext >= Len(c.blk) /\ c.ext >= Len(d.blk)
ExtBlocks(c) == \A n \in DOMAIN c.blk : c.blk[n].t = "ext" =>
  /\ c.blk[n].id \in Uuid
  /\ \A j \in DOMAIN c.blk[n].l1 : c.blk[n].l1[j] > 1 =>
       c.blk[n].l1[j] - 1 < n /\ c.blk[c.blk[n].l1[j] - 1].t # "data"
DataIn(c, d) == \A b \in c.map : \E n \in DOMAIN c.blk \cap DOMAIN d.blk : c.blk[n] = DataBlock(b)
HeaderKept(c, d) == d.use = "v21" =>
  \/ c.use = "v21" /\ c.ext = d.ext
  \/ d.ext \in DOMAIN c.blk => c.blk[d.ext].t # "ext"

FileOK(c, d) ==
  /\ Agree(c, d) /\ ExtLast(c, d) /\ ExtLast(d, c) /\ ExtBlocks(c) /\ ExtBlocks(d)
  /\ DataIn(c, d) /\ HeaderKept(c, d) /\ c.map = d.map /\ c.since = d.since

Files == \A k \in DOMAIN deltas : FileOK(deltas[k], disk[k])

\* The file that is being extended.
Extending == Saving =>
  /\ disk[op.img].use = "v20" /\ Len(disk[op.img].blk) <= Len(deltas[op.img].blk)
  /\ \A j \in DOMAIN op.l1 : op.l1[j] > 1 =>
       /\ op.l1[j] - 1 \in DOMAIN deltas[op.img].blk
       /\ deltas[op.img].blk[op.l1[j] - 1].t = "bits"
  /\ IF op.pc = "save_ext"
     THEN deltas[op.img].use = "v21" /\ deltas[op.img].ext = Len(deltas[op.img].blk) + 1
     ELSE deltas[op.img].use = "v20"
  /\ op.raw = NoCbt /\ (op.i > 1 \/ op.pc # "save") => dev.id # None

\* The header never points far behind the end of the file.
ExtNear == faults = 0 => \A k \in DOMAIN deltas :
  deltas[k].use = "v21" /\ ~ (op.pc = "start" /\ k = Top) => deltas[k].ext <= Len(deltas[k].blk) + 1

FileInv == Shape /\ Control /\ Files /\ Extending /\ ExtNear

-----------------------------------------------------------------------------
\* Raw r offers all changes that w knows of for its uuid
Offers(r, w) == r.id \in DOMAIN w /\ w[r.id] \subseteq RawBits(r)

Sets == /\ \A k \in DOMAIN deltas : DOMAIN deltas[k].since \subseteq DOMAIN since
        /\ dev.id # None => dev.id \in DOMAIN since
        /\ op.id = None => op.or = {}
        /\ op.or # {} => dev.id # op.id
        /\ op.id # None => dev.id # None
        /\ op.pc = "cbt" \/ Towards("uuid") => op.id \in DOMAIN since
        /\ op.pc = "prepare" => op.id # None /\ dev.id # op.id
        /\ op.pc \in {"load", "start", "send"} => op.id = None

Loads == \A k \in DOMAIN deltas : Loadable(deltas[k]) => Offers(Raw(deltas[k]), SinceOf(k))

Kernel == dev.on /\ dev.id # None =>
  IF op.pc = "send"
  THEN /\ dev.id = op.raw.id /\ since[dev.id] \subseteq RawBits(op.raw)
       /\ \A j \in DOMAIN op.raw.parts : j < op.i => op.raw.parts[j].s \subseteq dev.bits
  ELSE since[dev.id] \subseteq dev.bits \cup op.or

Dumped == dev.on /\ dev.top # Top => dev.id = None /\ deltas[Top].use = "v20"

Switching == op.pc = "cbt" \/ Towards("uuid") => since[op.id] \subseteq dev.bits

Taken == op.pc = "cbt" /\ dev.id # op.id =>
  /\ dev.id \in DOMAIN deltas[Top - 1].since
  /\ deltas[Top - 1].since[dev.id] \subseteq dev.bits \cup op.or

Starting == op.pc = "start" /\ op.raw # NoCbt => Offers(op.raw, since)

Unlinking == Towards("unlink") => deltas[Top - 1].since = since

\* What an entry of the new m_L1 stands for.
Stored(j) == IF op.l1[j] = 0 THEN {} ELSE IF op.l1[j] = 1 THEN Chunk(j)
             ELSE deltas[op.img].blk[op.l1[j] - 1].s

Goal == SinceOf(op.img)[dev.id]

SavingDevice == Saving /\ op.raw = NoCbt /\ dev.id # None =>
  /\ op.next \in {"uuid", "stop"} /\ (op.next = "stop" => op.img = Top)
  /\ dev.id \in DOMAIN SinceOf(op.img) /\ Goal \subseteq dev.bits \cup op.or
  /\ Len(op.l1) = op.i - 1
  /\ \A j \in DOMAIN op.l1 : Goal \cap Chunk(j) \subseteq Stored(j)
  /\ op.pc = "save" => \A b \in Goal \cap Chunk(op.i) : b < op.pos => b \in op.got \cup op.or
  /\ op.pc = "save_chunk" => Goal \cap Chunk(op.i) \subseteq op.got \cup op.or
  /\ op.pc = "save_ext" => op.i > NChunks

SavingRaw == Saving /\ op.raw # NoCbt =>
  /\ op.pc # "save_chunk"
  /\ Offers(op.raw, SinceOf(op.img))
  /\ Len(op.l1) = op.i - 1 /\ op.i <= Len(op.raw.parts) + 1
  /\ \A j \in DOMAIN op.raw.parts : op.raw.parts[j].const => op.raw.parts[j].s \in {{}, Chunk(j)}
  /\ \A j \in DOMAIN op.l1 : op.raw.parts[j].s \subseteq Stored(j)
  /\ op.pc = "save_ext" => op.i > Len(op.raw.parts)

Stopping == Saving /\ op.next = "stop" /\ dev.id = None => deltas[Top].use = "v20"

Tracks == /\ Sets /\ Taken /\ Loads /\ Kernel /\ Dumped /\ Switching /\ Starting /\ Unlinking
          /\ SavingDevice /\ SavingRaw /\ Stopping

TrackInv == torn = {} => Tracks

-----------------------------------------------------------------------------
LoadedId(f) == IF Loadable(f) THEN Raw(f).id ELSE None

Follows ==
  /\ op = NoOp => kept = IF dev.on THEN dev.id ELSE LoadedId(deltas[Top])
  /\ op.pc = "ioctl" /\ op.id = None => kept = dev.id
  /\ op.pc = "cbt" \/ Towards("uuid") => kept = op.id
  /\ op.pc \in {"load", "stop"} => kept = LoadedId(deltas[Top])
  /\ op.pc = "unlink" => kept = LoadedId(deltas[Top - 1])
  /\ op.pc \in {"start", "send"} => kept = op.raw.id
  /\ op.pc = "send" => dev.id = op.raw.id
  /\ Saving /\ op.raw # NoCbt => kept = op.raw.id
  /\ Saving /\ op.next \in {"stop", "end"} /\ op.raw = NoCbt => kept = dev.id
  /\ Saving /\ op.next = "end" /\ op.raw = NoCbt => dev.on
  /\ Saving /\ op.next = "unlink" => op.raw # NoCbt

KeptInv == faults = 0 /\ torn = {} => Follows


\* SetToSeq lists every element of a finite set.
LEMMA SetToSeqAll == ASSUME NEW S, IsFiniteSet(S)
                     PROVE  /\ SetToSeq(S) \in Seq(S)
                            /\ \A x \in S : \E n \in DOMAIN SetToSeq(S) : SetToSeq(S)[n] = x
<1> DEFINE n == Cardinality(S)
           q == SetToSeq(S)
<1>1. n \in Nat /\ ExistsBijection(1 .. n, S)
  BY FS_CardinalityType
<1>2. \E f \in [1 .. n -> S] : IsInjective(f)
  BY <1>1 DEF ExistsBijection, Bijection, Injection
<1>3. q \in [1 .. n -> S] /\ IsInjective(q)
  BY <1>2, Zenon DEF SetToSeq
<1>4. q \in Injection(1 .. n, S)
  BY <1>3 DEF Injection
<1>5. IsFiniteSet(1 .. n) /\ Cardinality(1 .. n) = n
  BY <1>1, FS_Interval
<1> HIDE DEF q
<1>6. q \in Surjection(1 .. n, S)
  BY <1>4, <1>5, FS_Injection
<1>7. \A x \in S : \E k \in 1 .. n : q[k] = x
  BY <1>6 DEF Surjection
<1> HIDE DEF n
<1>8. q \in Seq(S) /\ DOMAIN q = 1 .. n
  BY <1>1, <1>3
<1> QED
  BY <1>7, <1>8 DEF q

\* The first n elements of a sequence.
LEMMA Prefix == ASSUME NEW S, NEW s \in Seq(S), NEW n \in 0 .. Len(s)
                PROVE  /\ SubSeq(s, 1, n) \in Seq(S) /\ Len(SubSeq(s, 1, n)) = n
                       /\ DOMAIN SubSeq(s, 1, n) = 1 .. n
                       /\ \A k \in 1 .. n : SubSeq(s, 1, n)[k] = s[k]
<1> DEFINE q == SubSeq(s, 1, n)
<1> HIDE DEF q
<1>1. n \in Nat /\ \A i \in 1 .. n : s[i] \in S
  OBVIOUS
<1>2. /\ q \in Seq(S)
      /\ Len(q) = IF 1 <= n THEN n - 1 + 1 ELSE 0
      /\ \A i \in 1 .. n - 1 + 1 : q[i] = s[1 + i - 1]
  <2>1. /\ SubSeq(s, 1, n) \in Seq(S)
        /\ Len(SubSeq(s, 1, n)) = IF 1 <= n THEN n - 1 + 1 ELSE 0
        /\ \A i \in 1 .. n - 1 + 1 : SubSeq(s, 1, n)[i] = s[1 + i - 1]
    BY <1>1, SubSeqProperties
  <2> QED
    BY <2>1, Zenon DEF q
<1>3. ASSUME NEW m, m = IF 1 <= n THEN n - 1 + 1 ELSE 0 PROVE m = n
  BY <1>1, <1>3
<1>4. Len(q) = n
  BY <1>2, <1>3, Zenon
<1>5. ASSUME NEW i \in 1 .. n PROVE q[i] = s[i]
  <2>1. i \in 1 .. n - 1 + 1 /\ 1 + i - 1 = i
    BY <1>1
  <2> QED
    BY <1>2, <2>1, Zenon
<1>6. DOMAIN q = 1 .. n
  BY <1>1, <1>2, <1>4
<1> QED
  BY <1>2, <1>4, <1>5, <1>6, Zenon DEF q

\* Front drops the last element.
LEMMA FrontType == ASSUME NEW S, NEW s \in Seq(S), Len(s) > 0
                   PROVE  /\ Front(s) \in Seq(S) /\ Len(Front(s)) = Len(s) - 1
                          /\ DOMAIN Front(s) = 1 .. Len(s) - 1
                          /\ \A k \in 1 .. Len(s) - 1 : Front(s)[k] = s[k]
<1>1. Len(s) - 1 \in 0 .. Len(s)
  OBVIOUS
<1> QED
  BY <1>1, Prefix, Zenon DEF Front

\* No uuid is set at first.
LEMMA SinceType == << >> \in Sinces
<1>1. << >> \in [{} -> SUBSET Bits]
  OBVIOUS
<1> QED
  BY <1>1, Zenon DEF Sinces

\* A record of changes is about uuids and blocks.
LEMMA SinceDomain == ASSUME NEW s \in Sinces
                     PROVE  /\ DOMAIN s \subseteq Uuid
                            /\ \A u \in DOMAIN s : s[u] \in SUBSET Bits
<1>1. PICK U \in SUBSET Uuid : s \in [U -> SUBSET Bits]
  BY DEF Sinces
<1> QED
  BY <1>1

\* A function from uuids to blocks is such a record.
LEMMA SinceMember == ASSUME NEW U \in SUBSET Uuid, NEW s \in [U -> SUBSET Bits]
                     PROVE  s \in Sinces
  BY Zenon DEF Sinces

\* What a block of each kind holds.
LEMMA BlockKinds == ASSUME NEW x \in Block
                    PROVE  /\ x.t \in {"data", "bits", "ext", "zero"}
                           /\ x.t = "bits" => x.s \in SUBSET Bits
                           /\ x.t = "ext" => x.id \in Id /\ x.l1 \in Seq(Nat)
  BY DEF Block, DataBlock, BitsBlock, ExtBlock, ZeroBlock

\* The constructors give blocks.
LEMMA NewBlocks == /\ \A b \in Bits : DataBlock(b) \in Block /\ DataBlock(b).t = "data"
                   /\ \A s \in SUBSET Bits : BitsBlock(s) \in Block /\ BitsBlock(s).t = "bits"
                                             /\ BitsBlock(s).s = s
                   /\ \A id \in Id, l1 \in Seq(Nat) :
                        /\ ExtBlock(id, l1) \in Block /\ ExtBlock(id, l1).t = "ext"
                        /\ ExtBlock(id, l1).id = id /\ ExtBlock(id, l1).l1 = l1
                   /\ ZeroBlock \in Block /\ ZeroBlock.t = "zero"
<1>1. \A b \in Bits : DataBlock(b) \in Block
  BY DEF Block
<1>2. \A s \in SUBSET Bits : BitsBlock(s) \in Block
  BY DEF Block
<1>3. \A id \in Id, l1 \in Seq(Nat) : ExtBlock(id, l1) \in Block
  BY DEF Block
<1>4. ZeroBlock \in Block
  BY DEF Block
<1> QED
  BY <1>1, <1>2, <1>3, <1>4 DEF DataBlock, BitsBlock, ExtBlock, ZeroBlock

\* A new delta and an idle process have their types.
LEMMA NewTypes == /\ NewDelta \in Delta /\ [NewDelta EXCEPT !.use = "yes"] \in Delta
                  /\ NoCbt \in RawCbt /\ NoOp \in Op
<1>1. << >> \in Seq(Block) /\ << >> \in Seq(Part) /\ << >> \in Seq(Nat)
  OBVIOUS
<1>2. NewDelta \in Delta /\ [NewDelta EXCEPT !.use = "yes"] \in Delta
  BY <1>1, SinceType DEF NewDelta, Delta
<1>3. NoCbt \in RawCbt
  BY <1>1 DEF NoCbt, RawCbt, Id
<1>4. NoOp \in Op
  BY <1>1, <1>3 DEF NoOp, Op, Id
<1> QED
  BY <1>2, <1>3, <1>4

\* Blocks are numbers.
LEMMA BitsNat == Bits \in SUBSET Nat
  BY CbtAssumption DEF Bits

\* A chunk is a set of blocks.
LEMMA ChunkBitsOf == \A i : Chunk(i) \subseteq Bits
  BY DEF Chunk

\* load_dirty_bitmap gives a bitmap, whatever the blocks are.
LEMMA RawType == ASSUME NEW f \in Delta, HasExt(f), L1Readable(f)
                 PROVE  /\ Raw(f) \in RawCbt /\ DOMAIN Raw(f).parts = DOMAIN f.blk[f.ext].l1
                        /\ \A i \in DOMAIN Raw(f).parts : Raw(f).parts[i].s = ChunkOf(f, i)
                        /\ Raw(f).id = f.blk[f.ext].id
                        /\ \A i \in DOMAIN Raw(f).parts :
                             Raw(f).parts[i].const <=> f.blk[f.ext].l1[i] <= 1
<1> DEFINE x == f.blk[f.ext]
           l == x.l1
<1>1. x \in Block /\ x.t = "ext"
  BY DEF HasExt, Delta
<1>2. x.id \in Id /\ l \in Seq(Nat)
  BY <1>1, BlockKinds
<1> HIDE DEF x
<1>3. ASSUME NEW i \in DOMAIN l PROVE ChunkOf(f, i) \in SUBSET Bits
  <2>1. l[i] \in Nat
    BY <1>2
  <2>2. CASE l[i] > 1
    <3>0. l[i] - 1 \in DOMAIN f.blk
      BY <1>3, <2>2 DEF L1Readable, x
    <3>1. f.blk[l[i] - 1] \in Block
      BY <3>0 DEF Delta
    <3>2. f.blk[l[i] - 1].t = "bits" => f.blk[l[i] - 1].s \in SUBSET Bits
      BY <3>1, BlockKinds
    <3>3. ChunkOf(f, i) = IF f.blk[l[i] - 1].t = "bits" THEN f.blk[l[i] - 1].s ELSE {}
      BY <2>1, <2>2 DEF ChunkOf, x
    <3> QED
      BY <3>2, <3>3
  <2>3. CASE ~ (l[i] > 1)
    BY <2>1, <2>3, ChunkBitsOf DEF ChunkOf, x
  <2> QED
    BY <2>2, <2>3
<1>4. Raw(f) = [id |-> x.id, parts |-> [i \in DOMAIN l |->
                   [const |-> l[i] <= 1, s |-> ChunkOf(f, i)]]]
  BY DEF Raw, x
<1>5. \A i \in DOMAIN l : [const |-> l[i] <= 1, s |-> ChunkOf(f, i)] \in Part
  BY <1>2, <1>3 DEF Part
<1>6. [i \in DOMAIN l |-> [const |-> l[i] <= 1, s |-> ChunkOf(f, i)]] \in Seq(Part)
  <2>1. DOMAIN l = 1 .. Len(l) /\ Len(l) \in Nat
    BY <1>2
  <2> QED
    BY <1>5, <2>1
<1> DEFINE p == [i \in DOMAIN l |-> [const |-> l[i] <= 1, s |-> ChunkOf(f, i)]]
<1>7. /\ DOMAIN p = DOMAIN l
      /\ \A i \in DOMAIN l : p[i].s = ChunkOf(f, i) /\ (p[i].const <=> l[i] <= 1)
  OBVIOUS
<1> HIDE DEF p
<1>8. Raw(f) = [id |-> x.id, parts |-> p] /\ p \in Seq(Part)
  BY <1>4, <1>6 DEF p
<1> QED
  BY <1>2, <1>7, <1>8 DEF RawCbt, x

\* What truncate_ext_blocks leaves: a prefix that lost only blocks of the
\* extension, and the extension block if it was the last one.
LEMMA TruncatedPrefix ==
  ASSUME NEW f \in Delta, HasExt(f)
  PROVE  \E n \in 0 .. Len(f.blk) :
           /\ Truncated(f) = [f EXCEPT !.blk = SubSeq(f.blk, 1, n)]
           /\ \A m \in DOMAIN f.blk : m > n =>
                \/ m = f.ext
                \/ \E j \in DOMAIN f.blk[f.ext].l1 :
                     f.blk[f.ext].l1[j] > 1 /\ m = f.blk[f.ext].l1[j] - 1
           /\ f.ext >= Len(f.blk) => n < Len(f.blk)
           /\ f.blk[f.ext].l1 = << >> => n >= Len(f.blk) - 1
<1> DEFINE l == f.blk[f.ext].l1
           ext == {f.ext} \cup {l[k] - 1 : k \in {k \in DOMAIN l : l[k] > 1}}
           keep == {n \in 0 .. Len(f.blk) : n + 1 .. Len(f.blk) \subseteq ext}
           n == CHOOSE n \in keep : \A m \in keep : n <= m
<1>1. f.blk \in Seq(Block) /\ Len(f.blk) \in Nat /\ f.ext \in 1 .. Len(f.blk)
  BY DEF Delta, HasExt
<1>2. Len(f.blk) \in keep /\ keep \in SUBSET Nat
  BY <1>1
<1>3. \E x \in keep : \A m \in keep : x <= m
  BY <1>2, Least
<1>4. n \in keep /\ \A m \in keep : n <= m
  BY <1>3, Zenon
<1>5. Truncated(f) = [f EXCEPT !.blk = SubSeq(f.blk, 1, n)]
  BY Zenon DEF Truncated
<1> HIDE DEF n
<1>11. n \in 0 .. Len(f.blk) /\ n + 1 .. Len(f.blk) \subseteq ext
  BY <1>4
<1>6. ASSUME NEW m \in DOMAIN f.blk, m > n PROVE m \in ext
  <2>1. m \in n + 1 .. Len(f.blk)
    BY <1>1, <1>6, <1>11
  <2> QED
    BY <1>11, <2>1, Zenon
<1>7. ASSUME f.ext >= Len(f.blk) PROVE n < Len(f.blk)
  <2>1. Len(f.blk) - 1 + 1 .. Len(f.blk) \subseteq ext
    BY <1>1, <1>7
  <2>2. Len(f.blk) - 1 \in keep
    BY <1>1, <2>1
  <2>3. n <= Len(f.blk) - 1
    BY <1>4, <2>2, Zenon
  <2> QED
    BY <1>1, <1>11, <2>3
<1>8. ASSUME l = << >> PROVE n >= Len(f.blk) - 1
  <2> SUFFICES ASSUME n < Len(f.blk) - 1 PROVE FALSE
    BY <1>1, <1>11
  <2>1. ext = {f.ext}
    BY <1>8
  <2>0. n \in Nat
    BY <1>11
  <2>2. n + 1 \in DOMAIN f.blk /\ n + 2 \in DOMAIN f.blk /\ n + 1 > n /\ n + 2 > n
    BY <1>1, <2>0
  <2>3. n + 1 \in ext /\ n + 2 \in ext
    BY <1>6, <2>2
  <2>4. n + 1 = f.ext /\ n + 2 = f.ext
    BY <2>1, <2>3, Zenon
  <2> QED
    BY <1>1, <2>0, <2>4
<1>9. ASSUME NEW m \in DOMAIN f.blk, m > n
      PROVE  m = f.ext \/ \E j \in DOMAIN l : l[j] > 1 /\ m = l[j] - 1
  BY <1>6, <1>9
<1> QED
  BY <1>5, <1>7, <1>8, <1>9, <1>11, Zenon

\* A file that was closed or marked dirty, with clusters of data added, and
\* synced.
LEMMA FileData ==
  ASSUME NEW c \in Delta, NEW d \in Delta, FileOK(c, d), NEW f \in Delta,
         NEW q \in Seq(Block), NEW M \in SUBSET Bits,
         f.use # "v21", f.map = c.map \cup M, f.blk = c.blk \o q,
         \A n \in DOMAIN q : q[n].t = "data",
         \A b \in M \ c.map : \E n \in DOMAIN q : q[n] = DataBlock(b)
  PROVE  FileOK(f, f)
<1>1. c.blk \in Seq(Block) /\ f.blk \in Seq(Block)
  BY DEF Delta
<1>2. /\ Len(f.blk) = Len(c.blk) + Len(q)
      /\ \A n \in 1 .. Len(c.blk) + Len(q) :
           f.blk[n] = IF n <= Len(c.blk) THEN c.blk[n] ELSE q[n - Len(c.blk)]
  BY <1>1, ConcatProperties
<1>3. \A n \in DOMAIN c.blk : n \in DOMAIN f.blk /\ f.blk[n] = c.blk[n]
  BY <1>1, <1>2
<1>4. \A n \in DOMAIN q : Len(c.blk) + n \in DOMAIN f.blk /\ f.blk[Len(c.blk) + n] = q[n]
  BY <1>1, <1>2
<1>5. \A n \in DOMAIN f.blk : n \in DOMAIN c.blk \/ f.blk[n].t = "data"
  BY <1>1, <1>2
<1>6. ExtBlocks(f)
  <2> SUFFICES ASSUME NEW n \in DOMAIN f.blk, f.blk[n].t = "ext"
               PROVE  /\ f.blk[n].id \in Uuid
                      /\ \A j \in DOMAIN f.blk[n].l1 : f.blk[n].l1[j] > 1 =>
                           f.blk[n].l1[j] - 1 < n /\ f.blk[f.blk[n].l1[j] - 1].t # "data"
    BY DEF ExtBlocks
  <2>1. n \in DOMAIN c.blk /\ f.blk[n] = c.blk[n]
    BY <1>3, <1>5
  <2>2. c.blk[n].id \in Uuid
    BY <2>1 DEF FileOK, ExtBlocks
  <2>3. ASSUME NEW j \in DOMAIN c.blk[n].l1, c.blk[n].l1[j] > 1
        PROVE  c.blk[n].l1[j] - 1 < n /\ f.blk[c.blk[n].l1[j] - 1].t # "data"
    <3>1. c.blk[n].l1[j] - 1 < n /\ c.blk[c.blk[n].l1[j] - 1].t # "data"
      BY <2>1, <2>3 DEF FileOK, ExtBlocks
    <3>2. c.blk[n].l1[j] \in Nat
      <4> DEFINE l == c.blk[n].l1
      <4>1. l \in Seq(Nat) /\ j \in DOMAIN l
        BY <1>1, <2>1, <2>3, BlockKinds
      <4> HIDE DEF l
      <4>2. l[j] \in Nat
        BY <4>1
      <4> QED
        BY <4>2 DEF l
    <3>3. c.blk[n].l1[j] - 1 \in DOMAIN c.blk
      BY <1>1, <2>1, <2>3, <3>1, <3>2
    <3> QED
      BY <1>3, <3>1, <3>3
  <2> QED
    BY <2>1, <2>2, <2>3
<1>7. DataIn(f, f)
  <2> SUFFICES ASSUME NEW b \in f.map PROVE \E n \in DOMAIN f.blk : f.blk[n] = DataBlock(b)
    BY DEF DataIn
  <2>1. CASE b \in c.map
    <3>1. PICK n \in DOMAIN c.blk : c.blk[n] = DataBlock(b)
      BY <2>1 DEF FileOK, DataIn
    <3> QED
      BY <1>3, <3>1
  <2>2. CASE b \in M \ c.map
    <3>1. PICK n \in DOMAIN q : q[n] = DataBlock(b)
      BY <2>2
    <3> QED
      BY <1>4, <3>1
  <2> QED
    BY <2>1, <2>2
<1> QED
  BY <1>6, <1>7 DEF FileOK, Agree, ExtLast, HeaderKept

\* The same without new data.
LEMMA FileClosed ==
  ASSUME NEW c \in Delta, NEW d \in Delta, FileOK(c, d), NEW f \in Delta,
         f.use # "v21", f.map = c.map, f.blk = c.blk
  PROVE  FileOK(f, f)
<1>1. ExtBlocks(f)
  BY DEF FileOK, ExtBlocks
<1>2. DataIn(f, f)
  BY DEF FileOK, DataIn
<1> QED
  BY <1>1, <1>2 DEF FileOK, Agree, ExtLast, HeaderKept

\* A new delta is in order, dirty or not.
LEMMA FileNew ==
  ASSUME NEW f \in Delta, f.use # "v21", f.map = {}, f.blk = << >>
  PROVE  FileOK(f, f)
  BY DEF FileOK, Agree, ExtLast, HeaderKept, ExtBlocks, DataIn

\* The ghost of a file is not part of its order.
LEMMA FileSince ==
  ASSUME NEW c \in Delta, NEW d \in Delta, FileOK(c, d), NEW f \in Delta, NEW g \in Delta,
         f.use = c.use, f.ext = c.ext, f.map = c.map, f.blk = c.blk,
         g.use = d.use, g.ext = d.ext, g.map = d.map, g.blk = d.blk, f.since = g.since
  PROVE  FileOK(f, g)
<1>1. ExtBlocks(f) /\ ExtBlocks(g)
  BY DEF FileOK, ExtBlocks
<1>2. DataIn(f, g) /\ Agree(f, g) /\ ExtLast(f, g) /\ ExtLast(g, f) /\ HeaderKept(f, g)
  BY DEF FileOK, DataIn, Agree, ExtLast, HeaderKept
<1> QED
  BY <1>1, <1>2 DEF FileOK

\* A bitmap or extension block is appended and not synced.
LEMMA FileAppend ==
  ASSUME NEW c \in Delta, NEW d \in Delta, FileOK(c, d), NEW f \in Delta, NEW x \in Block,
         x.t # "data", d.use # "v21", Len(d.blk) <= Len(c.blk),
         c.use = "v21" => c.ext = Len(c.blk) + 1,
         x.t = "ext" => /\ x.id \in Uuid
                        /\ \A j \in DOMAIN x.l1 : x.l1[j] > 1 =>
                             x.l1[j] - 1 \in DOMAIN c.blk /\ c.blk[x.l1[j] - 1].t = "bits",
         f.use = c.use, f.ext = c.ext, f.map = c.map, f.since = c.since,
         f.blk = Append(c.blk, x)
  PROVE  FileOK(f, d) /\ Len(d.blk) <= Len(f.blk)
<1>1. c.blk \in Seq(Block) /\ f.blk \in Seq(Block) /\ d.blk \in Seq(Block) /\ c.ext \in Nat
  BY DEF Delta
<1>2. /\ Len(f.blk) = Len(c.blk) + 1 /\ f.blk[Len(c.blk) + 1] = x
      /\ \A n \in DOMAIN c.blk : n \in DOMAIN f.blk /\ f.blk[n] = c.blk[n]
      /\ \A n \in DOMAIN f.blk : n \in DOMAIN c.blk \/ n = Len(c.blk) + 1
  BY <1>1
<1>3. \A n \in DOMAIN d.blk : n \in DOMAIN c.blk
  BY <1>1
<1>4. Agree(f, d)
  BY <1>2, <1>3 DEF FileOK, Agree
<1>5. ExtLast(f, d) /\ ExtLast(d, f)
  BY <1>1, <1>2 DEF ExtLast
<1>6. ExtBlocks(f)
  <2> SUFFICES ASSUME NEW n \in DOMAIN f.blk, f.blk[n].t = "ext"
               PROVE  /\ f.blk[n].id \in Uuid
                      /\ \A j \in DOMAIN f.blk[n].l1 : f.blk[n].l1[j] > 1 =>
                           f.blk[n].l1[j] - 1 < n /\ f.blk[f.blk[n].l1[j] - 1].t # "data"
    BY DEF ExtBlocks
  <2>1. CASE n \in DOMAIN c.blk
    <3>0. f.blk[n] = c.blk[n]
      BY <1>2, <2>1
    <3>1. c.blk[n].id \in Uuid
      BY <2>1, <3>0 DEF FileOK, ExtBlocks
    <3>2. ASSUME NEW j \in DOMAIN c.blk[n].l1, c.blk[n].l1[j] > 1
          PROVE  c.blk[n].l1[j] - 1 < n /\ f.blk[c.blk[n].l1[j] - 1].t # "data"
      <4>1. c.blk[n].l1[j] - 1 < n /\ c.blk[c.blk[n].l1[j] - 1].t # "data"
        BY <2>1, <3>0, <3>2 DEF FileOK, ExtBlocks
      <4>2. c.blk[n].l1 \in Seq(Nat)
        BY <1>1, <2>1, <3>0, BlockKinds
      <4>3. c.blk[n].l1[j] - 1 \in DOMAIN c.blk
        BY <1>1, <2>1, <3>2, <4>1, <4>2
      <4> QED
        BY <1>2, <4>1, <4>3
    <3> QED
      BY <3>0, <3>1, <3>2
  <2>2. CASE n = Len(c.blk) + 1
    <3>0. f.blk[n] = x
      BY <1>2, <2>2
    <3>1. ASSUME NEW j \in DOMAIN x.l1, x.l1[j] > 1
          PROVE  x.l1[j] - 1 < n /\ f.blk[x.l1[j] - 1].t # "data"
      <4>1. x.l1[j] - 1 \in DOMAIN c.blk /\ c.blk[x.l1[j] - 1].t = "bits"
        BY <3>0, <3>1
      <4> QED
        BY <1>1, <1>2, <2>2, <4>1
    <3> QED
      BY <3>0, <3>1
  <2> QED
    BY <1>2, <2>1, <2>2
<1>7. DataIn(f, d)
  <2> SUFFICES ASSUME NEW b \in c.map
               PROVE  \E n \in DOMAIN f.blk \cap DOMAIN d.blk : f.blk[n] = DataBlock(b)
    BY DEF DataIn
  <2>1. PICK n \in DOMAIN c.blk \cap DOMAIN d.blk : c.blk[n] = DataBlock(b)
    BY DEF FileOK, DataIn
  <2> QED
    BY <1>2, <2>1
<1>8. HeaderKept(f, d)
  BY DEF HeaderKept
<1> QED
  BY <1>1, <1>2, <1>4, <1>5, <1>6, <1>7, <1>8 DEF FileOK

\* The header points behind the last block, and is not synced.
LEMMA FileHeader ==
  ASSUME NEW c \in Delta, NEW d \in Delta, FileOK(c, d), NEW f \in Delta,
         d.use # "v21", Len(d.blk) <= Len(c.blk), f.ext = Len(c.blk) + 1,
         f.map = c.map, f.since = c.since, f.blk = c.blk
  PROVE  FileOK(f, d)
<1>1. ExtBlocks(f)
  BY DEF FileOK, ExtBlocks
<1>2. ExtLast(f, d)
  BY DEF ExtLast, Delta
<1>3. DataIn(f, d) /\ Agree(f, d) /\ ExtLast(d, f) /\ HeaderKept(f, d)
  BY DEF FileOK, DataIn, Agree, ExtLast, HeaderKept
<1> QED
  BY <1>1, <1>2, <1>3 DEF FileOK

\* An extension that cannot be found is forgotten.
LEMMA FileForget ==
  ASSUME NEW c \in Delta, NEW d \in Delta, FileOK(c, d), NEW f \in Delta, ~ HasExt(c),
         f.use # "v21", f.map = c.map, f.since = c.since, f.blk = c.blk
  PROVE  FileOK(f, d)
<1>1. ExtBlocks(f)
  BY DEF FileOK, ExtBlocks
<1>2. HeaderKept(f, d)
  BY DEF FileOK, HeaderKept, HasExt
<1>3. DataIn(f, d) /\ Agree(f, d) /\ ExtLast(d, f) /\ ExtLast(f, d)
  BY DEF FileOK, DataIn, Agree, ExtLast, HeaderKept
<1> QED
  BY <1>1, <1>2, <1>3 DEF FileOK

\* Blocks that hold no data are cut off.
LEMMA FileCut ==
  ASSUME NEW c \in Delta, NEW d \in Delta, FileOK(c, d), NEW f \in Delta, HasExt(c),
         NEW n \in Nat, n < Len(c.blk), Len(f.blk) = n,
         \A m \in 1 .. n : f.blk[m] = c.blk[m],
         \A m \in DOMAIN c.blk : m > n => c.blk[m].t # "data",
         f.use = c.use, c.use = "v21", f.ext = c.ext, f.map = c.map, f.since = c.since
  PROVE  FileOK(f, d) /\ ~ HasExt(f)
<1>1. c.blk \in Seq(Block) /\ f.blk \in Seq(Block) /\ d.blk \in Seq(Block) /\ c.ext \in Nat
      /\ d.ext \in Nat
  BY DEF Delta
<1>2. DOMAIN f.blk = 1 .. n /\ \A m \in 1 .. n : m \in DOMAIN c.blk
  BY <1>1
<1>3. ~ HasExt(f)
  BY <1>1, <1>2 DEF HasExt, FileOK, ExtLast
<1>4. Agree(f, d)
  BY <1>2 DEF FileOK, Agree
<1>5. ExtLast(f, d) /\ ExtLast(d, f)
  BY <1>1 DEF FileOK, ExtLast
<1>6. ExtBlocks(f)
  <2> SUFFICES ASSUME NEW k \in DOMAIN f.blk, f.blk[k].t = "ext"
               PROVE  /\ f.blk[k].id \in Uuid
                      /\ \A j \in DOMAIN f.blk[k].l1 : f.blk[k].l1[j] > 1 =>
                           f.blk[k].l1[j] - 1 < k /\ f.blk[f.blk[k].l1[j] - 1].t # "data"
    BY DEF ExtBlocks
  <2>1. k \in DOMAIN c.blk /\ f.blk[k] = c.blk[k]
    BY <1>2
  <2>2. c.blk[k].id \in Uuid
    BY <2>1 DEF FileOK, ExtBlocks
  <2>3. ASSUME NEW j \in DOMAIN c.blk[k].l1, c.blk[k].l1[j] > 1
        PROVE  c.blk[k].l1[j] - 1 < k /\ f.blk[c.blk[k].l1[j] - 1].t # "data"
    <3>1. c.blk[k].l1[j] - 1 < k /\ c.blk[c.blk[k].l1[j] - 1].t # "data"
      BY <2>1, <2>3 DEF FileOK, ExtBlocks
    <3>2. c.blk[k].l1 \in Seq(Nat)
      BY <1>1, <2>1, BlockKinds
    <3>3. c.blk[k].l1[j] - 1 \in 1 .. n
      BY <1>2, <2>1, <2>3, <3>1, <3>2
    <3> QED
      BY <1>2, <3>1, <3>3
  <2> QED
    BY <2>1, <2>2, <2>3
<1>7. DataIn(f, d)
  <2> SUFFICES ASSUME NEW b \in c.map
               PROVE  \E k \in DOMAIN f.blk \cap DOMAIN d.blk : f.blk[k] = DataBlock(b)
    BY DEF DataIn
  <2>1. PICK k \in DOMAIN c.blk \cap DOMAIN d.blk : c.blk[k] = DataBlock(b)
    BY DEF FileOK, DataIn
  <2>2. c.blk[k].t = "data"
    BY <2>1 DEF DataBlock
  <2>3. k \in 1 .. n
    BY <1>1, <2>1, <2>2
  <2> QED
    BY <1>2, <2>1, <2>3
<1>8. HeaderKept(f, d)
  BY <1>2 DEF FileOK, HeaderKept
<1> QED
  BY <1>3, <1>4, <1>5, <1>6, <1>7, <1>8 DEF FileOK

\* truncate_ext_blocks on an extension that was loaded.
LEMMA FileTruncated ==
  ASSUME NEW c \in Delta, NEW d \in Delta, FileOK(c, d), c.use = "v21", HasExt(c)
  PROVE  /\ Truncated(c) \in Delta /\ FileOK(Truncated(c), d) /\ ~ HasExt(Truncated(c))
         /\ Truncated(c).use = "v21"
<1>1. PICK n \in 0 .. Len(c.blk) :
           /\ Truncated(c) = [c EXCEPT !.blk = SubSeq(c.blk, 1, n)]
           /\ \A m \in DOMAIN c.blk : m > n =>
                \/ m = c.ext
                \/ \E j \in DOMAIN c.blk[c.ext].l1 :
                     c.blk[c.ext].l1[j] > 1 /\ m = c.blk[c.ext].l1[j] - 1
           /\ c.ext >= Len(c.blk) => n < Len(c.blk)
  BY TruncatedPrefix
<1>2. c.blk \in Seq(Block) /\ n < Len(c.blk) /\ n \in Nat
  BY <1>1 DEF Delta, FileOK, ExtLast
<1>3. /\ SubSeq(c.blk, 1, n) \in Seq(Block) /\ Len(SubSeq(c.blk, 1, n)) = n
      /\ \A k \in 1 .. n : SubSeq(c.blk, 1, n)[k] = c.blk[k]
  BY <1>2, Prefix
<1> DEFINE q == SubSeq(c.blk, 1, n)
<1> HIDE DEF q
<1>4. /\ Truncated(c) \in Delta /\ Truncated(c).blk = q /\ Truncated(c).use = c.use
      /\ Truncated(c).ext = c.ext /\ Truncated(c).map = c.map /\ Truncated(c).since = c.since
  <2>1. Truncated(c) = [c EXCEPT !.blk = q] /\ q \in Seq(Block)
    BY <1>1, <1>3, Zenon DEF q
  <2> QED
    BY <2>1 DEF Delta
<1>5. Len(q) = n /\ \A k \in 1 .. n : q[k] = c.blk[k]
  BY <1>3, Zenon DEF q
<1>6. ASSUME NEW m \in DOMAIN c.blk, m > n PROVE c.blk[m].t # "data"
  <2>1. c.ext \in DOMAIN c.blk /\ c.blk[c.ext].t = "ext"
    BY DEF HasExt
  <2>2. \A j \in DOMAIN c.blk[c.ext].l1 : c.blk[c.ext].l1[j] > 1 =>
          c.blk[c.blk[c.ext].l1[j] - 1].t # "data"
    BY <2>1 DEF FileOK, ExtBlocks
  <2> QED
    BY <1>1, <1>6, <2>1, <2>2
<1> QED
  BY <1>2, <1>4, <1>5, <1>6, FileCut

\* ploop_drop_cbt cuts off the extension block, which is the last one, and
\* leaves the bitmap blocks in the file.
LEMMA FileDropped ==
  ASSUME NEW c \in Delta, NEW d \in Delta, FileOK(c, d), c.use = "v21", HasExt(c),
         NEW f, f = Truncated([c EXCEPT !.blk[c.ext].l1 = << >>])
  PROVE  /\ f \in Delta /\ FileOK(f, d) /\ ~ HasExt(f) /\ f.use = "v21"
         /\ f.ext = Len(f.blk) + 1
<1>0. c.blk \in Seq(Block) /\ c.ext = Len(c.blk) /\ c.ext \in DOMAIN c.blk /\ c.ext \in Nat
      /\ c.blk[c.ext].t = "ext" /\ c.blk[c.ext] \in Block
  BY DEF Delta, HasExt, FileOK, ExtLast
<1> DEFINE x == [c.blk[c.ext] EXCEPT !.l1 = << >>]
           g == [c EXCEPT !.blk = [c.blk EXCEPT ![c.ext] = x]]
<1>1. [c EXCEPT !.blk[c.ext].l1 = << >>] = g
  OBVIOUS
<1>2. x \in Block /\ x.t = "ext" /\ x.l1 = << >>
  <2>1. PICK id \in Id, l1 \in Seq(Nat) : c.blk[c.ext] = ExtBlock(id, l1)
    BY <1>0 DEF Block, DataBlock, BitsBlock, ZeroBlock
  <2>2. x = ExtBlock(id, << >>)
    BY <2>1 DEF ExtBlock
  <2> DEFINE e == << >>
  <2>3. e \in Seq(Nat)
    OBVIOUS
  <2>4. /\ ExtBlock(id, << >>) \in Block /\ ExtBlock(id, << >>).t = "ext"
        /\ ExtBlock(id, << >>).l1 = << >>
    <3> HIDE DEF e
    <3>1. ExtBlock(id, e) \in Block /\ ExtBlock(id, e).t = "ext" /\ ExtBlock(id, e).l1 = e
      BY <2>3, NewBlocks
    <3> QED
      BY <3>1 DEF e
  <2> QED
    BY <2>2, <2>4, Zenon
<1> HIDE DEF x
<1>3. /\ g \in Delta /\ Len(g.blk) = Len(c.blk) /\ g.ext = c.ext /\ g.use = c.use
      /\ g.map = c.map /\ g.since = c.since /\ g.blk[g.ext] = x /\ DOMAIN g.blk = DOMAIN c.blk
      /\ \A k \in DOMAIN c.blk : k # c.ext => g.blk[k] = c.blk[k]
  <2> DEFINE q == [c.blk EXCEPT ![c.ext] = x]
  <2>1. q \in Seq(Block) /\ Len(q) = Len(c.blk) /\ DOMAIN q = DOMAIN c.blk /\ q[c.ext] = x
        /\ \A k \in DOMAIN c.blk : k # c.ext => q[k] = c.blk[k]
    BY <1>0, <1>2
  <2>2. g = [c EXCEPT !.blk = q]
    OBVIOUS
  <2> HIDE DEF q, g
  <2> QED
    BY <2>1, <2>2 DEF Delta
<1> HIDE DEF g
<1>4. HasExt(g)
  BY <1>0, <1>2, <1>3 DEF HasExt
<1>5. PICK n \in 0 .. Len(g.blk) :
           /\ Truncated(g) = [g EXCEPT !.blk = SubSeq(g.blk, 1, n)]
           /\ g.ext >= Len(g.blk) => n < Len(g.blk)
           /\ g.blk[g.ext].l1 = << >> => n >= Len(g.blk) - 1
  BY <1>3, <1>4, TruncatedPrefix
<1>6. n = Len(c.blk) - 1 /\ n \in Nat
  BY <1>0, <1>2, <1>3, <1>5
<1> DEFINE q == SubSeq(g.blk, 1, n)
<1>7. q \in Seq(Block) /\ Len(q) = n /\ \A k \in 1 .. n : q[k] = g.blk[k]
  <2>1. g.blk \in Seq(Block)
    BY <1>3 DEF Delta
  <2> QED
    BY <2>1, Prefix
<1> HIDE DEF q
<1>8. f = [g EXCEPT !.blk = q]
  BY <1>1, <1>5, Zenon DEF q
<1>9. /\ f \in Delta /\ f.blk = q /\ f.use = c.use /\ f.ext = c.ext /\ f.map = c.map
      /\ f.since = c.since
  BY <1>3, <1>7, <1>8 DEF Delta
<1>10. \A k \in 1 .. n : q[k] = c.blk[k]
  BY <1>0, <1>3, <1>6, <1>7
<1>11. \A m \in DOMAIN c.blk : m > n => c.blk[m].t # "data"
  BY <1>0, <1>6
<1>12. FileOK(f, d) /\ ~ HasExt(f)
  BY <1>0, <1>6, <1>7, <1>9, <1>10, <1>11, FileCut
<1> QED
  BY <1>0, <1>6, <1>7, <1>9, <1>12

\* What a power loss leaves of a file.
LEMMA FileLeftover ==
  ASSUME NEW c \in Delta, NEW d \in Delta, FileOK(c, d), NEW f \in Leftover(d, c)
  PROVE  /\ f \in Delta /\ FileOK(f, f) /\ f.since = c.since
         /\ c.blk = d.blk => f \in {c, d}
<1>1. PICK h \in {d, c}, n \in {Len(d.blk), Len(c.blk)},
          lost \in SUBSET {k \in DOMAIN c.blk : k > Len(d.blk) \/ d.blk[k] # c.blk[k]} :
        f = Mixed(h, d, c, n, lost)
  BY DEF Leftover
<1> DEFINE q == [k \in 1 .. n |->
               IF k \in lost \/ k > Len(c.blk)
               THEN IF k <= Len(d.blk) THEN d.blk[k] ELSE ZeroBlock
               ELSE c.blk[k]]
<1>2. /\ c.blk \in Seq(Block) /\ d.blk \in Seq(Block) /\ c.ext \in Nat /\ d.ext \in Nat
      /\ n \in Nat /\ h \in Delta
  BY DEF Delta
<1>3. \A k \in lost : k > Len(d.blk) /\ k \in DOMAIN c.blk
  BY <1>2 DEF FileOK, Agree
<1>4. ASSUME NEW k \in 1 .. n
      PROVE  /\ k \in DOMAIN c.blk /\ k \in DOMAIN d.blk => q[k] = c.blk[k]
             /\ k \in DOMAIN c.blk /\ k \notin DOMAIN d.blk => q[k] \in {c.blk[k], ZeroBlock}
             /\ k \notin DOMAIN c.blk => k \in DOMAIN d.blk /\ q[k] = d.blk[k]
             /\ q[k] \in Block
  <2>1. k \in Nat /\ (k <= Len(c.blk) <=> k \in DOMAIN c.blk)
        /\ (k <= Len(d.blk) <=> k \in DOMAIN d.blk)
    BY <1>2
  <2>2. k \in DOMAIN c.blk => c.blk[k] \in Block
    BY <1>2
  <2>3. k \in DOMAIN d.blk => d.blk[k] \in Block
    BY <1>2
  <2>4. k \in DOMAIN c.blk \/ k \in DOMAIN d.blk
    BY <1>2, <2>1
  <2>5. q[k] = IF k \in lost \/ k > Len(c.blk)
               THEN IF k <= Len(d.blk) THEN d.blk[k] ELSE ZeroBlock
               ELSE c.blk[k]
    OBVIOUS
  <2>6. k \in lost => k > Len(d.blk)
    BY <1>3
  <2> HIDE DEF q
  <2> QED
    BY <1>2, <2>1, <2>2, <2>3, <2>4, <2>5, <2>6, NewBlocks
<1>5. q \in Seq(Block) /\ Len(q) = n /\ DOMAIN q = 1 .. n
  <2>1. q \in [1 .. n -> Block]
    <3>1. \A k \in 1 .. n : q[k] \in Block
      BY <1>4
    <3> QED
      BY <3>1, Zenon
  <2> HIDE DEF q
  <2> QED
    BY <1>2, <2>1
<1>6. f = [h EXCEPT !.blk = q]
  BY <1>1, Zenon DEF Mixed
<1> HIDE DEF q
<1>7. /\ f \in Delta /\ f.blk = q /\ f.use = h.use /\ f.ext = h.ext /\ f.map = h.map
      /\ f.since = h.since
  BY <1>2, <1>5, <1>6 DEF Delta
<1>8. f.map = c.map /\ f.since = c.since
  BY <1>7 DEF FileOK
<1>9. ASSUME NEW m \in Nat, NEW k \in 1 .. n, m < k, m > 0,
             \/ k \in DOMAIN c.blk /\ c.blk[m].t # "data"
             \/ k \notin DOMAIN c.blk /\ k \in DOMAIN d.blk /\ d.blk[m].t # "data"
      PROVE  q[m].t # "data"
  <2>1. m \in 1 .. n
    BY <1>2, <1>9
  <2>2. CASE k \in DOMAIN c.blk /\ c.blk[m].t # "data"
    <3>1. m \in DOMAIN c.blk
      BY <1>2, <1>9, <2>2
    <3> QED
      BY <1>4, <2>1, <2>2, <3>1, NewBlocks
  <2>3. CASE k \notin DOMAIN c.blk /\ k \in DOMAIN d.blk /\ d.blk[m].t # "data"
    <3>1. m \in DOMAIN d.blk
      BY <1>2, <1>9, <2>3
    <3>2. m \in DOMAIN c.blk => c.blk[m] = d.blk[m]
      BY <3>1 DEF FileOK, Agree
    <3> QED
      BY <1>4, <2>1, <2>3, <3>1, <3>2
  <2> QED
    BY <1>9, <2>2, <2>3
<1>10. ExtBlocks(f)
  <2> SUFFICES ASSUME NEW k \in DOMAIN f.blk, f.blk[k].t = "ext"
               PROVE  /\ f.blk[k].id \in Uuid
                      /\ \A j \in DOMAIN f.blk[k].l1 : f.blk[k].l1[j] > 1 =>
                           f.blk[k].l1[j] - 1 < k /\ f.blk[f.blk[k].l1[j] - 1].t # "data"
    BY DEF ExtBlocks
  <2>0. k \in 1 .. n /\ q[k].t = "ext"
    BY <1>5, <1>7
  <2>1. ZeroBlock.t # "ext"
    BY DEF ZeroBlock
  <2>2. ASSUME NEW y \in Delta, ExtBlocks(y), k \in DOMAIN y.blk, q[k] = y.blk[k],
               \/ k \in DOMAIN c.blk /\ y = c
               \/ k \notin DOMAIN c.blk /\ k \in DOMAIN d.blk /\ y = d
        PROVE  /\ q[k].id \in Uuid
               /\ \A j \in DOMAIN q[k].l1 : q[k].l1[j] > 1 =>
                    q[k].l1[j] - 1 < k /\ q[q[k].l1[j] - 1].t # "data"
    <3>1. q[k].id \in Uuid
      BY <2>0, <2>2 DEF ExtBlocks
    <3>2. ASSUME NEW j \in DOMAIN q[k].l1, q[k].l1[j] > 1
          PROVE  q[k].l1[j] - 1 < k /\ q[q[k].l1[j] - 1].t # "data"
      <4>1. q[k].l1[j] - 1 < k /\ y.blk[q[k].l1[j] - 1].t # "data"
        BY <2>0, <2>2, <3>2 DEF ExtBlocks
      <4>2. q[k].l1 \in Seq(Nat)
        BY <1>4, <2>0, BlockKinds
      <4>3. q[k].l1[j] - 1 \in Nat /\ q[k].l1[j] - 1 > 0
        BY <3>2, <4>2
      <4> QED
        BY <1>9, <2>0, <2>2, <4>1, <4>3
    <3> QED
      BY <3>1, <3>2
  <2>3. CASE k \in DOMAIN c.blk
    <3>1. q[k] = c.blk[k]
      BY <1>4, <2>0, <2>1, <2>3
    <3> QED
      BY <1>7, <2>2, <2>3, <3>1 DEF FileOK
  <2>4. CASE k \notin DOMAIN c.blk
    <3>1. k \in DOMAIN d.blk /\ q[k] = d.blk[k]
      BY <1>4, <2>0, <2>4
    <3> QED
      BY <1>7, <2>2, <2>4, <3>1 DEF FileOK
  <2> QED
    BY <2>3, <2>4
<1>11. DataIn(f, f)
  <2> SUFFICES ASSUME NEW b \in c.map PROVE \E k \in DOMAIN q : q[k] = DataBlock(b)
    BY <1>7, <1>8 DEF DataIn
  <2>1. PICK k \in DOMAIN c.blk \cap DOMAIN d.blk : c.blk[k] = DataBlock(b)
    BY DEF FileOK, DataIn
  <2>2. k \in 1 .. n
    BY <1>2, <2>1
  <2> QED
    BY <1>4, <1>5, <2>1, <2>2
<1>12. ExtLast(f, f)
  <2>1. h.use = "v21" => h.ext >= Len(c.blk) /\ h.ext >= Len(d.blk)
    BY DEF FileOK, ExtLast
  <2> QED
    BY <1>5, <1>7, <2>1 DEF ExtLast
<1>13. FileOK(f, f)
  BY <1>10, <1>11, <1>12 DEF FileOK, Agree, HeaderKept
<1>14. ASSUME c.blk = d.blk PROVE f \in {c, d}
  <2>1. \A k \in 1 .. n : q[k] = c.blk[k]
    BY <1>4, <1>14
  <2>2. q = c.blk
    BY <1>2, <1>5, <1>14, <2>1, SeqEqual
  <2>3. f = [h EXCEPT !.blk = h.blk]
    BY <1>6, <1>14, <2>2
  <2>4. [h EXCEPT !.blk = h.blk] = h
    BY <1>2 DEF Delta
  <2> QED
    BY <2>3, <2>4
<1> QED
  BY <1>7, <1>8, <1>13, <1>14

\* The range of one BLKCBTGET in a save.
LEMMA ChunkLast == ASSUME NEW i \in Nat \ {0}, NEW pos \in Nat
                   PROVE  /\ (IF i * ChunkBits <= NBits THEN i * ChunkBits - 1 ELSE NBits - 1) \in Nat
                          /\ (IF pos > (i - 1) * ChunkBits THEN pos ELSE (i - 1) * ChunkBits) \in Nat
<1>1. i * ChunkBits \in Nat \ {0} /\ (i - 1) * ChunkBits \in Nat
  BY CbtAssumption
<1> QED
  BY <1>1, CbtAssumption

\* The process ends, or goes on where the caller of the save wanted.
LEMMA EndSaveEffect == ASSUME Shape, Control, Saving, EndSave
                       PROVE  /\ op' \in Op
                              /\ op.next = "end" => op' = NoOp
                              /\ op.next # "end" => /\ op' = [op EXCEPT !.pc = op.next, !.raw = NoCbt]
                                                    /\ op'.pc \in {"uuid", "unlink", "stop"}
                                                    /\ op'.pc = op.next /\ op'.raw = NoCbt
                                                    /\ op'.id = op.id /\ op'.or = op.or
                              /\ ~ Saving'
<1>1. op.next \in {"end", "uuid", "unlink", "stop"} /\ op \in Op
  BY DEF Shape, Control, Op
<1>2. CASE op.next = "end"
  <2>1. op' = NoOp
    BY <1>2 DEF EndSave
  <2> QED
    BY <1>2, <2>1, NewTypes DEF Saving, NoOp
<1>3. CASE op.next # "end"
  <2>1. op' = [op EXCEPT !.pc = op.next, !.raw = NoCbt]
    BY <1>3 DEF EndSave
  <2>2. op' \in Op /\ op'.pc = op.next /\ op'.raw = NoCbt /\ op'.id = op.id /\ op'.or = op.or
    BY <1>1, <1>3, <2>1, NewTypes DEF Op
  <2> QED
    BY <1>1, <1>3, <2>1, <2>2 DEF Saving
<1> QED
  BY <1>2, <1>3

\* Nothing but the process and the device changes.
LEMMA FilesSame == ASSUME Files, UNCHANGED <<deltas, disk>> PROVE Files'
  BY DEF Files

\* What is left of Control and Extending when no operation runs.
LEMMA IdleControl ==
  ASSUME op' = NoOp, Len(deltas)' > 0,
         dev'.on => dev'.top \in DOMAIN deltas' /\ deltas'[dev'.top].use = "yes"
  PROVE  Control' /\ Extending'
<1>1. op'.pc = "idle" /\ op'.raw = NoCbt
  BY DEF NoOp
<1>2. ~ Saving'
  BY <1>1 DEF Saving
<1> QED
  BY <1>1, <1>2 DEF Control, Extending, Towards, Top

\* A save of a device without a tracker writes nothing: the files stay in order.
LEMMA SaveNothingFile == FileInv /\ SaveNothing => FileInv'
<1> SUFFICES ASSUME FileInv, SaveNothing PROVE FileInv'
  OBVIOUS
<1> USE DEF FileInv
<1>0. Saving /\ op.raw = NoCbt
  BY DEF SaveNothing, Saving
<1>1. /\ op' \in Op /\ ~ Saving'
      /\ op.next = "end" => op' = NoOp
      /\ op.next # "end" => op'.pc \in {"uuid", "unlink", "stop"} /\ op'.pc = op.next /\ op'.raw = NoCbt
  BY <1>0, EndSaveEffect DEF SaveNothing
<1>2. UNCHANGED <<deltas, disk, dev, since, kept, faults>>
  BY DEF SaveNothing
<1>3. Shape'
  BY <1>1, <1>2 DEF Shape
<1>4. Control'
  <2>1. CASE op.next = "end"
    BY <1>1, <1>2, <2>1, IdleControl DEF Control, Top
  <2>2. CASE op.next # "end"
    BY <1>0, <1>1, <1>2, <2>2 DEF Control, Towards, Top
  <2> QED
    BY <2>1, <2>2
<1>5. Files'
  BY <1>2, FilesSame
<1>6. Extending'
  BY <1>1 DEF Extending
<1>7. ExtNear'
  BY <1>0, <1>1, <1>2 DEF ExtNear, Saving, Top, NoOp
<1> QED
  BY <1>3, <1>4, <1>5, <1>6, <1>7

\* One BLKCBTGET while a bitmap is saved: the files stay in order.
LEMMA SaveGetFile == FileInv /\ SaveGet => FileInv'
<1> SUFFICES ASSUME FileInv, SaveGet PROVE FileInv'
  OBVIOUS
<1> USE DEF FileInv
<1> DEFINE last == IF op.i * ChunkBits <= NBits THEN op.i * ChunkBits - 1 ELSE NBits - 1
           from == IF op.pos > (op.i - 1) * ChunkBits THEN op.pos ELSE (op.i - 1) * ChunkBits
           runs == Page(dev.bits, from, last)
<1>1. op \in Op /\ dev.bits \in SUBSET Bits /\ op.i \in Nat \ {0} /\ op.pos \in Nat
  BY DEF Shape, Op, Dev
<1>2. last \in Nat /\ from \in Nat
  BY <1>1, ChunkLast
<1>3. op' = [op EXCEPT !.got = @ \cup Covered(runs),
                       !.pos = IF Full(runs) THEN PageEnd(runs) ELSE @,
                       !.pc = IF Full(runs) THEN "save" ELSE "save_chunk"]
  BY DEF SaveGet
<1> HIDE DEF last, from
<1>4. /\ Covered(runs) \subseteq Bits
      /\ Full(runs) => PageEnd(runs) \in Nat
  BY <1>1, <1>2, BitsNat, PageCovers
<1> HIDE DEF runs
<1>5. /\ op' \in Op /\ op'.pc \in {"save", "save_chunk"}
      /\ op'.next = op.next /\ op'.img = op.img /\ op'.l1 = op.l1 /\ op'.i = op.i
      /\ op'.raw = op.raw /\ op'.or = op.or /\ op'.id = op.id
  BY <1>1, <1>3, <1>4 DEF Op
<1>6. UNCHANGED <<deltas, disk, dev, since, kept, faults>> /\ op.pc = "save" /\ dev.id # None
  BY DEF SaveGet
<1>7. Saving /\ Saving'
  BY <1>5, <1>6 DEF Saving
<1>8. Shape'
  BY <1>5, <1>6 DEF Shape
<1>9. Control'
  BY <1>5, <1>6, <1>7 DEF Control, Towards, Top
<1>10. Files'
  BY <1>6, FilesSame
<1>11. Extending'
  BY <1>5, <1>6, <1>7 DEF Extending
<1>12. ExtNear'
  BY <1>5, <1>6 DEF ExtNear, Top
<1> QED
  BY <1>8, <1>9, <1>10, <1>11, <1>12

\* Fields of a file and of the operation are replaced.
LEMMA DeltaBlk == ASSUME NEW c \in Delta, NEW q \in Seq(Block), NEW f, f = [c EXCEPT !.blk = q]
                  PROVE  /\ f \in Delta /\ f.use = c.use /\ f.ext = c.ext /\ f.map = c.map
                         /\ f.since = c.since /\ f.blk = q
  BY DEF Delta

\* Setting m_L1 leaves the rest of the operation alone.
LEMMA OpL1 == ASSUME NEW o \in Op, NEW q \in Seq(Nat), NEW p, p = [o EXCEPT !.l1 = q]
              PROVE  /\ p \in Op /\ p.pc = o.pc /\ p.img = o.img /\ p.next = o.next
                     /\ p.raw = o.raw /\ p.l1 = q /\ p.i = o.i /\ p.or = o.or /\ p.id = o.id
                     /\ p.pos = o.pos /\ p.got = o.got
  BY DEF Op

\* The number of the next chunk.
LEMMA NextChunk == ASSUME NEW o \in Op PROVE o.i \in Nat \ {0} /\ o.i + 1 \in Nat \ {0}
<1>1. o.i \in Nat \ {0}
  BY DEF Op
<1> QED
  BY <1>1

\* An element is appended to a sequence.
LEMMA Appended == ASSUME NEW S, NEW s \in Seq(S), NEW x \in S
                  PROVE  /\ Append(s, x) \in Seq(S) /\ Len(Append(s, x)) = Len(s) + 1
                         /\ DOMAIN Append(s, x) = DOMAIN s \cup {Len(s) + 1}
                         /\ Append(s, x)[Len(s) + 1] = x /\ Len(s) + 1 \notin DOMAIN s
                         /\ \A j \in DOMAIN s : Append(s, x)[j] = s[j]
<1>1. Append(s, x) \in Seq(S) /\ Len(Append(s, x)) = Len(s) + 1 /\ Len(s) \in Nat
  OBVIOUS
<1>2. DOMAIN Append(s, x) = 1 .. Len(s) + 1 /\ DOMAIN s = 1 .. Len(s)
  BY <1>1
<1> QED
  BY <1>1, <1>2

\* One element of a sequence is replaced.
LEMMA Replaced == ASSUME NEW S, NEW s \in Seq(S), NEW k \in DOMAIN s, NEW x \in S,
                         NEW t, t = [s EXCEPT ![k] = x]
                  PROVE  /\ t \in Seq(S) /\ Len(t) = Len(s) /\ DOMAIN t = DOMAIN s /\ t[k] = x
                         /\ \A j \in DOMAIN s : j # k => t[j] = s[j]
  OBVIOUS

\* A file is written without a sync: what the invariant needs of the new one.
LEMMA PutFiles ==
  ASSUME FileInv, NEW k \in DOMAIN deltas, NEW f \in Delta, Put(k, f), FileOK(f, disk[k])
  PROVE  /\ deltas' \in Seq(Delta) /\ Len(deltas') = Len(deltas) /\ DOMAIN deltas' = DOMAIN deltas
         /\ deltas'[k] = f /\ (\A j \in DOMAIN deltas : j # k => deltas'[j] = deltas[j])
         /\ disk' = disk /\ Files'
<1>1. /\ deltas' \in Seq(Delta) /\ Len(deltas') = Len(deltas) /\ DOMAIN deltas' = DOMAIN deltas
      /\ deltas'[k] = f /\ (\A j \in DOMAIN deltas : j # k => deltas'[j] = deltas[j])
  BY Replaced DEF Put, FileInv, Shape
<1>2. disk' = disk
  BY DEF Put
<1>3. Files'
  BY <1>1, <1>2 DEF Files, FileInv
<1> QED
  BY <1>1, <1>2, <1>3

\* And with a sync.
LEMMA PutSyncFiles ==
  ASSUME FileInv, NEW k \in DOMAIN deltas, NEW f \in Delta, PutSync(k, f), FileOK(f, f)
  PROVE  /\ deltas' \in Seq(Delta) /\ Len(deltas') = Len(deltas) /\ DOMAIN deltas' = DOMAIN deltas
         /\ deltas'[k] = f /\ (\A j \in DOMAIN deltas : j # k => deltas'[j] = deltas[j])
         /\ disk' \in Seq(Delta) /\ Len(disk') = Len(disk) /\ disk'[k] = f
         /\ (\A j \in DOMAIN deltas : j # k => disk'[j] = disk[j])
         /\ Files'
<1>1. /\ deltas' \in Seq(Delta) /\ Len(deltas') = Len(deltas) /\ DOMAIN deltas' = DOMAIN deltas
      /\ deltas'[k] = f /\ (\A j \in DOMAIN deltas : j # k => deltas'[j] = deltas[j])
  BY Replaced DEF PutSync, FileInv, Shape
<1>2. disk \in Seq(Delta) /\ DOMAIN disk = DOMAIN deltas
  BY DEF FileInv, Shape
<1>3. /\ disk' \in Seq(Delta) /\ Len(disk') = Len(disk) /\ disk'[k] = f
      /\ (\A j \in DOMAIN deltas : j # k => disk'[j] = disk[j])
  BY <1>2, Replaced DEF PutSync
<1>4. Files'
  BY <1>1, <1>3 DEF Files, FileInv
<1> QED
  BY <1>1, <1>3, <1>4

\* The file that is being extended, in a form the steps can use.
LEMMA Target == ASSUME FileInv, Saving
                PROVE  /\ op.img \in DOMAIN deltas /\ deltas[op.img] \in Delta
                       /\ disk[op.img] \in Delta /\ FileOK(deltas[op.img], disk[op.img])
                       /\ deltas[op.img].blk \in Seq(Block) /\ op \in Op /\ op.l1 \in Seq(Nat)
                       /\ op.i \in Nat \ {0}
                       /\ deltas[op.img].use # "yes"
<1>0. DOMAIN disk = DOMAIN deltas
  BY DEF FileInv, Shape
<1>1. op.img \in DOMAIN deltas /\ DOMAIN disk = DOMAIN deltas
  BY <1>0 DEF FileInv, Control
<1>2. deltas[op.img] \in Delta /\ disk[op.img] \in Delta
  BY <1>1 DEF FileInv, Shape
<1> QED
  BY <1>1, <1>2 DEF FileInv, Files, Shape, Op, Delta, Extending

\* A block of bitmap is appended, and its entry to the new m_L1.
LEMMA BitsAppended ==
  ASSUME FileInv, op.pc \in {"save", "save_chunk"}, NEW s \in SUBSET Bits,
         Put(op.img, [deltas[op.img] EXCEPT !.blk = Append(@, BitsBlock(s))]),
         op' \in Op, op'.pc = "save", op'.img = op.img, op'.next = op.next, op'.raw = op.raw,
         op'.l1 = Append(op.l1, Len(deltas[op.img].blk) + 2),
         op.raw = NoCbt => dev.id # None,
         UNCHANGED <<dev, since, kept, faults>>
  PROVE  FileInv'
<1> DEFINE c == deltas[op.img]
           f == [c EXCEPT !.blk = Append(@, BitsBlock(s))]
<1> USE DEF FileInv
<1>0. Saving /\ Saving'
  BY DEF Saving
<1>1. /\ op.img \in DOMAIN deltas /\ c \in Delta /\ disk[op.img] \in Delta
      /\ FileOK(c, disk[op.img]) /\ c.blk \in Seq(Block) /\ op \in Op /\ op.l1 \in Seq(Nat)
  BY <1>0, Target
<1>2. /\ disk[op.img].use = "v20" /\ Len(disk[op.img].blk) <= Len(c.blk) /\ c.use = "v20"
      /\ \A j \in DOMAIN op.l1 : op.l1[j] > 1 =>
           op.l1[j] - 1 \in DOMAIN c.blk /\ c.blk[op.l1[j] - 1].t = "bits"
  BY <1>0 DEF Extending
<1>3. BitsBlock(s) \in Block /\ BitsBlock(s).t = "bits"
  BY NewBlocks
<1>4. /\ f \in Delta /\ f.use = c.use /\ f.ext = c.ext /\ f.map = c.map /\ f.since = c.since
      /\ f.blk = Append(c.blk, BitsBlock(s))
  <2> DEFINE q == Append(c.blk, BitsBlock(s))
  <2>1. q \in Seq(Block)
    BY <1>1, <1>3
  <2>2. f = [c EXCEPT !.blk = q]
    OBVIOUS
  <2> HIDE DEF q, f, c
  <2>3. /\ f \in Delta /\ f.use = c.use /\ f.ext = c.ext /\ f.map = c.map /\ f.since = c.since
        /\ f.blk = q
    BY <1>1, <2>1, <2>2, DeltaBlk
  <2> QED
    BY <2>3, Zenon DEF q
<1>a. /\ DOMAIN f.blk = DOMAIN c.blk \cup {Len(c.blk) + 1} /\ Len(c.blk) \in Nat
      /\ f.blk[Len(c.blk) + 1].t = "bits"
      /\ \A j \in DOMAIN c.blk : f.blk[j] = c.blk[j]
  BY <1>1, <1>3, <1>4, Appended
<1>b. /\ DOMAIN op'.l1 = DOMAIN op.l1 \cup {Len(op.l1) + 1}
      /\ op'.l1[Len(op.l1) + 1] = Len(c.blk) + 2
      /\ \A j \in DOMAIN op.l1 : op'.l1[j] = op.l1[j]
  <2>1. Len(c.blk) + 2 \in Nat
    BY <1>1
  <2> QED
    BY <1>1, <2>1, Appended
<1> HIDE DEF f
<1>5. FileOK(f, disk[op.img]) /\ Len(disk[op.img].blk) <= Len(f.blk)
  BY <1>1, <1>2, <1>3, <1>4, FileAppend
<1>6. Put(op.img, f)
  BY DEF f
<1>7. /\ deltas' \in Seq(Delta) /\ Len(deltas') = Len(deltas) /\ DOMAIN deltas' = DOMAIN deltas
      /\ deltas'[op.img] = f /\ (\A j \in DOMAIN deltas : j # op.img => deltas'[j] = deltas[j])
      /\ disk' = disk /\ Files'
  BY <1>1, <1>4, <1>5, <1>6, PutFiles
<1> HIDE DEF c
<1>8. Shape'
  BY <1>7 DEF Shape
<1>9. Control'
  BY <1>0, <1>1, <1>7 DEF Control, Towards, Top
<1>10. Extending'
  <2>1. ASSUME NEW j \in DOMAIN op'.l1, op'.l1[j] > 1
        PROVE  op'.l1[j] - 1 \in DOMAIN f.blk /\ f.blk[op'.l1[j] - 1].t = "bits"
    <3>1. CASE j \in DOMAIN op.l1
      BY <1>2, <1>a, <1>b, <2>1, <3>1
    <3>2. CASE j = Len(op.l1) + 1
      <4>1. op'.l1[j] - 1 = Len(c.blk) + 1
        <5>1. op'.l1[j] = Len(c.blk) + 2 /\ Len(c.blk) \in Nat
          BY <1>a, <1>b, <3>2, Zenon
        <5>2. ASSUME NEW a, NEW n \in Nat, a = n + 2 PROVE a - 1 = n + 1
          BY <5>2
        <5> QED
          BY <5>1, <5>2, Zenon
      <4> QED
        BY <1>a, <4>1
    <3> QED
      BY <1>b, <3>1, <3>2
  <2> QED
    BY <1>0, <1>2, <1>4, <1>5, <1>7, <2>1 DEF Extending
<1>11. ExtNear'
  BY <1>1, <1>2, <1>4, <1>7 DEF ExtNear, Top
<1> QED
  BY <1>7, <1>8, <1>9, <1>10, <1>11

\* A constant entry needs no block.
LEMMA ConstAppended ==
  ASSUME FileInv, op.pc \in {"save", "save_chunk"}, NEW e \in {0, 1},
         op' \in Op, op'.pc = "save", op'.img = op.img, op'.next = op.next, op'.raw = op.raw,
         op'.l1 = Append(op.l1, e), op.raw = NoCbt => dev.id # None,
         UNCHANGED <<deltas, disk, dev, since, kept, faults>>
  PROVE  FileInv'
<1> USE DEF FileInv
<1>0. Saving /\ Saving'
  BY DEF Saving
<1>1. op.l1 \in Seq(Nat)
  BY <1>0, Target
<1>2. Shape'
  BY DEF Shape
<1>3. Control'
  BY <1>0 DEF Control, Towards, Top
<1>4. Files'
  BY FilesSame
<1>5. Extending'
  <2>1. \A j \in DOMAIN op'.l1 : op'.l1[j] > 1 => j \in DOMAIN op.l1 /\ op'.l1[j] = op.l1[j]
    BY <1>1
  <2> QED
    BY <1>0, <2>1 DEF Extending
<1>6. ExtNear'
  BY DEF ExtNear, Top
<1> QED
  BY <1>2, <1>3, <1>4, <1>5, <1>6

\* A step of the save that writes the bits s of chunk op.i as the entry e.
Entry(e) ==
  /\ op' \in Op /\ op'.pc = "save" /\ op'.img = op.img /\ op'.next = op.next /\ op'.raw = op.raw
  /\ op'.id = op.id /\ op'.or = op.or /\ op'.i = op.i + 1 /\ op'.pos \in Nat
  /\ op'.l1 = Append(op.l1, e)
  /\ op.raw = NoCbt => op'.pos = 0

Constant(e, s) ==
  /\ e \in {0, 1} /\ (e = 0 => s = {}) /\ (e = 1 => s # {})
  /\ op.raw = NoCbt /\ e = 1 => s = Chunk(op.i)
  /\ UNCHANGED <<deltas, disk>>

InBlock(e, s) ==
  /\ e = Len(deltas[op.img].blk) + 2
  /\ Put(op.img, [deltas[op.img] EXCEPT !.blk = Append(@, BitsBlock(s))])

\* One entry of a bitmap that was read from another delta: what it changes.
LEMMA SaveRawEffect ==
  ASSUME FileInv, SaveRaw
  PROVE  /\ op.pc = "save" /\ Saving /\ op.raw # NoCbt /\ UNCHANGED <<dev, since, kept, faults, torn>>
         /\ op.i \in DOMAIN op.raw.parts /\ op.raw.parts[op.i] \in Part
         /\ \E e \in Nat : /\ Entry(e)
                           /\ IF op.raw.parts[op.i].const THEN Constant(e, op.raw.parts[op.i].s)
                              ELSE InBlock(e, op.raw.parts[op.i].s)
<1> DEFINE p == op.raw.parts[op.i]
<1>0. /\ op.pc = "save" /\ op.raw # NoCbt /\ UNCHANGED <<dev, since, kept, faults, torn>>
  BY DEF SaveRaw
<1>1. Saving
  BY <1>0 DEF Saving
<1>2. op \in Op /\ op.l1 \in Seq(Nat) /\ op.i \in Nat \ {0} /\ deltas[op.img].blk \in Seq(Block)
      /\ op.pos \in Nat
  BY <1>1, Target DEF Op
<1>3. op.raw.parts \in Seq(Part)
  <2>1. op.raw \in RawCbt
    BY <1>2 DEF Op
  <2> QED
    BY <2>1 DEF RawCbt
<1>4. op.i \in DOMAIN op.raw.parts
  BY <1>2, <1>3 DEF SaveRaw
<1>5. p \in Part
  BY <1>3, <1>4
<1>6. ASSUME NEW e \in Nat, op' = [op EXCEPT !.i = @ + 1, !.l1 = Append(@, e)]
      PROVE  Entry(e)
  <2> DEFINE q == Append(op.l1, e)
             i == op.i + 1
  <2>1. op' = [op EXCEPT !.i = i, !.l1 = q]
    BY <1>6, Zenon
  <2>2. i \in Nat \ {0}
    BY <1>2, NextChunk
  <2>3. q = Append(op.l1, e)
    OBVIOUS
  <2>4. i = op.i + 1
    OBVIOUS
  <2>6. q \in Seq(Nat) /\ op \in Op
    <3>1. op.l1 \in Seq(Nat) /\ op \in Op
      BY <1>2
    <3> QED
      BY <3>1, AppendProperties
  <2> HIDE DEF q, i
  <2>5. /\ op' \in Op /\ op'.pc = op.pc /\ op'.img = op.img /\ op'.next = op.next
        /\ op'.raw = op.raw /\ op'.l1 = q /\ op'.i = i /\ op'.or = op.or /\ op'.id = op.id
        /\ op'.pos = op.pos
    BY <2>1, <2>2, <2>6 DEF Op
  <2> QED
    BY <1>0, <1>2, <2>3, <2>4, <2>5, Zenon DEF Entry
<1>7. CASE p.const
  <2> DEFINE e == IF p.s = {} THEN 0 ELSE 1
  <2>1. op' = [op EXCEPT !.i = @ + 1, !.l1 = Append(@, e)] /\ UNCHANGED <<deltas, disk>>
    BY <1>7 DEF SaveRaw
  <2>2. e \in Nat /\ e \in {0, 1}
    OBVIOUS
  <2>3. Entry(e)
    BY <1>6, <2>1, <2>2, Zenon
  <2>4. Constant(e, p.s)
    BY <1>0, <2>1 DEF Constant
  <2> HIDE DEF e
  <2> QED
    BY <1>0, <1>1, <1>4, <1>5, <1>7, <2>2, <2>3, <2>4, Zenon
<1>8. CASE ~ p.const
  <2> DEFINE e == Len(deltas[op.img].blk) + 2
  <2>1. /\ op' = [op EXCEPT !.i = @ + 1, !.l1 = Append(@, e)]
        /\ Put(op.img, [deltas[op.img] EXCEPT !.blk = Append(@, BitsBlock(p.s))])
    BY <1>8 DEF SaveRaw
  <2>2. e \in Nat
    BY <1>2
  <2>3. Entry(e)
    BY <1>6, <2>1, <2>2, Zenon
  <2>4. InBlock(e, p.s)
    BY <2>1, Zenon DEF InBlock
  <2> HIDE DEF e
  <2> QED
    BY <1>0, <1>1, <1>4, <1>5, <1>8, <2>2, <2>3, <2>4, Zenon
<1> QED
  BY <1>7, <1>8

\* The bits of the chunk that SaveChunk writes.
ChunkBitsNow == op.got \cup (op.or \cap Chunk(op.i))

\* One chunk of the bitmap of the device: what it changes.
LEMMA SaveChunkEffect ==
  ASSUME FileInv, SaveChunk
  PROVE  /\ op.pc = "save_chunk" /\ Saving /\ UNCHANGED <<dev, since, kept, faults, torn>>
         /\ op.raw = NoCbt => dev.id # None
         /\ ChunkBitsNow \in SUBSET Bits
         /\ \E e \in Nat : /\ Entry(e)
                           /\ \/ Constant(e, ChunkBitsNow) /\ (e = 1 => ChunkBitsNow = Chunk(op.i))
                              \/ InBlock(e, ChunkBitsNow)
<1> DEFINE s == op.got \cup (op.or \cap Chunk(op.i))
           next == [op EXCEPT !.pc = "save", !.i = @ + 1, !.pos = 0, !.got = {}]
<1>0. /\ op.pc = "save_chunk" /\ UNCHANGED <<dev, since, kept, faults, torn>>
  BY DEF SaveChunk
<1>1. Saving
  BY <1>0 DEF Saving
<1>2. op \in Op /\ op.l1 \in Seq(Nat) /\ op.i \in Nat \ {0} /\ deltas[op.img].blk \in Seq(Block)
      /\ s \in SUBSET Bits
  BY <1>1, Target DEF Op
<1>3. op.raw = NoCbt => dev.id # None
  BY <1>0, <1>1 DEF FileInv, Extending
<1>4. /\ next \in Op /\ next.pc = "save" /\ next.img = op.img /\ next.next = op.next
      /\ next.raw = op.raw /\ next.l1 = op.l1 /\ next.id = op.id /\ next.or = op.or
      /\ next.i = op.i + 1 /\ next.pos = 0
  <2> DEFINE i == op.i + 1
             z == {}
  <2>1. next = [op EXCEPT !.pc = "save", !.i = i, !.pos = 0, !.got = z]
    OBVIOUS
  <2>2. i \in Nat \ {0} /\ i = op.i + 1 /\ z \in SUBSET Bits
    BY <1>2, NextChunk
  <2> HIDE DEF i, next, z
  <2>3. /\ next \in Op /\ next.pc = "save" /\ next.img = op.img /\ next.next = op.next
      /\ next.raw = op.raw /\ next.l1 = op.l1 /\ next.id = op.id /\ next.or = op.or
      /\ next.i = i /\ next.pos = 0
    BY <1>2, <2>1, <2>2 DEF Op
  <2> QED
    BY <2>2, <2>3
<1>5. \/ \E e \in Constants(s, op.i) :
           op' = [next EXCEPT !.l1 = Append(@, e)] /\ UNCHANGED <<deltas, disk>>
      \/ /\ op' = [next EXCEPT !.l1 = Append(@, Len(deltas[op.img].blk) + 2)]
         /\ Put(op.img, [deltas[op.img] EXCEPT !.blk = Append(@, BitsBlock(s))])
  BY Zenon DEF SaveChunk
<1>a. \A e \in Constants(s, op.i) : /\ e \in {0, 1} /\ (e = 0 => s = {}) /\ (e = 1 => s # {})
                                    /\ e = 1 => s = Chunk(op.i)
  BY DEF Constants
<1>b. ChunkBitsNow = s
  BY DEF ChunkBitsNow
<1> HIDE DEF next, s
<1>6. ASSUME NEW e \in Nat, op' = [next EXCEPT !.l1 = Append(@, e)]
      PROVE  Entry(e)
  <2> DEFINE q == Append(op.l1, e)
  <2>1. q = Append(op.l1, e)
    OBVIOUS
  <2>5. q \in Seq(Nat) /\ next \in Op
    BY <1>2, <1>4
  <2>2. op' = [next EXCEPT !.l1 = q]
    BY <1>4, <1>6, Zenon
  <2> HIDE DEF q
  <2>3. /\ op' \in Op /\ op'.pc = next.pc /\ op'.img = next.img /\ op'.next = next.next
        /\ op'.raw = next.raw /\ op'.l1 = q /\ op'.i = next.i /\ op'.or = next.or
        /\ op'.id = next.id /\ op'.pos = next.pos
    BY <2>2, <2>5, OpL1
  <2>4. 0 \in Nat
    OBVIOUS
  <2> QED
    BY <1>4, <2>1, <2>3, <2>4, Zenon DEF Entry
<1>7. CASE \E e \in Constants(s, op.i) :
             op' = [next EXCEPT !.l1 = Append(@, e)] /\ UNCHANGED <<deltas, disk>>
  <2>1. PICK e \in Constants(s, op.i) :
          op' = [next EXCEPT !.l1 = Append(@, e)] /\ UNCHANGED <<deltas, disk>>
    BY <1>7, Zenon
  <2>2. e \in Nat
    BY <1>a
  <2>3. Entry(e)
    BY <1>6, <2>1, <2>2, Zenon
  <2>4. Constant(e, s) /\ (e = 1 => s = Chunk(op.i))
    BY <1>a, <2>1 DEF Constant
  <2> QED
    BY <1>0, <1>1, <1>2, <1>3, <1>b, <2>2, <2>3, <2>4, Zenon
<1>8. CASE /\ op' = [next EXCEPT !.l1 = Append(@, Len(deltas[op.img].blk) + 2)]
           /\ Put(op.img, [deltas[op.img] EXCEPT !.blk = Append(@, BitsBlock(s))])
  <2> DEFINE e == Len(deltas[op.img].blk) + 2
  <2>2. e \in Nat
    BY <1>2
  <2>3. Entry(e)
    BY <1>6, <1>8, <2>2, Zenon
  <2>4. InBlock(e, s)
    BY <1>8, Zenon DEF InBlock
  <2> HIDE DEF e
  <2> QED
    BY <1>0, <1>1, <1>2, <1>3, <1>b, <2>2, <2>3, <2>4, Zenon
<1> QED
  BY <1>5, <1>7, <1>8

\* An entry of m_L1, with its block or without, keeps the files in order.
LEMMA EntryFile ==
  ASSUME FileInv, op.pc \in {"save", "save_chunk"}, UNCHANGED <<dev, since, kept, faults>>,
         NEW e \in Nat, NEW s \in SUBSET Bits, Entry(e), Constant(e, s) \/ InBlock(e, s),
         op.raw = NoCbt => dev.id # None
  PROVE  FileInv'
<1>1. CASE Constant(e, s)
  BY <1>1, ConstAppended DEF Entry, Constant
<1>2. CASE InBlock(e, s)
  BY <1>2, BitsAppended DEF Entry, InBlock
<1> QED
  BY <1>1, <1>2

\* One entry of a bitmap that was read from another delta: the files stay in order.
LEMMA SaveRawFile == FileInv /\ SaveRaw => FileInv'
<1> SUFFICES ASSUME FileInv, SaveRaw PROVE FileInv'
  OBVIOUS
<1> DEFINE s == op.raw.parts[op.i].s
<1>1. /\ op.pc \in {"save", "save_chunk"} /\ op.raw # NoCbt /\ UNCHANGED <<dev, since, kept, faults>>
  BY SaveRawEffect
<1>2. PICK e \in Nat : Entry(e) /\ (Constant(e, s) \/ InBlock(e, s))
  BY SaveRawEffect
<1>3. s \in SUBSET Bits
  BY SaveRawEffect DEF Part
<1> QED
  BY <1>1, <1>2, <1>3, EntryFile

\* One chunk of the bitmap of the device: the files stay in order.
LEMMA SaveChunkFile == FileInv /\ SaveChunk => FileInv'
<1> SUFFICES ASSUME FileInv, SaveChunk PROVE FileInv'
  OBVIOUS
<1> DEFINE s == ChunkBitsNow
<1>1. /\ op.pc \in {"save", "save_chunk"} /\ (op.raw = NoCbt => dev.id # None)
      /\ UNCHANGED <<dev, since, kept, faults>> /\ s \in SUBSET Bits
  BY SaveChunkEffect
<1>2. PICK e \in Nat : Entry(e) /\ (Constant(e, s) \/ InBlock(e, s))
  BY SaveChunkEffect
<1> HIDE DEF s
<1> QED
  BY <1>1, <1>2, EntryFile

\* The header that announces the extension: what it changes.
LEMMA SaveHeaderEffect ==
  ASSUME FileInv, SaveHeader
  PROVE  /\ op.pc = "save" /\ Saving /\ Saving' /\ UNCHANGED <<dev, since, kept, faults, torn>>
         /\ op' \in Op /\ op'.pc = "save_ext" /\ op'.img = op.img /\ op'.next = op.next
         /\ op'.raw = op.raw /\ op'.l1 = op.l1 /\ op'.i = op.i /\ op'.id = op.id /\ op'.or = op.or
         /\ op.raw = NoCbt => op.i > NChunks /\ dev.id # None
         /\ op.raw # NoCbt => op.i > Len(op.raw.parts)
         /\ deltas' \in Seq(Delta) /\ Len(deltas') = Len(deltas) /\ DOMAIN deltas' = DOMAIN deltas
         /\ \A j \in DOMAIN deltas : j # op.img => deltas'[j] = deltas[j]
         /\ disk' = disk /\ Files'
         /\ deltas'[op.img].use = "v21" /\ deltas'[op.img].ext = Len(deltas[op.img].blk) + 1
         /\ deltas'[op.img].since = deltas[op.img].since
         /\ deltas'[op.img].blk = deltas[op.img].blk
<1> DEFINE c == deltas[op.img]
           e == Len(c.blk) + 1
           f == [c EXCEPT !.use = "v21", !.ext = e]
<1>0. /\ op.pc = "save" /\ UNCHANGED <<dev, since, kept, faults, torn>>
      /\ op' = [op EXCEPT !.pc = "save_ext"]
      /\ op.raw = NoCbt => op.i > NChunks
      /\ op.raw # NoCbt => op.i > Len(op.raw.parts)
  BY DEF SaveHeader, Goto
<1>1. Saving
  BY <1>0 DEF Saving
<1>2. /\ op.img \in DOMAIN deltas /\ c \in Delta /\ disk[op.img] \in Delta
      /\ FileOK(c, disk[op.img]) /\ c.blk \in Seq(Block) /\ op \in Op /\ op.i \in Nat \ {0}
  BY <1>1, Target
<1>3. /\ disk[op.img].use = "v20" /\ Len(disk[op.img].blk) <= Len(c.blk)
      /\ op.raw = NoCbt /\ op.i > 1 => dev.id # None
  BY <1>1 DEF FileInv, Extending
<1>4. op.raw = NoCbt => dev.id # None
  <2>1. NChunks \in Nat /\ NChunks > 0
    BY CbtAssumption DEF NChunks
  <2> QED
    BY <1>0, <1>2, <1>3, <2>1
<1>5. /\ op' \in Op /\ op'.pc = "save_ext" /\ op'.img = op.img /\ op'.next = op.next
      /\ op'.raw = op.raw /\ op'.l1 = op.l1 /\ op'.i = op.i /\ op'.id = op.id /\ op'.or = op.or
  BY <1>0, <1>2 DEF Op
<1>6. Saving'
  BY <1>5 DEF Saving
<1>7. e \in Nat /\ Put(op.img, f)
  BY <1>2 DEF SaveHeader
<1> HIDE DEF e, c
<1>8. /\ f \in Delta /\ f.use = "v21" /\ f.ext = e /\ f.map = c.map /\ f.since = c.since
      /\ f.blk = c.blk
  BY <1>2, <1>7 DEF Delta
<1> HIDE DEF f
<1>9. FileOK(f, disk[op.img])
  BY <1>2, <1>3, <1>8, FileHeader DEF e
<1>10. /\ deltas' \in Seq(Delta) /\ Len(deltas') = Len(deltas) /\ DOMAIN deltas' = DOMAIN deltas
       /\ deltas'[op.img] = f /\ (\A j \in DOMAIN deltas : j # op.img => deltas'[j] = deltas[j])
       /\ disk' = disk /\ Files'
  BY <1>2, <1>7, <1>8, <1>9, PutFiles
<1> QED
  BY <1>0, <1>1, <1>4, <1>5, <1>6, <1>8, <1>10 DEF e, c

\* The header that announces the extension: the files stay in order.
LEMMA SaveHeaderFile == FileInv /\ SaveHeader => FileInv'
<1> SUFFICES ASSUME FileInv, SaveHeader PROVE FileInv'
  OBVIOUS
<1>1. /\ op.pc = "save" /\ Saving /\ Saving' /\ UNCHANGED <<dev, since, kept, faults, torn>>
      /\ op' \in Op /\ op'.pc = "save_ext" /\ op'.img = op.img /\ op'.next = op.next
      /\ op'.raw = op.raw /\ op'.l1 = op.l1 /\ (op.raw = NoCbt => dev.id # None)
      /\ deltas' \in Seq(Delta) /\ Len(deltas') = Len(deltas) /\ DOMAIN deltas' = DOMAIN deltas
      /\ \A j \in DOMAIN deltas : j # op.img => deltas'[j] = deltas[j]
  BY SaveHeaderEffect
<1>2. /\ disk' = disk /\ Files'
      /\ deltas'[op.img].use = "v21" /\ deltas'[op.img].ext = Len(deltas[op.img].blk) + 1
      /\ deltas'[op.img].blk = deltas[op.img].blk
  BY SaveHeaderEffect
<1>3. Shape'
  BY <1>1, <1>2 DEF FileInv, Shape
<1>4. Control'
  BY <1>1 DEF FileInv, Control, Towards, Top
<1>5. Extending'
  BY <1>1, <1>2 DEF FileInv, Extending
<1>6. ExtNear'
  <2>1. deltas[op.img].blk \in Seq(Block)
    BY <1>1, Target
  <2>2. deltas'[op.img].ext <= Len(deltas'[op.img].blk) + 1
    BY <1>2, <2>1
  <2> QED
    BY <1>1, <1>2, <2>2 DEF FileInv, ExtNear, Top
<1> QED
  BY <1>2, <1>3, <1>4, <1>5, <1>6 DEF FileInv

\* The uuid of the bitmap that is saved.
SavedId == IF op.raw = NoCbt THEN dev.id ELSE op.raw.id

\* The extension block, the last step of a save: what it changes.
LEMMA SaveExtEffect ==
  ASSUME FileInv, SaveExt
  PROVE  /\ op.pc = "save_ext" /\ Saving /\ EndSave /\ UNCHANGED <<dev, since, kept, faults, torn>>
         /\ op.raw = NoCbt => dev.id # None
         /\ deltas' \in Seq(Delta) /\ Len(deltas') = Len(deltas) /\ DOMAIN deltas' = DOMAIN deltas
         /\ \A j \in DOMAIN deltas : j # op.img => deltas'[j] = deltas[j]
         /\ disk' = disk /\ Files' /\ SavedId \in Uuid
         /\ deltas'[op.img].use = "v21" /\ deltas'[op.img].ext = Len(deltas[op.img].blk) + 1
         /\ deltas'[op.img].since = deltas[op.img].since
         /\ deltas'[op.img].blk = Append(deltas[op.img].blk, ExtBlock(SavedId, op.l1))
<1> DEFINE c == deltas[op.img]
           x == ExtBlock(SavedId, op.l1)
           f == [c EXCEPT !.blk = Append(@, x)]
<1>0. /\ op.pc = "save_ext" /\ UNCHANGED <<dev, since, kept, faults, torn>> /\ EndSave
      /\ Put(op.img, f)
  BY DEF SaveExt, SavedId
<1>1. Saving
  BY <1>0 DEF Saving
<1>2. /\ op.img \in DOMAIN deltas /\ c \in Delta /\ disk[op.img] \in Delta
      /\ FileOK(c, disk[op.img]) /\ c.blk \in Seq(Block) /\ op \in Op /\ op.l1 \in Seq(Nat)
  BY <1>1, Target
<1>3. /\ disk[op.img].use = "v20" /\ Len(disk[op.img].blk) <= Len(c.blk)
      /\ \A j \in DOMAIN op.l1 : op.l1[j] > 1 =>
           op.l1[j] - 1 \in DOMAIN c.blk /\ c.blk[op.l1[j] - 1].t = "bits"
      /\ c.use = "v21" /\ c.ext = Len(c.blk) + 1
      /\ op.raw = NoCbt => dev.id # None
  BY <1>0, <1>1 DEF FileInv, Extending
<1>4. SavedId \in Uuid /\ SavedId \in Id
  BY <1>3 DEF FileInv, Shape, Dev, Id, Control, SavedId
<1>5. x \in Block /\ x.t = "ext" /\ x.id = SavedId /\ x.l1 = op.l1
  BY <1>2, <1>4, NewBlocks
<1> HIDE DEF x
<1>6. /\ f \in Delta /\ f.use = c.use /\ f.ext = c.ext /\ f.map = c.map /\ f.since = c.since
      /\ f.blk = Append(c.blk, x)
  <2> DEFINE q == Append(c.blk, x)
  <2>1. q \in Seq(Block)
    BY <1>2, <1>5
  <2>2. f = [c EXCEPT !.blk = q]
    OBVIOUS
  <2> HIDE DEF q, f, c
  <2>3. /\ f \in Delta /\ f.use = c.use /\ f.ext = c.ext /\ f.map = c.map /\ f.since = c.since
        /\ f.blk = q
    BY <1>2, <2>1, <2>2, DeltaBlk
  <2> QED
    BY <2>1, <2>3, Zenon DEF q
<1> HIDE DEF f
<1>7. FileOK(f, disk[op.img])
  BY <1>2, <1>3, <1>4, <1>5, <1>6, FileAppend
<1>8. /\ deltas' \in Seq(Delta) /\ Len(deltas') = Len(deltas) /\ DOMAIN deltas' = DOMAIN deltas
      /\ deltas'[op.img] = f /\ (\A j \in DOMAIN deltas : j # op.img => deltas'[j] = deltas[j])
      /\ disk' = disk /\ Files'
  BY <1>0, <1>2, <1>6, <1>7, PutFiles
<1> QED
  BY <1>0, <1>1, <1>3, <1>4, <1>6, <1>8 DEF x

\* The extension block, the last step of a save: the files stay in order.
LEMMA SaveExtFile == FileInv /\ SaveExt => FileInv'
<1> SUFFICES ASSUME FileInv, SaveExt PROVE FileInv'
  OBVIOUS
<1>1. /\ op.pc = "save_ext" /\ Saving /\ EndSave /\ UNCHANGED <<dev, since, kept, faults, torn>>
      /\ deltas' \in Seq(Delta) /\ Len(deltas') = Len(deltas) /\ DOMAIN deltas' = DOMAIN deltas
      /\ \A j \in DOMAIN deltas : j # op.img => deltas'[j] = deltas[j]
  BY SaveExtEffect
<1>2. /\ disk' = disk /\ Files' /\ SavedId \in Uuid
      /\ deltas'[op.img].ext = Len(deltas[op.img].blk) + 1
      /\ deltas'[op.img].blk = Append(deltas[op.img].blk, ExtBlock(SavedId, op.l1))
  BY SaveExtEffect
<1>3. /\ op' \in Op /\ ~ Saving'
      /\ op.next = "end" => op' = NoOp
      /\ op.next # "end" => op'.pc \in {"uuid", "unlink", "stop"} /\ op'.pc = op.next /\ op'.raw = NoCbt
  BY <1>1, EndSaveEffect DEF FileInv
<1>4. Shape'
  BY <1>1, <1>2, <1>3 DEF FileInv, Shape
<1>5. Control'
  <2>0. dev.on => dev.top \in DOMAIN deltas' /\ deltas'[dev.top].use = "yes"
    BY <1>1 DEF FileInv, Control
  <2>1. CASE op.next = "end"
    BY <1>1, <1>3, <2>0, <2>1, IdleControl DEF FileInv, Control, Top
  <2>2. CASE op.next # "end"
    BY <1>1, <1>3, <2>0, <2>2 DEF FileInv, Control, Towards, Top
  <2> QED
    BY <2>1, <2>2
<1>6. Extending'
  BY <1>3 DEF Extending
<1>7. ExtNear'
  <2>1. deltas'[op.img].ext <= Len(deltas'[op.img].blk) + 1
    <3>1. deltas[op.img].blk \in Seq(Block) /\ op.l1 \in Seq(Nat)
      BY <1>1, Target
    <3>2. ExtBlock(SavedId, op.l1) \in Block
      BY <1>2, <3>1, NewBlocks DEF Id
    <3>3. Len(deltas'[op.img].blk) = Len(deltas[op.img].blk) + 1 /\ Len(deltas[op.img].blk) \in Nat
      BY <1>2, <3>1, <3>2, Appended
    <3> QED
      BY <1>2, <3>3
  <2>2. op'.pc # "start" /\ op.pc # "start"
    <3>1. NoOp.pc # "start"
      BY DEF NoOp
    <3> QED
      BY <1>1, <1>3, <3>1
  <2> QED
    BY <1>1, <2>1, <2>2 DEF FileInv, ExtNear, Top
<1> QED
  BY <1>2, <1>4, <1>5, <1>6, <1>7 DEF FileInv

\* Setting a uuid: nothing has changed since, and the other uuids are as before.
LEMMA SetSinceType == ASSUME Shape, NEW u \in Uuid
                      PROVE  /\ SetSince(u) \in Sinces /\ DOMAIN SetSince(u) = DOMAIN since \cup {u}
                             /\ SetSince(u)[u] = {}
                             /\ \A v \in DOMAIN since : v # u => SetSince(u)[v] = since[v]
<1>1. DOMAIN since \subseteq Uuid /\ \A v \in DOMAIN since : since[v] \in SUBSET Bits
  BY SinceDomain DEF Shape
<1>2. DOMAIN since \cup {u} \in SUBSET Uuid
  BY <1>1
<1>3. SetSince(u) \in [DOMAIN since \cup {u} -> SUBSET Bits]
  BY <1>1 DEF SetSince
<1>4. SetSince(u) \in Sinces
  BY <1>2, <1>3, SinceMember
<1> QED
  BY <1>4 DEF SetSince

\* The start of a save.
LEMMA SaveToOp == ASSUME op \in Op, NEW k \in Nat, NEW n \in {"end", "uuid", "unlink", "stop"},
                         NEW o, o = SaveTo(k, n)
                  PROVE  /\ o \in Op /\ o.pc = "save" /\ o.img = k /\ o.next = n /\ o.i = 1
                         /\ o.pos = 0 /\ o.got = {} /\ o.l1 = << >> /\ o.raw = op.raw /\ o.id = op.id
                         /\ o.or = op.or
<1> DEFINE e == << >>
           z == {}
<1>1. e \in Seq(Nat) /\ z \in SUBSET Bits /\ 1 \in Nat \ {0} /\ 0 \in Nat
  OBVIOUS
<1>2. o = [op EXCEPT !.pc = "save", !.img = k, !.next = n,
                              !.i = 1, !.pos = 0, !.got = z, !.l1 = e]
  BY Zenon DEF SaveTo
<1> HIDE DEF e, z
<1>3. /\ o \in Op /\ o.pc = "save" /\ o.img = k /\ o.next = n /\ o.i = 1 /\ o.pos = 0
      /\ o.l1 = e /\ o.raw = op.raw /\ o.id = op.id /\ o.or = op.or
  <2>1. o \in Op
    BY <1>1, <1>2 DEF Op
  <2>2. o.pc = "save" /\ o.img = k /\ o.next = n /\ o.i = 1
    BY <1>1, <1>2 DEF Op
  <2>3. o.pos = 0 /\ o.l1 = e
    BY <1>1, <1>2 DEF Op
  <2>4. o.raw = op.raw /\ o.id = op.id /\ o.or = op.or
    BY <1>1, <1>2 DEF Op
  <2> QED
    BY <2>1, <2>2, <2>3, <2>4
<1>4. o.got = z
  BY <1>1, <1>2 DEF Op
<1> QED
  BY <1>3, <1>4, Zenon DEF e, z

\* The operation that saves a bitmap read from another delta.
LEMMA SaveRawOp == ASSUME op \in Op, NEW k \in Nat, NEW n \in {"end", "uuid", "unlink", "stop"},
                          NEW r \in RawCbt, NEW p, p = SaveRawTo(k, n, r)
                   PROVE  /\ p \in Op /\ p.pc = "save" /\ p.img = k /\ p.next = n /\ p.i = 1
                          /\ p.l1 = << >> /\ p.raw = r /\ p.id = op.id /\ p.or = op.or
<1> DEFINE o == SaveTo(k, n)
           e == << >>
<1>1. /\ o \in Op /\ o.pc = "save" /\ o.img = k /\ o.next = n /\ o.i = 1
      /\ o.l1 = e /\ o.id = op.id /\ o.or = op.or
  BY SaveToOp
<1>2. p = [o EXCEPT !.raw = r]
  BY DEF SaveRawTo
<1> HIDE DEF o, e
<1>3. /\ p \in Op /\ p.pc = "save" /\ p.img = k /\ p.next = n /\ p.i = 1
      /\ p.l1 = e /\ p.raw = r /\ p.id = op.id /\ p.or = op.or
  BY <1>1, <1>2 DEF Op
<1> QED
  BY <1>3, Zenon DEF e

\* An element is added to a sequence, and the one before it replaced.
LEMMA AddedSeq == ASSUME NEW S, NEW s \in Seq(S), Len(s) > 0, NEW x \in S, NEW g \in S,
                         NEW t, t = Append([s EXCEPT ![Len(s)] = x], g)
                  PROVE  /\ t \in Seq(S) /\ Len(t) = Len(s) + 1
                         /\ DOMAIN t = DOMAIN s \cup {Len(s) + 1} /\ t[Len(s) + 1] = g
                         /\ t[Len(s)] = x /\ \A j \in DOMAIN s : j # Len(s) => t[j] = s[j]
<1> DEFINE r == [s EXCEPT ![Len(s)] = x]
<1>1. Len(s) \in DOMAIN s
  OBVIOUS
<1>2. /\ r \in Seq(S) /\ Len(r) = Len(s) /\ DOMAIN r = DOMAIN s /\ r[Len(s)] = x
      /\ \A j \in DOMAIN s : j # Len(s) => r[j] = s[j]
  BY <1>1, Replaced
<1> HIDE DEF r
<1>3. t = Append(r, g)
  BY DEF r
<1>4. /\ t \in Seq(S) /\ Len(t) = Len(r) + 1
      /\ DOMAIN t = DOMAIN r \cup {Len(r) + 1} /\ t[Len(r) + 1] = g
      /\ \A j \in DOMAIN r : t[j] = r[j]
  <2>1. r \in Seq(S)
    BY <1>2
  <2>2. /\ Append(r, g) \in Seq(S) /\ Len(Append(r, g)) = Len(r) + 1
        /\ DOMAIN Append(r, g) = DOMAIN r \cup {Len(r) + 1} /\ Append(r, g)[Len(r) + 1] = g
        /\ \A j \in DOMAIN r : Append(r, g)[j] = r[j]
    BY <2>1, Appended
  <2> QED
    BY <1>3, <2>2, Zenon
<1> QED
  BY <1>1, <1>2, <1>4

\* The start of an online snapshot: the files stay in order.
LEMMA CreateSnapshotFile == ASSUME NEW u \in Uuid \cup {None}, FileInv, CreateSnapshot(u)
                            PROVE  FileInv'
<1> USE DEF FileInv
<1>1. /\ op = NoOp /\ dev.on /\ dev.top = Top /\ UNCHANGED <<deltas, disk, kept, faults>>
      /\ op' = [NoOp EXCEPT !.id = u, !.pc = IF u # None /\ dev.id # None THEN "prepare" ELSE "ioctl"]
  BY DEF CreateSnapshot, CanSnapshot, Called
<1>2. /\ op' \in Op /\ op'.pc \in {"prepare", "ioctl"} /\ op'.raw = NoCbt
  <2>1. PICK pc \in {"prepare", "ioctl"} : op' = [NoOp EXCEPT !.id = u, !.pc = pc]
    BY <1>1
  <2>2. NoOp.raw = NoCbt
    BY DEF NoOp
  <2> QED
    BY <2>1, <2>2, NewTypes DEF Op, Id
<1>3. ~ Saving'
  BY <1>2 DEF Saving
<1>4. dev' \in Dev /\ dev'.on = dev.on /\ dev'.top = dev.top /\ since' \in Sinces
  <2>1. CASE u # None /\ dev.id = None
    <3>1. dev' = [dev EXCEPT !.id = u, !.bits = {}] /\ since' = SetSince(u) /\ u \in Uuid
      BY <2>1 DEF CreateSnapshot
    <3> QED
      BY <3>1, SetSinceType DEF Shape, Dev, Id
  <2>2. CASE ~ (u # None /\ dev.id = None)
    BY <2>2 DEF CreateSnapshot, Shape
  <2> QED
    BY <2>1, <2>2
<1>5. Shape'
  BY <1>1, <1>2, <1>4 DEF Shape
<1>6. Control'
  BY <1>1, <1>2, <1>3, <1>4 DEF Control, Towards, Top
<1>7. Files'
  BY <1>1, FilesSame
<1>8. Extending'
  BY <1>3 DEF Extending
<1>9. ExtNear'
  <2>1. op.pc # "start"
    BY <1>1 DEF NoOp
  <2> QED
    BY <1>1, <1>2, <2>1 DEF ExtNear, Top
<1> QED
  BY <1>5, <1>6, <1>7, <1>8, <1>9

\* One BLKCBTGET that clears what it returns: the files stay in order.
LEMMA SnapshotPrepareFile == FileInv /\ SnapshotPrepare => FileInv'
<1> SUFFICES ASSUME FileInv, SnapshotPrepare PROVE FileInv'
  OBVIOUS
<1> USE DEF FileInv
<1> DEFINE runs == Page(dev.bits, op.pos, NBits - 1)
<1>1. op \in Op /\ dev.bits \in SUBSET Bits /\ op.pos \in Nat /\ dev \in Dev
  BY DEF Shape, Op, Dev
<1>2. NBits - 1 \in Nat
  BY CbtAssumption
<1>3. /\ op' = [op EXCEPT !.or = @ \cup Covered(runs),
                       !.pos = IF Full(runs) THEN PageEnd(runs) ELSE @,
                       !.pc = IF Full(runs) THEN @ ELSE "ioctl"]
      /\ dev' = [dev EXCEPT !.bits = @ \ Covered(runs)]
      /\ op.pc = "prepare" /\ UNCHANGED <<deltas, disk, since, kept, faults>>
  BY DEF SnapshotPrepare
<1>4. /\ Covered(runs) \subseteq Bits
      /\ Full(runs) => PageEnd(runs) \in Nat
  BY <1>1, <1>2, BitsNat, PageCovers
<1> HIDE DEF runs
<1>5. /\ op' \in Op /\ op'.pc \in {"prepare", "ioctl"} /\ op'.raw = op.raw
  BY <1>1, <1>3, <1>4 DEF Op
<1>6. dev' \in Dev /\ dev'.on = dev.on /\ dev'.top = dev.top
  BY <1>1, <1>3 DEF Dev
<1>7. ~ Saving'
  BY <1>5 DEF Saving
<1>8. Shape'
  BY <1>3, <1>5, <1>6 DEF Shape
<1>9. Control'
  BY <1>3, <1>5, <1>6, <1>7 DEF Control, Towards, Top
<1>10. Files'
  BY <1>3, FilesSame
<1>11. Extending'
  BY <1>7 DEF Extending
<1>12. ExtNear'
  BY <1>3, <1>5 DEF ExtNear, Top
<1> QED
  BY <1>8, <1>9, <1>10, <1>11, <1>12

\* A file was added to the chain, and the one before it is now c, of which d
\* is synced.
Added(c, d, g) ==
  /\ deltas' \in Seq(Delta) /\ Len(deltas') = Len(deltas) + 1
  /\ DOMAIN deltas' = DOMAIN deltas \cup {Len(deltas) + 1}
  /\ deltas'[Len(deltas) + 1] = g /\ deltas'[Len(deltas)] = c
  /\ \A j \in DOMAIN deltas : j # Len(deltas) => deltas'[j] = deltas[j]
  /\ disk' \in Seq(Delta) /\ Len(disk') = Len(deltas) + 1
  /\ disk'[Len(deltas) + 1] = g /\ disk'[Len(deltas)] = d
  /\ \A j \in DOMAIN deltas : j # Len(deltas) => disk'[j] = disk[j]

\* The chain is never empty, and its files are in order.
LEMMA TopFile == ASSUME FileInv
                 PROVE  /\ Len(deltas) \in DOMAIN deltas /\ Len(deltas) \in Nat \ {0}
                        /\ Len(disk) = Len(deltas) /\ DOMAIN disk = DOMAIN deltas
                        /\ DOMAIN deltas = 1 .. Len(deltas)
                        /\ \A k \in DOMAIN deltas : /\ deltas[k] \in Delta /\ disk[k] \in Delta
                                                    /\ FileOK(deltas[k], disk[k])
                                                    /\ disk[k].since = deltas[k].since
<1>1. Len(deltas) > 0
  BY DEF FileInv, Control, Top
<1>2. deltas \in Seq(Delta) /\ disk \in Seq(Delta) /\ Len(disk) = Len(deltas)
  BY DEF FileInv, Shape
<1>3. /\ Len(deltas) \in DOMAIN deltas /\ Len(deltas) \in Nat \ {0}
      /\ DOMAIN disk = DOMAIN deltas /\ DOMAIN deltas = 1 .. Len(deltas)
      /\ \A k \in DOMAIN deltas : deltas[k] \in Delta /\ disk[k] \in Delta
  BY <1>1, <1>2
<1>4. \A k \in DOMAIN deltas : FileOK(deltas[k], disk[k]) /\ disk[k].since = deltas[k].since
  BY DEF FileInv, Files, FileOK
<1> QED
  BY <1>2, <1>3, <1>4

\* The files are in order when a new top delta is added.
LEMMA AddedFiles == ASSUME FileInv, NEW c, NEW d, NEW g, Added(c, d, g), FileOK(c, d), FileOK(g, g)
                    PROVE  Files' /\ Len(deltas') > 0 /\ Len(deltas)' = Len(deltas) + 1
<1>1. Len(deltas) > 0 /\ Len(deltas) \in Nat
  BY TopFile
<1>2. \A k \in DOMAIN deltas' : k \in DOMAIN deltas \/ k = Len(deltas) + 1
  BY DEF Added
<1>3. Files'
  <2> SUFFICES ASSUME NEW k \in DOMAIN deltas' PROVE FileOK(deltas'[k], disk'[k])
    BY DEF Files
  <2> QED
    BY <1>2 DEF Added, Files, FileInv
<1> QED
  BY <1>1, <1>3 DEF Added

\* What PLOOP_IOC_SNAPSHOT leaves: the old top closed, a dirty one above it.
LEMMA SnapshotIoctlEffect ==
  ASSUME FileInv, SnapshotIoctl
  PROVE  /\ op.pc = "ioctl" /\ op \in Op /\ dev.on /\ dev.top = Top
         /\ op.id = None => op' = NoOp /\ since' = since /\ kept' = kept
         /\ op.id # None => /\ op.id \in Uuid /\ op' \in Op /\ op'.pc = "cbt" /\ op'.raw = op.raw
                            /\ op'.id = op.id /\ op'.or = op.or
                            /\ since' = SetSince(op.id) /\ kept' = op.id
         /\ faults' = faults /\ torn' = torn
         /\ dev' \in Dev /\ dev'.on /\ dev'.top = Len(deltas) + 1 /\ dev'.id = dev.id
         /\ dev'.bits = dev.bits
         /\ Files' /\ Len(deltas') > 0
         /\ \E c \in Delta, g \in Delta :
              /\ Added(c, c, g) /\ c.use = "v20" /\ c.since = since
              /\ g.use = "yes" /\ g.since = << >>
<1> USE DEF FileInv
<1> DEFINE c == [deltas[Top] EXCEPT !.use = "v20", !.since = since]
           g == [NewDelta EXCEPT !.use = "yes"]
<1>1. /\ op.pc = "ioctl" /\ dev' = [dev EXCEPT !.top = @ + 1]
      /\ op' = IF op.id = None THEN NoOp ELSE [op EXCEPT !.pc = "cbt"]
      /\ since' = IF op.id = None THEN since ELSE SetSince(op.id)
      /\ kept' = (IF op.id = None THEN kept ELSE op.id) /\ faults' = faults /\ torn' = torn
      /\ deltas' = Append([deltas EXCEPT ![Top] = c], g)
      /\ disk' = Append([disk EXCEPT ![Top] = c], g)
  BY DEF SnapshotIoctl
<1>2. /\ Len(deltas) \in DOMAIN deltas /\ Len(deltas) \in Nat \ {0}
      /\ deltas[Top] \in Delta /\ disk[Top] \in Delta /\ FileOK(deltas[Top], disk[Top])
      /\ Top = Len(deltas) /\ Len(disk) = Len(deltas) /\ Len(deltas) > 0
      /\ deltas \in Seq(Delta) /\ disk \in Seq(Delta)
  BY TopFile DEF Top, Shape
<1>3. c \in Delta /\ c.use = "v20" /\ c.since = since /\ c.map = deltas[Top].map
      /\ c.blk = deltas[Top].blk
  BY <1>2 DEF Delta, Shape
<1>4. g \in Delta /\ g.use = "yes" /\ g.map = {} /\ g.blk = << >> /\ g.since = << >>
  BY NewTypes DEF NewDelta
<1> HIDE DEF c, g
<1>5. FileOK(c, c)
  BY <1>2, <1>3, FileClosed
<1>6. FileOK(g, g)
  BY <1>4, FileNew
<1>7. Added(c, c, g)
  <2>1. /\ deltas' \in Seq(Delta) /\ Len(deltas') = Len(deltas) + 1
        /\ DOMAIN deltas' = DOMAIN deltas \cup {Len(deltas) + 1} /\ deltas'[Len(deltas) + 1] = g
        /\ deltas'[Len(deltas)] = c /\ \A j \in DOMAIN deltas : j # Len(deltas) => deltas'[j] = deltas[j]
    BY <1>1, <1>2, <1>3, <1>4, AddedSeq
  <2>2. /\ disk' \in Seq(Delta) /\ Len(disk') = Len(disk) + 1
        /\ disk'[Len(disk) + 1] = g
        /\ disk'[Len(disk)] = c /\ \A j \in DOMAIN disk : j # Len(disk) => disk'[j] = disk[j]
    BY <1>1, <1>2, <1>3, <1>4, AddedSeq
  <2> QED
    BY <1>2, <2>1, <2>2 DEF Added
<1>8. Files' /\ Len(deltas') > 0
  BY <1>5, <1>6, <1>7, AddedFiles
<1>9. dev.on /\ dev.top = Top /\ dev \in Dev /\ op \in Op
  BY <1>1 DEF Control, Shape
<1>10. dev' \in Dev /\ dev'.on /\ dev'.top = Len(deltas) + 1 /\ dev'.id = dev.id
       /\ dev'.bits = dev.bits
  <2>1. dev' = [dev EXCEPT !.top = @ + 1] /\ dev \in Dev /\ dev.on
    BY <1>1, <1>9
  <2>2. dev.top = Len(deltas) /\ Len(deltas) \in Nat
    BY <1>2, <1>9
  <2> QED
    BY <2>1, <2>2 DEF Dev
<1>11. op.id = None => op' = NoOp /\ since' = since /\ kept' = kept
  BY <1>1
<1>12. op.id # None => /\ op.id \in Uuid /\ op' \in Op /\ op'.pc = "cbt" /\ op'.raw = op.raw
                       /\ op'.id = op.id /\ op'.or = op.or
                       /\ since' = SetSince(op.id) /\ kept' = op.id
  <2> SUFFICES ASSUME op.id # None
               PROVE  /\ op.id \in Uuid /\ op' \in Op /\ op'.pc = "cbt" /\ op'.raw = op.raw
                      /\ op'.id = op.id /\ op'.or = op.or
                      /\ since' = SetSince(op.id) /\ kept' = op.id
    OBVIOUS
  <2>1. op' = [op EXCEPT !.pc = "cbt"] /\ since' = SetSince(op.id) /\ kept' = op.id
    BY <1>1
  <2>2. op.id \in Uuid
    BY <1>9 DEF Op, Id
  <2>3. op' \in Op /\ op'.pc = "cbt" /\ op'.raw = op.raw /\ op'.id = op.id /\ op'.or = op.or
    BY <1>9, <2>1 DEF Op
  <2> QED
    BY <2>1, <2>2, <2>3
<1>13. \E c1 \in Delta, g1 \in Delta :
         /\ Added(c1, c1, g1) /\ c1.use = "v20" /\ c1.since = since
         /\ g1.use = "yes" /\ g1.since = << >>
  BY <1>3, <1>4, <1>7
<1> QED
  BY <1>1, <1>8, <1>9, <1>10, <1>11, <1>12, <1>13

\* PLOOP_IOC_SNAPSHOT, which freezes the top delta: the files stay in order.
LEMMA SnapshotIoctlFile == FileInv /\ SnapshotIoctl => FileInv'
<1> SUFFICES ASSUME FileInv, SnapshotIoctl PROVE FileInv'
  OBVIOUS
<1> USE DEF FileInv
<1>1. /\ op.pc = "ioctl" /\ faults' = faults /\ op \in Op /\ Files' /\ Len(deltas') > 0
      /\ dev' \in Dev /\ dev'.on /\ dev'.top = Len(deltas) + 1
      /\ op.id = None => op' = NoOp /\ since' = since /\ kept' = kept
      /\ op.id # None => /\ op.id \in Uuid /\ op' \in Op /\ op'.pc = "cbt" /\ op'.raw = op.raw
                         /\ since' = SetSince(op.id) /\ kept' = op.id
  BY SnapshotIoctlEffect
<1>2. PICK c \in Delta, g \in Delta : /\ Added(c, c, g) /\ c.use = "v20" /\ c.since = since
                                      /\ g.use = "yes" /\ g.since = << >>
  BY SnapshotIoctlEffect
<1>3. Len(deltas) \in DOMAIN deltas /\ Len(deltas) \in Nat \ {0} /\ Top = Len(deltas)
  BY TopFile DEF Top
<1>11. CASE op.id = None
  <2>1. op' = NoOp /\ since' = since /\ kept' = kept
    BY <1>1, <1>11
  <2>2. Shape'
    BY <1>1, <1>2, <2>1, NewTypes DEF Shape, Added
  <2>3. Control' /\ Extending'
    BY <1>1, <1>2, <2>1, IdleControl DEF Added
  <2>4. ExtNear'
    <3>1. NoOp.pc # "start"
      BY DEF NoOp
    <3> QED
      BY <1>1, <1>2, <1>3, <2>1, <3>1 DEF ExtNear, Added, Top
  <2> QED
    BY <1>1, <2>2, <2>3, <2>4
<1>12. CASE op.id # None
  <2>1. /\ op' \in Op /\ op'.pc = "cbt" /\ op'.raw = op.raw /\ since' = SetSince(op.id)
        /\ kept' = op.id /\ op.id \in Uuid
    BY <1>1, <1>12
  <2>4. Shape'
    BY <1>1, <1>2, <2>1, SetSinceType DEF Shape, Added, Id
  <2>5. ~ Saving'
    BY <2>1 DEF Saving
  <2>9. /\ Len(deltas') > 1 /\ Len(deltas') - 1 = Len(deltas)
        /\ deltas'[Len(deltas)] = c /\ disk'[Len(deltas)] = c
        /\ deltas'[Len(deltas) + 1].use = "yes" /\ Len(deltas) + 1 \in DOMAIN deltas'
        /\ Len(deltas') = Len(deltas) + 1
    BY <1>2, <1>3 DEF Added
  <2>10. op.raw = NoCbt
    BY <1>1 DEF Control
  <2>6. Control'
    BY <1>1, <1>2, <2>1, <2>5, <2>9, <2>10 DEF Control, Towards, Top
  <2>7. Extending'
    BY <2>5 DEF Extending
  <2>8. ExtNear'
    BY <1>1, <1>2, <1>3, <2>1 DEF ExtNear, Added, Top
  <2> QED
    BY <1>1, <2>4, <2>6, <2>7, <2>8
<1> QED
  BY <1>11, <1>12

\* A save begins with a file that was just closed.
LEMMA SaveBegins ==
  ASSUME op'.pc = "save", op'.l1 = << >>, op'.i = 1,
         disk'[op'.img] = deltas'[op'.img], deltas'[op'.img].use = "v20",
         deltas'[op'.img].blk \in Seq(Block)
  PROVE  Saving' /\ Extending'
<1>1. Saving'
  BY DEF Saving
<1>2. \A j \in DOMAIN op'.l1 : FALSE
  OBVIOUS
<1> QED
  BY <1>1, <1>2 DEF Extending

\* cbt_snapshot, which saves into the frozen delta: the files stay in order.
LEMMA CbtSnapshotFile == FileInv /\ CbtSnapshot => FileInv'
<1> SUFFICES ASSUME FileInv, CbtSnapshot PROVE FileInv'
  OBVIOUS
<1> USE DEF FileInv
<1>1. /\ op.pc = "cbt" /\ op' = (IF dev.id = op.id THEN NoOp ELSE SaveTo(Top - 1, "uuid"))
      /\ UNCHANGED <<deltas, disk, dev, since, kept, faults>>
  BY DEF CbtSnapshot
<1>2. Files'
  BY <1>1, FilesSame
<1>3. CASE dev.id = op.id
  <2>1. op' = NoOp
    BY <1>1, <1>3
  <2>2. Shape'
    BY <1>1, <2>1, NewTypes DEF Shape
  <2>3. Control' /\ Extending'
    BY <1>1, <2>1, IdleControl DEF Control, Top
  <2>4. ExtNear'
    BY <1>1 DEF ExtNear, Top
  <2> QED
    BY <1>2, <2>2, <2>3, <2>4
<1>4. CASE dev.id # op.id
  <2>0. op' = SaveTo(Top - 1, "uuid")
    BY <1>1, <1>4
  <2>1. dev.on /\ dev.top = Top /\ Top > 1 /\ Top - 1 \in DOMAIN deltas /\ Top \in Nat
        /\ disk[Top - 1] = deltas[Top - 1] /\ deltas[Top - 1].use = "v20" /\ op \in Op
        /\ Top - 1 \in Nat
    <3>1. dev.on /\ dev.top = Top /\ Top > 1 /\ disk[Top - 1] = deltas[Top - 1]
          /\ deltas[Top - 1].use = "v20"
      BY <1>1 DEF Control
    <3>2. Top \in Nat /\ DOMAIN deltas = 1 .. Top /\ op \in Op
      BY TopFile DEF Top, Shape
    <3> QED
      BY <3>1, <3>2
  <2>2. /\ op' \in Op /\ op'.pc = "save" /\ op'.img = Top - 1 /\ op'.next = "uuid" /\ op'.i = 1
        /\ op'.l1 = << >> /\ op'.raw = op.raw
    BY <2>0, <2>1, SaveToOp
  <2>3. deltas[Top - 1].blk \in Seq(Block)
    BY <2>1, TopFile DEF Delta
  <2>4. Saving' /\ Extending'
    BY <1>1, <2>1, <2>2, <2>3, SaveBegins
  <2>5. Shape'
    BY <1>1, <2>2 DEF Shape
  <2>6. op.raw = NoCbt
    BY <1>1 DEF Control
  <2>7. Control'
    BY <1>1, <2>1, <2>2, <2>4, <2>6 DEF Control, Towards, Top
  <2>8. ExtNear'
    BY <1>1, <2>2 DEF ExtNear, Top
  <2> QED
    BY <1>2, <2>4, <2>5, <2>7, <2>8
<1> QED
  BY <1>3, <1>4

\* The tracker of the device gets its new uuid: the files stay in order.
LEMMA SetUuidFile == FileInv /\ SetUuid => FileInv'
<1> SUFFICES ASSUME FileInv, SetUuid PROVE FileInv'
  OBVIOUS
<1> USE DEF FileInv
<1>1. /\ op.pc = "uuid" /\ op' = NoOp /\ dev' = [dev EXCEPT !.id = op.id]
      /\ UNCHANGED <<deltas, disk, since, kept, faults>>
  BY DEF SetUuid
<1>2. dev' \in Dev /\ dev'.on = dev.on /\ dev'.top = dev.top
  BY <1>1 DEF Shape, Dev, Op
<1>3. Shape'
  BY <1>1, <1>2, NewTypes DEF Shape
<1>4. Control' /\ Extending'
  BY <1>1, <1>2, IdleControl DEF Control, Top
<1>5. ExtNear' /\ Files'
  BY <1>1, FilesSame DEF ExtNear, Top
<1> QED
  BY <1>3, <1>4, <1>5

\* What the three offline snapshots have in common: a new file, and a save to
\* it or nothing.
LEMMA AddedInv ==
  ASSUME FileInv, op = NoOp, NEW c \in Delta, NEW d \in Delta, FileOK(c, d), Added(c, d, NewDelta),
         c.use = deltas[Top].use, c.ext = deltas[Top].ext, c.blk = deltas[Top].blk,
         UNCHANGED <<dev, faults>>, since' \in Sinces, kept' \in Id, op' \in Op,
         \/ op' = NoOp
         \/ /\ op'.pc = "save" /\ op'.l1 = << >> /\ op'.i = 1 /\ op'.img = Top + 1
            /\ op'.next = "end"
            /\ op'.raw = NoCbt \/ (op'.raw.id \in Uuid /\ ~ dev.on)
  PROVE  FileInv'
<1> USE DEF FileInv
<1>1. /\ Len(deltas) \in DOMAIN deltas /\ Len(deltas) \in Nat \ {0} /\ Top = Len(deltas)
      /\ DOMAIN deltas = 1 .. Len(deltas)
  BY TopFile DEF Top
<1>2. NewDelta \in Delta /\ NewDelta.use = "v20" /\ NewDelta.blk = << >> /\ NewDelta.map = {}
      /\ << >> \in Seq(Block)
  BY NewTypes DEF NewDelta
<1>3. FileOK(NewDelta, NewDelta)
  BY <1>2, FileNew
<1>4. Files' /\ Len(deltas') > 0
  BY <1>3, AddedFiles
<1>5. Shape'
  BY DEF Shape, Added
<1>6. dev.on => /\ dev.top \in DOMAIN deltas' /\ deltas'[dev.top].use = "yes"
                /\ dev.top # Len(deltas) + 1
  <2>1. dev.on => dev.top \in DOMAIN deltas /\ deltas[dev.top].use = "yes"
    BY DEF Control
  <2> QED
    BY <1>1, <2>1 DEF Added
<1>7. Control' /\ Extending'
  <2>1. CASE op' = NoOp
    BY <1>4, <1>6, <2>1, IdleControl
  <2>2. CASE op' # NoOp
    <3>1. Saving' /\ Extending'
      <4>1. disk'[op'.img] = deltas'[op'.img] /\ deltas'[op'.img] = NewDelta
        BY <1>1, <2>2 DEF Added
      <4> QED
        BY <1>2, <2>2, <4>1, SaveBegins
    <3>2. Top' = Top + 1 /\ Top + 1 \in DOMAIN deltas'
      BY <1>1 DEF Added, Top
    <3> QED
      BY <1>1, <1>4, <1>6, <2>2, <3>1, <3>2 DEF Control, Towards, Top
  <2> QED
    BY <2>1, <2>2
<1>8. ExtNear'
  <2>1. op.pc # "start" /\ op'.pc # "start"
    <3>1. NoOp.pc # "start"
      BY DEF NoOp
    <3> QED
      BY <3>1
  <2>2. \A k \in DOMAIN deltas : deltas'[k].use = deltas[k].use /\ deltas'[k].ext = deltas[k].ext
                                 /\ deltas'[k].blk = deltas[k].blk
    BY <1>1 DEF Added
  <2>3. \A k \in DOMAIN deltas' : k \in DOMAIN deltas \/ deltas'[k].use = "v20"
    BY <1>2 DEF Added
  <2> QED
    BY <2>1, <2>2, <2>3 DEF ExtNear
<1> QED
  BY <1>4, <1>5, <1>7, <1>8

\* An offline snapshot records what was written when the old top was frozen.
LEMMA SinceAdded ==
  ASSUME FileInv, AddDelta
  PROVE  /\ Frozen(deltas[Top]) \in Delta /\ Frozen(disk[Top]) \in Delta
         /\ FileOK(Frozen(deltas[Top]), Frozen(disk[Top]))
         /\ Added(Frozen(deltas[Top]), Frozen(disk[Top]), NewDelta)
         /\ Frozen(deltas[Top]).use = deltas[Top].use
         /\ Frozen(deltas[Top]).ext = deltas[Top].ext
         /\ Frozen(deltas[Top]).blk = deltas[Top].blk
         /\ Frozen(deltas[Top]).since = since
<1>1. /\ Len(deltas) \in DOMAIN deltas /\ Len(deltas) > 0 /\ Len(disk) = Len(deltas)
      /\ Top = Len(deltas) /\ DOMAIN disk = DOMAIN deltas
      /\ deltas[Top] \in Delta /\ disk[Top] \in Delta /\ FileOK(deltas[Top], disk[Top])
  <2>1. \A n \in Nat \ {0} : n > 0
    OBVIOUS
  <2> QED
    BY <2>1, TopFile, Zenon DEF Top
<1>2. deltas \in Seq(Delta) /\ disk \in Seq(Delta) /\ since \in Sinces /\ NewDelta \in Delta
  BY NewTypes, Zenon DEF FileInv, Shape
<1>3. ASSUME NEW f \in Delta
      PROVE  /\ Frozen(f) \in Delta /\ Frozen(f).use = f.use /\ Frozen(f).ext = f.ext
             /\ Frozen(f).blk = f.blk /\ Frozen(f).map = f.map /\ Frozen(f).since = since
  BY <1>2 DEF Delta, Frozen
<1>5. FileOK(Frozen(deltas[Top]), Frozen(disk[Top]))
  <2>1. ASSUME NEW c \in Delta, NEW d \in Delta, FileOK(c, d) PROVE FileOK(Frozen(c), Frozen(d))
    BY <1>3, <2>1, FileSince
  <2> QED
    BY <1>1, <2>1, Zenon
<1>4. Frozen(deltas[Top]) \in Delta /\ Frozen(disk[Top]) \in Delta
  BY <1>1, <1>3
<1> DEFINE c == Frozen(deltas[Top])
           d == Frozen(disk[Top])
           g == NewDelta
<1>9. /\ deltas' = Append([deltas EXCEPT ![Len(deltas)] = c], g)
      /\ disk' = Append([disk EXCEPT ![Len(disk)] = d], g)
  BY <1>1, Zenon DEF AddDelta
<1>10. c \in Delta /\ d \in Delta /\ g \in Delta
  BY <1>2, <1>4
<1> HIDE DEF c, d, g
<1>6. /\ deltas' \in Seq(Delta) /\ Len(deltas') = Len(deltas) + 1
      /\ DOMAIN deltas' = DOMAIN deltas \cup {Len(deltas) + 1} /\ deltas'[Len(deltas) + 1] = g
      /\ deltas'[Len(deltas)] = c
      /\ \A j \in DOMAIN deltas : j # Len(deltas) => deltas'[j] = deltas[j]
  <2>1. deltas \in Seq(Delta) /\ Len(deltas) > 0
    BY <1>1, <1>2
  <2>2. deltas' = Append([deltas EXCEPT ![Len(deltas)] = c], g)
    BY <1>9
  <2> QED
    BY <1>10, <2>1, <2>2, AddedSeq
<1>7. /\ disk' \in Seq(Delta) /\ Len(disk') = Len(disk) + 1
      /\ disk'[Len(disk) + 1] = g /\ disk'[Len(disk)] = d
      /\ \A j \in DOMAIN disk : j # Len(disk) => disk'[j] = disk[j]
  <2>1. disk \in Seq(Delta) /\ Len(disk) > 0
    BY <1>1, <1>2
  <2>2. disk' = Append([disk EXCEPT ![Len(disk)] = d], g)
    BY <1>9
  <2> QED
    BY <1>10, <2>1, <2>2, AddedSeq
<1>8. Added(Frozen(deltas[Top]), Frozen(disk[Top]), NewDelta)
  BY <1>1, <1>6, <1>7, Zenon DEF Added, c, d, g
<1> QED
  BY <1>1, <1>3, <1>5, <1>8, Zenon

\* An offline snapshot with a uuid: what it changes.
LEMMA OfflineSnapshotEffect ==
  ASSUME NEW u \in Uuid, FileInv, OfflineSnapshot(u)
  PROVE  /\ op = NoOp /\ ~ dev.on /\ since' = SetSince(u) /\ kept' = u
         /\ UNCHANGED <<dev, faults, torn>> /\ AddDelta /\ since' \in Sinces
         /\ op' \in Op /\ op'.pc = "save" /\ op'.l1 = << >> /\ op'.i = 1 /\ op'.img = Top + 1
         /\ op'.next = "end" /\ op'.raw.id = u /\ op'.raw.parts = << >>
         /\ op'.id = None /\ op'.or = {}
<1>1. /\ op = NoOp /\ ~ dev.on /\ since' = SetSince(u) /\ kept' = u /\ UNCHANGED <<dev, faults, torn>>
      /\ AddDelta
      /\ op' = [NoOp EXCEPT !.pc = "save", !.img = Top + 1, !.next = "end",
                        !.raw = [id |-> u, parts |-> << >>]]
  BY DEF OfflineSnapshot, CanSnapshot, Called
<1>3. since' \in Sinces
  BY <1>1, SetSinceType DEF FileInv
<1>4. /\ op' \in Op /\ op'.pc = "save" /\ op'.l1 = << >> /\ op'.i = 1 /\ op'.img = Top + 1
      /\ op'.next = "end" /\ op'.raw.id = u /\ op'.raw.parts = << >>
      /\ op'.id = None /\ op'.or = {}
  <2> DEFINE r == [id |-> u, parts |-> << >>]
             k == Top + 1
  <2>1. << >> \in Seq(Part)
    OBVIOUS
  <2>2. r \in RawCbt /\ r.id = u /\ r.parts = << >>
    BY <2>1 DEF RawCbt, Id
  <2>3. k \in Nat
    BY TopFile DEF Top
  <2>4. op' = [NoOp EXCEPT !.pc = "save", !.img = k, !.next = "end", !.raw = r]
    BY <1>1, Zenon
  <2> HIDE DEF r, k
  <2>5. NoOp \in Op /\ NoOp.l1 = << >> /\ NoOp.i = 1 /\ NoOp.id = None /\ NoOp.or = {}
    BY NewTypes DEF NoOp
  <2>6. op' \in Op /\ op'.pc = "save" /\ op'.img = k /\ op'.next = "end" /\ op'.raw = r
        /\ op'.l1 = NoOp.l1 /\ op'.i = NoOp.i /\ op'.id = NoOp.id /\ op'.or = NoOp.or
    BY <2>2, <2>3, <2>4, <2>5 DEF Op
  <2> QED
    BY <2>2, <2>5, <2>6 DEF k
<1> QED
  BY <1>1, <1>3, <1>4

\* An offline snapshot with a uuid: the files stay in order.
LEMMA OfflineSnapshotFile == ASSUME NEW u \in Uuid, FileInv, OfflineSnapshot(u) PROVE FileInv'
<1> DEFINE c == Frozen(deltas[Top])
           d == Frozen(disk[Top])
<1> HIDE DEF c, d
<1>1. /\ op = NoOp /\ ~ dev.on /\ since' \in Sinces /\ kept' \in Id /\ UNCHANGED <<dev, faults>>
      /\ AddDelta /\ op' \in Op /\ op'.pc = "save" /\ op'.l1 = << >> /\ op'.i = 1
      /\ op'.img = Top + 1 /\ op'.next = "end" /\ op'.raw.id \in Uuid
  BY OfflineSnapshotEffect DEF Id
<1>2. /\ c \in Delta /\ d \in Delta /\ FileOK(c, d) /\ Added(c, d, NewDelta)
      /\ c.use = deltas[Top].use /\ c.ext = deltas[Top].ext /\ c.blk = deltas[Top].blk
  BY <1>1, SinceAdded DEF c, d
<1> QED
  BY <1>1, <1>2, AddedInv

\* A bitmap that was loaded from a file has a uuid.
LEMMA RawId == ASSUME FileInv, NEW k \in DOMAIN deltas, Loadable(deltas[k])
               PROVE  Raw(deltas[k]) \in RawCbt /\ Raw(deltas[k]).id \in Uuid
<1>1. deltas[k] \in Delta /\ FileOK(deltas[k], disk[k]) /\ HasExt(deltas[k]) /\ L1Readable(deltas[k])
  BY TopFile DEF Loadable
<1>2. Raw(deltas[k]) \in RawCbt /\ Raw(deltas[k]).id = deltas[k].blk[deltas[k].ext].id
  BY <1>1, RawType, Zenon
<1>3. deltas[k].blk[deltas[k].ext].id \in Uuid
  BY <1>1 DEF HasExt, FileOK, ExtBlocks
<1> QED
  BY <1>2, <1>3

\* An offline snapshot that moves the bitmap to the new top: what it changes.
LEMMA OfflineSnapshotMoveEffect ==
  ASSUME FileInv, OfflineSnapshotMove
  PROVE  /\ op = NoOp /\ ~ dev.on /\ UNCHANGED <<dev, faults, since, kept, torn>> /\ AddDelta
         /\ \/ op' = NoOp /\ NothingToLoad(deltas[Top])
            \/ /\ Loadable(deltas[Top]) /\ Raw(deltas[Top]) \in RawCbt /\ Raw(deltas[Top]).id \in Uuid
               /\ op' \in Op /\ op'.pc = "save" /\ op'.l1 = << >> /\ op'.i = 1 /\ op'.img = Top + 1
               /\ op'.next = "end" /\ op'.raw = Raw(deltas[Top]) /\ op'.id = None /\ op'.or = {}
<1>1. /\ op = NoOp /\ ~ dev.on /\ UNCHANGED <<dev, faults, since, kept, torn>>
      /\ AddDelta
      /\ NothingToLoad(deltas[Top]) \/ Loadable(deltas[Top])
      /\ op' = IF NothingToLoad(deltas[Top]) THEN NoOp
               ELSE SaveRawTo(Top + 1, "end", Raw(deltas[Top]))
  BY DEF OfflineSnapshotMove, CanSnapshot, Called
<1>4. CASE NothingToLoad(deltas[Top])
  BY <1>1, <1>4
<1>5. CASE ~ NothingToLoad(deltas[Top])
  <2>1. Raw(deltas[Top]) \in RawCbt /\ Raw(deltas[Top]).id \in Uuid
    BY <1>1, <1>5, TopFile, RawId DEF Top
  <2>2. Top + 1 \in Nat /\ op \in Op /\ "end" \in {"end", "uuid", "unlink", "stop"}
    BY TopFile DEF Top, FileInv, Shape
  <2>3. op' = SaveRawTo(Top + 1, "end", Raw(deltas[Top]))
    BY <1>1, <1>5
  <2>4. /\ op' \in Op /\ op'.pc = "save" /\ op'.l1 = << >> /\ op'.i = 1 /\ op'.img = Top + 1
        /\ op'.next = "end" /\ op'.raw = Raw(deltas[Top]) /\ op'.id = op.id /\ op'.or = op.or
    <3> DEFINE k == Top + 1
               r == Raw(deltas[Top])
               n == "end"
    <3>1. op' = SaveRawTo(k, n, r) /\ k \in Nat /\ r \in RawCbt
          /\ n \in {"end", "uuid", "unlink", "stop"} /\ op \in Op
      BY <2>1, <2>2, <2>3
    <3> HIDE DEF k, r, n
    <3>2. /\ op' \in Op /\ op'.pc = "save" /\ op'.l1 = << >> /\ op'.i = 1 /\ op'.img = k
          /\ op'.next = n /\ op'.raw = r /\ op'.id = op.id /\ op'.or = op.or
      BY <3>1, SaveRawOp
    <3> QED
      BY <3>2 DEF k, r, n
  <2>5. op.id = None /\ op.or = {}
    BY <1>1 DEF NoOp
  <2>6. Loadable(deltas[Top])
    BY <1>1, <1>5
  <2> QED
    BY <1>1, <2>1, <2>4, <2>5, <2>6
<1> QED
  BY <1>4, <1>5

\* An offline snapshot that moves the bitmap to the new top: the files stay in order.
LEMMA OfflineSnapshotMoveFile == ASSUME FileInv, OfflineSnapshotMove PROVE FileInv'
<1> DEFINE c == Frozen(deltas[Top])
           d == Frozen(disk[Top])
<1> HIDE DEF c, d
<1>1. /\ op = NoOp /\ ~ dev.on /\ UNCHANGED <<dev, faults, since, kept>> /\ AddDelta
      /\ \/ op' = NoOp
         \/ /\ op' \in Op /\ op'.pc = "save" /\ op'.l1 = << >> /\ op'.i = 1 /\ op'.img = Top + 1
            /\ op'.next = "end" /\ op'.raw.id \in Uuid
  BY OfflineSnapshotMoveEffect
<1>2. /\ c \in Delta /\ d \in Delta /\ FileOK(c, d) /\ Added(c, d, NewDelta)
      /\ c.use = deltas[Top].use /\ c.ext = deltas[Top].ext /\ c.blk = deltas[Top].blk
  BY <1>1, SinceAdded DEF c, d
<1>3. since' \in Sinces /\ kept' \in Id /\ op' \in Op
  BY <1>1, NewTypes DEF FileInv, Shape
<1> QED
  BY <1>1, <1>2, <1>3, AddedInv

\* An offline snapshot of a running device: what it changes.
LEMMA OfflineSnapshotDumpEffect ==
  ASSUME FileInv, OfflineSnapshotDump
  PROVE  /\ op = NoOp /\ dev.on /\ dev.top = Top /\ UNCHANGED <<dev, faults, since, kept>>
         /\ torn' = IF dev.id = None THEN torn ELSE torn \cup {"dumped"}
         /\ Added(deltas[Top], disk[Top], NewDelta)
         /\ op' \in Op /\ op'.pc = "save" /\ op'.l1 = << >> /\ op'.i = 1 /\ op'.img = Top + 1
         /\ op'.next = "end" /\ op'.raw = NoCbt /\ op'.id = None /\ op'.or = {}
<1>1. /\ op = NoOp /\ dev.on /\ dev.top = Top /\ UNCHANGED <<dev, faults, since, kept>>
      /\ deltas' = Append(deltas, NewDelta) /\ disk' = Append(disk, NewDelta)
      /\ op' = SaveTo(Top + 1, "end")
      /\ torn' = IF dev.id = None THEN torn ELSE torn \cup {"dumped"}
  BY DEF OfflineSnapshotDump, CanSnapshot, Called
<1>2. /\ Top \in DOMAIN deltas /\ Len(disk) = Len(deltas) /\ Top = Len(deltas)
      /\ DOMAIN disk = DOMAIN deltas /\ Top + 1 \in Nat
  BY TopFile DEF Top
<1>3. deltas \in Seq(Delta) /\ disk \in Seq(Delta) /\ NewDelta \in Delta /\ op \in Op
  BY <1>1, NewTypes DEF FileInv, Shape
<1>4. /\ deltas' \in Seq(Delta) /\ Len(deltas') = Len(deltas) + 1
      /\ DOMAIN deltas' = DOMAIN deltas \cup {Len(deltas) + 1}
      /\ deltas'[Len(deltas) + 1] = NewDelta /\ \A j \in DOMAIN deltas : deltas'[j] = deltas[j]
  BY <1>1, <1>3, Appended
<1>5. /\ disk' \in Seq(Delta) /\ Len(disk') = Len(disk) + 1
      /\ disk'[Len(disk) + 1] = NewDelta /\ \A j \in DOMAIN disk : disk'[j] = disk[j]
  BY <1>1, <1>3, Appended
<1>6. Added(deltas[Top], disk[Top], NewDelta)
  BY <1>2, <1>4, <1>5 DEF Added
<1>7. /\ op' \in Op /\ op'.pc = "save" /\ op'.l1 = << >> /\ op'.i = 1 /\ op'.img = Top + 1
      /\ op'.next = "end" /\ op'.raw = op.raw /\ op'.id = op.id /\ op'.or = op.or
  BY <1>1, <1>2, <1>3, SaveToOp
<1>8. op.raw = NoCbt /\ op.id = None /\ op.or = {}
  BY <1>1 DEF NoOp
<1> QED
  BY <1>1, <1>6, <1>7, <1>8

\* An offline snapshot of a running device: the files stay in order.
LEMMA OfflineSnapshotDumpFile == ASSUME FileInv, OfflineSnapshotDump PROVE FileInv'
<1>1. /\ op = NoOp /\ UNCHANGED <<dev, faults, since, kept>> /\ Added(deltas[Top], disk[Top], NewDelta)
      /\ op' \in Op /\ op'.pc = "save" /\ op'.l1 = << >> /\ op'.i = 1 /\ op'.img = Top + 1
      /\ op'.next = "end" /\ op'.raw = NoCbt
  BY OfflineSnapshotDumpEffect
<1>2. deltas[Top] \in Delta /\ disk[Top] \in Delta /\ FileOK(deltas[Top], disk[Top])
  BY TopFile DEF Top
<1>3. since' \in Sinces /\ kept' \in Id
  BY <1>1 DEF FileInv, Shape
<1> QED
  BY <1>1, <1>2, <1>3, AddedInv

\* The file with the data of its child keeps all of its clusters.
LEMMA MergedFile ==
  ASSUME NEW c \in Delta, NEW d \in Delta, FileOK(c, d), NEW m \in Delta
  PROVE  /\ Merged(c, m) \in Delta /\ Merged(c, m).use = c.use /\ Merged(c, m).ext = c.ext
         /\ Merged(c, m).since = c.since
         /\ \A f \in Delta : f.use # "v21" /\ f.map = Merged(c, m).map /\ f.blk = Merged(c, m).blk
                             => FileOK(f, f)
<1> DEFINE S == {DataBlock(b) : b \in m.map \ c.map}
           q == SetToSeq(S)
           M == c.map \cup m.map
           w == c.blk \o q
<1>1. m.map \in SUBSET Bits /\ c.map \in SUBSET Bits /\ c.blk \in Seq(Block)
  BY DEF Delta
<1>2. IsFiniteSet(S)
  <2>1. IsFiniteSet(Bits)
    BY CbtAssumption, FS_Interval DEF Bits
  <2>2. IsFiniteSet(m.map \ c.map)
    BY <1>1, <2>1, FS_Subset
  <2> DEFINE h == [b \in m.map \ c.map |-> DataBlock(b)]
  <2>3. h \in [m.map \ c.map -> S] /\ \A x \in S : \E b \in m.map \ c.map : h[b] = x
    OBVIOUS
  <2>4. h \in Surjection(m.map \ c.map, S)
    BY <2>3 DEF Surjection
  <2> QED
    BY <2>2, <2>4, FS_Surjection
<1>3. q \in Seq(S) /\ \A x \in S : \E n \in DOMAIN q : q[n] = x
  BY <1>2, SetToSeqAll
<1>4. \A x \in S : x \in Block /\ x.t = "data"
  BY <1>1, NewBlocks
<1>5. \A b \in m.map \ c.map : DataBlock(b) \in S
  OBVIOUS
<1> HIDE DEF S
<1>6. Merged(c, m) = [c EXCEPT !.map = M, !.blk = w]
  BY DEF Merged, S
<1> HIDE DEF q
<1>7. q \in Seq(Block) /\ \A n \in DOMAIN q : q[n].t = "data"
  BY <1>3, <1>4
<1>8. M \in SUBSET Bits /\ w \in Seq(Block)
  BY <1>1, <1>7
<1> HIDE DEF M, w
<1>9. /\ Merged(c, m) \in Delta /\ Merged(c, m).use = c.use /\ Merged(c, m).ext = c.ext
      /\ Merged(c, m).since = c.since /\ Merged(c, m).map = M /\ Merged(c, m).blk = w
  BY <1>6, <1>8 DEF Delta
<1>10. ASSUME NEW f \in Delta, f.use # "v21", f.map = M, f.blk = w
       PROVE  FileOK(f, f)
  <2>1. \A b \in m.map \ c.map : \E n \in DOMAIN q : q[n] = DataBlock(b)
    BY <1>3, <1>5
  <2>2. f.map = c.map \cup m.map /\ f.blk = c.blk \o q
    BY <1>10 DEF M, w
  <2> QED
    BY <1>1, <1>7, <1>10, <2>1, <2>2, FileData
<1> QED
  BY <1>9, <1>10

\* The top file leaves the chain.
LEMMA TopDropped ==
  ASSUME FileInv, Top > 1, deltas' = Front(deltas), disk' = Front(disk)
  PROVE  /\ deltas' \in Seq(Delta) /\ disk' \in Seq(Delta) /\ Len(disk') = Len(deltas')
         /\ Len(deltas') = Len(deltas) - 1 /\ Len(deltas') > 0
         /\ Len(deltas') \in Nat /\ Len(deltas') \in DOMAIN deltas
         /\ DOMAIN deltas' = 1 .. Len(deltas) - 1
         /\ \A k \in DOMAIN deltas' : k \in DOMAIN deltas /\ deltas'[k] = deltas[k]
                                      /\ disk'[k] = disk[k]
         /\ Files'
<1>1. deltas \in Seq(Delta) /\ disk \in Seq(Delta) /\ Len(disk) = Len(deltas) /\ Len(deltas) > 1
      /\ Len(deltas) > 0 /\ Len(disk) > 0
  BY DEF FileInv, Shape, Top
<1>2. /\ deltas' \in Seq(Delta) /\ Len(deltas') = Len(deltas) - 1
      /\ DOMAIN deltas' = 1 .. Len(deltas) - 1
      /\ \A k \in 1 .. Len(deltas) - 1 : deltas'[k] = deltas[k]
  BY <1>1, FrontType
<1>3. /\ disk' \in Seq(Delta) /\ Len(disk') = Len(disk) - 1
      /\ \A k \in 1 .. Len(disk) - 1 : disk'[k] = disk[k]
  BY <1>1, FrontType
<1>4. Len(deltas) \in Nat /\ DOMAIN deltas = 1 .. Len(deltas)
  BY <1>1
<1>5. /\ Len(disk') = Len(deltas') /\ Len(deltas') > 0
      /\ Len(deltas') \in Nat /\ Len(deltas') \in DOMAIN deltas
  BY <1>1, <1>2, <1>3, <1>4
<1>6. \A k \in DOMAIN deltas' : k \in DOMAIN deltas /\ deltas'[k] = deltas[k]
                                /\ disk'[k] = disk[k]
  BY <1>1, <1>2, <1>3, <1>4
<1>7. Files'
  BY <1>6 DEF Files, FileInv
<1> QED
  BY <1>2, <1>3, <1>5, <1>6, <1>7

\* The merged child is removed: the files stay in order.
LEMMA MergeUnlinkFile == FileInv /\ MergeUnlink => FileInv'
<1> SUFFICES ASSUME FileInv, MergeUnlink PROVE FileInv'
  OBVIOUS
<1>1. /\ op.pc = "unlink" /\ op' = NoOp /\ UNCHANGED <<dev, since, kept, faults>>
      /\ deltas' = Front(deltas) /\ disk' = Front(disk)
  BY DEF MergeUnlink
<1>2. ~ dev.on /\ Top > 1
  BY <1>1 DEF FileInv, Control, Towards
<1>3. /\ deltas' \in Seq(Delta) /\ disk' \in Seq(Delta) /\ Len(disk') = Len(deltas')
      /\ Len(deltas') > 0 /\ Files'
      /\ \A k \in DOMAIN deltas' : k \in DOMAIN deltas /\ deltas'[k] = deltas[k]
  BY <1>1, <1>2, TopDropped
<1>4. Shape'
  BY <1>1, <1>3, NewTypes DEF FileInv, Shape
<1>5. Control' /\ Extending'
  BY <1>1, <1>2, <1>3, IdleControl
<1>6. ExtNear'
  BY <1>1, <1>3 DEF ExtNear, FileInv
<1> QED
  BY <1>3, <1>4, <1>5, <1>6 DEF FileInv

\* The top delta is dropped: the files stay in order.
LEMMA DeleteTopFile == FileInv /\ DeleteTop => FileInv'
<1> SUFFICES ASSUME FileInv, DeleteTop PROVE FileInv'
  OBVIOUS
<1>1. /\ op = NoOp /\ op' = op /\ ~ dev.on /\ Top > 1 /\ UNCHANGED <<dev, faults>>
      /\ deltas' = Front(deltas) /\ disk' = Front(disk)
      /\ since' = [u \in DOMAIN since |->
                 IF u \in DOMAIN deltas[Top - 1].since THEN deltas[Top - 1].since[u] ELSE Bits]
      /\ kept' = IF Loadable(deltas[Top - 1]) THEN Raw(deltas[Top - 1]).id ELSE None
  BY DEF DeleteTop, Called
<1>3. /\ deltas' \in Seq(Delta) /\ disk' \in Seq(Delta) /\ Len(disk') = Len(deltas')
      /\ Len(deltas') > 0 /\ Files' /\ Len(deltas) - 1 \in DOMAIN deltas
      /\ \A k \in DOMAIN deltas' : k \in DOMAIN deltas /\ deltas'[k] = deltas[k]
  BY <1>1, TopDropped
<1>2. Top - 1 \in DOMAIN deltas /\ deltas[Top - 1] \in Delta
  BY <1>3, TopFile DEF Top
<1>7. kept' \in Id
  BY <1>1, <1>2, RawId DEF Id
<1>8. since' \in Sinces
  <2>1. deltas[Top - 1].since \in Sinces /\ since \in Sinces
    BY <1>2 DEF Delta, FileInv, Shape
  <2> DEFINE v == deltas[Top - 1].since
  <2>2. \A u \in DOMAIN v : v[u] \in SUBSET Bits
    BY <2>1, SinceDomain
  <2>3. DOMAIN since \in SUBSET Uuid
    BY <2>1, SinceDomain
  <2>4. since' \in [DOMAIN since -> SUBSET Bits]
    BY <1>1, <2>2
  <2> QED
    BY <2>3, <2>4, SinceMember
<1>4. Shape'
  BY <1>1, <1>3, <1>7, <1>8, NewTypes DEF FileInv, Shape
<1>5. Control' /\ Extending'
  BY <1>1, <1>3, IdleControl
<1>6. ExtNear'
  <2>1. op.pc # "start"
    BY <1>1 DEF NoOp
  <2> QED
    BY <1>1, <1>3, <2>1 DEF ExtNear, FileInv
<1> QED
  BY <1>3, <1>4, <1>5, <1>6 DEF FileInv

\* A merge of the top delta by the kernel: what it changes.
LEMMA MergeOnlineEffect ==
  ASSUME FileInv, MergeOnline
  PROVE  /\ op = NoOp /\ op' = op /\ dev.on /\ dev.top = Top /\ Top > 1
         /\ UNCHANGED <<faults, since, kept, torn>>
         /\ dev' \in Dev /\ dev'.on /\ dev'.top = Len(deltas) - 1 /\ dev'.id = dev.id
         /\ dev'.bits = dev.bits
         /\ deltas' \in Seq(Delta) /\ disk' \in Seq(Delta)
         /\ Len(deltas') = Len(deltas) - 1 /\ Len(disk') = Len(deltas) - 1
         /\ DOMAIN deltas' = 1 .. Len(deltas) - 1 /\ Len(deltas) - 1 \in DOMAIN deltas'
         /\ \A k \in DOMAIN deltas' : k \in DOMAIN deltas
         /\ \A k \in DOMAIN deltas' : k # Len(deltas) - 1 => deltas'[k] = deltas[k]
         /\ deltas'[Len(deltas) - 1].use = "yes"
         /\ deltas'[Len(deltas) - 1].since = deltas[Len(deltas) - 1].since
         /\ Files'
<1> DEFINE n == Len(deltas) - 1
           h == Merged(deltas[n], deltas[Top])
           f == [h EXCEPT !.use = "yes"]
<1>1. /\ op = NoOp /\ op' = op /\ dev.on /\ dev.top = Top /\ Top > 1
      /\ UNCHANGED <<faults, since, kept, torn>> /\ dev' = [dev EXCEPT !.top = @ - 1]
      /\ deltas' = [Front(deltas) EXCEPT ![n] = f]
      /\ disk' = [Front(disk) EXCEPT ![n] = f]
  BY DEF MergeOnline, Called, Top
<1>2. /\ n \in DOMAIN deltas /\ n \in Nat \ {0} /\ deltas[n] \in Delta /\ disk[n] \in Delta
      /\ FileOK(deltas[n], disk[n]) /\ deltas[Top] \in Delta /\ Top = Len(deltas)
  <2>1. n \in 1 .. Len(deltas) /\ n \in Nat \ {0}
    BY <1>1, TopFile DEF Top
  <2> QED
    BY <2>1, TopFile DEF Top
<1> HIDE DEF n
<1>3. /\ h \in Delta /\ h.since = deltas[n].since
      /\ \A g \in Delta : g.use # "v21" /\ g.map = h.map /\ g.blk = h.blk => FileOK(g, g)
  BY <1>2, MergedFile
<1> HIDE DEF h
<1>4. f \in Delta /\ f.use = "yes" /\ f.map = h.map /\ f.blk = h.blk /\ f.since = h.since
  BY <1>3 DEF Delta
<1>5. FileOK(f, f)
  BY <1>3, <1>4
<1> HIDE DEF f
<1>6. /\ deltas \in Seq(Delta) /\ disk \in Seq(Delta) /\ Len(disk) = Len(deltas)
      /\ Len(deltas) > 0 /\ Len(disk) > 0 /\ op \in Op /\ dev \in Dev
  BY <1>2, TopFile DEF FileInv, Shape
<1>7. /\ Front(deltas) \in Seq(Delta) /\ DOMAIN Front(deltas) = 1 .. n /\ Len(Front(deltas)) = n
      /\ \A k \in 1 .. n : Front(deltas)[k] = deltas[k]
  BY <1>6, FrontType DEF n
<1>8. /\ Front(disk) \in Seq(Delta) /\ DOMAIN Front(disk) = 1 .. n /\ Len(Front(disk)) = n
      /\ \A k \in 1 .. n : Front(disk)[k] = disk[k]
  BY <1>6, FrontType DEF n
<1>9. n \in 1 .. n
  BY <1>2
<1>10. /\ deltas' \in Seq(Delta) /\ Len(deltas') = n /\ DOMAIN deltas' = 1 .. n /\ deltas'[n] = f
       /\ \A j \in 1 .. n : j # n => deltas'[j] = deltas[j]
  <2> DEFINE s == Front(deltas)
  <2> HIDE DEF s
  <2>1. /\ s \in Seq(Delta) /\ n \in DOMAIN s /\ deltas' = [s EXCEPT ![n] = f]
    BY <1>1, <1>7, <1>9 DEF s
  <2>2. /\ deltas' \in Seq(Delta) /\ Len(deltas') = Len(s) /\ DOMAIN deltas' = DOMAIN s
        /\ deltas'[n] = f /\ \A j \in DOMAIN s : j # n => deltas'[j] = s[j]
    BY <1>4, <2>1, Replaced
  <2> QED
    BY <1>7, <2>2 DEF s
<1>11. /\ disk' \in Seq(Delta) /\ Len(disk') = n /\ DOMAIN disk' = 1 .. n /\ disk'[n] = f
       /\ \A j \in 1 .. n : j # n => disk'[j] = disk[j]
  <2> DEFINE s == Front(disk)
  <2> HIDE DEF s
  <2>1. /\ s \in Seq(Delta) /\ n \in DOMAIN s /\ disk' = [s EXCEPT ![n] = f]
    BY <1>1, <1>8, <1>9 DEF s
  <2>2. /\ disk' \in Seq(Delta) /\ Len(disk') = Len(s) /\ DOMAIN disk' = DOMAIN s
        /\ disk'[n] = f /\ \A j \in DOMAIN s : j # n => disk'[j] = s[j]
    BY <1>4, <2>1, Replaced
  <2> QED
    BY <1>8, <2>2 DEF s
<1>12. dev' \in Dev /\ dev'.on /\ dev'.top = n /\ dev'.id = dev.id /\ dev'.bits = dev.bits
  <2>1. dev.top - 1 = n /\ n \in Nat
    BY <1>1, <1>2 DEF n
  <2> QED
    BY <1>1, <1>6, <2>1 DEF Dev
<1>13. \A k \in 1 .. n : k \in DOMAIN deltas
  BY <1>2, TopFile
<1>14. Files'
  <2> SUFFICES ASSUME NEW k \in 1 .. n PROVE FileOK(deltas'[k], disk'[k])
    BY <1>10 DEF Files
  <2> QED
    BY <1>5, <1>10, <1>11, <1>13, TopFile
<1>15. /\ dev'.top = Len(deltas) - 1 /\ Len(deltas') = Len(deltas) - 1 /\ Len(disk') = Len(deltas) - 1
       /\ DOMAIN deltas' = 1 .. Len(deltas) - 1 /\ Len(deltas) - 1 \in DOMAIN deltas'
       /\ \A k \in DOMAIN deltas' : k # Len(deltas) - 1 => deltas'[k] = deltas[k]
       /\ deltas'[Len(deltas) - 1].use = "yes"
       /\ deltas'[Len(deltas) - 1].since = deltas[Len(deltas) - 1].since
       /\ \A k \in DOMAIN deltas' : k \in DOMAIN deltas
  BY <1>3, <1>4, <1>9, <1>10, <1>11, <1>12, <1>13 DEF n
<1> QED
  BY <1>1, <1>10, <1>11, <1>12, <1>14, <1>15

\* A merge of the top delta by the kernel: the files stay in order.
LEMMA MergeOnlineFile == FileInv /\ MergeOnline => FileInv'
<1> SUFFICES ASSUME FileInv, MergeOnline PROVE FileInv'
  OBVIOUS
<1>1. /\ op = NoOp /\ op' = op /\ UNCHANGED <<faults, since, kept>>
      /\ dev' \in Dev /\ dev'.on /\ dev'.top = Len(deltas) - 1
      /\ deltas' \in Seq(Delta) /\ disk' \in Seq(Delta)
      /\ Len(deltas') = Len(deltas) - 1 /\ Len(disk') = Len(deltas) - 1
      /\ DOMAIN deltas' = 1 .. Len(deltas) - 1 /\ Len(deltas) - 1 \in DOMAIN deltas'
      /\ \A k \in DOMAIN deltas' : k \in DOMAIN deltas
      /\ \A k \in DOMAIN deltas' : k # Len(deltas) - 1 => deltas'[k] = deltas[k]
      /\ deltas'[Len(deltas) - 1].use = "yes" /\ Files'
  BY MergeOnlineEffect
<1>15. Shape'
  BY <1>1 DEF FileInv, Shape
<1>16. Control' /\ Extending'
  <2>1. Len(deltas)' > 0 /\ dev'.top \in DOMAIN deltas' /\ deltas'[dev'.top].use = "yes"
    BY <1>1
  <2> QED
    BY <1>1, <2>1, IdleControl
<1>17. ExtNear'
  <2>1. op.pc # "start"
    BY <1>1 DEF NoOp
  <2>2. \A k \in DOMAIN deltas' : deltas'[k].use = "yes" \/ deltas'[k] = deltas[k]
    BY <1>1
  <2> QED
    BY <1>1, <2>1, <2>2 DEF ExtNear, FileInv
<1> QED
  BY <1>1, <1>15, <1>16, <1>17 DEF FileInv

\* An offline merge into the parent: what it changes.
LEMMA MergeOfflineEffect ==
  ASSUME FileInv, MergeOffline
  PROVE  /\ op = NoOp /\ ~ dev.on /\ Top > 1 /\ UNCHANGED <<dev, faults, since, kept, torn>>
         /\ Top - 1 \in DOMAIN deltas /\ Top - 1 \in Nat \ {0} /\ Top \in DOMAIN deltas
         /\ deltas' \in Seq(Delta) /\ Len(deltas') = Len(deltas) /\ DOMAIN deltas' = DOMAIN deltas
         /\ \A j \in DOMAIN deltas : j # Top - 1 => deltas'[j] = deltas[j]
         /\ disk' \in Seq(Delta) /\ Len(disk') = Len(disk) /\ Files'
         /\ deltas'[Top - 1] \in Delta /\ disk'[Top - 1] = deltas'[Top - 1]
         /\ deltas'[Top - 1].use = "v20" /\ deltas'[Top - 1].since = since
         /\ op' \in Op /\ op'.id = None /\ op'.or = {}
         /\ \/ ~ Loadable(deltas[Top]) /\ op'.pc = "unlink" /\ op'.raw = NoCbt
            \/ /\ Loadable(deltas[Top]) /\ op'.pc = "save" /\ op'.l1 = << >> /\ op'.i = 1
               /\ op'.img = Top - 1 /\ op'.next = "unlink" /\ op'.raw = Raw(deltas[Top])
               /\ op'.raw.id \in Uuid
<1> DEFINE n == Top - 1
           h == Merged(deltas[n], deltas[Top])
           f == [h EXCEPT !.use = "v20", !.since = since]
<1>1. /\ op = NoOp /\ ~ dev.on /\ Top > 1 /\ UNCHANGED <<dev, faults, since, kept, torn>>
      /\ PutSync(n, f)
      /\ op' = IF Loadable(deltas[Top]) THEN SaveRawTo(n, "unlink", Raw(deltas[Top]))
               ELSE [NoOp EXCEPT !.pc = "unlink"]
  BY DEF MergeOffline, Called
<1>2. /\ n \in DOMAIN deltas /\ n \in Nat \ {0} /\ deltas[n] \in Delta /\ disk[n] \in Delta
      /\ FileOK(deltas[n], disk[n]) /\ deltas[Top] \in Delta /\ Top \in DOMAIN deltas
      /\ Top \in Nat
  <2>1. n \in 1 .. Len(deltas) /\ n \in Nat \ {0}
    BY <1>1, TopFile DEF Top
  <2> QED
    BY <2>1, TopFile DEF Top
<1> HIDE DEF n
<1>3. /\ h \in Delta
      /\ \A g \in Delta : g.use # "v21" /\ g.map = h.map /\ g.blk = h.blk => FileOK(g, g)
  BY <1>2, MergedFile
<1> HIDE DEF h
<1>4. f \in Delta /\ f.use = "v20" /\ f.map = h.map /\ f.blk = h.blk /\ f.since = since
  BY <1>3 DEF Delta, FileInv, Shape
<1>5. FileOK(f, f)
  BY <1>3, <1>4
<1> HIDE DEF f
<1>6. op \in Op /\ NoOp \in Op /\ NoOp.raw = NoCbt /\ NoOp.id = None /\ NoOp.or = {}
  BY NewTypes DEF FileInv, Shape, NoOp
<1>7. /\ deltas' \in Seq(Delta) /\ Len(deltas') = Len(deltas) /\ DOMAIN deltas' = DOMAIN deltas
      /\ deltas'[n] = f /\ (\A j \in DOMAIN deltas : j # n => deltas'[j] = deltas[j])
      /\ disk' \in Seq(Delta) /\ Len(disk') = Len(disk) /\ disk'[n] = f /\ Files'
  BY <1>1, <1>2, <1>4, <1>5, PutSyncFiles
<1>8. /\ op' \in Op /\ op'.id = None /\ op'.or = {}
      /\ \/ ~ Loadable(deltas[Top]) /\ op'.pc = "unlink" /\ op'.raw = NoCbt
         \/ /\ Loadable(deltas[Top]) /\ op'.pc = "save" /\ op'.l1 = << >> /\ op'.i = 1
            /\ op'.img = n /\ op'.next = "unlink" /\ op'.raw = Raw(deltas[Top])
            /\ op'.raw.id \in Uuid
  <2>1. CASE Loadable(deltas[Top])
    <3> DEFINE r == Raw(deltas[Top])
               m == "unlink"
    <3>1. r \in RawCbt /\ r.id \in Uuid
      BY <1>2, <2>1, RawId
    <3>2. m \in {"end", "uuid", "unlink", "stop"} /\ op' = SaveRawTo(n, m, r) /\ n \in Nat
      BY <1>1, <1>2, <2>1
    <3> HIDE DEF r, m
    <3>3. /\ op' \in Op /\ op'.pc = "save" /\ op'.img = n /\ op'.next = m /\ op'.i = 1
          /\ op'.l1 = << >> /\ op'.raw = r /\ op'.id = op.id /\ op'.or = op.or
      BY <1>6, <3>1, <3>2, SaveRawOp
    <3>4. op.id = None /\ op.or = {}
      BY <1>1, <1>6
    <3> QED
      BY <2>1, <3>1, <3>3, <3>4 DEF m, r
  <2>2. CASE ~ Loadable(deltas[Top])
    <3>1. op' = [NoOp EXCEPT !.pc = "unlink"]
      BY <1>1, <2>2
    <3>2. op' \in Op /\ op'.pc = "unlink" /\ op'.raw = NoOp.raw /\ op'.id = NoOp.id
          /\ op'.or = NoOp.or
      BY <1>6, <3>1 DEF Op
    <3> QED
      BY <1>6, <2>2, <3>2
  <2> QED
    BY <2>1, <2>2
<1>9. /\ Top - 1 \in DOMAIN deltas /\ Top - 1 \in Nat \ {0}
      /\ \A j \in DOMAIN deltas : j # Top - 1 => deltas'[j] = deltas[j]
      /\ deltas'[Top - 1] \in Delta /\ disk'[Top - 1] = deltas'[Top - 1]
      /\ deltas'[Top - 1].use = "v20" /\ deltas'[Top - 1].since = since
  BY <1>2, <1>4, <1>7 DEF n
<1> QED
  BY <1>1, <1>2, <1>7, <1>8, <1>9 DEF n

\* An offline merge into the parent: the files stay in order.
LEMMA MergeOfflineFile == FileInv /\ MergeOffline => FileInv'
<1> SUFFICES ASSUME FileInv, MergeOffline PROVE FileInv'
  OBVIOUS
<1> DEFINE n == Top - 1
<1>1. /\ op = NoOp /\ ~ dev.on /\ Top > 1 /\ UNCHANGED <<dev, faults, since, kept>>
      /\ n \in DOMAIN deltas /\ n \in Nat \ {0}
      /\ deltas' \in Seq(Delta) /\ Len(deltas') = Len(deltas) /\ DOMAIN deltas' = DOMAIN deltas
      /\ \A j \in DOMAIN deltas : j # n => deltas'[j] = deltas[j]
      /\ disk' \in Seq(Delta) /\ Len(disk') = Len(disk) /\ Files'
      /\ deltas'[n] \in Delta /\ disk'[n] = deltas'[n] /\ deltas'[n].use = "v20"
      /\ op' \in Op
      /\ \/ op'.pc = "unlink" /\ op'.raw = NoCbt
         \/ /\ op'.pc = "save" /\ op'.l1 = << >> /\ op'.i = 1 /\ op'.img = n
            /\ op'.next = "unlink" /\ op'.raw.id \in Uuid
  BY MergeOfflineEffect
<1> HIDE DEF n
<1>9. Shape'
  BY <1>1 DEF FileInv, Shape
<1>10. Extending'
  <2>1. CASE op'.pc = "unlink"
    BY <2>1 DEF Extending, Saving
  <2>2. CASE op'.pc # "unlink"
    <3>1. deltas'[n].blk \in Seq(Block)
      BY <1>1 DEF Delta
    <3>2. op'.img = n
      BY <1>1, <2>2
    <3> QED
      BY <1>1, <2>2, <3>1, <3>2, SaveBegins
  <2> QED
    BY <2>1, <2>2
<1>11. Control'
  <2>1. Top' = Top /\ n = Top' - 1 /\ n \in DOMAIN deltas' /\ Top' > 1 /\ ~ dev'.on /\ Top' > 0
    BY <1>1 DEF n, Top
  <2>2. CASE op'.pc = "unlink"
    <3>1. ~ Saving' /\ op'.raw = NoCbt
      BY <1>1, <2>2 DEF Saving
    <3> QED
      BY <2>1, <2>2, <3>1 DEF Control, Towards
  <2>3. CASE op'.pc # "unlink"
    <3>1. Saving' /\ op'.pc = "save" /\ op'.next = "unlink" /\ op'.img = n /\ op'.raw.id \in Uuid
      BY <1>1, <2>3 DEF Saving
    <3> QED
      BY <2>1, <3>1 DEF Control, Towards
  <2> QED
    BY <2>2, <2>3
<1>12. ExtNear'
  <2>1. op.pc # "start"
    BY <1>1 DEF NoOp
  <2> QED
    BY <1>1, <2>1 DEF ExtNear, FileInv
<1> QED
  BY <1>1, <1>9, <1>10, <1>11, <1>12 DEF FileInv

\* The check before a mount, which closes a dirty delta: the files stay in order.
LEMMA MountCheckFile == FileInv /\ MountCheck => FileInv'
<1> SUFFICES ASSUME FileInv, MountCheck PROVE FileInv'
  OBVIOUS
<1> DEFINE f == [deltas[Top] EXCEPT !.use = "v20"]
<1>1. /\ op = NoOp /\ ~ dev.on /\ UNCHANGED <<dev, since, kept, faults>>
      /\ op' = [NoOp EXCEPT !.pc = "load"]
      /\ IF deltas[Top].use = "yes" THEN PutSync(Top, f) ELSE UNCHANGED <<deltas, disk>>
  BY DEF MountCheck, Called
<1>2. Top \in DOMAIN deltas /\ deltas[Top] \in Delta /\ disk[Top] \in Delta
      /\ FileOK(deltas[Top], disk[Top]) /\ Len(deltas) > 0
  BY TopFile DEF Top
<1>3. op' \in Op /\ op'.pc = "load" /\ op'.raw = NoCbt
  <2>1. NoOp \in Op /\ NoOp.raw = NoCbt
    BY NewTypes DEF NoOp
  <2> QED
    BY <1>1, <2>1 DEF Op
<1>4. ~ Saving'
  BY <1>3 DEF Saving
<1>5. op.pc # "start"
  BY <1>1 DEF NoOp
<1>6. CASE deltas[Top].use = "yes"
  <2>1. f \in Delta /\ f.use = "v20" /\ f.map = deltas[Top].map /\ f.blk = deltas[Top].blk
    BY <1>2 DEF Delta
  <2>2. FileOK(f, f)
    BY <1>2, <2>1, FileClosed
  <2>3. PutSync(Top, f)
    BY <1>1, <1>6
  <2> HIDE DEF f
  <2>4. /\ deltas' \in Seq(Delta) /\ Len(deltas') = Len(deltas) /\ DOMAIN deltas' = DOMAIN deltas
        /\ deltas'[Top] = f /\ (\A j \in DOMAIN deltas : j # Top => deltas'[j] = deltas[j])
        /\ disk' \in Seq(Delta) /\ Len(disk') = Len(disk) /\ Files'
    BY <1>2, <2>1, <2>2, <2>3, PutSyncFiles
  <2>5. Shape'
    BY <1>1, <1>3, <2>4 DEF FileInv, Shape
  <2>6. Control' /\ Extending'
    BY <1>1, <1>2, <1>3, <1>4, <2>1, <2>4 DEF Control, Extending, Towards, Top
  <2>7. ExtNear'
    BY <1>1, <1>5, <2>1, <2>4 DEF ExtNear, FileInv
  <2> QED
    BY <2>4, <2>5, <2>6, <2>7 DEF FileInv
<1>7. CASE deltas[Top].use # "yes"
  <2>1. UNCHANGED <<deltas, disk>>
    BY <1>1, <1>7
  <2>2. Files'
    BY <2>1, FilesSame DEF FileInv
  <2>5. Shape'
    BY <1>1, <1>3, <2>1 DEF FileInv, Shape
  <2>6. Control' /\ Extending'
    BY <1>1, <1>2, <1>3, <1>4, <1>7, <2>1 DEF Control, Extending, Towards, Top
  <2>7. ExtNear'
    BY <1>1, <1>5, <2>1 DEF ExtNear, FileInv
  <2> QED
    BY <2>2, <2>5, <2>6, <2>7 DEF FileInv
<1> QED
  BY <1>6, <1>7

\* The process went to the start of the device.
LEMMA GoneToStart ==
  ASSUME FileInv, op.pc = "load", UNCHANGED <<dev, since, kept, faults>>,
         op' \in Op, op'.pc = "start", op'.raw = NoCbt \/ op'.raw.id \in Uuid,
         deltas' \in Seq(Delta), Len(deltas') = Len(deltas), DOMAIN deltas' = DOMAIN deltas,
         \A j \in DOMAIN deltas : j # Top => deltas'[j] = deltas[j], disk' = disk, Files'
  PROVE  FileInv'
<1>1. Shape'
  BY DEF FileInv, Shape
<1>2. ~ dev.on /\ Top > 0
  BY DEF FileInv, Control
<1>3. ~ Saving'
  BY DEF Saving
<1>4. Control' /\ Extending'
  BY <1>2, <1>3 DEF Control, Extending, Towards, Top
<1>5. ExtNear'
  BY DEF ExtNear, FileInv, Top
<1> QED
  BY <1>1, <1>4, <1>5 DEF FileInv

\* The extension is read and cut off: the files stay in order.
LEMMA LoadExtFile == FileInv /\ LoadExt => FileInv'
<1> SUFFICES ASSUME FileInv, LoadExt PROVE FileInv'
  OBVIOUS
<1> DEFINE f == deltas[Top]
           g == [f EXCEPT !.ext = 0, !.use = "v20"]
<1>1. op.pc = "load" /\ UNCHANGED <<dev, since, kept, faults>>
  BY DEF LoadExt
<1>2. /\ Top \in DOMAIN deltas /\ f \in Delta /\ disk[Top] \in Delta /\ FileOK(f, disk[Top])
      /\ deltas \in Seq(Delta) /\ op \in Op /\ op.raw = NoCbt /\ Files
  <2>1. op.raw = NoCbt
    BY <1>1 DEF FileInv, Control
  <2> QED
    BY <2>1, TopFile DEF Top, FileInv, Shape
<1>3. CASE NothingToLoad(f) \/ (HasExt(f) /\ ~ L1Readable(f))
  <2>1. Goto("start") /\ UNCHANGED <<deltas, disk>>
    BY <1>3 DEF LoadExt
  <2>2. op' \in Op /\ op'.pc = "start" /\ op'.raw = NoCbt
    BY <1>2, <2>1 DEF Goto, Op
  <2>3. Files'
    BY <1>2, <2>1, FilesSame
  <2> QED
    BY <1>1, <1>2, <2>1, <2>2, <2>3, GoneToStart
<1>4. CASE ~ NothingToLoad(f) /\ ~ HasExt(f)
  <2>1. Goto("start") /\ Put(Top, g)
    BY <1>4 DEF LoadExt
  <2>2. op' \in Op /\ op'.pc = "start" /\ op'.raw = NoCbt
    BY <1>2, <2>1 DEF Goto, Op
  <2>3. g \in Delta /\ g.use = "v20" /\ g.map = f.map /\ g.since = f.since /\ g.blk = f.blk
    BY <1>2 DEF Delta
  <2> HIDE DEF f, g
  <2>4. FileOK(g, disk[Top])
    BY <1>2, <1>4, <2>3, FileForget
  <2>5. /\ deltas' \in Seq(Delta) /\ Len(deltas') = Len(deltas) /\ DOMAIN deltas' = DOMAIN deltas
        /\ (\A j \in DOMAIN deltas : j # Top => deltas'[j] = deltas[j])
        /\ disk' = disk /\ Files'
    BY <1>2, <2>1, <2>3, <2>4, PutFiles
  <2> QED
    BY <1>1, <2>2, <2>5, GoneToStart
<1>5. CASE ~ NothingToLoad(f) /\ HasExt(f) /\ L1Readable(f)
  <2>1. /\ Put(Top, Truncated(f)) /\ op' = [op EXCEPT !.pc = "start", !.raw = Raw(f)]
    BY <1>5 DEF LoadExt
  <2>2. CASE f.use = "v21"
    <3>1. Raw(f) \in RawCbt /\ Raw(f).id \in Uuid
      BY <1>2, <1>5, <2>2, RawId DEF Loadable, NothingToLoad
    <3> DEFINE r == Raw(f)
    <3>2. r \in RawCbt /\ op' = [op EXCEPT !.pc = "start", !.raw = r]
      BY <2>1, <3>1
    <3> HIDE DEF r
    <3>3. op' \in Op /\ op'.pc = "start" /\ op'.raw = r
      BY <1>2, <3>2 DEF Op
    <3>4. Truncated(f) \in Delta /\ FileOK(Truncated(f), disk[Top])
      BY <1>2, <1>5, <2>2, FileTruncated
    <3>5. /\ deltas' \in Seq(Delta) /\ Len(deltas') = Len(deltas) /\ DOMAIN deltas' = DOMAIN deltas
          /\ (\A j \in DOMAIN deltas : j # Top => deltas'[j] = deltas[j])
          /\ disk' = disk /\ Files'
      BY <1>2, <2>1, <3>4, PutFiles
    <3> QED
      BY <1>1, <3>1, <3>3, <3>5, GoneToStart DEF r
  <2>3. CASE f.use = "yes"
    BY <1>1, <2>3 DEF FileInv, Control
  <2> QED
    BY <1>2, <1>5, <2>2, <2>3 DEF Delta, NothingToLoad
<1> QED
  BY <1>3, <1>4, <1>5

\* The device starts on the top delta: the files stay in order.
LEMMA StartFile == FileInv /\ Start => FileInv'
<1> SUFFICES ASSUME FileInv, Start PROVE FileInv'
  OBVIOUS
<1> DEFINE f == [deltas[Top] EXCEPT !.use = "yes"]
<1>1. /\ op.pc = "start" /\ UNCHANGED <<since, kept, faults>> /\ PutSync(Top, f)
      /\ dev' = [on |-> TRUE, top |-> Top, id |-> op.raw.id, bits |-> {}]
      /\ op' = IF op.raw = NoCbt THEN NoOp ELSE [op EXCEPT !.pc = "send", !.i = 1]
  BY DEF Start
<1>2. /\ Top \in DOMAIN deltas /\ deltas[Top] \in Delta /\ disk[Top] \in Delta
      /\ FileOK(deltas[Top], disk[Top]) /\ Len(deltas) > 0 /\ Top \in Nat
      /\ op \in Op /\ op.raw.id \in Id
  <2>1. op \in Op
    BY DEF FileInv, Shape
  <2>2. op.raw.id \in Id
    BY <2>1 DEF Op, RawCbt
  <2> QED
    BY <2>1, <2>2, TopFile DEF Top
<1>3. f \in Delta /\ f.use = "yes" /\ f.map = deltas[Top].map /\ f.blk = deltas[Top].blk
  BY <1>2 DEF Delta
<1>4. FileOK(f, f)
  BY <1>2, <1>3, FileClosed
<1> HIDE DEF f
<1>5. /\ deltas' \in Seq(Delta) /\ Len(deltas') = Len(deltas) /\ DOMAIN deltas' = DOMAIN deltas
      /\ deltas'[Top] = f /\ (\A j \in DOMAIN deltas : j # Top => deltas'[j] = deltas[j])
      /\ disk' \in Seq(Delta) /\ Len(disk') = Len(disk) /\ Files'
  BY <1>1, <1>2, <1>3, <1>4, PutSyncFiles
<1>6. dev' \in Dev /\ dev'.on /\ dev'.top = Top
  BY <1>1, <1>2 DEF Dev
<1>7. /\ op' \in Op
      /\ \/ op' = NoOp
         \/ op'.pc = "send" /\ op'.raw = op.raw /\ op.raw # NoCbt
  <2>1. CASE op.raw = NoCbt
    BY <1>1, <2>1, NewTypes
  <2>2. CASE op.raw # NoCbt
    <3>1. op' = [op EXCEPT !.pc = "send", !.i = 1] /\ 1 \in Nat \ {0}
      BY <1>1, <2>2
    <3>2. op' \in Op /\ op'.pc = "send" /\ op'.raw = op.raw
      BY <1>2, <3>1 DEF Op
    <3> QED
      BY <2>2, <3>2
  <2> QED
    BY <2>1, <2>2
<1>8. Shape'
  BY <1>1, <1>5, <1>6, <1>7 DEF FileInv, Shape
<1>9. Control' /\ Extending'
  <2>1. /\ Top' = Top /\ Top' > 0 /\ dev'.on /\ dev'.top \in DOMAIN deltas'
        /\ deltas'[dev'.top].use = "yes"
    BY <1>2, <1>3, <1>5, <1>6 DEF Top
  <2>2. CASE op' = NoOp
    BY <2>1, <2>2, IdleControl DEF Top
  <2>3. CASE op'.pc = "send" /\ op'.raw = op.raw /\ op.raw # NoCbt
    <3>1. ~ Saving'
      BY <2>3 DEF Saving
    <3>2. op.raw.id \in Uuid
      BY <2>3 DEF FileInv, Control
    <3> QED
      BY <2>1, <2>3, <3>1, <3>2 DEF Control, Extending, Towards
  <2> QED
    BY <1>7, <2>2, <2>3
<1>10. ExtNear'
  BY <1>1, <1>3, <1>5 DEF ExtNear, FileInv
<1> QED
  BY <1>5, <1>8, <1>9, <1>10 DEF FileInv

\* One part of the bitmap is sent to the kernel: the files stay in order.
LEMMA SendBitmapFile == FileInv /\ SendBitmap => FileInv'
<1> SUFFICES ASSUME FileInv, SendBitmap PROVE FileInv'
  OBVIOUS
<1> DEFINE s == IF op.i \in DOMAIN op.raw.parts THEN op.raw.parts[op.i].s ELSE {}
           i == op.i + 1
<1>1. /\ op.pc = "send" /\ UNCHANGED <<deltas, disk, since, kept, faults>>
      /\ dev' = [dev EXCEPT !.bits = @ \cup s]
      /\ op' = IF op.i >= Len(op.raw.parts) THEN NoOp ELSE [op EXCEPT !.i = i]
  BY DEF SendBitmap
<1>2. op \in Op /\ dev \in Dev /\ i \in Nat \ {0}
  BY NextChunk DEF FileInv, Shape
<1>3. s \in SUBSET Bits
  <2>1. op.raw.parts \in Seq(Part)
    BY <1>2 DEF Op, RawCbt
  <2>2. op.i \in DOMAIN op.raw.parts => op.raw.parts[op.i] \in Part
    BY <2>1
  <2> QED
    BY <2>2 DEF Part
<1> HIDE DEF s, i
<1>4. dev' \in Dev /\ dev'.on = dev.on /\ dev'.top = dev.top
  BY <1>1, <1>2, <1>3 DEF Dev
<1>5. op' \in Op /\ (op' = NoOp \/ (op'.pc = "send" /\ op'.raw = op.raw))
  <2>1. CASE op' = NoOp
    BY <2>1, NewTypes
  <2>2. CASE op' = [op EXCEPT !.i = i]
    BY <1>1, <1>2, <2>2 DEF Op
  <2> QED
    BY <1>1, <2>1, <2>2
<1>6. Shape'
  BY <1>1, <1>4, <1>5 DEF FileInv, Shape
<1>7. Control' /\ Extending'
  <2>1. CASE op' = NoOp
    BY <1>1, <1>4, <2>1, IdleControl DEF Control, FileInv, Top
  <2>2. CASE op'.pc = "send" /\ op'.raw = op.raw
    <3>1. ~ Saving'
      BY <2>2 DEF Saving
    <3> QED
      BY <1>1, <1>4, <2>2, <3>1 DEF Control, Extending, Towards, FileInv, Top
  <2> QED
    BY <1>5, <2>1, <2>2
<1>8. Files'
  BY <1>1, FilesSame DEF FileInv
<1>9. ExtNear'
  BY <1>1 DEF ExtNear, FileInv, Top
<1> QED
  BY <1>6, <1>7, <1>8, <1>9 DEF FileInv

\* The device stops and closes its top delta: the files stay in order.
LEMMA UmountFile == FileInv /\ Umount => FileInv'
<1> SUFFICES ASSUME FileInv, Umount PROVE FileInv'
  OBVIOUS
<1> DEFINE t == dev.top
           f == [deltas[t] EXCEPT !.use = "v20", !.since = since]
<1>1. /\ op = NoOp /\ dev.on /\ UNCHANGED <<since, kept, faults>> /\ PutSync(t, f)
      /\ dev' = [dev EXCEPT !.on = FALSE] /\ op' = SaveTo(t, "stop")
  BY DEF Umount, Called
<1>2. /\ t \in DOMAIN deltas /\ t \in Nat /\ op \in Op /\ dev \in Dev /\ since \in Sinces
  BY <1>1 DEF FileInv, Control, Shape, Dev
<1> HIDE DEF t
<1>3. deltas[t] \in Delta /\ disk[t] \in Delta /\ FileOK(deltas[t], disk[t]) /\ Len(deltas) > 0
  BY <1>2, TopFile
<1>4. f \in Delta /\ f.use = "v20" /\ f.map = deltas[t].map /\ f.blk = deltas[t].blk
      /\ f.blk \in Seq(Block)
  BY <1>2, <1>3 DEF Delta
<1>5. FileOK(f, f)
  BY <1>3, <1>4, FileClosed
<1> HIDE DEF f
<1>6. /\ deltas' \in Seq(Delta) /\ Len(deltas') = Len(deltas) /\ DOMAIN deltas' = DOMAIN deltas
      /\ deltas'[t] = f /\ (\A j \in DOMAIN deltas : j # t => deltas'[j] = deltas[j])
      /\ disk' \in Seq(Delta) /\ Len(disk') = Len(disk) /\ disk'[t] = f /\ Files'
  BY <1>1, <1>2, <1>4, <1>5, PutSyncFiles
<1>7. dev' \in Dev /\ ~ dev'.on
  BY <1>1, <1>2 DEF Dev
<1>8. /\ op' \in Op /\ op'.pc = "save" /\ op'.img = t /\ op'.next = "stop" /\ op'.i = 1
      /\ op'.l1 = << >> /\ op'.raw = op.raw
  BY <1>1, <1>2, SaveToOp
<1>9. op.raw = NoCbt /\ op.pc # "start"
  BY <1>1 DEF NoOp
<1>10. Shape'
  BY <1>1, <1>6, <1>7, <1>8 DEF FileInv, Shape
<1>11. Saving' /\ Extending'
  BY <1>4, <1>6, <1>8, SaveBegins
<1>12. Control'
  BY <1>2, <1>3, <1>6, <1>7, <1>8, <1>9, <1>11 DEF Control, Towards, Top
<1>13. ExtNear'
  BY <1>1, <1>4, <1>6, <1>8, <1>9 DEF ExtNear, FileInv
<1> QED
  BY <1>6, <1>10, <1>11, <1>12, <1>13 DEF FileInv

\* The tracker of a stopped device is removed: the files stay in order.
LEMMA CbtStopFile == FileInv /\ CbtStop => FileInv'
<1> SUFFICES ASSUME FileInv, CbtStop PROVE FileInv'
  OBVIOUS
<1>1. /\ op.pc = "stop" /\ op' = NoOp /\ UNCHANGED <<deltas, disk, since, kept, faults>>
      /\ dev' = [dev EXCEPT !.id = None, !.bits = {}]
  BY DEF CbtStop
<1>2. dev' \in Dev /\ dev'.on = dev.on /\ dev'.top = dev.top
  BY <1>1 DEF FileInv, Shape, Dev, Id
<1>3. Shape'
  BY <1>1, <1>2, NewTypes DEF Shape, FileInv
<1>4. Control' /\ Extending'
  BY <1>1, <1>2, IdleControl DEF Control, Top, FileInv
<1>5. ExtNear' /\ Files'
  BY <1>1, FilesSame DEF ExtNear, Top, FileInv
<1> QED
  BY <1>3, <1>4, <1>5 DEF FileInv

\* Tracking is dropped: the files stay in order.
LEMMA DropCbtFile == FileInv /\ DropCbt => FileInv'
<1> SUFFICES ASSUME FileInv, DropCbt PROVE FileInv'
  OBVIOUS
<1>1. op = NoOp /\ op' = op /\ kept' = None /\ UNCHANGED <<since, faults>>
  BY DEF DropCbt, Called
<1>2. kept' \in Id /\ NoOp.pc # "start" /\ NoOp \in Op
  BY <1>1, NewTypes DEF Id, NoOp
<1>3. CASE dev.on
  <2>1. dev' = [dev EXCEPT !.id = None, !.bits = {}] /\ UNCHANGED <<deltas, disk>>
    BY <1>3 DEF DropCbt
  <2>2. dev' \in Dev /\ dev'.on = dev.on /\ dev'.top = dev.top
    BY <2>1 DEF FileInv, Shape, Dev, Id
  <2>3. Shape'
    BY <1>1, <1>2, <2>1, <2>2 DEF Shape, FileInv
  <2>4. Control' /\ Extending'
    BY <1>1, <2>1, <2>2, IdleControl DEF Control, Top, FileInv
  <2>5. ExtNear' /\ Files'
    BY <1>1, <2>1, FilesSame DEF ExtNear, Top, FileInv
  <2> QED
    BY <2>3, <2>4, <2>5 DEF FileInv
<1>4. CASE ~ dev.on
  <2> DEFINE c == deltas[Top]
             f == Truncated([c EXCEPT !.blk[c.ext].l1 = << >>])
  <2>1. Loadable(c) /\ Put(Top, f) /\ dev' = dev
    BY <1>4 DEF DropCbt
  <2>2. /\ Top \in DOMAIN deltas /\ c \in Delta /\ disk[Top] \in Delta /\ FileOK(c, disk[Top])
        /\ Len(deltas) > 0
    BY TopFile DEF Top
  <2>3. f \in Delta /\ FileOK(f, disk[Top]) /\ f.ext = Len(f.blk) + 1 /\ Len(f.blk) \in Nat
    <3>1. c.use = "v21" /\ HasExt(c)
      BY <2>1 DEF Loadable
    <3>2. f \in Delta /\ FileOK(f, disk[Top]) /\ f.ext = Len(f.blk) + 1
      BY <2>2, <3>1, FileDropped
    <3>3. f.blk \in Seq(Block)
      BY <3>2 DEF Delta
    <3> QED
      BY <3>2, <3>3
  <2> HIDE DEF f, c
  <2>4. /\ deltas' \in Seq(Delta) /\ Len(deltas') = Len(deltas) /\ DOMAIN deltas' = DOMAIN deltas
        /\ deltas'[Top] = f /\ (\A j \in DOMAIN deltas : j # Top => deltas'[j] = deltas[j])
        /\ disk' = disk /\ Files'
    BY <2>1, <2>2, <2>3, PutFiles
  <2>5. Shape'
    BY <1>1, <1>2, <2>1, <2>4 DEF Shape, FileInv
  <2>6. Control' /\ Extending'
    BY <1>1, <1>4, <2>1, <2>2, <2>4, IdleControl
  <2>7. ExtNear'
    BY <1>1, <1>2, <2>3, <2>4 DEF ExtNear, FileInv
  <2> QED
    BY <2>4, <2>5, <2>6, <2>7 DEF FileInv
<1> QED
  BY <1>3, <1>4

\* What a write of the guest does to the top file of the device.
LEMMA WrittenFile ==
  ASSUME NEW c \in Delta, NEW d \in Delta, FileOK(c, d), c.use = "yes", NEW b \in Bits,
         NEW f, f = Written(c, b)
  PROVE  /\ f \in Delta /\ FileOK(f, f) /\ f.use = "yes" /\ f.since = c.since
<1> DEFINE x == DataBlock(b)
           q == IF b \in c.map THEN << >> ELSE <<x>>
           w == IF b \in c.map THEN c.blk ELSE Append(c.blk, x)
           M == c.map \cup {b}
<1>1. x \in Block /\ x.t = "data" /\ c.map \in SUBSET Bits /\ c.blk \in Seq(Block)
  BY NewBlocks DEF Delta
<1>2. f = [c EXCEPT !.map = M, !.blk = w]
  BY Zenon DEF Written
<1> HIDE DEF x
<1>3. w \in Seq(Block) /\ q \in Seq(Block) /\ w = c.blk \o q /\ M \in SUBSET Bits
  <2>1. M \in SUBSET Bits
    BY <1>1
  <2>2. CASE b \in c.map
    <3>1. q = << >> /\ w = c.blk
      BY <2>2
    <3>2. c.blk \o << >> = c.blk /\ << >> \in Seq(Block)
      BY <1>1, ConcatEmptySeq
    <3> QED
      BY <1>1, <2>1, <3>1, <3>2, Zenon
  <2>3. CASE b \notin c.map
    <3>1. q = <<x>> /\ w = Append(c.blk, x)
      BY <2>3
    <3>2. Append(c.blk, x) = c.blk \o <<x>>
      BY <1>1, AppendIsConcat
    <3>3. Append(c.blk, x) \in Seq(Block) /\ <<x>> \in Seq(Block)
      BY <1>1, AppendProperties
    <3> QED
      BY <2>1, <3>1, <3>2, <3>3, Zenon
  <2> QED
    BY <2>2, <2>3
<1>4. \A n \in DOMAIN q : q[n].t = "data"
  BY <1>1
<1>5. \A a \in {b} \ c.map : \E n \in DOMAIN q : q[n] = DataBlock(a)
  <2> SUFFICES ASSUME b \notin c.map PROVE \E n \in DOMAIN q : q[n] = x
    BY DEF x
  <2>1. 1 \in DOMAIN q /\ q[1] = x
    OBVIOUS
  <2> QED
    BY <2>1
<1> HIDE DEF w, M, q
<1>6. /\ f \in Delta /\ f.use = "yes" /\ f.since = c.since /\ f.map = M /\ f.blk = w
  BY <1>2, <1>3 DEF Delta
<1>7. f.map = c.map \cup {b} /\ f.blk = c.blk \o q /\ f.use # "v21" /\ {b} \in SUBSET Bits
  BY <1>3, <1>6 DEF M
<1>8. FileOK(f, f)
  BY <1>3, <1>4, <1>5, <1>6, <1>7, FileData
<1> QED
  BY <1>6, <1>8

\* A write of the guest: the files stay in order.
LEMMA GuestWriteFile == ASSUME NEW b \in Bits, FileInv, GuestWrite(b) PROVE FileInv'
<1> DEFINE t == dev.top
           c == deltas[t]
           f == Written(c, b)
<1>1. /\ dev.on /\ PutSync(t, f) /\ UNCHANGED <<op, kept, faults>>
      /\ dev' = IF dev.id = None THEN dev ELSE [dev EXCEPT !.bits = @ \cup {b}]
      /\ since' = [u \in DOMAIN since |-> since[u] \cup {b}]
  BY DEF GuestWrite
<1>2. t \in DOMAIN deltas /\ c.use = "yes" /\ dev \in Dev /\ since \in Sinces
  BY <1>1 DEF FileInv, Control, Shape
<1> HIDE DEF t
<1>3. c \in Delta /\ disk[t] \in Delta /\ FileOK(c, disk[t])
  BY <1>2, TopFile
<1>4. f \in Delta /\ FileOK(f, f) /\ f.use = "yes"
  BY <1>2, <1>3, WrittenFile
<1> HIDE DEF c, f
<1>5. /\ deltas' \in Seq(Delta) /\ Len(deltas') = Len(deltas) /\ DOMAIN deltas' = DOMAIN deltas
      /\ deltas'[t] = f /\ (\A j \in DOMAIN deltas : j # t => deltas'[j] = deltas[j])
      /\ disk' \in Seq(Delta) /\ Len(disk') = Len(disk) /\ disk'[t] = f
      /\ (\A j \in DOMAIN deltas : j # t => disk'[j] = disk[j]) /\ Files'
  BY <1>1, <1>2, <1>4, PutSyncFiles
<1>6. dev' \in Dev /\ dev'.on = dev.on /\ dev'.top = dev.top /\ dev'.id = dev.id
  BY <1>1, <1>2 DEF Dev
<1>7. since' \in Sinces
  <2>1. DOMAIN since \in SUBSET Uuid /\ \A u \in DOMAIN since : since[u] \in SUBSET Bits
    BY <1>2, SinceDomain
  <2>2. since' \in [DOMAIN since -> SUBSET Bits]
    BY <1>1, <2>1
  <2> QED
    BY <2>1, <2>2, SinceMember
<1>8. Shape'
  BY <1>1, <1>5, <1>6, <1>7 DEF Shape, FileInv
<1>9. Saving' <=> Saving
  BY <1>1 DEF Saving
<1>10. Top' = Top /\ Top \in DOMAIN deltas /\ Top \in Nat
  BY <1>5, TopFile DEF Top
<1>11. op.pc = "cbt" => Top - 1 \in DOMAIN deltas /\ Top - 1 # t
  <2>1. op.pc = "cbt" => Top > 1 /\ t = Top
    BY DEF t, FileInv, Control
  <2> QED
    BY <1>10, <2>1, TopFile DEF Top
<1>12. op.pc # "load"
  BY <1>1 DEF FileInv, Control
<1>13. Control'
  <2>1. Control
    BY DEF FileInv
  <2>2. op.pc = "cbt" => deltas'[Top - 1] = deltas[Top - 1] /\ disk'[Top - 1] = disk[Top - 1]
    BY <1>5, <1>11
  <2>3. t = dev.top
    BY DEF t
  <2> QED
    <3>1. /\ Top' > 0 /\ op' = op /\ op'.pc # "load" /\ \A pc : Towards(pc)' = Towards(pc)
          /\ Saving' = Saving /\ dev'.on = dev.on /\ dev'.top = dev.top /\ Top' = Top
          /\ DOMAIN deltas' = DOMAIN deltas
      BY <1>1, <1>5, <1>6, <1>9, <1>10, <1>12, <2>1 DEF Control, Towards
    <3>2. dev'.on => dev'.top \in DOMAIN deltas' /\ deltas'[dev'.top].use = "yes"
      BY <1>2, <1>4, <1>5, <2>3, <3>1
    <3>3. op'.pc = "cbt" => /\ Top' > 1 /\ disk'[Top' - 1] = deltas'[Top' - 1]
                            /\ deltas'[Top' - 1].use = "v20"
      BY <2>1, <2>2, <3>1 DEF Control
    <3> QED
      BY <2>1, <3>1, <3>2, <3>3 DEF Control
<1>14. Extending'
  <2> SUFFICES ASSUME Saving PROVE Extending'
    BY <1>9 DEF Extending
  <2>1. op.img \in DOMAIN deltas /\ op.img # t
    BY <1>1 DEF t, FileInv, Control
  <2>2. deltas'[op.img] = deltas[op.img] /\ disk'[op.img] = disk[op.img]
    BY <1>5, <2>1
  <2> QED
    BY <1>1, <1>6, <1>9, <2>2 DEF Extending, FileInv
<1>15. ExtNear'
  BY <1>1, <1>4, <1>5, <1>10 DEF ExtNear, FileInv
<1> QED
  BY <1>5, <1>8, <1>13, <1>14, <1>15 DEF FileInv

\* The process dies or a call of it fails: the files stay in order.
LEMMA FailFile == FileInv /\ Fail => FileInv'
<1> SUFFICES ASSUME FileInv, Fail PROVE FileInv'
  OBVIOUS
<1>1. /\ op' = NoOp /\ faults' = faults + 1 /\ UNCHANGED <<deltas, disk, since>>
      /\ dev' = IF dev.on THEN dev ELSE [dev EXCEPT !.id = None, !.bits = {}]
      /\ kept' = IF dev.on THEN dev.id ELSE None
  BY DEF Fail, Fault
<1>2. dev' \in Dev /\ dev'.on = dev.on /\ dev'.top = dev.top /\ kept' \in Id
  <2>1. dev \in Dev
    BY DEF FileInv, Shape
  <2> QED
    BY <1>1, <2>1 DEF Dev, Id
<1>3. faults' \in Nat /\ faults' # 0
  BY <1>1 DEF FileInv, Shape
<1>4. Shape'
  BY <1>1, <1>2, <1>3, NewTypes DEF Shape, FileInv
<1>5. Control' /\ Extending'
  BY <1>1, <1>2, IdleControl DEF Control, Top, FileInv
<1>6. ExtNear' /\ Files'
  BY <1>1, <1>3, FilesSame DEF ExtNear, Top, FileInv
<1> QED
  BY <1>4, <1>5, <1>6 DEF FileInv

\* The file that is hit by a power loss, and the others.
LEMMA Lost == ASSUME FileInv, PowerLoss
              PROVE  \E k \in DOMAIN deltas : \E f \in Leftover(disk[k], deltas[k]) :
                       /\ f \in Delta /\ FileOK(f, f) /\ f.since = deltas[k].since
                       /\ deltas' \in Seq(Delta) /\ Len(deltas') = Len(deltas)
                       /\ DOMAIN deltas' = DOMAIN deltas /\ deltas'[k] = f
                       /\ (\A j \in DOMAIN deltas : j # k => deltas'[j] = deltas[j])
                       /\ disk' = deltas'
                       /\ deltas[k].blk = disk[k].blk => f \in {deltas[k], disk[k]}
<1>1. PICK k \in DOMAIN deltas : \E f \in Leftover(disk[k], deltas[k]) :
        deltas' = [deltas EXCEPT ![k] = f]
  BY DEF PowerLoss
<1>2. PICK f \in Leftover(disk[k], deltas[k]) : deltas' = [deltas EXCEPT ![k] = f]
  BY <1>1
<1>3. deltas[k] \in Delta /\ disk[k] \in Delta /\ FileOK(deltas[k], disk[k])
      /\ deltas \in Seq(Delta)
  BY TopFile DEF FileInv, Shape
<1>4. /\ f \in Delta /\ FileOK(f, f) /\ f.since = deltas[k].since
      /\ deltas[k].blk = disk[k].blk => f \in {deltas[k], disk[k]}
  BY <1>3, FileLeftover
<1>5. /\ deltas' \in Seq(Delta) /\ Len(deltas') = Len(deltas)
      /\ DOMAIN deltas' = DOMAIN deltas /\ deltas'[k] = f
      /\ (\A j \in DOMAIN deltas : j # k => deltas'[j] = deltas[j])
  BY <1>2, <1>3, <1>4, Replaced
<1>6. disk' = deltas'
  BY DEF PowerLoss
<1> QED
  BY <1>4, <1>5, <1>6

\* A file whose synced state is c itself.
LEMMA FileSynced == ASSUME NEW c \in Delta, NEW d \in Delta, FileOK(c, d) PROVE FileOK(c, c)
<1>1. \A n \in DOMAIN c.blk : TRUE
  OBVIOUS
<1> QED
  BY DEF FileOK, Agree, ExtLast, DataIn, HeaderKept

\* The host loses power: the files stay in order.
LEMMA PowerLossFile == FileInv /\ PowerLoss => FileInv'
<1> SUFFICES ASSUME FileInv, PowerLoss PROVE FileInv'
  OBVIOUS
<1>1. /\ op' = NoOp /\ faults' = faults + 1 /\ since' = since /\ kept' = None
      /\ dev' = [on |-> FALSE, top |-> 0, id |-> None, bits |-> {}]
  BY DEF PowerLoss, Fault
<1>2. PICK k \in DOMAIN deltas, f \in Delta :
        /\ f \in Delta /\ FileOK(f, f)
        /\ deltas' \in Seq(Delta) /\ Len(deltas') = Len(deltas)
        /\ DOMAIN deltas' = DOMAIN deltas /\ deltas'[k] = f
        /\ (\A j \in DOMAIN deltas : j # k => deltas'[j] = deltas[j])
        /\ disk' = deltas'
  BY Lost
<1>3. dev' \in Dev /\ ~ dev'.on /\ kept' \in Id
  BY <1>1 DEF Dev, Id
<1>4. faults' \in Nat /\ faults' # 0
  BY <1>1 DEF FileInv, Shape
<1>5. Shape'
  BY <1>1, <1>2, <1>3, <1>4, NewTypes DEF FileInv, Shape
<1>6. Files'
  <2> SUFFICES ASSUME NEW j \in DOMAIN deltas PROVE FileOK(deltas'[j], deltas'[j])
    BY <1>2 DEF Files
  <2>1. CASE j = k
    BY <1>2, <2>1
  <2>2. CASE j # k
    BY <1>2, <2>2, TopFile, FileSynced
  <2> QED
    BY <2>1, <2>2
<1>7. Control' /\ Extending'
  <2>1. Len(deltas') > 0
    BY <1>2, TopFile
  <2> QED
    BY <1>1, <1>3, <2>1, IdleControl
<1>8. ExtNear'
  BY <1>4 DEF ExtNear
<1> QED
  BY <1>5, <1>6, <1>7, <1>8 DEF FileInv

\* A device that was just mounted has its files in order.
LEMMA InitFile == Init => FileInv
<1> SUFFICES ASSUME Init PROVE FileInv
  OBVIOUS
<1> DEFINE g == [NewDelta EXCEPT !.use = "yes"]
<1>1. /\ deltas = <<g>> /\ disk = deltas /\ op = NoOp /\ since = << >> /\ kept = None
      /\ dev = [on |-> TRUE, top |-> 1, id |-> None, bits |-> {}] /\ faults = 0
  BY DEF Init
<1>2. g \in Delta /\ g.use = "yes" /\ g.map = {} /\ g.blk = << >>
  BY NewTypes DEF NewDelta
<1>3. FileOK(g, g)
  BY <1>2, FileNew
<1> HIDE DEF g
<1>4. deltas \in Seq(Delta) /\ Len(deltas) = 1 /\ DOMAIN deltas = {1} /\ deltas[1] = g
  BY <1>1, <1>2
<1>5. since \in Sinces
  <2>1. << >> = [u \in {} |-> {}]
    OBVIOUS
  <2>2. {} \in SUBSET Uuid /\ [u \in {} |-> {}] \in [{} -> SUBSET Bits]
    OBVIOUS
  <2> QED
    BY <1>1, <2>1, <2>2, SinceMember
<1>6. dev \in Dev /\ dev.on /\ dev.top = 1 /\ kept \in Id /\ NoOp \in Op
  BY <1>1, NewTypes DEF Dev, Id
<1>7. Shape
  BY <1>1, <1>4, <1>5, <1>6 DEF Shape
<1>8. Files
  BY <1>1, <1>3, <1>4 DEF Files
<1>9. op.pc = "idle" /\ op.raw = NoCbt /\ ~ Saving
  BY <1>1 DEF NoOp, Saving
<1>10. Control /\ Extending
  <2>1. /\ Top > 0 /\ dev.top \in DOMAIN deltas /\ deltas[dev.top].use = "yes" /\ op = NoOp
    BY <1>1, <1>2, <1>4, <1>6 DEF Top
  <2> QED
    BY <1>6, <1>9, <2>1 DEF Control, Extending, Towards
<1>11. ExtNear
  BY <1>2, <1>4 DEF ExtNear
<1> QED
  BY <1>7, <1>8, <1>10, <1>11 DEF FileInv

\* Stuttering keeps the files in order.
LEMMA StutterFile == FileInv /\ UNCHANGED vars => FileInv'
<1> SUFFICES ASSUME FileInv, UNCHANGED vars PROVE FileInv'
  OBVIOUS
<1>1. UNCHANGED <<deltas, disk, dev, op, since, kept, faults>>
  BY DEF vars
<1>2. Shape' /\ Top' = Top
  BY <1>1 DEF FileInv, Shape, Top
<1>3. (Saving' <=> Saving) /\ \A pc : Towards(pc)' <=> Towards(pc)
  BY <1>1 DEF Saving, Towards
<1>4. Control'
  BY <1>1, <1>2, <1>3 DEF FileInv, Control
<1>5. Files'
  BY <1>1, FilesSame DEF FileInv
<1>6. Extending'
  BY <1>1, <1>3 DEF FileInv, Extending
<1>7. ExtNear'
  BY <1>1, <1>2 DEF FileInv, ExtNear
<1> QED
  BY <1>2, <1>4, <1>5, <1>6, <1>7 DEF FileInv

\* Every step keeps the files in order, faults included.
LEMMA FileStep == FileInv /\ [Next]_vars => FileInv'
<1> SUFFICES ASSUME FileInv, [Next]_vars PROVE FileInv'
  OBVIOUS
<1>1. CASE Save
  BY <1>1, SaveNothingFile, SaveGetFile, SaveRawFile, SaveChunkFile, SaveHeaderFile, SaveExtFile
     DEF Save
<1>2. ASSUME NEW u \in Uuid, CreateSnapshot(u) \/ OfflineSnapshot(u) PROVE FileInv'
  BY <1>2, CreateSnapshotFile, OfflineSnapshotFile
<1>3. CASE CreateSnapshot(None)
  BY <1>3, CreateSnapshotFile
<1>4. CASE SnapshotPrepare \/ SnapshotIoctl \/ CbtSnapshot \/ SetUuid
  BY <1>4, SnapshotPrepareFile, SnapshotIoctlFile, CbtSnapshotFile, SetUuidFile
<1>5. CASE OfflineSnapshotMove \/ OfflineSnapshotDump
  BY <1>5, OfflineSnapshotMoveFile, OfflineSnapshotDumpFile
<1>6. CASE MergeOffline \/ MergeUnlink \/ MergeOnline \/ DeleteTop
  BY <1>6, MergeOfflineFile, MergeUnlinkFile, MergeOnlineFile, DeleteTopFile
<1>7. CASE Mounts
  BY <1>7, MountCheckFile, LoadExtFile, StartFile, SendBitmapFile, UmountFile, CbtStopFile,
     DropCbtFile DEF Mounts
<1>8. ASSUME NEW b \in Bits, GuestWrite(b) PROVE FileInv'
  BY <1>8, GuestWriteFile
<1>9. CASE Fail \/ PowerLoss
  BY <1>9, FailFile, PowerLossFile
<1>10. CASE UNCHANGED vars
  BY <1>10, StutterFile
<1> QED
  BY <1>1, <1>2, <1>3, <1>4, <1>5, <1>6, <1>7, <1>8, <1>9, <1>10 DEF Next, Snapshots

\* The clusters of every file are in order in every state, faults included:
\* what was synced and what is seen agree where both have a cluster, an
\* extension that the header announces is behind everything else, and the
\* bitmap blocks that it lists are not data (cbt.c, delta_save_optional_header
\* and truncate_ext_blocks).
THEOREM FilesInOrder == Spec => []FileInv
<1>1. Init => FileInv
  BY InitFile
<1>2. FileInv /\ [Next]_vars => FileInv'
  BY FileStep
<1> QED
  BY <1>1, <1>2, PTL DEF Spec

\* The type invariant; without faults the header of an idle image never
\* points behind the cluster that follows the end of the file.
THEOREM TypeCorrect == Spec => []TypeOK
<1>1. FileInv => TypeOK
  <2> SUFFICES ASSUME FileInv PROVE TypeOK
    OBVIOUS
  <2>1. ASSUME NEW k \in DOMAIN deltas
        PROVE  /\ deltas[k].use \in {"v20", "v21", "yes"}
               /\ deltas[k].use = "v21" /\ op = NoOp /\ faults = 0
                  => deltas[k].ext <= Len(deltas[k].blk) + 1
               /\ deltas[k].map \subseteq Bits
    <3>1. deltas[k] \in Delta
      BY TopFile
    <3>2. NoOp.pc # "start"
      BY DEF NoOp
    <3>3. deltas[k].use = "v21" /\ op = NoOp /\ faults = 0
          => deltas[k].ext <= Len(deltas[k].blk) + 1
      BY <3>2 DEF FileInv, ExtNear
    <3>4. deltas[k].use \in {"v20", "v21", "yes"} /\ deltas[k].map \subseteq Bits
      BY <3>1 DEF Delta
    <3> QED
      BY <3>3, <3>4
  <2>2. dev \in Dev /\ since \in Sinces /\ kept \in Id
    BY DEF FileInv, Shape
  <2>3. dev.on \in BOOLEAN /\ dev.id \in Uuid \cup {None} /\ dev.bits \subseteq Bits
        /\ kept \in Uuid \cup {None}
    BY <2>2 DEF Dev, Id
  <2>4. DOMAIN since \subseteq Uuid
    BY <2>2, SinceDomain
  <2> QED
    BY <2>1, <2>3, <2>4 DEF TypeOK
<1> QED
  BY <1>1, FilesInOrder, PTL

\* Cutting off or dropping the extension never cuts off a cluster of data
\* (truncate_ext_blocks), whatever was lost before.
THEOREM ExtensionSparesData == Spec => []DataKept
<1>1. FileInv => DataKept
  BY DEF FileInv, Files, FileOK, DataIn, DataKept
<1> QED
  BY <1>1, FilesInOrder, PTL

\* What is left of the tracking when no operation runs.
LEMMA IdleTracks ==
  ASSUME op' = NoOp, Loads', Dumped',
         dev'.on /\ dev'.id # None => since'[dev'.id] \subseteq dev'.bits,
         \A k \in DOMAIN deltas' : DOMAIN deltas'[k].since \subseteq DOMAIN since',
         dev'.id # None => dev'.id \in DOMAIN since'
  PROVE  Tracks'
<1>1. op'.pc = "idle" /\ op'.raw = NoCbt /\ op'.id = None /\ op'.or = {}
  BY DEF NoOp
<1>2. ~ Saving'
  BY <1>1 DEF Saving
<1>3. Sets'
  BY <1>1, <1>2 DEF Sets, Towards
<1>4. Kernel'
  BY <1>1 DEF Kernel
<1>5. Taken' /\ Switching' /\ Starting' /\ Unlinking' /\ SavingDevice' /\ SavingRaw' /\ Stopping'
  BY <1>1, <1>2 DEF Taken, Switching, Starting, Unlinking, SavingDevice, SavingRaw, Stopping, Towards
<1> QED
  BY <1>3, <1>4, <1>5 DEF Tracks

\* The file that is being extended offers nothing before its extension block
\* is written.
LEMMA SavingUnloadable == FileInv /\ Saving => ~ Loadable(deltas[op.img])
<1> SUFFICES ASSUME FileInv, Saving PROVE ~ Loadable(deltas[op.img])
  OBVIOUS
<1> DEFINE f == deltas[op.img]
<1>1. f \in Delta /\ f.blk \in Seq(Block)
  BY Target
<1>2. f.use = "v20" \/ f.ext = Len(f.blk) + 1
  BY DEF FileInv, Extending
<1> HIDE DEF f
<1>3. ~ Loadable(f)
  BY <1>1, <1>2 DEF Loadable, HasExt
<1> QED
  BY <1>3 DEF f

\* A bitmap has at least one chunk.
LEMMA ChunksExist == NChunks \in Nat \ {0}
  BY CbtAssumption, ChunksCover DEF NChunks

\* A step inside of a save changes the bitmap in the file, and nothing else.
LEMMA SaveFrame ==
  ASSUME FileInv, FileInv', Tracks, Saving, Saving', UNCHANGED <<dev, since>>,
         op'.id = op.id, op'.or = op.or, op'.next = op.next, op'.img = op.img, op'.raw = op.raw,
         DOMAIN deltas' = DOMAIN deltas, Len(deltas') = Len(deltas),
         \A k \in DOMAIN deltas : k # op.img => deltas'[k] = deltas[k],
         deltas'[op.img].since = deltas[op.img].since,
         \/ deltas'[op.img].use = deltas[op.img].use
         \/ op.raw # NoCbt
         \/ dev.id # None,
         SavingDevice', SavingRaw'
  PROVE  Tracks'
<1>1. Top' = Top /\ op.img \in DOMAIN deltas /\ op.pc # "send" /\ op'.pc # "send"
      /\ op'.pc \notin {"cbt", "prepare", "load", "start"}
      /\ \A pc \in {"uuid", "unlink"} : op'.pc # pc /\ op.pc # pc
  BY Target DEF Top, Saving
<1>2. \A k \in DOMAIN deltas : deltas'[k].since = deltas[k].since
  BY <1>1
<1>3. \A k \in DOMAIN deltas : SinceOf(k)' = SinceOf(k)
  BY <1>1, <1>2 DEF SinceOf
<1>4. Sets'
  BY <1>1, <1>2 DEF Sets, Tracks, Towards
<1>5. Loads'
  <2>1. ~ Loadable(deltas'[op.img])
    <3>1. (FileInv /\ Saving => ~ Loadable(deltas[op.img]))'
      BY SavingUnloadable, PTL
    <3> QED
      BY <3>1
  <2> SUFFICES ASSUME NEW k \in DOMAIN deltas, Loadable(deltas'[k])
               PROVE  Offers(Raw(deltas'[k]), SinceOf(k)')
    BY DEF Loads
  <2>2. k # op.img /\ deltas'[k] = deltas[k]
    BY <2>1
  <2>3. Offers(Raw(deltas[k]), SinceOf(k))
    BY <2>2 DEF Loads, Tracks
  <2> QED
    BY <1>3, <2>2, <2>3
<1>6. Kernel'
  BY <1>1 DEF Kernel, Tracks
<1>7. Switching'
  BY <1>1 DEF Switching, Tracks, Towards
<1>8. Unlinking'
  <2> SUFFICES ASSUME op.next = "unlink" PROVE deltas'[Top - 1].since = since
    BY <1>1 DEF Unlinking, Towards
  <2>1. Top - 1 = op.img
    BY DEF FileInv, Control
  <2>2. deltas[Top - 1].since = since
    BY DEF Unlinking, Tracks, Towards
  <2> QED
    BY <2>1, <2>2
<1>9. Taken' /\ Starting'
  BY <1>1 DEF Taken, Starting
<1>10. op.raw # NoCbt => ~ dev.on /\ op.next # "stop"
  BY DEF FileInv, Control
<1>11. dev.id = None /\ op.raw = NoCbt => deltas'[Top].use = deltas[Top].use
  <2>1. Top \in DOMAIN deltas
    BY TopFile DEF Top
  <2> QED
    BY <2>1
<1>12. Dumped' /\ Stopping'
  BY <1>1, <1>10, <1>11 DEF Dumped, Stopping, Tracks
<1> QED
  BY <1>4, <1>5, <1>6, <1>7, <1>8, <1>9, <1>12 DEF Tracks

\* What an entry of m_L1 does to the file and to what the entries stand for.
LEMMA EntryStored ==
  ASSUME FileInv, op.pc \in {"save", "save_chunk"}, NEW e \in Nat, NEW s \in SUBSET Bits, Entry(e),
         \/ Constant(e, s) /\ (e = 1 => s = Chunk(op.i))
         \/ InBlock(e, s),
         Len(op.l1) = op.i - 1, NEW i \in Nat \ {0}, i = op.i
  PROVE  /\ DOMAIN deltas' = DOMAIN deltas /\ Len(deltas') = Len(deltas)
         /\ \A k \in DOMAIN deltas : k # op.img => deltas'[k] = deltas[k]
         /\ deltas'[op.img].since = deltas[op.img].since
         /\ deltas'[op.img].use = deltas[op.img].use
         /\ Len(op'.l1) = op'.i - 1 /\ DOMAIN op'.l1 = DOMAIN op.l1 \cup {i}
         /\ \A j \in DOMAIN op.l1 : Stored(j)' = Stored(j)
         /\ Stored(i)' = s
<1> DEFINE c == deltas[op.img]
           x == BitsBlock(s)
<1>0. Saving
  BY DEF Saving
<1>1. /\ op.img \in DOMAIN deltas /\ c \in Delta /\ c.blk \in Seq(Block) /\ op.l1 \in Seq(Nat)
      /\ op.i \in Nat \ {0} /\ deltas \in Seq(Delta)
  BY <1>0, Target DEF FileInv, Shape
<1>2. \A j \in DOMAIN op.l1 : op.l1[j] > 1 => op.l1[j] - 1 \in DOMAIN c.blk
  BY <1>0 DEF FileInv, Extending
<1>3. op'.l1 = Append(op.l1, e) /\ op'.i = op.i + 1 /\ op'.img = op.img
  BY DEF Entry
<1>4. /\ Len(op'.l1) = op'.i - 1 /\ DOMAIN op'.l1 = DOMAIN op.l1 \cup {i}
      /\ op'.l1[i] = e /\ \A j \in DOMAIN op.l1 : op'.l1[j] = op.l1[j]
  <2>1. /\ Len(op'.l1) = Len(op.l1) + 1 /\ DOMAIN op'.l1 = DOMAIN op.l1 \cup {Len(op.l1) + 1}
        /\ op'.l1[Len(op.l1) + 1] = e /\ \A j \in DOMAIN op.l1 : op'.l1[j] = op.l1[j]
    <3>1. op.l1 \in Seq(Nat) /\ op'.l1 = Append(op.l1, e)
      BY <1>1, <1>3
    <3> QED
      BY <3>1, Appended
  <2>2. Len(op.l1) + 1 = i /\ op.i + 1 - 1 = i
    BY <1>1
  <2> QED
    BY <1>3, <2>1, <2>2
<1>5. x \in Block /\ x.s = s
  BY NewBlocks
<1> HIDE DEF x
<1>6. CASE Constant(e, s) /\ (e = 1 => s = Chunk(op.i))
  <2>1. deltas' = deltas /\ e \in {0, 1} /\ (e = 0 => s = {}) /\ (e = 1 => s = Chunk(op.i))
    BY <1>6 DEF Constant
  <2>2. \A j \in DOMAIN op.l1 : Stored(j)' = Stored(j)
    BY <1>3, <1>4, <2>1 DEF Stored
  <2>3. Stored(i)' = s
    BY <1>4, <2>1 DEF Stored
  <2> QED
    BY <1>4, <2>1, <2>2, <2>3
<1>7. CASE InBlock(e, s)
  <2> DEFINE q == Append(c.blk, x)
             f == [c EXCEPT !.blk = q]
  <2>1. e = Len(c.blk) + 2 /\ deltas' = [deltas EXCEPT ![op.img] = f]
    BY <1>7, Zenon DEF InBlock, Put, x
  <2>2. /\ q \in Seq(Block) /\ Len(q) = Len(c.blk) + 1 /\ q[Len(c.blk) + 1] = x
        /\ \A n \in DOMAIN c.blk : q[n] = c.blk[n]
    BY <1>1, <1>5, Appended
  <2> HIDE DEF q
  <2>3. f \in Delta /\ f.use = c.use /\ f.since = c.since /\ f.blk = q
    BY <1>1, <2>2, DeltaBlk
  <2> HIDE DEF f
  <2>4. /\ DOMAIN deltas' = DOMAIN deltas /\ Len(deltas') = Len(deltas) /\ deltas'[op.img] = f
        /\ \A k \in DOMAIN deltas : k # op.img => deltas'[k] = deltas[k]
    BY <1>1, <2>1, <2>3, Replaced
  <2>5. ASSUME NEW j \in DOMAIN op.l1 PROVE Stored(j)' = Stored(j)
    <3>1. op'.l1[j] = op.l1[j] /\ op.l1[j] \in Nat
      <4>1. op'.l1[j] = op.l1[j]
        BY <1>4
      <4> DEFINE l == op.l1
      <4>2. l \in Seq(Nat) /\ j \in DOMAIN l
        BY <1>1
      <4> HIDE DEF l
      <4>3. l[j] \in Nat
        BY <4>2
      <4> QED
        BY <4>1, <4>3 DEF l
    <3>2. op.l1[j] # 0 /\ op.l1[j] # 1 => f.blk[op.l1[j] - 1] = c.blk[op.l1[j] - 1]
      <4>1. op.l1[j] # 0 /\ op.l1[j] # 1 => op.l1[j] > 1
        BY <3>1
      <4> QED
        BY <1>2, <2>2, <2>3, <4>1
    <3> QED
      BY <1>3, <2>4, <3>1, <3>2 DEF Stored
  <2>6. Stored(i)' = s
    <3>1. Len(c.blk) \in Nat
      BY <1>1
    <3>2. e # 0 /\ e # 1 /\ e - 1 = Len(c.blk) + 1
      BY <2>1, <3>1
    <3>3. f.blk[e - 1].s = s
      BY <1>5, <2>2, <2>3, <3>2
    <3> QED
      BY <1>3, <1>4, <2>4, <3>2, <3>3 DEF Stored
  <2> QED
    BY <1>4, <2>3, <2>4, <2>5, <2>6
<1> QED
  BY <1>6, <1>7

\* One chunk of the bitmap of the device: the bitmaps stay complete.
LEMMA SaveChunkTrack == ASSUME FileInv, FileInv', Tracks, SaveChunk PROVE Tracks'
<1>1. /\ op.pc = "save_chunk" /\ Saving /\ UNCHANGED <<dev, since>>
      /\ op.raw = NoCbt => dev.id # None
      /\ ChunkBitsNow \in SUBSET Bits
  BY SaveChunkEffect
<1>2. op.raw = NoCbt
  BY <1>1 DEF Tracks, SavingRaw
<1>3. /\ op.next \in {"uuid", "stop"} /\ (op.next = "stop" => op.img = Top)
      /\ dev.id \in DOMAIN SinceOf(op.img) /\ Goal \subseteq dev.bits \cup op.or
      /\ Len(op.l1) = op.i - 1
      /\ \A j \in DOMAIN op.l1 : Goal \cap Chunk(j) \subseteq Stored(j)
      /\ Goal \cap Chunk(op.i) \subseteq op.got \cup op.or
  BY <1>1, <1>2 DEF Tracks, SavingDevice
<1>4. PICK e \in Nat : /\ Entry(e)
                       /\ \/ Constant(e, ChunkBitsNow) /\ (e = 1 => ChunkBitsNow = Chunk(op.i))
                          \/ InBlock(e, ChunkBitsNow)
  BY SaveChunkEffect
<1>5. PICK i \in Nat \ {0}, s \in SUBSET Bits : i = op.i /\ s = ChunkBitsNow
  BY <1>1, Target
<1>a. Goal \cap Chunk(i) \subseteq s
  BY <1>3, <1>5 DEF ChunkBitsNow
<1>6. /\ DOMAIN deltas' = DOMAIN deltas /\ Len(deltas') = Len(deltas)
      /\ \A k \in DOMAIN deltas : k # op.img => deltas'[k] = deltas[k]
      /\ deltas'[op.img].since = deltas[op.img].since
      /\ deltas'[op.img].use = deltas[op.img].use
      /\ Len(op'.l1) = op'.i - 1 /\ DOMAIN op'.l1 = DOMAIN op.l1 \cup {i}
      /\ \A j \in DOMAIN op.l1 : Stored(j)' = Stored(j)
      /\ Stored(i)' = s
  <2>1. op.pc \in {"save", "save_chunk"}
    BY <1>1
  <2>2. \/ Constant(e, s) /\ (e = 1 => s = Chunk(op.i))
        \/ InBlock(e, s)
    BY <1>4, <1>5
  <2> QED
    BY <1>3, <1>4, <1>5, <2>1, <2>2, EntryStored
<1>7. /\ op'.pc = "save" /\ op'.img = op.img /\ op'.next = op.next /\ op'.raw = op.raw
      /\ op'.id = op.id /\ op'.or = op.or /\ op'.pos = 0
  BY <1>2, <1>4 DEF Entry
<1>8. Saving'
  BY <1>7 DEF Saving
<1>9. SinceOf(op.img)' = SinceOf(op.img) /\ Goal' = Goal /\ Top' = Top
  BY <1>1, <1>6, <1>7 DEF SinceOf, Goal, Top
<1>10. SavingDevice'
  <2>1. ASSUME NEW j \in DOMAIN op'.l1 PROVE Goal \cap Chunk(j) \subseteq Stored(j)'
    <3>1. CASE j \in DOMAIN op.l1
      BY <1>3, <1>6, <3>1
    <3>2. CASE j = i
      BY <1>6, <1>a, <3>2
    <3> QED
      BY <1>6, <3>1, <3>2
  <2>2. \A b \in Bits : ~ (b < 0)
    BY BitsNat
  <2>3. \A n : Goal \cap Chunk(n) \subseteq Bits
    BY ChunkBitsOf
  <2> QED
    BY <1>1, <1>3, <1>6, <1>7, <1>9, <2>1, <2>2, <2>3 DEF SavingDevice
<1>11. SavingRaw'
  BY <1>2, <1>7 DEF SavingRaw
<1> QED
  BY <1>1, <1>6, <1>7, <1>8, <1>10, <1>11, SaveFrame

\* One entry of a bitmap that was read from another delta: the bitmaps stay complete.
LEMMA SaveRawTrack == ASSUME FileInv, FileInv', Tracks, SaveRaw PROVE Tracks'
<1>1. /\ op.pc = "save" /\ Saving /\ op.raw # NoCbt /\ UNCHANGED <<dev, since>>
      /\ op.i \in DOMAIN op.raw.parts /\ op.raw.parts[op.i] \in Part
  BY SaveRawEffect
<1>2. /\ Offers(op.raw, SinceOf(op.img))
      /\ Len(op.l1) = op.i - 1
      /\ \A j \in DOMAIN op.raw.parts : op.raw.parts[j].const => op.raw.parts[j].s \in {{}, Chunk(j)}
      /\ \A j \in DOMAIN op.l1 : op.raw.parts[j].s \subseteq Stored(j)
  BY <1>1 DEF Tracks, SavingRaw
<1>4. PICK i \in Nat \ {0}, s \in SUBSET Bits : i = op.i /\ s = op.raw.parts[op.i].s
  BY <1>1, Target DEF Part
<1>3. PICK e \in Nat : Entry(e) /\ IF op.raw.parts[i].const THEN Constant(e, s) ELSE InBlock(e, s)
  BY <1>4, SaveRawEffect
<1>5. \/ Constant(e, s) /\ (e = 1 => s = Chunk(op.i))
      \/ InBlock(e, s)
  <2>1. op.raw.parts[i].const /\ s # {} => s = Chunk(op.i)
    BY <1>1, <1>2, <1>4
  <2> QED
    BY <1>3, <2>1 DEF Constant
<1>a. op.raw.parts[i].s = s
  BY <1>4
<1>6. /\ DOMAIN deltas' = DOMAIN deltas /\ Len(deltas') = Len(deltas)
      /\ \A k \in DOMAIN deltas : k # op.img => deltas'[k] = deltas[k]
      /\ deltas'[op.img].since = deltas[op.img].since
      /\ deltas'[op.img].use = deltas[op.img].use
      /\ Len(op'.l1) = op'.i - 1 /\ DOMAIN op'.l1 = DOMAIN op.l1 \cup {i}
      /\ \A j \in DOMAIN op.l1 : Stored(j)' = Stored(j)
      /\ Stored(i)' = s
  <2>1. op.pc \in {"save", "save_chunk"}
    BY <1>1
  <2> QED
    BY <1>2, <1>3, <1>4, <1>5, <2>1, EntryStored
<1>7. /\ op'.pc = "save" /\ op'.img = op.img /\ op'.next = op.next /\ op'.raw = op.raw
      /\ op'.id = op.id /\ op'.or = op.or /\ op'.i = op.i + 1
  BY <1>3 DEF Entry
<1>8. Saving'
  BY <1>7 DEF Saving
<1>9. SinceOf(op.img)' = SinceOf(op.img)
  BY <1>1, <1>6, <1>7 DEF SinceOf, Top
<1>10. SavingRaw'
  <2>1. ASSUME NEW j \in DOMAIN op'.l1 PROVE op.raw.parts[j].s \subseteq Stored(j)'
    <3>1. CASE j \in DOMAIN op.l1
      BY <1>2, <1>6, <3>1
    <3>2. CASE j = i
      BY <1>6, <1>a, <3>2
    <3> QED
      BY <1>6, <3>1, <3>2
  <2>2. op.i + 1 <= Len(op.raw.parts) + 1
    <3>1. op \in Op
      BY <1>1, Target
    <3>2. op.raw.parts \in Seq(Part)
      BY <3>1 DEF Op, RawCbt
    <3> QED
      BY <1>1, <1>4, <3>2
  <2> QED
    BY <1>2, <1>6, <1>7, <1>9, <2>1, <2>2 DEF SavingRaw
<1>11. SavingDevice'
  BY <1>1, <1>7 DEF SavingDevice
<1> QED
  BY <1>1, <1>6, <1>7, <1>8, <1>10, <1>11, SaveFrame

\* One BLKCBTGET while a bitmap is saved: the bitmaps stay complete.
LEMMA SaveGetTrack == ASSUME FileInv, FileInv', Tracks, SaveGet PROVE Tracks'
<1> DEFINE last == IF op.i * ChunkBits <= NBits THEN op.i * ChunkBits - 1 ELSE NBits - 1
           from == IF op.pos > (op.i - 1) * ChunkBits THEN op.pos ELSE (op.i - 1) * ChunkBits
           runs == Page(dev.bits, from, last)
<1>0. op.pc = "save" /\ UNCHANGED <<deltas, dev, since>> /\ dev.id # None /\ op.raw = NoCbt
      /\ op' = [op EXCEPT !.got = @ \cup Covered(runs),
                       !.pos = IF Full(runs) THEN PageEnd(runs) ELSE @,
                       !.pc = IF Full(runs) THEN "save" ELSE "save_chunk"]
  BY DEF SaveGet
<1>1. op \in Op /\ dev.bits \in SUBSET Bits /\ op.i \in Nat \ {0} /\ op.pos \in Nat
  BY DEF FileInv, Shape, Op, Dev
<1>2. last \in Nat /\ from \in Nat
  BY <1>1, ChunkLast
<1>3. ASSUME NEW b \in Chunk(op.i) PROVE b \in Bits /\ b <= last /\ (b < from => b < op.pos)
  <2>1. b \in Bits /\ b \in Nat /\ b <= NBits - 1
    BY CbtAssumption, ChunkBitsOf DEF Bits
  <2>2. (op.i - 1) * ChunkBits <= b /\ b < op.i * ChunkBits
    BY <1>1, <1>3, <2>1, ChunkRange
  <2>3. op.i * ChunkBits \in Nat /\ (op.i - 1) * ChunkBits \in Nat
    BY <1>1, CbtAssumption
  <2> DEFINE x == op.i * ChunkBits
             y == (op.i - 1) * ChunkBits
  <2> HIDE DEF x, y
  <2>4. x \in Nat /\ y \in Nat /\ y <= b /\ b < x
    BY <2>2, <2>3 DEF x, y
  <2>5. last = (IF x <= NBits THEN x - 1 ELSE NBits - 1) /\ from = IF op.pos > y THEN op.pos ELSE y
    BY DEF x, y
  <2> QED
    BY <1>1, <2>1, <2>4, <2>5, CbtAssumption
<1> HIDE DEF last, from
<1>4. /\ Covered(runs) \subseteq Bits
      /\ ~ Full(runs) => \A b \in dev.bits : b \in from .. last => b \in Covered(runs)
      /\ Full(runs) => /\ PageEnd(runs) \in Nat
                       /\ \A b \in dev.bits : b \in from .. last /\ b < PageEnd(runs)
                                              => b \in Covered(runs)
  BY <1>1, <1>2, BitsNat, PageCovers
<1> HIDE DEF runs
<1>5. /\ op' \in Op /\ op'.next = op.next /\ op'.img = op.img /\ op'.l1 = op.l1 /\ op'.i = op.i
      /\ op'.raw = op.raw /\ op'.or = op.or /\ op'.id = op.id
      /\ op'.got = op.got \cup Covered(runs)
      /\ Full(runs) => op'.pc = "save" /\ op'.pos = PageEnd(runs)
      /\ ~ Full(runs) => op'.pc = "save_chunk"
  BY <1>0, <1>1, <1>4 DEF Op
<1>6. Saving /\ Saving'
  BY <1>0, <1>5 DEF Saving
<1>7. /\ op.next \in {"uuid", "stop"} /\ (op.next = "stop" => op.img = Top)
      /\ dev.id \in DOMAIN SinceOf(op.img) /\ Goal \subseteq dev.bits \cup op.or
      /\ Len(op.l1) = op.i - 1
      /\ \A j \in DOMAIN op.l1 : Goal \cap Chunk(j) \subseteq Stored(j)
      /\ \A b \in Goal \cap Chunk(op.i) : b < op.pos => b \in op.got \cup op.or
  BY <1>0, <1>6 DEF Tracks, SavingDevice
<1>8. /\ SinceOf(op.img)' = SinceOf(op.img) /\ Goal' = Goal /\ Top' = Top
      /\ \A j : Stored(j)' = Stored(j)
  BY <1>0, <1>5 DEF SinceOf, Goal, Top, Stored
<1>9. ASSUME NEW b \in Goal \cap Chunk(op.i), Full(runs) => b < PageEnd(runs)
      PROVE  b \in op.got \cup Covered(runs) \cup op.or
  <2>1. b \in Bits /\ b <= last /\ (b < from => b < op.pos) /\ b \in Nat
    BY <1>3, BitsNat
  <2>2. CASE b < from
    BY <1>7, <2>1, <2>2
  <2>3. CASE ~ (b < from)
    <3>1. b \in from .. last
      BY <1>2, <2>1, <2>3
    <3>2. b \in dev.bits => b \in Covered(runs)
      BY <1>4, <1>9, <3>1
    <3> QED
      BY <1>7, <3>2
  <2> QED
    BY <2>2, <2>3
<1>10. SavingDevice'
  <2>1. op'.pc = "save" => \A b \in Goal \cap Chunk(op.i) : b < op'.pos => b \in op'.got \cup op.or
    BY <1>5, <1>9
  <2>2. op'.pc = "save_chunk" => Goal \cap Chunk(op.i) \subseteq op'.got \cup op.or
    BY <1>5, <1>9
  <2>3. op'.pc # "save_ext"
    BY <1>5
  <2> QED
    BY <1>0, <1>5, <1>7, <1>8, <2>1, <2>2, <2>3 DEF SavingDevice
<1>11. SavingRaw'
  BY <1>0, <1>5 DEF SavingRaw
<1> QED
  BY <1>0, <1>5, <1>6, <1>10, <1>11, SaveFrame

\* The header that announces the extension: the bitmaps stay complete.
LEMMA SaveHeaderTrack == ASSUME FileInv, FileInv', Tracks, SaveHeader PROVE Tracks'
<1>1. /\ op.pc = "save" /\ Saving /\ Saving' /\ UNCHANGED <<dev, since>>
      /\ op'.pc = "save_ext" /\ op'.img = op.img /\ op'.next = op.next
      /\ op'.raw = op.raw /\ op'.l1 = op.l1 /\ op'.i = op.i /\ op'.id = op.id /\ op'.or = op.or
      /\ op.raw = NoCbt => op.i > NChunks /\ dev.id # None
      /\ op.raw # NoCbt => op.i > Len(op.raw.parts)
      /\ Len(deltas') = Len(deltas) /\ DOMAIN deltas' = DOMAIN deltas
      /\ \A j \in DOMAIN deltas : j # op.img => deltas'[j] = deltas[j]
      /\ deltas'[op.img].since = deltas[op.img].since
      /\ deltas'[op.img].blk = deltas[op.img].blk
  BY SaveHeaderEffect
<1>2. /\ SinceOf(op.img)' = SinceOf(op.img) /\ Goal' = Goal /\ Top' = Top
      /\ \A j : Stored(j)' = Stored(j)
  BY <1>1 DEF SinceOf, Goal, Top, Stored
<1>3. SavingDevice'
  BY <1>1, <1>2 DEF SavingDevice, Tracks
<1>4. SavingRaw'
  BY <1>1, <1>2 DEF SavingRaw, Tracks
<1> QED
  BY <1>1, <1>3, <1>4, SaveFrame

\* The save is over and its caller goes on.
LEMMA EndTracks ==
  ASSUME FileInv, Tracks, Saving, EndSave, UNCHANGED <<dev, since>>, Loads',
         DOMAIN deltas' = DOMAIN deltas, Len(deltas') = Len(deltas),
         \A k \in DOMAIN deltas : deltas'[k].since = deltas[k].since,
         dev.id = None /\ op.raw = NoCbt => deltas'[Top].use = deltas[Top].use
  PROVE  Tracks'
<1>0. Shape /\ Control /\ Top' = Top
  BY DEF FileInv, Top
<1>1. ~ Saving'
  BY <1>0, EndSaveEffect
<1>2. op.raw # NoCbt => ~ dev.on /\ op.next # "stop"
  BY <1>0 DEF Control
<1>3. Dumped'
  BY <1>0, <1>2 DEF Dumped, Tracks
<1>4. op.pc # "send"
  BY DEF Saving
<1>5. dev.on /\ dev.id # None => since[dev.id] \subseteq dev.bits \cup op.or /\ op.next # "end"
  <2>1. dev.on /\ dev.id # None => since[dev.id] \subseteq dev.bits \cup op.or
    BY <1>4 DEF Kernel, Tracks
  <2>2. dev.on /\ dev.id # None => op.next # "end"
    BY <1>2 DEF SavingDevice, Tracks
  <2> QED
    BY <2>1, <2>2
<1>6. CASE op.next = "end"
  <2>1. op' = NoOp
    BY <1>0, <1>6, EndSaveEffect
  <2>2. \A k \in DOMAIN deltas' : DOMAIN deltas'[k].since \subseteq DOMAIN since'
    BY DEF Sets, Tracks
  <2>3. dev'.id # None => dev'.id \in DOMAIN since'
    BY DEF Sets, Tracks
  <2>4. dev'.on /\ dev'.id # None => since'[dev'.id] \subseteq dev'.bits
    BY <1>5, <1>6
  <2> QED
    BY <1>3, <2>1, <2>2, <2>3, <2>4, IdleTracks
<1>7. CASE op.next # "end"
  <2>1. /\ op'.pc \in {"uuid", "unlink", "stop"} /\ op'.pc = op.next /\ op'.raw = NoCbt
        /\ op'.id = op.id /\ op'.or = op.or
    BY <1>0, <1>7, EndSaveEffect
  <2>2. \A pc : op'.pc = pc => Towards(pc)
    BY <2>1 DEF Towards
  <2>3. Sets'
    BY <1>1, <2>1, <2>2 DEF Sets, Tracks, Towards
  <2>4. Kernel'
    BY <1>5, <2>1 DEF Kernel
  <2>5. Switching'
    BY <1>1, <2>1, <2>2 DEF Switching, Tracks, Towards
  <2>6. Unlinking'
    <3>1. Towards("unlink") => deltas[Top - 1].since = since /\ Top > 1
      BY <1>0 DEF Unlinking, Tracks, Control
    <3>2. Top > 1 => Top - 1 \in DOMAIN deltas
      BY TopFile DEF Top
    <3> QED
      BY <1>0, <1>1, <2>2, <3>1, <3>2 DEF Unlinking, Towards
  <2>7. Taken' /\ Starting' /\ SavingDevice' /\ SavingRaw' /\ Stopping'
    BY <1>1, <2>1 DEF Taken, Starting, SavingDevice, SavingRaw, Stopping
  <2> QED
    BY <1>3, <2>3, <2>4, <2>5, <2>6, <2>7 DEF Tracks
<1> QED
  BY <1>6, <1>7

\* A save of a device without a tracker writes nothing: the bitmaps stay complete.
LEMMA SaveNothingTrack == ASSUME FileInv, FileInv', Tracks, SaveNothing PROVE Tracks'
<1>1. UNCHANGED <<deltas, dev, since>> /\ EndSave /\ Saving
  BY DEF SaveNothing, Saving
<1>2. Loads'
  BY <1>1 DEF Loads, Tracks, SinceOf, Top
<1>3. /\ DOMAIN deltas' = DOMAIN deltas /\ Len(deltas') = Len(deltas)
      /\ \A k \in DOMAIN deltas : deltas'[k].since = deltas[k].since
      /\ deltas'[Top].use = deltas[Top].use
  BY <1>1
<1> QED
  BY <1>1, <1>2, <1>3, EndTracks

\* The extension that was written offers what the save was for.
LEMMA SavedOffers ==
  ASSUME FileInv, Tracks, SaveExt, NEW f \in Delta, HasExt(f), L1Readable(f),
         f.ext = Len(deltas[op.img].blk) + 1,
         f.blk = Append(deltas[op.img].blk, ExtBlock(SavedId, op.l1))
  PROVE  Offers(Raw(f), SinceOf(op.img)) /\ Raw(f).id = SavedId
<1> DEFINE c == deltas[op.img]
           x == ExtBlock(SavedId, op.l1)
<1>1. /\ op.pc = "save_ext" /\ Saving /\ SavedId \in Uuid /\ (op.raw = NoCbt => dev.id # None)
  BY SaveExtEffect
<1>2. /\ c.blk \in Seq(Block) /\ op.l1 \in Seq(Nat) /\ op \in Op /\ op.i \in Nat \ {0}
      /\ op.img \in DOMAIN deltas
  BY <1>1, Target
<1>3. \A j \in DOMAIN op.l1 : op.l1[j] > 1 =>
         op.l1[j] - 1 \in DOMAIN c.blk /\ c.blk[op.l1[j] - 1].t = "bits"
  BY <1>1 DEF FileInv, Extending
<1>4. x \in Block /\ x.id = SavedId /\ x.l1 = op.l1
  BY <1>1, <1>2, NewBlocks DEF Id
<1> HIDE DEF x, c
<1>5. f.blk[f.ext] = x /\ \A n \in DOMAIN c.blk : f.blk[n] = c.blk[n]
  BY <1>2, <1>4, Appended DEF x, c
<1>6. /\ Raw(f).id = SavedId /\ DOMAIN Raw(f).parts = DOMAIN op.l1
      /\ \A j \in DOMAIN op.l1 : Raw(f).parts[j].s = ChunkOf(f, j)
  BY <1>4, <1>5, RawType
<1>7. ASSUME NEW j \in DOMAIN op.l1 PROVE ChunkOf(f, j) = Stored(j)
  <2>1. op.l1[j] \in Nat
    BY <1>2
  <2>2. op.l1[j] # 0 /\ op.l1[j] # 1 =>
          /\ f.blk[op.l1[j] - 1] = c.blk[op.l1[j] - 1] /\ f.blk[op.l1[j] - 1].t = "bits"
    <3>1. op.l1[j] # 0 /\ op.l1[j] # 1 => op.l1[j] > 1
      BY <2>1
    <3> QED
      BY <1>3, <1>5, <3>1
  <2>3. f.blk[f.ext].l1 = op.l1
    BY <1>4, <1>5
  <2>4. ChunkOf(f, j) = IF op.l1[j] = 0 THEN {} ELSE IF op.l1[j] = 1 THEN Chunk(j)
                        ELSE IF f.blk[op.l1[j] - 1].t = "bits" THEN f.blk[op.l1[j] - 1].s ELSE {}
    BY <2>3, Zenon DEF ChunkOf
  <2>5. Stored(j) = IF op.l1[j] = 0 THEN {} ELSE IF op.l1[j] = 1 THEN Chunk(j)
                    ELSE c.blk[op.l1[j] - 1].s
    BY Zenon DEF Stored, c
  <2> QED
    BY <2>2, <2>4, <2>5, Zenon
<1>8. \A j \in DOMAIN op.l1 : Stored(j) \subseteq RawBits(Raw(f))
  BY <1>6, <1>7 DEF RawBits
<1>9. DOMAIN op.l1 = 1 .. Len(op.l1) /\ Len(op.l1) \in Nat
  BY <1>2
<1>10. CASE op.raw = NoCbt
  <2>1. /\ dev.id \in DOMAIN SinceOf(op.img) /\ Len(op.l1) = op.i - 1 /\ op.i > NChunks
        /\ \A j \in DOMAIN op.l1 : Goal \cap Chunk(j) \subseteq Stored(j)
    BY <1>1, <1>10 DEF Tracks, SavingDevice
  <2>2. SavedId = dev.id /\ Goal = SinceOf(op.img)[dev.id]
    BY <1>10 DEF SavedId, Goal
  <2>3. Goal \subseteq Bits
    <3>1. SinceOf(op.img) \in Sinces
      <4>1. deltas[op.img] \in Delta /\ since \in Sinces
        BY <1>1, Target DEF FileInv, Shape
      <4> QED
        BY <4>1 DEF SinceOf, Delta
    <3> QED
      BY <2>1, <2>2, <3>1, SinceDomain
  <2>4. 1 .. NChunks \subseteq DOMAIN op.l1
    BY <1>2, <1>9, <2>1, ChunksExist
  <2>5. Goal \subseteq RawBits(Raw(f))
    <3> SUFFICES ASSUME NEW b \in Goal PROVE b \in RawBits(Raw(f))
      OBVIOUS
    <3>1. PICK j \in 1 .. NChunks : b \in Chunk(j)
      BY <2>3, ChunksCover
    <3> QED
      BY <1>8, <2>1, <2>4, <3>1
  <2> QED
    BY <1>6, <2>1, <2>2, <2>5 DEF Offers
<1>11. CASE op.raw # NoCbt
  <2>1. /\ Offers(op.raw, SinceOf(op.img)) /\ Len(op.l1) = op.i - 1 /\ op.i > Len(op.raw.parts)
        /\ \A j \in DOMAIN op.l1 : op.raw.parts[j].s \subseteq Stored(j)
    BY <1>1, <1>11 DEF Tracks, SavingRaw
  <2>2. op.raw.parts \in Seq(Part)
    BY <1>2 DEF Op, RawCbt
  <2>3. DOMAIN op.raw.parts \subseteq DOMAIN op.l1
    BY <1>2, <1>9, <2>1, <2>2
  <2>4. RawBits(op.raw) \subseteq RawBits(Raw(f))
    <3> SUFFICES ASSUME NEW j \in DOMAIN op.raw.parts PROVE op.raw.parts[j].s \subseteq RawBits(Raw(f))
      BY DEF RawBits
    <3> QED
      BY <1>8, <2>1, <2>3
  <2>5. SavedId = op.raw.id
    BY <1>11 DEF SavedId
  <2> QED
    BY <1>6, <2>1, <2>4, <2>5 DEF Offers
<1> QED
  BY <1>10, <1>11

\* The extension block, the last step of a save: the bitmaps stay complete.
LEMMA SaveExtTrack == ASSUME FileInv, FileInv', Tracks, SaveExt PROVE Tracks'
<1>1. /\ op.pc = "save_ext" /\ Saving /\ EndSave /\ UNCHANGED <<dev, since>>
      /\ op.raw = NoCbt => dev.id # None
      /\ deltas' \in Seq(Delta) /\ Len(deltas') = Len(deltas) /\ DOMAIN deltas' = DOMAIN deltas
      /\ \A j \in DOMAIN deltas : j # op.img => deltas'[j] = deltas[j]
      /\ deltas'[op.img].ext = Len(deltas[op.img].blk) + 1
      /\ deltas'[op.img].since = deltas[op.img].since
      /\ deltas'[op.img].blk = Append(deltas[op.img].blk, ExtBlock(SavedId, op.l1))
  BY SaveExtEffect
<1>2. op.img \in DOMAIN deltas /\ deltas'[op.img] \in Delta
  BY <1>1, Target
<1>3. \A k \in DOMAIN deltas : deltas'[k].since = deltas[k].since
  BY <1>1
<1>4. \A k \in DOMAIN deltas : SinceOf(k)' = SinceOf(k)
  BY <1>1, <1>3 DEF SinceOf, Top
<1>5. Loads'
  <2> SUFFICES ASSUME NEW k \in DOMAIN deltas, Loadable(deltas'[k])
               PROVE  Offers(Raw(deltas'[k]), SinceOf(k)')
    BY <1>1 DEF Loads
  <2>1. CASE k = op.img
    <3>1. HasExt(deltas'[op.img]) /\ L1Readable(deltas'[op.img])
      BY <2>1 DEF Loadable
    <3>2. Offers(Raw(deltas'[op.img]), SinceOf(op.img))
      BY <1>1, <1>2, <3>1, SavedOffers
    <3> QED
      BY <1>4, <2>1, <3>2
  <2>2. CASE k # op.img
    <3>1. Offers(Raw(deltas[k]), SinceOf(k)) /\ deltas'[k] = deltas[k]
      BY <1>1, <2>2 DEF Loads, Tracks
    <3> QED
      BY <1>4, <3>1
  <2> QED
    BY <2>1, <2>2
<1> QED
  BY <1>1, <1>3, <1>5, EndTracks

\* Nothing is offered under a uuid that was not set before.
LEMMA LoadsFresh ==
  ASSUME FileInv, Loads, NEW u \in Uuid, u \notin DOMAIN since, deltas' = deltas,
         since' = SetSince(u)
  PROVE  Loads'
<1>1. \A v \in DOMAIN since : v \in DOMAIN since' /\ since'[v] = since[v]
  BY SetSinceType DEF FileInv
<1> SUFFICES ASSUME NEW k \in DOMAIN deltas, Loadable(deltas[k])
             PROVE  Offers(Raw(deltas[k]), SinceOf(k)')
  BY DEF Loads
<1>2. Offers(Raw(deltas[k]), SinceOf(k))
  BY DEF Loads
<1> QED
  BY <1>1, <1>2 DEF Offers, SinceOf, Top

\* What the deltas offer depends on the files and the ghost only.
LEMMA LoadsSame == ASSUME Loads, UNCHANGED <<deltas, since>> PROVE Loads'
  BY DEF Loads, SinceOf, Top

\* The start of an online snapshot: the bitmaps stay complete.
LEMMA CreateSnapshotTrack ==
  ASSUME NEW u \in Uuid \cup {None}, u \notin DOMAIN since, FileInv, Tracks, CreateSnapshot(u)
  PROVE  Tracks'
<1>1. /\ op = NoOp /\ dev.on /\ dev.top = Top /\ UNCHANGED deltas
      /\ op' = [NoOp EXCEPT !.id = u, !.pc = IF u # None /\ dev.id # None THEN "prepare" ELSE "ioctl"]
  BY DEF CreateSnapshot, CanSnapshot, Called
<1>2. /\ op'.id = u /\ op'.or = {} /\ op'.pc \in {"prepare", "ioctl"}
      /\ op'.pc = "prepare" => u # None /\ dev.id # None
  <2>1. PICK pc \in {"prepare", "ioctl"} : /\ op' = [NoOp EXCEPT !.id = u, !.pc = pc]
                                           /\ pc = "prepare" => u # None /\ dev.id # None
    BY <1>1
  <2>2. NoOp.or = {}
    BY DEF NoOp
  <2> QED
    BY <2>1, <2>2, NewTypes DEF Op
<1>3. ~ Saving'
  BY <1>2 DEF Saving
<1>4. op.pc = "idle" /\ op.or = {}
  BY <1>1 DEF NoOp
<1>5. dev.id # None => dev.id \in DOMAIN since /\ since[dev.id] \subseteq dev.bits
  BY <1>1, <1>4 DEF Tracks, Kernel, Sets
<1>6. /\ Loads' /\ DOMAIN since \subseteq DOMAIN since' /\ dev'.on /\ dev'.top = Top
      /\ dev'.id # None => dev'.id \in DOMAIN since' /\ since'[dev'.id] \subseteq dev'.bits
      /\ u # None => dev'.id # None
      /\ u # None /\ dev.id # None => dev'.id # u
  <2>1. CASE u # None /\ dev.id = None
    <3>1. dev' = [dev EXCEPT !.id = u, !.bits = {}] /\ since' = SetSince(u) /\ u \in Uuid
      BY <2>1 DEF CreateSnapshot
    <3>2. dev'.id = u /\ dev'.on /\ dev'.top = Top
      BY <1>1, <3>1 DEF FileInv, Shape, Dev
    <3>3. DOMAIN since' = DOMAIN since \cup {u} /\ since'[u] = {}
      BY <3>1, SetSinceType DEF FileInv
    <3>4. Loads'
      BY <1>1, <3>1, LoadsFresh DEF Tracks
    <3> QED
      BY <2>1, <3>2, <3>3, <3>4
  <2>2. CASE ~ (u # None /\ dev.id = None)
    <3>1. UNCHANGED <<dev, since>>
      BY <2>2 DEF CreateSnapshot
    <3>2. Loads'
      BY <1>1, <3>1, LoadsSame DEF Tracks
    <3> QED
      BY <1>1, <1>5, <2>2, <3>1, <3>2
  <2> QED
    BY <2>1, <2>2
<1>7. Sets'
  <2>1. \A k \in DOMAIN deltas : DOMAIN deltas[k].since \subseteq DOMAIN since
    BY DEF Tracks, Sets
  <2> QED
    BY <1>1, <1>2, <1>3, <1>6, <2>1 DEF Sets, Towards
<1>8. Kernel' /\ Dumped'
  BY <1>1, <1>2, <1>6 DEF Kernel, Dumped, Top
<1>9. Taken' /\ Switching' /\ Starting' /\ Unlinking' /\ SavingDevice' /\ SavingRaw' /\ Stopping'
  BY <1>2, <1>3 DEF Taken, Switching, Starting, Unlinking, SavingDevice, SavingRaw, Stopping, Towards
<1> QED
  BY <1>6, <1>7, <1>8, <1>9 DEF Tracks

\* One BLKCBTGET that clears what it returns: the bitmaps stay complete.
LEMMA SnapshotPrepareTrack == ASSUME FileInv, Tracks, SnapshotPrepare PROVE Tracks'
<1> DEFINE runs == Page(dev.bits, op.pos, NBits - 1)
<1>1. op \in Op /\ dev.bits \in SUBSET Bits /\ op.pos \in Nat /\ dev \in Dev
  BY DEF FileInv, Shape, Op, Dev
<1>2. NBits - 1 \in Nat
  BY CbtAssumption
<1>3. /\ op' = [op EXCEPT !.or = @ \cup Covered(runs),
                       !.pos = IF Full(runs) THEN PageEnd(runs) ELSE @,
                       !.pc = IF Full(runs) THEN @ ELSE "ioctl"]
      /\ dev' = [dev EXCEPT !.bits = @ \ Covered(runs)]
      /\ op.pc = "prepare" /\ UNCHANGED <<deltas, since>>
  BY DEF SnapshotPrepare
<1>4. Covered(runs) \subseteq Bits /\ (Full(runs) => PageEnd(runs) \in Nat)
  BY <1>1, <1>2, BitsNat, PageCovers
<1> HIDE DEF runs
<1>5. /\ op'.pc \in {"prepare", "ioctl"} /\ op'.id = op.id /\ op'.or = op.or \cup Covered(runs)
  BY <1>1, <1>3, <1>4 DEF Op
<1>6. dev'.on = dev.on /\ dev'.top = dev.top /\ dev'.id = dev.id /\ dev'.bits = dev.bits \ Covered(runs)
  BY <1>1, <1>3 DEF Dev
<1>7. ~ Saving'
  BY <1>5 DEF Saving
<1>8. op.id # None /\ dev.id # op.id /\ dev.id # None
  BY <1>3 DEF Tracks, Sets
<1>9. Sets'
  <2>1. /\ \A k \in DOMAIN deltas : DOMAIN deltas[k].since \subseteq DOMAIN since
        /\ dev.id \in DOMAIN since
    BY <1>8 DEF Tracks, Sets
  <2> QED
    BY <1>3, <1>5, <1>6, <1>7, <1>8, <2>1 DEF Sets, Towards
<1>10. Loads'
  BY <1>3, LoadsSame DEF Tracks
<1>11. Kernel'
  <2>1. dev.on => since[dev.id] \subseteq dev.bits \cup op.or
    BY <1>3, <1>8 DEF Tracks, Kernel
  <2> QED
    BY <1>3, <1>5, <1>6, <2>1 DEF Kernel
<1>12. Dumped'
  BY <1>3, <1>6 DEF Dumped, Tracks, Top
<1>13. Taken' /\ Switching' /\ Starting' /\ Unlinking' /\ SavingDevice' /\ SavingRaw' /\ Stopping'
  BY <1>5, <1>7 DEF Taken, Switching, Starting, Unlinking, SavingDevice, SavingRaw, Stopping, Towards
<1> QED
  BY <1>9, <1>10, <1>11, <1>12, <1>13 DEF Tracks

\* PLOOP_IOC_SNAPSHOT, which freezes the top delta: the bitmaps stay complete.
LEMMA SnapshotIoctlTrack == ASSUME FileInv, Tracks, SnapshotIoctl PROVE Tracks'
<1>1. /\ op.pc = "ioctl" /\ dev.on
      /\ dev'.on /\ dev'.top = Len(deltas) + 1 /\ dev'.id = dev.id /\ dev'.bits = dev.bits
      /\ op.id = None => op' = NoOp /\ since' = since
      /\ op.id # None => /\ op.id \in Uuid /\ op'.pc = "cbt" /\ op'.id = op.id /\ op'.or = op.or
                         /\ since' = SetSince(op.id)
  BY SnapshotIoctlEffect
<1>2. PICK c \in Delta, g \in Delta : /\ Added(c, c, g) /\ c.use = "v20" /\ c.since = since
                                      /\ g.use = "yes" /\ g.since = << >>
  BY SnapshotIoctlEffect
<1>3. Len(deltas) \in DOMAIN deltas /\ Len(deltas) \in Nat \ {0} /\ Top = Len(deltas)
      /\ DOMAIN deltas = 1 .. Len(deltas)
  BY TopFile DEF Top
<1>4. /\ Len(deltas') = Len(deltas) + 1 /\ Top' = Len(deltas) + 1
      /\ DOMAIN deltas' = DOMAIN deltas \cup {Len(deltas) + 1}
      /\ deltas'[Len(deltas) + 1] = g /\ deltas'[Len(deltas)] = c
      /\ \A j \in DOMAIN deltas : j # Len(deltas) => deltas'[j] = deltas[j]
  BY <1>2 DEF Added, Top
<1>5. /\ DOMAIN since \subseteq DOMAIN since'
      /\ \A v \in DOMAIN since : v # op.id \/ op.id = None => since'[v] = since[v]
      /\ op.id # None => op.id \in DOMAIN since' /\ since'[op.id] = {}
  <2>1. CASE op.id = None
    BY <1>1, <2>1
  <2>2. CASE op.id # None
    <3>1. /\ DOMAIN since' = DOMAIN since \cup {op.id} /\ since'[op.id] = {}
          /\ \A v \in DOMAIN since : v # op.id => since'[v] = since[v]
      BY <1>1, <2>2, SetSinceType DEF FileInv
    <3> QED
      BY <2>2, <3>1
  <2> QED
    BY <2>1, <2>2
<1>6. Loads'
  <2> SUFFICES ASSUME NEW k \in DOMAIN deltas', Loadable(deltas'[k])
               PROVE  Offers(Raw(deltas'[k]), SinceOf(k)')
    BY DEF Loads
  <2>1. deltas'[k].use = "v21"
    BY DEF Loadable
  <2>2. k \in DOMAIN deltas /\ k # Len(deltas) /\ k # Len(deltas) + 1 /\ deltas'[k] = deltas[k]
    BY <1>2, <1>3, <1>4, <2>1
  <2>3. Offers(Raw(deltas[k]), deltas[k].since)
    BY <1>3, <2>2 DEF Tracks, Loads, SinceOf
  <2> QED
    BY <1>4, <2>2, <2>3 DEF SinceOf
<1>7. \A k \in DOMAIN deltas' : DOMAIN deltas'[k].since \subseteq DOMAIN since'
  <2> SUFFICES ASSUME NEW k \in DOMAIN deltas' PROVE DOMAIN deltas'[k].since \subseteq DOMAIN since'
    OBVIOUS
  <2>1. DOMAIN g.since = {}
    BY <1>2
  <2>2. \A j \in DOMAIN deltas : DOMAIN deltas[j].since \subseteq DOMAIN since
    BY DEF Tracks, Sets
  <2> QED
    BY <1>2, <1>4, <1>5, <2>1, <2>2
<1>8. /\ dev.id # None => dev.id \in DOMAIN since /\ since[dev.id] \subseteq dev.bits \cup op.or
      /\ op.id = None => op.or = {}
      /\ op.or # {} => dev.id # op.id
      /\ op.id # None => dev.id # None
  BY <1>1 DEF Tracks, Sets, Kernel
<1>9. Dumped'
  BY <1>1, <1>4 DEF Dumped
<1>10. CASE op.id = None
  <2>1. op' = NoOp /\ since' = since
    BY <1>1, <1>10
  <2> QED
    BY <1>1, <1>6, <1>7, <1>8, <1>9, <1>10, <2>1, IdleTracks
<1>11. CASE op.id # None
  <2>1. op'.pc = "cbt" /\ op'.id = op.id /\ op'.or = op.or
    BY <1>1, <1>11
  <2>2. ~ Saving'
    BY <2>1 DEF Saving
  <2>3. Sets'
    BY <1>1, <1>5, <1>7, <1>8, <1>11, <2>1, <2>2 DEF Sets
  <2>4. Kernel'
    <3>1. since'[dev.id] \subseteq dev.bits \cup op.or
      BY <1>5, <1>8, <1>11
    <3> QED
      BY <1>1, <2>1, <3>1 DEF Kernel
  <2>5. Switching'
    BY <1>1, <1>5, <1>11, <2>1 DEF Switching
  <2>6. Taken'
    <3>1. Top' - 1 = Len(deltas)
      BY <1>3, <1>4
    <3> QED
      BY <1>1, <1>2, <1>4, <1>8, <1>11, <2>1, <3>1 DEF Taken
  <2>7. Starting' /\ Unlinking' /\ SavingDevice' /\ SavingRaw' /\ Stopping'
    BY <2>1, <2>2 DEF Starting, Unlinking, SavingDevice, SavingRaw, Stopping, Towards
  <2> QED
    BY <1>6, <1>9, <2>3, <2>4, <2>5, <2>6, <2>7 DEF Tracks
<1> QED
  BY <1>10, <1>11

\* cbt_snapshot, which saves into the frozen delta: the bitmaps stay complete.
LEMMA CbtSnapshotTrack == ASSUME FileInv, Tracks, CbtSnapshot PROVE Tracks'
<1>1. /\ op.pc = "cbt" /\ op' = (IF dev.id = op.id THEN NoOp ELSE SaveTo(Top - 1, "uuid"))
      /\ UNCHANGED <<deltas, dev, since>>
  BY DEF CbtSnapshot
<1>2. Loads' /\ Dumped'
  BY <1>1, LoadsSame DEF Tracks, Dumped, Top
<1>3. /\ \A k \in DOMAIN deltas : DOMAIN deltas[k].since \subseteq DOMAIN since
      /\ dev.id # None => dev.id \in DOMAIN since
      /\ op.id = None => op.or = {}
      /\ op.or # {} => dev.id # op.id
      /\ op.id # None => dev.id # None
      /\ op.id \in DOMAIN since
  BY <1>1 DEF Tracks, Sets
<1>4. dev.on /\ dev.id # None => since[dev.id] \subseteq dev.bits \cup op.or
  BY <1>1 DEF Tracks, Kernel
<1>5. CASE dev.id = op.id
  <2>1. op' = NoOp
    BY <1>1, <1>5
  <2> QED
    BY <1>1, <1>2, <1>3, <1>4, <1>5, <2>1, IdleTracks
<1>6. CASE dev.id # op.id
  <2>0. op' = SaveTo(Top - 1, "uuid")
    BY <1>1, <1>6
  <2>1. op \in Op /\ Top \in Nat /\ Top > 1 /\ op.raw = NoCbt
    <3>1. Top > 1 /\ op.raw = NoCbt /\ op \in Op
      BY <1>1 DEF FileInv, Control, Shape
    <3>2. Top \in Nat
      BY TopFile DEF Top
    <3> QED
      BY <3>1, <3>2
  <2>2. PICK k \in Nat : k = Top - 1 /\ k # Top
    BY <2>1
  <2>3. /\ op'.pc = "save" /\ op'.img = k /\ op'.next = "uuid" /\ op'.i = 1
        /\ op'.pos = 0 /\ op'.l1 = << >> /\ op'.raw = op.raw /\ op'.id = op.id /\ op'.or = op.or
    BY <2>0, <2>1, <2>2, SaveToOp
  <2>4. Saving'
    BY <2>3 DEF Saving
  <2>5. Sets'
    BY <1>1, <1>3, <2>3 DEF Sets
  <2>6. Kernel'
    BY <1>1, <1>4, <2>3 DEF Kernel
  <2>7. Switching'
    BY <1>1, <2>3 DEF Tracks, Switching
  <2>8. Taken' /\ Starting' /\ Unlinking' /\ SavingRaw' /\ Stopping'
    BY <2>1, <2>3, <2>4 DEF Taken, Starting, Unlinking, SavingRaw, Stopping, Towards
  <2>9. SinceOf(k)' = deltas[Top - 1].since
    BY <1>1, <2>2 DEF SinceOf, Top
  <2>10. /\ dev.id \in DOMAIN deltas[Top - 1].since
         /\ deltas[Top - 1].since[dev.id] \subseteq dev.bits \cup op.or
    BY <1>1, <1>6 DEF Tracks, Taken
  <2>11. Goal' = deltas[Top - 1].since[dev.id]
    BY <1>1, <2>3, <2>9 DEF Goal
  <2>12. SavingDevice'
    <3>1. DOMAIN op'.l1 = {} /\ Len(op'.l1) = op'.i - 1
      BY <2>3
    <3>2. \A b \in Bits : ~ (b < 0)
      BY BitsNat
    <3>3. \A n : Goal' \cap Chunk(n) \subseteq Bits
      BY ChunkBitsOf
    <3> QED
      BY <1>1, <2>3, <2>9, <2>10, <2>11, <3>1, <3>2, <3>3 DEF SavingDevice
  <2> QED
    BY <1>2, <2>5, <2>6, <2>7, <2>8, <2>12 DEF Tracks
<1> QED
  BY <1>5, <1>6

\* The tracker of the device gets its new uuid: the bitmaps stay complete.
LEMMA SetUuidTrack == ASSUME FileInv, Tracks, SetUuid PROVE Tracks'
<1>1. /\ op.pc = "uuid" /\ op' = NoOp /\ dev' = [dev EXCEPT !.id = op.id]
      /\ UNCHANGED <<deltas, since>>
  BY DEF SetUuid
<1>2. dev'.on = dev.on /\ dev'.top = dev.top /\ dev'.id = op.id /\ dev'.bits = dev.bits
  BY <1>1 DEF FileInv, Shape, Dev
<1>3. Towards("uuid")
  BY <1>1 DEF Towards
<1>4. dev.on /\ dev.top = Top
  BY <1>3 DEF FileInv, Control
<1>5. Loads' /\ Dumped'
  BY <1>1, <1>2, <1>4, LoadsSame DEF Tracks, Dumped, Top
<1>6. op.id \in DOMAIN since /\ since[op.id] \subseteq dev.bits
  BY <1>3 DEF Tracks, Sets, Switching
<1>7. \A k \in DOMAIN deltas : DOMAIN deltas[k].since \subseteq DOMAIN since
  BY DEF Tracks, Sets
<1> QED
  BY <1>1, <1>2, <1>5, <1>6, <1>7, IdleTracks

\* What a file offers depends on its header and its clusters.
LEMMA SameOffer == ASSUME NEW f, NEW g, f.use = g.use, f.ext = g.ext, f.blk = g.blk
                   PROVE  Loadable(f) = Loadable(g) /\ Raw(f) = Raw(g)
<1>1. HasExt(f) = HasExt(g) /\ L1Readable(f) = L1Readable(g)
  BY Zenon DEF HasExt, L1Readable
<1>2. \A i : ChunkOf(f, i) = ChunkOf(g, i)
  BY Zenon DEF ChunkOf
<1>3. Loadable(f) = Loadable(g)
  BY <1>1, Zenon DEF Loadable
<1>4. Raw(f) = Raw(g)
  <2>1. \A i : [const |-> f.blk[f.ext].l1[i] <= 1, s |-> ChunkOf(f, i)]
              = [const |-> g.blk[g.ext].l1[i] <= 1, s |-> ChunkOf(g, i)]
    BY <1>2, Zenon
  <2> QED
    BY <2>1, Zenon DEF Raw
<1> QED
  BY <1>3, <1>4

\* A constant entry stands for no block or for all of its chunk.
LEMMA RawConst ==
  ASSUME NEW f \in Delta, Loadable(f)
  PROVE  \A j \in DOMAIN Raw(f).parts : Raw(f).parts[j].const => Raw(f).parts[j].s \in {{}, Chunk(j)}
<1>1. HasExt(f) /\ L1Readable(f)
  BY DEF Loadable
<1>2. /\ DOMAIN Raw(f).parts = DOMAIN f.blk[f.ext].l1
      /\ \A i \in DOMAIN Raw(f).parts : Raw(f).parts[i].s = ChunkOf(f, i)
      /\ \A i \in DOMAIN Raw(f).parts : Raw(f).parts[i].const <=> f.blk[f.ext].l1[i] <= 1
  BY <1>1, RawType
<1> SUFFICES ASSUME NEW j \in DOMAIN Raw(f).parts, Raw(f).parts[j].const
             PROVE  ChunkOf(f, j) \in {{}, Chunk(j)}
  BY <1>2
<1>3. f.blk[f.ext].l1 \in Seq(Nat)
  <2>1. f.blk[f.ext] \in Block /\ f.blk[f.ext].t = "ext"
    BY <1>1 DEF HasExt, Delta
  <2> QED
    BY <2>1, BlockKinds
<1>4. f.blk[f.ext].l1[j] \in {0, 1}
  <2>1. f.blk[f.ext].l1[j] \in Nat /\ f.blk[f.ext].l1[j] <= 1
    BY <1>2, <1>3
  <2> QED
    BY <2>1
<1> QED
  BY <1>4, Zenon DEF ChunkOf

\* A save of a bitmap that was read from a file begins.
LEMMA RawBegins ==
  ASSUME ~ dev'.on, op'.pc = "save", op'.l1 = << >>, op'.i = 1, op'.id = None, op'.or = {},
         op'.next \in {"end", "unlink"}, op'.raw \in RawCbt, op'.raw # NoCbt,
         Offers(op'.raw, SinceOf(op.img)'), Loads',
         \A j \in DOMAIN op'.raw.parts : op'.raw.parts[j].const => op'.raw.parts[j].s \in {{}, Chunk(j)},
         \A k \in DOMAIN deltas' : DOMAIN deltas'[k].since \subseteq DOMAIN since',
         dev'.id # None => dev'.id \in DOMAIN since',
         op'.next = "unlink" => deltas'[Top' - 1].since = since'
  PROVE  Tracks'
<1>1. Saving'
  BY DEF Saving
<1>2. Sets'
  BY <1>1 DEF Sets, Towards
<1>3. SavingRaw'
  <2>1. DOMAIN op'.l1 = {} /\ Len(op'.l1) = op'.i - 1
    OBVIOUS
  <2>2. op'.i <= Len(op'.raw.parts) + 1
    BY DEF RawCbt
  <2> QED
    BY <2>1, <2>2 DEF SavingRaw
<1>4. Kernel' /\ Dumped' /\ Unlinking'
  BY DEF Kernel, Dumped, Unlinking, Towards
<1>5. Taken' /\ Switching' /\ Starting' /\ SavingDevice' /\ Stopping'
  BY <1>1 DEF Taken, Switching, Starting, SavingDevice, Stopping, Towards
<1> QED
  BY <1>2, <1>3, <1>4, <1>5 DEF Tracks

\* A new file offers nothing, and the old top offers what it did.
LEMMA AddedLoads ==
  ASSUME FileInv, Tracks, NEW c \in Delta, NEW d \in Delta, Added(c, d, NewDelta),
         c.use = deltas[Top].use, c.ext = deltas[Top].ext, c.blk = deltas[Top].blk,
         c.use # "yes" => c.since = since, DOMAIN c.since \subseteq DOMAIN since,
         DOMAIN since \subseteq DOMAIN since'
  PROVE  /\ Loads' /\ Top' = Top + 1
         /\ \A k \in DOMAIN deltas' : DOMAIN deltas'[k].since \subseteq DOMAIN since'
         /\ dev.id # None => dev.id \in DOMAIN since'
<1>1. Len(deltas) \in DOMAIN deltas /\ Len(deltas) \in Nat \ {0} /\ Top = Len(deltas)
      /\ DOMAIN deltas = 1 .. Len(deltas)
  BY TopFile DEF Top
<1>2. /\ Len(deltas') = Len(deltas) + 1 /\ Top' = Len(deltas) + 1
      /\ DOMAIN deltas' = DOMAIN deltas \cup {Len(deltas) + 1}
      /\ deltas'[Len(deltas) + 1] = NewDelta /\ deltas'[Len(deltas)] = c
      /\ \A j \in DOMAIN deltas : j # Len(deltas) => deltas'[j] = deltas[j]
  BY DEF Added, Top
<1>3. NewDelta.use = "v20" /\ DOMAIN NewDelta.since = {}
  BY DEF NewDelta
<1>4. Loads'
  <2> SUFFICES ASSUME NEW k \in DOMAIN deltas', Loadable(deltas'[k])
               PROVE  Offers(Raw(deltas'[k]), SinceOf(k)')
    BY DEF Loads
  <2>1. deltas'[k].use = "v21"
    BY DEF Loadable
  <2>2. k \in DOMAIN deltas /\ k # Len(deltas) + 1
    BY <1>1, <1>2, <1>3, <2>1
  <2>3. SinceOf(k)' = deltas'[k].since
    BY <1>2, <2>2 DEF SinceOf
  <2>4. CASE k = Len(deltas)
    <3>1. Loadable(deltas[Top]) /\ Raw(c) = Raw(deltas[Top])
      BY <1>1, <1>2, <2>4, SameOffer
    <3>2. Offers(Raw(deltas[Top]), since)
      BY <1>1, <3>1 DEF Tracks, Loads, SinceOf
    <3> QED
      BY <1>2, <2>1, <2>3, <2>4, <3>1, <3>2
  <2>5. CASE k # Len(deltas)
    <3>1. deltas'[k] = deltas[k]
      BY <1>2, <2>2, <2>5
    <3>2. Offers(Raw(deltas[k]), deltas[k].since)
      BY <1>1, <2>2, <2>5, <3>1 DEF Tracks, Loads, SinceOf
    <3> QED
      BY <2>3, <3>1, <3>2
  <2> QED
    BY <2>4, <2>5
<1>5. \A k \in DOMAIN deltas' : DOMAIN deltas'[k].since \subseteq DOMAIN since'
  <2> SUFFICES ASSUME NEW k \in DOMAIN deltas' PROVE DOMAIN deltas'[k].since \subseteq DOMAIN since'
    OBVIOUS
  <2>1. \A j \in DOMAIN deltas : DOMAIN deltas[j].since \subseteq DOMAIN since
    BY DEF Tracks, Sets
  <2> QED
    BY <1>2, <1>3, <2>1
<1>6. dev.id # None => dev.id \in DOMAIN since
  BY DEF Tracks, Sets
<1> QED
  BY <1>1, <1>2, <1>4, <1>5, <1>6

\* The same for the snapshots of an image that is not mounted.
LEMMA FrozenLoads ==
  ASSUME FileInv, Tracks, AddDelta, DOMAIN since \subseteq DOMAIN since'
  PROVE  /\ Loads' /\ Top' = Top + 1
         /\ \A k \in DOMAIN deltas' : DOMAIN deltas'[k].since \subseteq DOMAIN since'
         /\ dev.id # None => dev.id \in DOMAIN since'
<1> DEFINE c == Frozen(deltas[Top])
           d == Frozen(disk[Top])
<1> HIDE DEF c, d
<1>1. /\ c \in Delta /\ d \in Delta /\ Added(c, d, NewDelta)
      /\ c.use = deltas[Top].use /\ c.ext = deltas[Top].ext /\ c.blk = deltas[Top].blk
      /\ c.since = since
  BY SinceAdded DEF c, d
<1> QED
  BY <1>1, AddedLoads

\* An offline snapshot with a uuid: the bitmaps stay complete.
LEMMA OfflineSnapshotTrack ==
  ASSUME NEW u \in Uuid, FileInv, Tracks, OfflineSnapshot(u) PROVE Tracks'
<1>1. /\ ~ dev.on /\ since' = SetSince(u) /\ dev' = dev /\ AddDelta
      /\ op' \in Op /\ op'.pc = "save" /\ op'.l1 = << >> /\ op'.i = 1 /\ op'.img = Top + 1
      /\ op'.next = "end" /\ op'.raw.id = u /\ op'.raw.parts = << >>
      /\ op'.id = None /\ op'.or = {}
  BY OfflineSnapshotEffect
<1>2. DOMAIN since' = DOMAIN since \cup {u} /\ since'[u] = {}
  BY <1>1, SetSinceType DEF FileInv
<1>3. /\ Loads' /\ Top' = Top + 1
      /\ \A k \in DOMAIN deltas' : DOMAIN deltas'[k].since \subseteq DOMAIN since'
      /\ dev.id # None => dev.id \in DOMAIN since'
  BY <1>1, <1>2, FrozenLoads
<1>4. op'.raw \in RawCbt /\ op'.raw # NoCbt
  <2>1. NoCbt.id = None
    BY DEF NoCbt
  <2>2. op'.raw \in RawCbt
    BY <1>1 DEF Op
  <2> QED
    BY <1>1, <2>1, <2>2, CbtAssumption
<1>5. SinceOf(op.img)' = since'
  BY <1>1, <1>3 DEF SinceOf
<1>6. Offers(op'.raw, since') /\ DOMAIN op'.raw.parts = {}
  BY <1>1, <1>2 DEF Offers
<1> QED
  BY <1>1, <1>3, <1>4, <1>5, <1>6, RawBegins

\* An offline snapshot that moves the bitmap to the new top: the bitmaps stay complete.
LEMMA OfflineSnapshotMoveTrack ==
  ASSUME FileInv, Tracks, OfflineSnapshotMove PROVE Tracks'
<1>1. /\ ~ dev.on /\ UNCHANGED <<dev, since>> /\ AddDelta
      /\ \/ op' = NoOp
         \/ /\ Loadable(deltas[Top]) /\ Raw(deltas[Top]) \in RawCbt /\ Raw(deltas[Top]).id \in Uuid
            /\ op'.pc = "save" /\ op'.l1 = << >> /\ op'.i = 1 /\ op'.img = Top + 1
            /\ op'.next = "end" /\ op'.raw = Raw(deltas[Top]) /\ op'.id = None /\ op'.or = {}
  BY OfflineSnapshotMoveEffect
<1>2. /\ Loads' /\ Top' = Top + 1
      /\ \A k \in DOMAIN deltas' : DOMAIN deltas'[k].since \subseteq DOMAIN since'
      /\ dev.id # None => dev.id \in DOMAIN since'
  BY <1>1, FrozenLoads
<1>3. CASE op' = NoOp
  <2>1. Dumped'
    BY <1>1 DEF Dumped
  <2> QED
    BY <1>1, <1>2, <1>3, <2>1, IdleTracks
<1>4. CASE op' # NoOp
  <2>1. Top \in DOMAIN deltas /\ deltas[Top] \in Delta
    BY TopFile DEF Top
  <2>2. Offers(Raw(deltas[Top]), since)
    BY <1>1, <1>4, <2>1 DEF Tracks, Loads, SinceOf
  <2>3. SinceOf(op.img)' = since
    BY <1>1, <1>2, <1>4 DEF SinceOf
  <2>4. op'.raw \in RawCbt /\ op'.raw # NoCbt
    BY <1>1, <1>4, CbtAssumption DEF NoCbt
  <2>5. \A j \in DOMAIN op'.raw.parts : op'.raw.parts[j].const => op'.raw.parts[j].s \in {{}, Chunk(j)}
    BY <1>1, <1>4, <2>1, RawConst
  <2>6. Offers(op'.raw, SinceOf(op.img)')
    BY <1>1, <1>4, <2>2, <2>3
  <2> QED
    BY <1>1, <1>2, <1>4, <2>4, <2>5, <2>6, RawBegins
<1> QED
  BY <1>3, <1>4

\* An offline snapshot of a running device: the bitmaps stay complete.
LEMMA OfflineSnapshotDumpTrack ==
  ASSUME FileInv, Tracks, OfflineSnapshotDump, dev.id = None PROVE Tracks'
<1>1. /\ dev.on /\ dev.top = Top /\ UNCHANGED <<dev, since>>
      /\ Added(deltas[Top], disk[Top], NewDelta)
      /\ op'.pc = "save" /\ op'.next = "end" /\ op'.raw = NoCbt /\ op'.id = None /\ op'.or = {}
  BY OfflineSnapshotDumpEffect
<1>2. deltas[Top] \in Delta /\ disk[Top] \in Delta /\ Top \in DOMAIN deltas
  BY TopFile DEF Top
<1>3. deltas[Top].use = "yes"
  BY <1>1 DEF FileInv, Control
<1>4. DOMAIN deltas[Top].since \subseteq DOMAIN since
  BY <1>2 DEF Tracks, Sets
<1>5. /\ Loads' /\ Top' = Top + 1
      /\ \A k \in DOMAIN deltas' : DOMAIN deltas'[k].since \subseteq DOMAIN since'
  BY <1>1, <1>2, <1>3, <1>4, AddedLoads
<1>6. Saving'
  BY <1>1 DEF Saving
<1>7. Sets'
  BY <1>1, <1>5 DEF Sets, Towards
<1>8. Dumped'
  <2>1. deltas'[Top'] = NewDelta /\ NewDelta.use = "v20"
    BY <1>1, <1>5 DEF Added, Top, NewDelta
  <2> QED
    BY <1>1, <2>1 DEF Dumped
<1>9. Kernel' /\ Unlinking' /\ Taken' /\ Switching' /\ Starting' /\ SavingDevice' /\ SavingRaw'
      /\ Stopping'
  BY <1>1, <1>6 DEF Kernel, Unlinking, Taken, Switching, Starting, SavingDevice, SavingRaw, Stopping,
                    Towards
<1> QED
  BY <1>5, <1>7, <1>8, <1>9 DEF Tracks

\* An offline merge into the parent: the bitmaps stay complete.
LEMMA MergeOfflineTrack == ASSUME FileInv, Tracks, MergeOffline PROVE Tracks'
<1>1. /\ ~ dev.on /\ Top > 1 /\ UNCHANGED <<dev, since>>
      /\ Top - 1 \in DOMAIN deltas /\ Top - 1 \in Nat \ {0} /\ Top \in DOMAIN deltas
      /\ Len(deltas') = Len(deltas) /\ DOMAIN deltas' = DOMAIN deltas
      /\ \A j \in DOMAIN deltas : j # Top - 1 => deltas'[j] = deltas[j]
      /\ deltas'[Top - 1].use = "v20" /\ deltas'[Top - 1].since = since
      /\ op' \in Op /\ op'.id = None /\ op'.or = {}
      /\ \/ ~ Loadable(deltas[Top]) /\ op'.pc = "unlink" /\ op'.raw = NoCbt
         \/ /\ Loadable(deltas[Top]) /\ op'.pc = "save" /\ op'.l1 = << >> /\ op'.i = 1
            /\ op'.img = Top - 1 /\ op'.next = "unlink" /\ op'.raw = Raw(deltas[Top])
            /\ op'.raw.id \in Uuid
  BY MergeOfflineEffect
<1>2. Top' = Top /\ Top \in Nat /\ Top - 1 # Top
  <2>1. Top' = Top
    BY <1>1 DEF Top
  <2>2. Top \in Nat
    BY TopFile DEF Top
  <2> QED
    BY <2>1, <2>2
<1>3. Loads'
  <2> SUFFICES ASSUME NEW k \in DOMAIN deltas, Loadable(deltas'[k])
               PROVE  Offers(Raw(deltas'[k]), SinceOf(k)')
    BY <1>1 DEF Loads
  <2>1. k # Top - 1 /\ deltas'[k] = deltas[k]
    BY <1>1 DEF Loadable
  <2>2. Offers(Raw(deltas[k]), SinceOf(k))
    BY <2>1 DEF Tracks, Loads
  <2> QED
    BY <1>1, <1>2, <2>1, <2>2 DEF SinceOf
<1>4. \A k \in DOMAIN deltas' : DOMAIN deltas'[k].since \subseteq DOMAIN since'
  <2>1. \A k \in DOMAIN deltas : DOMAIN deltas[k].since \subseteq DOMAIN since
    BY DEF Tracks, Sets
  <2> QED
    BY <1>1, <2>1
<1>5. dev'.id # None => dev'.id \in DOMAIN since'
  BY <1>1 DEF Tracks, Sets
<1>6. CASE Loadable(deltas[Top])
  <2>1. Offers(Raw(deltas[Top]), since) /\ deltas[Top] \in Delta
    BY <1>1, <1>6, TopFile DEF Tracks, Loads, SinceOf
  <2>2. SinceOf(op.img)' = since
    BY <1>1, <1>2, <1>6 DEF SinceOf
  <2>3. NoCbt.id = None
    BY DEF NoCbt
  <2>4. op'.raw \in RawCbt
    BY <1>1 DEF Op
  <2>5. op'.raw # NoCbt
    BY <1>1, <1>6, <2>3, CbtAssumption
  <2>6. \A j \in DOMAIN op'.raw.parts : op'.raw.parts[j].const => op'.raw.parts[j].s \in {{}, Chunk(j)}
    BY <1>1, <1>6, <2>1, RawConst
  <2>7. Offers(op'.raw, SinceOf(op.img)')
    BY <1>1, <1>6, <2>1, <2>2
  <2>8. deltas'[Top' - 1].since = since'
    BY <1>1, <1>2
  <2> QED
    BY <1>1, <1>3, <1>4, <1>5, <1>6, <2>4, <2>5, <2>6, <2>7, <2>8, RawBegins
<1>7. CASE ~ Loadable(deltas[Top])
  <2>1. ~ Saving'
    BY <1>1, <1>7 DEF Saving
  <2>2. Sets'
    BY <1>1, <1>4, <1>5, <1>7, <2>1 DEF Sets, Towards
  <2>3. Unlinking'
    BY <1>1, <1>2 DEF Unlinking
  <2>4. Kernel' /\ Dumped'
    BY <1>1 DEF Kernel, Dumped
  <2>5. Taken' /\ Switching' /\ Starting' /\ SavingDevice' /\ SavingRaw' /\ Stopping'
    BY <1>1, <1>7, <2>1 DEF Taken, Switching, Starting, SavingDevice, SavingRaw, Stopping, Towards
  <2> QED
    BY <1>3, <2>2, <2>3, <2>4, <2>5 DEF Tracks
<1> QED
  BY <1>6, <1>7

\* The merged child is removed: the bitmaps stay complete.
LEMMA MergeUnlinkTrack == ASSUME FileInv, Tracks, MergeUnlink PROVE Tracks'
<1>1. /\ op.pc = "unlink" /\ op' = NoOp /\ UNCHANGED <<dev, since>>
      /\ deltas' = Front(deltas) /\ disk' = Front(disk) /\ Towards("unlink")
  BY DEF MergeUnlink, Towards
<1>2. ~ dev.on /\ Top > 1
  BY <1>1 DEF FileInv, Control
<1>3. /\ Len(deltas') = Len(deltas) - 1 /\ DOMAIN deltas' = 1 .. Len(deltas) - 1
      /\ \A k \in DOMAIN deltas' : k \in DOMAIN deltas /\ deltas'[k] = deltas[k]
  BY <1>1, <1>2, TopDropped
<1>4. Top' = Top - 1 /\ Top \in Nat
  BY <1>3, TopFile DEF Top
<1>5. deltas[Top - 1].since = since
  BY <1>1 DEF Tracks, Unlinking
<1>6. Loads'
  <2> SUFFICES ASSUME NEW k \in DOMAIN deltas', Loadable(deltas'[k])
               PROVE  Offers(Raw(deltas'[k]), SinceOf(k)')
    BY DEF Loads
  <2>1. k \in DOMAIN deltas /\ deltas'[k] = deltas[k] /\ k # Top
    BY <1>3, <1>4 DEF Top
  <2>2. Offers(Raw(deltas[k]), deltas[k].since)
    BY <2>1 DEF Tracks, Loads, SinceOf
  <2>3. SinceOf(k)' = deltas[k].since
    BY <1>1, <1>4, <1>5, <2>1 DEF SinceOf
  <2> QED
    BY <2>1, <2>2, <2>3
<1>7. \A k \in DOMAIN deltas' : DOMAIN deltas'[k].since \subseteq DOMAIN since'
  BY <1>1, <1>3 DEF Tracks, Sets
<1>8. dev'.id # None => dev'.id \in DOMAIN since'
  BY <1>1 DEF Tracks, Sets
<1>9. Dumped'
  BY <1>1, <1>2 DEF Dumped
<1> QED
  BY <1>1, <1>2, <1>6, <1>7, <1>8, <1>9, IdleTracks

\* A merge of the top delta by the kernel: the bitmaps stay complete.
LEMMA MergeOnlineTrack == ASSUME FileInv, Tracks, MergeOnline PROVE Tracks'
<1> DEFINE n == Len(deltas) - 1
<1>1. /\ op = NoOp /\ op' = op /\ dev.on /\ dev.top = Top /\ Top > 1 /\ UNCHANGED since
      /\ dev'.on /\ dev'.top = n /\ dev'.id = dev.id /\ dev'.bits = dev.bits
      /\ Len(deltas') = n /\ DOMAIN deltas' = 1 .. n
      /\ \A k \in DOMAIN deltas' : k \in DOMAIN deltas
      /\ \A k \in DOMAIN deltas' : k # n => deltas'[k] = deltas[k]
      /\ deltas'[n].use = "yes" /\ deltas'[n].since = deltas[n].since
  BY MergeOnlineEffect
<1>2. Top' = n /\ Top = n + 1 /\ n \in Nat
  BY <1>1, TopFile DEF Top
<1> HIDE DEF n
<1>3. Loads'
  <2> SUFFICES ASSUME NEW k \in DOMAIN deltas', Loadable(deltas'[k])
               PROVE  Offers(Raw(deltas'[k]), SinceOf(k)')
    BY DEF Loads
  <2>1. k # n
    BY <1>1 DEF Loadable
  <2>2. k \in DOMAIN deltas /\ deltas'[k] = deltas[k] /\ k # Top
    BY <1>1, <1>2, <2>1
  <2>3. Offers(Raw(deltas[k]), deltas[k].since)
    BY <2>2 DEF Tracks, Loads, SinceOf
  <2> QED
    BY <1>2, <2>1, <2>2, <2>3 DEF SinceOf
<1>4. \A k \in DOMAIN deltas' : DOMAIN deltas'[k].since \subseteq DOMAIN since'
  <2>1. \A k \in DOMAIN deltas : DOMAIN deltas[k].since \subseteq DOMAIN since
    BY DEF Tracks, Sets
  <2>2. \A k \in DOMAIN deltas' : k \in DOMAIN deltas /\ deltas'[k].since = deltas[k].since
    BY <1>1
  <2> QED
    BY <1>1, <2>1, <2>2
<1>5. dev'.id # None => dev'.id \in DOMAIN since' /\ since'[dev'.id] \subseteq dev'.bits
  <2>1. op.pc = "idle" /\ op.or = {}
    BY <1>1 DEF NoOp
  <2> QED
    BY <1>1, <2>1 DEF Tracks, Sets, Kernel
<1>6. Dumped'
  BY <1>1, <1>2 DEF Dumped
<1> QED
  BY <1>1, <1>3, <1>4, <1>5, <1>6, IdleTracks

\* The top delta is dropped: the bitmaps stay complete.
LEMMA DeleteTopTrack == ASSUME FileInv, Tracks, DeleteTop PROVE Tracks'
<1>1. /\ op = NoOp /\ op' = op /\ ~ dev.on /\ Top > 1 /\ UNCHANGED dev
      /\ deltas' = Front(deltas) /\ disk' = Front(disk)
      /\ since' = [u \in DOMAIN since |->
                 IF u \in DOMAIN deltas[Top - 1].since THEN deltas[Top - 1].since[u] ELSE Bits]
  BY DEF DeleteTop, Called
<1>2. /\ Len(deltas') = Len(deltas) - 1 /\ DOMAIN deltas' = 1 .. Len(deltas) - 1
      /\ \A k \in DOMAIN deltas' : k \in DOMAIN deltas /\ deltas'[k] = deltas[k]
  BY <1>1, TopDropped
<1>3. Top' = Top - 1 /\ Top \in Nat
  BY <1>2, TopFile DEF Top
<1>4. \A k \in DOMAIN deltas : DOMAIN deltas[k].since \subseteq DOMAIN since
  BY DEF Tracks, Sets
<1>5. DOMAIN since' = DOMAIN since
  BY <1>1
<1>6. Loads'
  <2> SUFFICES ASSUME NEW k \in DOMAIN deltas', Loadable(deltas'[k])
               PROVE  Offers(Raw(deltas'[k]), SinceOf(k)')
    BY DEF Loads
  <2>1. k \in DOMAIN deltas /\ deltas'[k] = deltas[k] /\ k # Top
    BY <1>2, <1>3 DEF Top
  <2>2. Offers(Raw(deltas[k]), deltas[k].since)
    BY <2>1 DEF Tracks, Loads, SinceOf
  <2>3. CASE k # Top - 1
    BY <1>3, <2>1, <2>2, <2>3 DEF SinceOf
  <2>4. CASE k = Top - 1
    <3>1. SinceOf(k)' = since'
      BY <1>3, <2>4 DEF SinceOf
    <3>2. \A u \in DOMAIN deltas[k].since : u \in DOMAIN since' /\ since'[u] = deltas[k].since[u]
      BY <1>1, <1>4, <1>5, <2>1, <2>4
    <3> QED
      BY <2>1, <2>2, <3>1, <3>2 DEF Offers
  <2> QED
    BY <2>3, <2>4
<1>7. \A k \in DOMAIN deltas' : DOMAIN deltas'[k].since \subseteq DOMAIN since'
  BY <1>2, <1>4, <1>5
<1>8. dev'.id # None => dev'.id \in DOMAIN since'
  BY <1>1, <1>5 DEF Tracks, Sets
<1>9. Dumped'
  BY <1>1 DEF Dumped
<1> QED
  BY <1>1, <1>6, <1>7, <1>8, <1>9, IdleTracks

\* Files that are kept, or offer nothing any more.
LEMMA LoadsLess ==
  ASSUME Loads, since' = since, DOMAIN deltas' = DOMAIN deltas, Len(deltas') = Len(deltas),
         \A k \in DOMAIN deltas : deltas'[k] = deltas[k] \/ ~ Loadable(deltas'[k])
  PROVE  Loads'
<1> SUFFICES ASSUME NEW k \in DOMAIN deltas, Loadable(deltas'[k])
             PROVE  Offers(Raw(deltas'[k]), SinceOf(k)')
  BY DEF Loads
<1>1. deltas'[k] = deltas[k]
  OBVIOUS
<1>2. Offers(Raw(deltas[k]), SinceOf(k))
  BY <1>1 DEF Loads
<1> QED
  BY <1>1, <1>2 DEF SinceOf, Top

\* The fields of a file whose header gets another mark.
LEMMA Marked == ASSUME NEW c \in Delta, NEW u \in {"v20", "yes"}, NEW f, f = [c EXCEPT !.use = u]
                PROVE  /\ f \in Delta /\ f.use = u /\ f.ext = c.ext /\ f.map = c.map
                       /\ f.blk = c.blk /\ f.since = c.since /\ ~ Loadable(f)
<1>1. f \in Delta /\ f.use = u /\ f.ext = c.ext /\ f.map = c.map /\ f.blk = c.blk /\ f.since = c.since
  BY DEF Delta
<1> QED
  BY <1>1 DEF Loadable

\* The top file was replaced.
LEMMA TopReplaced ==
  ASSUME FileInv, NEW f \in Delta, deltas' = [deltas EXCEPT ![Top] = f]
  PROVE  /\ Len(deltas') = Len(deltas) /\ DOMAIN deltas' = DOMAIN deltas /\ deltas'[Top] = f
         /\ Top' = Top /\ Top \in DOMAIN deltas
         /\ \A j \in DOMAIN deltas : j # Top => deltas'[j] = deltas[j]
<1>1. Top \in DOMAIN deltas /\ deltas \in Seq(Delta)
  BY TopFile DEF Top, FileInv, Shape
<1>2. /\ Len(deltas') = Len(deltas) /\ DOMAIN deltas' = DOMAIN deltas /\ deltas'[Top] = f
      /\ \A j \in DOMAIN deltas : j # Top => deltas'[j] = deltas[j]
  BY <1>1, Replaced
<1> QED
  BY <1>1, <1>2 DEF Top

\* The check before a mount, which closes a dirty delta: what it changes.
LEMMA MountCheckEffect ==
  ASSUME FileInv, MountCheck
  PROVE  /\ op = NoOp /\ ~ dev.on /\ UNCHANGED <<dev, since, kept, faults, torn>>
         /\ op'.pc = "load" /\ op'.raw = NoCbt /\ op'.id = None /\ op'.or = {}
         /\ Len(deltas') = Len(deltas) /\ DOMAIN deltas' = DOMAIN deltas
         /\ \A k \in DOMAIN deltas : deltas'[k].since = deltas[k].since
         /\ \/ deltas' = deltas
            \/ /\ ~ Loadable(deltas[Top]) /\ ~ Loadable(deltas'[Top])
               /\ \A j \in DOMAIN deltas : j # Top => deltas'[j] = deltas[j]
<1> DEFINE f == [deltas[Top] EXCEPT !.use = "v20"]
<1>1. /\ op = NoOp /\ ~ dev.on /\ UNCHANGED <<dev, since, kept, faults, torn>>
      /\ op' = [NoOp EXCEPT !.pc = "load"]
      /\ IF deltas[Top].use = "yes" THEN PutSync(Top, f) ELSE UNCHANGED <<deltas, disk>>
  BY DEF MountCheck, Called
<1>2. Top \in DOMAIN deltas /\ deltas[Top] \in Delta
  BY TopFile DEF Top
<1>3. op'.pc = "load" /\ op'.raw = NoCbt /\ op'.id = None /\ op'.or = {}
  <2>1. NoOp \in Op /\ NoOp.raw = NoCbt /\ NoOp.id = None /\ NoOp.or = {}
    BY NewTypes DEF NoOp
  <2> QED
    BY <1>1, <2>1 DEF Op
<1>4. CASE deltas[Top].use = "yes"
  <2>1. f \in Delta /\ f.since = deltas[Top].since /\ ~ Loadable(f)
    BY <1>2, Marked
  <2>2. deltas' = [deltas EXCEPT ![Top] = f]
    BY <1>1, <1>4 DEF PutSync
  <2> HIDE DEF f
  <2>3. /\ Len(deltas') = Len(deltas) /\ DOMAIN deltas' = DOMAIN deltas /\ deltas'[Top] = f
        /\ \A j \in DOMAIN deltas : j # Top => deltas'[j] = deltas[j]
    BY <2>1, <2>2, TopReplaced
  <2>4. ~ Loadable(deltas[Top])
    BY <1>4 DEF Loadable
  <2>5. \A k \in DOMAIN deltas : deltas'[k].since = deltas[k].since
    BY <2>1, <2>3
  <2> QED
    BY <1>1, <1>3, <2>1, <2>3, <2>4, <2>5
<1>5. CASE deltas[Top].use # "yes"
  <2>1. deltas' = deltas
    BY <1>1, <1>5
  <2> QED
    BY <1>1, <1>3, <2>1
<1> QED
  BY <1>4, <1>5

\* The check before a mount, which closes a dirty delta: the bitmaps stay complete.
LEMMA MountCheckTrack == ASSUME FileInv, Tracks, MountCheck PROVE Tracks'
<1>1. /\ ~ dev.on /\ UNCHANGED <<dev, since>>
      /\ op'.pc = "load" /\ op'.raw = NoCbt /\ op'.id = None /\ op'.or = {}
      /\ Len(deltas') = Len(deltas) /\ DOMAIN deltas' = DOMAIN deltas
      /\ \A k \in DOMAIN deltas : deltas'[k].since = deltas[k].since
      /\ \A k \in DOMAIN deltas : deltas'[k] = deltas[k] \/ ~ Loadable(deltas'[k])
  BY MountCheckEffect
<1>2. Loads'
  BY <1>1, LoadsLess DEF Tracks
<1>3. ~ Saving'
  BY <1>1 DEF Saving
<1>4. Sets'
  BY <1>1, <1>3 DEF Tracks, Sets, Towards
<1>5. Kernel' /\ Dumped'
  BY <1>1 DEF Kernel, Dumped
<1>6. Taken' /\ Switching' /\ Starting' /\ Unlinking' /\ SavingDevice' /\ SavingRaw' /\ Stopping'
  BY <1>1, <1>3 DEF Taken, Switching, Starting, Unlinking, SavingDevice, SavingRaw, Stopping, Towards
<1> QED
  BY <1>2, <1>4, <1>5, <1>6 DEF Tracks

\* What reading the extension leaves in the file and in the memory.
LEMMA LoadExtEffect ==
  ASSUME FileInv, LoadExt
  PROVE  /\ op.pc = "load" /\ ~ dev.on /\ UNCHANGED <<dev, since, kept, faults, torn>>
         /\ op'.pc = "start" /\ op'.id = op.id /\ op'.or = op.or
         /\ op'.raw = IF Loadable(deltas[Top]) THEN Raw(deltas[Top]) ELSE NoCbt
         /\ Len(deltas') = Len(deltas) /\ DOMAIN deltas' = DOMAIN deltas /\ Top' = Top
         /\ Top \in DOMAIN deltas /\ ~ Loadable(deltas'[Top])
         /\ \A j \in DOMAIN deltas : j # Top => deltas'[j] = deltas[j]
         /\ deltas'[Top].since = deltas[Top].since
<1> DEFINE f == deltas[Top]
           g == [f EXCEPT !.ext = 0, !.use = "v20"]
<1>1. op.pc = "load" /\ UNCHANGED <<dev, since, kept, faults, torn>>
  BY DEF LoadExt
<1>2. /\ Top \in DOMAIN deltas /\ f \in Delta /\ disk[Top] \in Delta /\ FileOK(f, disk[Top])
      /\ op \in Op /\ op.raw = NoCbt /\ ~ dev.on /\ f.use # "yes"
  <2>1. op.raw = NoCbt /\ ~ dev.on /\ f.use # "yes"
    BY <1>1 DEF FileInv, Control
  <2> QED
    BY <2>1, TopFile DEF Top, FileInv, Shape
<1>3. CASE NothingToLoad(f) \/ (HasExt(f) /\ ~ L1Readable(f))
  <2>1. op' = [op EXCEPT !.pc = "start"] /\ deltas' = deltas
    BY <1>3 DEF LoadExt, Goto
  <2>2. op'.pc = "start" /\ op'.raw = op.raw /\ op'.id = op.id /\ op'.or = op.or
    BY <1>2, <2>1 DEF Op
  <2>3. ~ Loadable(f)
    BY <1>3 DEF Loadable, NothingToLoad
  <2> QED
    BY <1>1, <1>2, <2>1, <2>2, <2>3 DEF Top
<1>4. CASE ~ NothingToLoad(f) /\ ~ HasExt(f)
  <2>1. op' = [op EXCEPT !.pc = "start"] /\ deltas' = [deltas EXCEPT ![Top] = g]
    BY <1>4 DEF LoadExt, Goto, Put
  <2>2. op'.pc = "start" /\ op'.raw = op.raw /\ op'.id = op.id /\ op'.or = op.or
    BY <1>2, <2>1 DEF Op
  <2>3. g \in Delta /\ g.use = "v20" /\ g.since = f.since
    BY <1>2 DEF Delta
  <2>4. ~ Loadable(f)
    BY <1>4 DEF Loadable
  <2>5. f = deltas[Top]
    OBVIOUS
  <2> HIDE DEF f, g
  <2>6. ~ Loadable(g)
    BY <2>3 DEF Loadable
  <2>7. /\ Len(deltas') = Len(deltas) /\ DOMAIN deltas' = DOMAIN deltas /\ deltas'[Top] = g
        /\ Top' = Top
        /\ \A j \in DOMAIN deltas : j # Top => deltas'[j] = deltas[j]
    BY <2>1, <2>3, TopReplaced
  <2> QED
    BY <1>1, <1>2, <2>2, <2>3, <2>4, <2>5, <2>6, <2>7
<1>5. CASE ~ NothingToLoad(f) /\ HasExt(f) /\ L1Readable(f)
  <2>0. f.use = "v21"
    BY <1>2, <1>5 DEF NothingToLoad, Delta
  <2>1. /\ deltas' = [deltas EXCEPT ![Top] = Truncated(f)]
        /\ op' = [op EXCEPT !.pc = "start", !.raw = Raw(f)]
    BY <1>5 DEF LoadExt, Put
  <2>2. Loadable(f)
    BY <1>5, <2>0 DEF Loadable, NothingToLoad
  <2>3. Raw(f) \in RawCbt
    BY <1>2, <2>2, RawId
  <2> DEFINE r == Raw(f)
  <2>4. r \in RawCbt /\ op' = [op EXCEPT !.pc = "start", !.raw = r]
    BY <2>1, <2>3
  <2> HIDE DEF r
  <2>5. op'.pc = "start" /\ op'.raw = r /\ op'.id = op.id /\ op'.or = op.or
    BY <1>2, <2>4 DEF Op
  <2>6. /\ Truncated(f) \in Delta /\ FileOK(Truncated(f), disk[Top]) /\ ~ HasExt(Truncated(f))
    BY <1>2, <1>5, <2>0, FileTruncated
  <2>7. Truncated(f).since = f.since /\ ~ Loadable(Truncated(f))
    BY <1>2, <2>6 DEF FileOK, Loadable
  <2>8. /\ Len(deltas') = Len(deltas) /\ DOMAIN deltas' = DOMAIN deltas /\ deltas'[Top] = Truncated(f)
        /\ Top' = Top
        /\ \A j \in DOMAIN deltas : j # Top => deltas'[j] = deltas[j]
    BY <2>1, <2>6, TopReplaced
  <2> QED
    BY <1>1, <1>2, <2>2, <2>5, <2>7, <2>8 DEF r
<1> QED
  BY <1>3, <1>4, <1>5

\* The extension is read and cut off: the bitmaps stay complete.
LEMMA LoadExtTrack == ASSUME FileInv, Tracks, LoadExt PROVE Tracks'
<1>1. /\ op.pc = "load" /\ ~ dev.on /\ UNCHANGED <<dev, since>>
      /\ op'.pc = "start" /\ op'.id = op.id /\ op'.or = op.or
      /\ op'.raw = IF Loadable(deltas[Top]) THEN Raw(deltas[Top]) ELSE NoCbt
      /\ Len(deltas') = Len(deltas) /\ DOMAIN deltas' = DOMAIN deltas
      /\ Top \in DOMAIN deltas /\ ~ Loadable(deltas'[Top])
      /\ \A j \in DOMAIN deltas : j # Top => deltas'[j] = deltas[j]
      /\ deltas'[Top].since = deltas[Top].since
  BY LoadExtEffect
<1>2. /\ \A k \in DOMAIN deltas : deltas'[k].since = deltas[k].since
      /\ \A k \in DOMAIN deltas : deltas'[k] = deltas[k] \/ ~ Loadable(deltas'[k])
  BY <1>1
<1>3. Loads'
  BY <1>1, <1>2, LoadsLess DEF Tracks
<1>4. ~ Saving'
  BY <1>1 DEF Saving
<1>5. op.id = None
  BY <1>1 DEF Tracks, Sets
<1>6. Sets'
  BY <1>1, <1>2, <1>4, <1>5 DEF Tracks, Sets, Towards
<1>7. Starting'
  <2> SUFFICES ASSUME op'.raw # NoCbt PROVE Offers(op'.raw, since)
    BY <1>1 DEF Starting
  <2> QED
    BY <1>1 DEF Tracks, Loads, SinceOf
<1>8. Kernel' /\ Dumped'
  BY <1>1 DEF Kernel, Dumped
<1>9. Taken' /\ Switching' /\ Unlinking' /\ SavingDevice' /\ SavingRaw' /\ Stopping'
  BY <1>1, <1>4 DEF Taken, Switching, Unlinking, SavingDevice, SavingRaw, Stopping, Towards
<1> QED
  BY <1>3, <1>6, <1>7, <1>8, <1>9 DEF Tracks

\* The device starts on the top delta: what it changes.
LEMMA StartEffect ==
  ASSUME FileInv, Start
  PROVE  /\ op.pc = "start" /\ UNCHANGED <<since, kept, faults, torn>>
         /\ dev'.on /\ dev'.top = Top /\ dev'.id = op.raw.id /\ dev'.bits = {}
         /\ op.raw = NoCbt => op' = NoOp
         /\ op.raw # NoCbt => /\ op'.pc = "send" /\ op'.raw = op.raw /\ op'.i = 1
                              /\ op'.id = op.id /\ op'.or = op.or
         /\ Len(deltas') = Len(deltas) /\ DOMAIN deltas' = DOMAIN deltas /\ Top' = Top
         /\ \A k \in DOMAIN deltas : deltas'[k] = deltas[k] \/ ~ Loadable(deltas'[k])
         /\ \A k \in DOMAIN deltas : deltas'[k].since = deltas[k].since
<1> DEFINE f == [deltas[Top] EXCEPT !.use = "yes"]
<1>1. /\ op.pc = "start" /\ UNCHANGED <<since, kept, faults, torn>>
      /\ deltas' = [deltas EXCEPT ![Top] = f]
      /\ dev' = [on |-> TRUE, top |-> Top, id |-> op.raw.id, bits |-> {}]
      /\ op' = IF op.raw = NoCbt THEN NoOp ELSE [op EXCEPT !.pc = "send", !.i = 1]
  BY DEF Start, PutSync
<1>2. deltas[Top] \in Delta /\ op \in Op
  BY TopFile DEF Top, FileInv, Shape
<1>3. f \in Delta /\ f.since = deltas[Top].since /\ ~ Loadable(f)
  BY <1>2, Marked
<1> HIDE DEF f
<1>4. /\ Len(deltas') = Len(deltas) /\ DOMAIN deltas' = DOMAIN deltas /\ deltas'[Top] = f
      /\ Top' = Top /\ \A j \in DOMAIN deltas : j # Top => deltas'[j] = deltas[j]
  BY <1>1, <1>3, TopReplaced
<1>5. /\ \A k \in DOMAIN deltas : deltas'[k] = deltas[k] \/ ~ Loadable(deltas'[k])
      /\ \A k \in DOMAIN deltas : deltas'[k].since = deltas[k].since
  BY <1>3, <1>4
<1>6. dev'.on /\ dev'.top = Top /\ dev'.id = op.raw.id /\ dev'.bits = {}
  BY <1>1
<1>7. op.raw # NoCbt => /\ op'.pc = "send" /\ op'.raw = op.raw /\ op'.i = 1
                        /\ op'.id = op.id /\ op'.or = op.or
  <2> SUFFICES ASSUME op.raw # NoCbt
               PROVE  /\ op'.pc = "send" /\ op'.raw = op.raw /\ op'.i = 1
                      /\ op'.id = op.id /\ op'.or = op.or
    OBVIOUS
  <2>1. op' = [op EXCEPT !.pc = "send", !.i = 1] /\ 1 \in Nat \ {0}
    BY <1>1
  <2> QED
    BY <1>2, <2>1 DEF Op
<1> QED
  BY <1>1, <1>4, <1>5, <1>6, <1>7

\* The device starts on the top delta: the bitmaps stay complete.
LEMMA StartTrack == ASSUME FileInv, Tracks, Start PROVE Tracks'
<1>1. /\ op.pc = "start" /\ UNCHANGED since
      /\ dev'.on /\ dev'.top = Top /\ dev'.id = op.raw.id /\ dev'.bits = {}
      /\ op.raw = NoCbt => op' = NoOp
      /\ op.raw # NoCbt => /\ op'.pc = "send" /\ op'.raw = op.raw /\ op'.i = 1
                           /\ op'.id = op.id /\ op'.or = op.or
      /\ Len(deltas') = Len(deltas) /\ DOMAIN deltas' = DOMAIN deltas /\ Top' = Top
      /\ \A k \in DOMAIN deltas : deltas'[k] = deltas[k] \/ ~ Loadable(deltas'[k])
      /\ \A k \in DOMAIN deltas : deltas'[k].since = deltas[k].since
  BY StartEffect
<1>2. Loads' /\ Dumped'
  BY <1>1, LoadsLess DEF Tracks, Dumped
<1>3. \A k \in DOMAIN deltas' : DOMAIN deltas'[k].since \subseteq DOMAIN since'
  BY <1>1 DEF Tracks, Sets
<1>4. CASE op.raw = NoCbt
  <2>1. dev'.id = None
    BY <1>1, <1>4 DEF NoCbt
  <2> QED
    BY <1>1, <1>2, <1>3, <1>4, <2>1, IdleTracks
<1>5. CASE op.raw # NoCbt
  <2>1. op'.pc = "send" /\ op'.raw = op.raw /\ op'.i = 1 /\ op'.id = op.id /\ op'.or = op.or
    BY <1>1, <1>5
  <2>2. op.raw.id \in DOMAIN since /\ since[op.raw.id] \subseteq RawBits(op.raw)
    BY <1>1, <1>5 DEF Tracks, Starting, Offers
  <2>3. op.id = None /\ op.or = {}
    BY <1>1 DEF Tracks, Sets
  <2>4. ~ Saving'
    BY <2>1 DEF Saving
  <2>5. Sets'
    BY <1>1, <1>3, <2>1, <2>2, <2>3, <2>4 DEF Sets, Towards
  <2>6. Kernel'
    <3>1. op.raw.parts \in Seq(Part)
      BY DEF FileInv, Shape, Op, RawCbt
    <3>2. \A j \in DOMAIN op.raw.parts : ~ (j < 1)
      BY <3>1
    <3> QED
      BY <1>1, <2>1, <2>2, <3>2 DEF Kernel
  <2>7. Taken' /\ Switching' /\ Starting' /\ Unlinking' /\ SavingDevice' /\ SavingRaw' /\ Stopping'
    BY <2>1, <2>4 DEF Taken, Switching, Starting, Unlinking, SavingDevice, SavingRaw, Stopping, Towards
  <2> QED
    BY <1>2, <2>5, <2>6, <2>7 DEF Tracks
<1> QED
  BY <1>4, <1>5

\* One part of the bitmap is sent to the kernel: what it changes.
LEMMA SendBitmapEffect ==
  ASSUME FileInv, SendBitmap
  PROVE  /\ op.pc = "send" /\ UNCHANGED <<deltas, since, kept, faults, torn>>
         /\ dev'.on = dev.on /\ dev'.top = dev.top /\ dev'.id = dev.id
         /\ dev'.bits = dev.bits \cup
              (IF op.i \in DOMAIN op.raw.parts THEN op.raw.parts[op.i].s ELSE {})
         /\ \/ op.i >= Len(op.raw.parts) /\ op' = NoOp
            \/ /\ op'.pc = "send" /\ op'.raw = op.raw /\ op'.i = op.i + 1
               /\ op'.id = op.id /\ op'.or = op.or
<1> DEFINE s == IF op.i \in DOMAIN op.raw.parts THEN op.raw.parts[op.i].s ELSE {}
           i == op.i + 1
<1>1. /\ op.pc = "send" /\ UNCHANGED <<deltas, since, kept, faults, torn>>
      /\ dev' = [dev EXCEPT !.bits = @ \cup s]
      /\ op' = IF op.i >= Len(op.raw.parts) THEN NoOp ELSE [op EXCEPT !.i = i]
  BY DEF SendBitmap
<1>2. op \in Op /\ dev \in Dev /\ i \in Nat \ {0}
  BY NextChunk DEF FileInv, Shape
<1> HIDE DEF s, i
<1>3. dev'.on = dev.on /\ dev'.top = dev.top /\ dev'.id = dev.id /\ dev'.bits = dev.bits \cup s
  BY <1>1, <1>2 DEF Dev
<1>4. CASE op.i >= Len(op.raw.parts)
  BY <1>1, <1>3, <1>4 DEF s
<1>5. CASE ~ (op.i >= Len(op.raw.parts))
  <2>1. op'.pc = "send" /\ op'.raw = op.raw /\ op'.i = i /\ op'.id = op.id /\ op'.or = op.or
    BY <1>1, <1>2, <1>5 DEF Op
  <2> QED
    BY <1>1, <1>3, <2>1 DEF s, i
<1> QED
  BY <1>4, <1>5

\* One part of the bitmap is sent to the kernel: the bitmaps stay complete.
LEMMA SendBitmapTrack == ASSUME FileInv, Tracks, SendBitmap PROVE Tracks'
<1> DEFINE s == IF op.i \in DOMAIN op.raw.parts THEN op.raw.parts[op.i].s ELSE {}
<1>1. /\ op.pc = "send" /\ UNCHANGED <<deltas, since>>
      /\ dev'.on = dev.on /\ dev'.top = dev.top /\ dev'.id = dev.id /\ dev'.bits = dev.bits \cup s
      /\ \/ op.i >= Len(op.raw.parts) /\ op' = NoOp
         \/ /\ op'.pc = "send" /\ op'.raw = op.raw /\ op'.i = op.i + 1
            /\ op'.id = op.id /\ op'.or = op.or
  BY SendBitmapEffect
<1>2. op.i \in Nat /\ op.raw.parts \in Seq(Part)
  BY DEF FileInv, Shape, Op, RawCbt
<1>3. Loads' /\ Dumped'
  BY <1>1, LoadsSame DEF Tracks, Dumped, Top
<1>4. /\ \A k \in DOMAIN deltas' : DOMAIN deltas'[k].since \subseteq DOMAIN since'
      /\ dev'.id # None => dev'.id \in DOMAIN since'
  BY <1>1 DEF Tracks, Sets
<1>5. dev.on /\ dev.id # None =>
        /\ dev.id = op.raw.id /\ since[dev.id] \subseteq RawBits(op.raw)
        /\ \A j \in DOMAIN op.raw.parts : j < op.i => op.raw.parts[j].s \subseteq dev.bits
  BY <1>1 DEF Tracks, Kernel
<1>6. dev.on /\ dev.id # None =>
        \A j \in DOMAIN op.raw.parts : j < op.i + 1 => op.raw.parts[j].s \subseteq dev'.bits
  <2> SUFFICES ASSUME dev.on /\ dev.id # None, NEW j \in DOMAIN op.raw.parts, j < op.i + 1
               PROVE  op.raw.parts[j].s \subseteq dev'.bits
    OBVIOUS
  <2>1. CASE j = op.i
    BY <1>1, <2>1
  <2>2. CASE j # op.i
    <3>1. j < op.i
      BY <1>2, <2>2
    <3> QED
      BY <1>1, <1>5, <3>1
  <2> QED
    BY <2>1, <2>2
<1> HIDE DEF s
<1>7. CASE op.i >= Len(op.raw.parts) /\ op' = NoOp
  <2>1. dev.on /\ dev.id # None => RawBits(op.raw) \subseteq dev'.bits
    <3> SUFFICES ASSUME dev.on /\ dev.id # None, NEW j \in DOMAIN op.raw.parts
                 PROVE  op.raw.parts[j].s \subseteq dev'.bits
      BY DEF RawBits
    <3>1. j < op.i + 1
      BY <1>2, <1>7
    <3> QED
      BY <1>6, <3>1
  <2>2. dev'.on /\ dev'.id # None => since'[dev'.id] \subseteq dev'.bits
    BY <1>1, <1>5, <2>1
  <2> QED
    BY <1>3, <1>4, <1>7, <2>2, IdleTracks
<1>8. CASE /\ op'.pc = "send" /\ op'.raw = op.raw /\ op'.i = op.i + 1
           /\ op'.id = op.id /\ op'.or = op.or
  <2>1. ~ Saving'
    BY <1>8 DEF Saving
  <2>2. op.id = None /\ op.or = {}
    BY <1>1 DEF Tracks, Sets
  <2>3. Sets'
    BY <1>1, <1>4, <1>8, <2>1, <2>2 DEF Sets, Towards
  <2>4. Kernel'
    BY <1>1, <1>5, <1>6, <1>8 DEF Kernel
  <2>5. Taken' /\ Switching' /\ Starting' /\ Unlinking' /\ SavingDevice' /\ SavingRaw' /\ Stopping'
    BY <1>8, <2>1 DEF Taken, Switching, Starting, Unlinking, SavingDevice, SavingRaw, Stopping, Towards
  <2> QED
    BY <1>3, <2>3, <2>4, <2>5 DEF Tracks
<1> QED
  BY <1>1, <1>7, <1>8

\* The device stops and closes its top delta: what it changes.
LEMMA UmountEffect ==
  ASSUME FileInv, Umount
  PROVE  /\ op = NoOp /\ dev.on /\ UNCHANGED <<since, kept, faults, torn>>
         /\ ~ dev'.on /\ dev'.id = dev.id /\ dev'.bits = dev.bits
         /\ op'.pc = "save" /\ op'.img = dev.top /\ op'.next = "stop" /\ op'.i = 1 /\ op'.pos = 0
         /\ op'.l1 = << >> /\ op'.raw = NoCbt /\ op'.id = None /\ op'.or = {}
         /\ Len(deltas') = Len(deltas) /\ DOMAIN deltas' = DOMAIN deltas /\ Top' = Top
         /\ dev.top \in DOMAIN deltas
         /\ \A j \in DOMAIN deltas : j # dev.top => deltas'[j] = deltas[j]
         /\ deltas'[dev.top].use = "v20" /\ deltas'[dev.top].since = since
<1> DEFINE t == dev.top
           f == [deltas[t] EXCEPT !.use = "v20", !.since = since]
<1>1. /\ op = NoOp /\ dev.on /\ UNCHANGED <<since, kept, faults, torn>>
      /\ deltas' = [deltas EXCEPT ![t] = f]
      /\ dev' = [dev EXCEPT !.on = FALSE] /\ op' = SaveTo(t, "stop")
  BY DEF Umount, Called, PutSync
<1>2. /\ t \in DOMAIN deltas /\ t \in Nat /\ op \in Op /\ dev \in Dev /\ since \in Sinces
      /\ deltas \in Seq(Delta)
  BY <1>1 DEF FileInv, Control, Shape, Dev
<1> HIDE DEF t
<1>3. f \in Delta /\ f.use = "v20" /\ f.since = since
  BY <1>2, TopFile DEF Delta
<1> HIDE DEF f
<1>4. /\ Len(deltas') = Len(deltas) /\ DOMAIN deltas' = DOMAIN deltas /\ deltas'[t] = f
      /\ \A j \in DOMAIN deltas : j # t => deltas'[j] = deltas[j]
  BY <1>1, <1>2, <1>3, Replaced
<1>5. ~ dev'.on /\ dev'.id = dev.id /\ dev'.bits = dev.bits
  BY <1>1, <1>2 DEF Dev
<1>6. /\ op'.pc = "save" /\ op'.img = t /\ op'.next = "stop" /\ op'.i = 1 /\ op'.pos = 0
      /\ op'.l1 = << >> /\ op'.raw = op.raw /\ op'.id = op.id /\ op'.or = op.or
  BY <1>1, <1>2, SaveToOp
<1>7. op.raw = NoCbt /\ op.id = None /\ op.or = {}
  BY <1>1 DEF NoOp
<1>8. Top' = Top
  BY <1>4 DEF Top
<1> QED
  BY <1>1, <1>2, <1>3, <1>4, <1>5, <1>6, <1>7, <1>8 DEF t

\* The device stops and closes its top delta: the bitmaps stay complete.
LEMMA UmountTrack == ASSUME FileInv, Tracks, Umount PROVE Tracks'
<1>1. /\ op = NoOp /\ dev.on /\ UNCHANGED since
      /\ ~ dev'.on /\ dev'.id = dev.id /\ dev'.bits = dev.bits
      /\ op'.pc = "save" /\ op'.img = dev.top /\ op'.next = "stop" /\ op'.i = 1 /\ op'.pos = 0
      /\ op'.l1 = << >> /\ op'.raw = NoCbt /\ op'.id = None /\ op'.or = {}
      /\ Len(deltas') = Len(deltas) /\ DOMAIN deltas' = DOMAIN deltas /\ Top' = Top
      /\ dev.top \in DOMAIN deltas
      /\ \A j \in DOMAIN deltas : j # dev.top => deltas'[j] = deltas[j]
      /\ deltas'[dev.top].use = "v20" /\ deltas'[dev.top].since = since
  BY UmountEffect
<1>2. Loads'
  <2>1. ~ Loadable(deltas'[dev.top])
    BY <1>1 DEF Loadable
  <2> QED
    BY <1>1, <2>1, LoadsLess DEF Tracks
<1>3. Saving'
  BY <1>1 DEF Saving
<1>4. /\ \A k \in DOMAIN deltas : DOMAIN deltas[k].since \subseteq DOMAIN since
      /\ dev.id # None => dev.id \in DOMAIN since
  BY DEF Tracks, Sets
<1>5. Sets'
  BY <1>1, <1>4 DEF Sets, Towards
<1>6. dev.id # None => dev.top = Top /\ since[dev.id] \subseteq dev.bits
  <2>1. op.pc = "idle" /\ op.or = {}
    BY <1>1 DEF NoOp
  <2> QED
    BY <1>1, <2>1 DEF Tracks, Kernel, Dumped
<1>7. Stopping'
  <2>1. dev.top # Top => deltas[Top].use = "v20" /\ Top \in DOMAIN deltas
    BY <1>1, TopFile DEF Tracks, Dumped, Top
  <2> QED
    BY <1>1, <2>1 DEF Stopping
<1>8. SavingDevice'
  <2> SUFFICES ASSUME dev.id # None PROVE SavingDevice'
    BY <1>1 DEF SavingDevice
  <2>1. SinceOf(op.img)' = since /\ Goal' = since[dev.id]
    BY <1>1, <1>6 DEF SinceOf, Goal
  <2>2. DOMAIN op'.l1 = {} /\ Len(op'.l1) = op'.i - 1
    BY <1>1
  <2>3. \A b \in Bits : ~ (b < 0)
    BY BitsNat
  <2>4. \A n : Goal' \cap Chunk(n) \subseteq Bits
    BY ChunkBitsOf
  <2> QED
    BY <1>1, <1>4, <1>6, <2>1, <2>2, <2>3, <2>4 DEF SavingDevice
<1>9. Kernel' /\ Dumped' /\ SavingRaw'
  BY <1>1 DEF Kernel, Dumped, SavingRaw
<1>10. Taken' /\ Switching' /\ Starting' /\ Unlinking'
  BY <1>1 DEF Taken, Switching, Starting, Unlinking, Towards
<1> QED
  BY <1>2, <1>5, <1>7, <1>8, <1>9, <1>10 DEF Tracks

\* The tracker of a stopped device is removed: the bitmaps stay complete.
LEMMA CbtStopTrack == ASSUME FileInv, Tracks, CbtStop PROVE Tracks'
<1>1. /\ op.pc = "stop" /\ op' = NoOp /\ UNCHANGED <<deltas, since>>
      /\ dev' = [dev EXCEPT !.id = None, !.bits = {}]
  BY DEF CbtStop
<1>2. dev'.on = dev.on /\ dev'.id = None /\ dev'.top = dev.top
  BY <1>1 DEF FileInv, Shape, Dev
<1>3. Loads' /\ Dumped'
  BY <1>1, <1>2, LoadsSame DEF Tracks, Dumped, Top
<1>4. \A k \in DOMAIN deltas' : DOMAIN deltas'[k].since \subseteq DOMAIN since'
  BY <1>1 DEF Tracks, Sets
<1> QED
  BY <1>1, <1>2, <1>3, <1>4, IdleTracks

\* Tracking is dropped: what it changes.
LEMMA DropCbtEffect ==
  ASSUME FileInv, DropCbt
  PROVE  /\ op = NoOp /\ op' = NoOp /\ kept' = None /\ UNCHANGED <<since, faults, torn>>
         /\ \/ /\ dev.on /\ dev'.on /\ dev'.id = None /\ dev'.top = dev.top /\ deltas' = deltas
            \/ /\ ~ dev.on /\ dev' = dev /\ Top' = Top /\ Top \in DOMAIN deltas
               /\ Len(deltas') = Len(deltas) /\ DOMAIN deltas' = DOMAIN deltas
               /\ \A j \in DOMAIN deltas : j # Top => deltas'[j] = deltas[j]
               /\ ~ Loadable(deltas'[Top]) /\ deltas'[Top].since = deltas[Top].since
<1>1. op = NoOp /\ op' = op /\ kept' = None /\ UNCHANGED <<since, faults, torn>>
  BY DEF DropCbt, Called
<1>2. CASE dev.on
  <2>1. dev' = [dev EXCEPT !.id = None, !.bits = {}] /\ deltas' = deltas
    BY <1>2 DEF DropCbt
  <2>2. dev'.on = dev.on /\ dev'.id = None /\ dev'.top = dev.top
    BY <2>1 DEF FileInv, Shape, Dev
  <2> QED
    BY <1>1, <1>2, <2>1, <2>2
<1>3. CASE ~ dev.on
  <2> DEFINE c == deltas[Top]
             f == Truncated([c EXCEPT !.blk[c.ext].l1 = << >>])
  <2>1. Loadable(c) /\ deltas' = [deltas EXCEPT ![Top] = f] /\ dev' = dev
    BY <1>3 DEF DropCbt, Put
  <2>2. Top \in DOMAIN deltas /\ c \in Delta /\ disk[Top] \in Delta /\ FileOK(c, disk[Top])
    BY TopFile DEF Top
  <2>3. f \in Delta /\ FileOK(f, disk[Top]) /\ ~ HasExt(f)
    <3>1. c.use = "v21" /\ HasExt(c)
      BY <2>1 DEF Loadable
    <3> QED
      BY <2>2, <3>1, FileDropped
  <2>4. c = deltas[Top]
    OBVIOUS
  <2> HIDE DEF f, c
  <2>5. f.since = c.since /\ ~ Loadable(f)
    BY <2>2, <2>3 DEF FileOK, Loadable
  <2>6. /\ Len(deltas') = Len(deltas) /\ DOMAIN deltas' = DOMAIN deltas /\ deltas'[Top] = f
        /\ Top' = Top /\ \A j \in DOMAIN deltas : j # Top => deltas'[j] = deltas[j]
    BY <2>1, <2>3, TopReplaced
  <2> QED
    BY <1>1, <1>3, <2>1, <2>2, <2>4, <2>5, <2>6
<1> QED
  BY <1>2, <1>3

\* Tracking is dropped: the bitmaps stay complete.
LEMMA DropCbtTrack == ASSUME FileInv, Tracks, DropCbt PROVE Tracks'
<1>1. op' = NoOp /\ UNCHANGED since
  BY DropCbtEffect
<1>2. \A k \in DOMAIN deltas : DOMAIN deltas[k].since \subseteq DOMAIN since
  BY DEF Tracks, Sets
<1>3. CASE dev.on
  <2>1. dev'.on /\ dev'.id = None /\ dev'.top = dev.top /\ deltas' = deltas
    BY <1>3, DropCbtEffect
  <2>2. Loads' /\ Dumped'
    BY <1>1, <1>3, <2>1, LoadsSame DEF Tracks, Dumped, Top
  <2> QED
    BY <1>1, <1>2, <2>1, <2>2, IdleTracks
<1>4. CASE ~ dev.on
  <2>1. /\ dev' = dev /\ Len(deltas') = Len(deltas) /\ DOMAIN deltas' = DOMAIN deltas
        /\ \A k \in DOMAIN deltas : deltas'[k] = deltas[k] \/ ~ Loadable(deltas'[k])
        /\ \A k \in DOMAIN deltas : deltas'[k].since = deltas[k].since
    BY <1>4, DropCbtEffect
  <2>2. Loads' /\ Dumped'
    BY <1>1, <1>4, <2>1, LoadsLess DEF Tracks, Dumped
  <2>3. dev'.id # None => dev'.id \in DOMAIN since'
    BY <1>1, <2>1 DEF Tracks, Sets
  <2>4. \A k \in DOMAIN deltas' : DOMAIN deltas'[k].since \subseteq DOMAIN since'
    BY <1>1, <1>2, <2>1
  <2> QED
    BY <1>1, <1>4, <2>1, <2>2, <2>3, <2>4, IdleTracks
<1> QED
  BY <1>3, <1>4

\* A write of the guest: what it changes.
LEMMA GuestWriteEffect ==
  ASSUME NEW b \in Bits, FileInv, GuestWrite(b)
  PROVE  /\ dev.on /\ op.pc # "send" /\ UNCHANGED <<op, kept, faults, torn>>
         /\ dev'.on /\ dev'.top = dev.top /\ dev'.id = dev.id
         /\ dev.id # None => dev'.bits = dev.bits \cup {b}
         /\ since' = [u \in DOMAIN since |-> since[u] \cup {b}]
         /\ dev.top \in DOMAIN deltas
         /\ Len(deltas') = Len(deltas) /\ DOMAIN deltas' = DOMAIN deltas /\ Top' = Top
         /\ \A j \in DOMAIN deltas : j # dev.top => deltas'[j] = deltas[j]
         /\ deltas'[dev.top].use = "yes" /\ deltas'[dev.top].since = deltas[dev.top].since
<1> DEFINE t == dev.top
           c == deltas[t]
           f == Written(c, b)
<1>1. /\ dev.on /\ op.pc # "send" /\ deltas' = [deltas EXCEPT ![t] = f]
      /\ UNCHANGED <<op, kept, faults, torn>>
      /\ dev' = IF dev.id = None THEN dev ELSE [dev EXCEPT !.bits = @ \cup {b}]
      /\ since' = [u \in DOMAIN since |-> since[u] \cup {b}]
  BY DEF GuestWrite, PutSync
<1>2. t \in DOMAIN deltas /\ c.use = "yes" /\ dev \in Dev /\ deltas \in Seq(Delta)
  BY <1>1 DEF FileInv, Control, Shape
<1> HIDE DEF t
<1>3. c \in Delta /\ disk[t] \in Delta /\ FileOK(c, disk[t])
  BY <1>2, TopFile
<1>4. f \in Delta /\ f.use = "yes" /\ f.since = deltas[t].since
  BY <1>2, <1>3, WrittenFile
<1> HIDE DEF c, f
<1>5. /\ Len(deltas') = Len(deltas) /\ DOMAIN deltas' = DOMAIN deltas
      /\ deltas'[t] = f /\ (\A j \in DOMAIN deltas : j # t => deltas'[j] = deltas[j])
  BY <1>1, <1>2, <1>4, Replaced
<1>6. dev'.on = dev.on /\ dev'.top = dev.top /\ dev'.id = dev.id
      /\ (dev.id # None => dev'.bits = dev.bits \cup {b})
  BY <1>1, <1>2 DEF Dev
<1>7. Top' = Top
  BY <1>5 DEF Top
<1> QED
  BY <1>1, <1>2, <1>4, <1>5, <1>6, <1>7 DEF t

\* A write of the guest: the bitmaps stay complete.
LEMMA GuestWriteTrack ==
  ASSUME NEW b \in Bits, FileInv, Tracks, GuestWrite(b) PROVE Tracks'
<1>1. /\ dev.on /\ op.pc # "send" /\ UNCHANGED op
      /\ dev'.on /\ dev'.top = dev.top /\ dev'.id = dev.id
      /\ dev.id # None => dev'.bits = dev.bits \cup {b}
      /\ since' = [u \in DOMAIN since |-> since[u] \cup {b}]
      /\ dev.top \in DOMAIN deltas
      /\ Len(deltas') = Len(deltas) /\ DOMAIN deltas' = DOMAIN deltas /\ Top' = Top
      /\ \A j \in DOMAIN deltas : j # dev.top => deltas'[j] = deltas[j]
      /\ deltas'[dev.top].use = "yes" /\ deltas'[dev.top].since = deltas[dev.top].since
  BY GuestWriteEffect
<1>2. /\ DOMAIN since' = DOMAIN since /\ \A u \in DOMAIN since : since'[u] = since[u] \cup {b}
      /\ \A k \in DOMAIN deltas : deltas'[k].since = deltas[k].since
  BY <1>1
<1>3. Saving' = Saving /\ \A pc : Towards(pc)' = Towards(pc)
  BY <1>1 DEF Saving, Towards
<1>4. Sets'
  BY <1>1, <1>2, <1>3 DEF Tracks, Sets
<1>5. dev.top # Top => dev.id = None /\ deltas[Top].use = "v20"
  BY <1>1 DEF Tracks, Dumped
<1>6. Loads'
  <2> SUFFICES ASSUME NEW k \in DOMAIN deltas, Loadable(deltas'[k])
               PROVE  Offers(Raw(deltas'[k]), SinceOf(k)')
    BY <1>1 DEF Loads
  <2>1. deltas'[k].use = "v21"
    BY DEF Loadable
  <2>2. k # dev.top /\ deltas'[k] = deltas[k] /\ k # Top
    BY <1>1, <1>5, <2>1
  <2>3. Offers(Raw(deltas[k]), deltas[k].since)
    BY <2>2 DEF Tracks, Loads, SinceOf
  <2> QED
    BY <1>1, <2>2, <2>3 DEF SinceOf
<1>7. Kernel'
  <2> SUFFICES ASSUME dev.id # None PROVE since'[dev.id] \subseteq dev'.bits \cup op.or
    BY <1>1 DEF Kernel
  <2>1. dev.id \in DOMAIN since /\ since[dev.id] \subseteq dev.bits \cup op.or
    BY <1>1 DEF Tracks, Sets, Kernel
  <2> QED
    BY <1>1, <1>2, <2>1
<1>8. Dumped'
  <2>1. dev.top # Top => deltas'[Top] = deltas[Top]
    BY <1>1, TopFile DEF Top
  <2> QED
    BY <1>1, <1>5, <2>1 DEF Dumped
<1>9. Switching'
  <2> SUFFICES ASSUME op.pc = "cbt" \/ Towards("uuid") PROVE since'[op.id] \subseteq dev'.bits
    BY <1>1, <1>3 DEF Switching
  <2>1. op.id \in DOMAIN since /\ since[op.id] \subseteq dev.bits
    BY DEF Tracks, Sets, Switching
  <2>2. op.id # None
    BY <2>1, SinceDomain, CbtAssumption DEF FileInv, Shape
  <2>3. dev.id # None
    BY <2>2 DEF Tracks, Sets
  <2> QED
    BY <1>1, <1>2, <2>1, <2>3
<1>10. Taken'
  <2> SUFFICES ASSUME op.pc = "cbt", dev.id # op.id
               PROVE  /\ dev.id \in DOMAIN deltas'[Top - 1].since
                      /\ deltas'[Top - 1].since[dev.id] \subseteq dev'.bits \cup op.or
    BY <1>1 DEF Taken
  <2>1. Top > 1
    BY DEF FileInv, Control
  <2>2. Top - 1 \in DOMAIN deltas
    BY <2>1, TopFile DEF Top
  <2>3. /\ dev.id \in DOMAIN deltas[Top - 1].since
        /\ deltas[Top - 1].since[dev.id] \subseteq dev.bits \cup op.or
    BY DEF Tracks, Taken
  <2>4. dev.id # None
    <3>1. deltas[Top - 1].since \in Sinces
      BY <2>2, TopFile DEF Delta
    <3> QED
      BY <2>3, <3>1, SinceDomain, CbtAssumption
  <2> QED
    BY <1>1, <1>2, <2>2, <2>3, <2>4
<1>11. op.pc # "start" /\ ~ Towards("unlink") /\ ~ Towards("stop")
       /\ (Saving => op.raw = NoCbt /\ op.next # "stop" /\ op.next # "unlink")
  BY <1>1 DEF FileInv, Control, Towards
<1>12. Starting' /\ Unlinking' /\ SavingRaw' /\ Stopping'
  BY <1>1, <1>3, <1>11 DEF Starting, Unlinking, SavingRaw, Stopping
<1>13. SavingDevice'
  <2> SUFFICES ASSUME Saving, dev.id # None PROVE SavingDevice'
    BY <1>1, <1>3 DEF SavingDevice
  <2>1. op.raw = NoCbt /\ op.next # "stop"
    BY <1>11
  <2>2. /\ op.next \in {"uuid", "stop"}
        /\ dev.id \in DOMAIN SinceOf(op.img) /\ Goal \subseteq dev.bits \cup op.or
        /\ Len(op.l1) = op.i - 1
        /\ \A j \in DOMAIN op.l1 : Goal \cap Chunk(j) \subseteq Stored(j)
        /\ op.pc = "save" => \A a \in Goal \cap Chunk(op.i) : a < op.pos => a \in op.got \cup op.or
        /\ op.pc = "save_chunk" => Goal \cap Chunk(op.i) \subseteq op.got \cup op.or
        /\ op.pc = "save_ext" => op.i > NChunks
    BY <2>1 DEF Tracks, SavingDevice
  <2>3. op.img = Top - 1 /\ op.img # dev.top /\ op.img \in DOMAIN deltas
    BY <1>1, <2>1, <2>2 DEF FileInv, Control
  <2>4. op.img # Top
    <3>1. Top \in Nat
      BY TopFile DEF Top
    <3> QED
      BY <2>3, <3>1
  <2>5. deltas'[op.img] = deltas[op.img]
    BY <1>1, <2>3
  <2>6. SinceOf(op.img)' = SinceOf(op.img) /\ Goal' = Goal /\ \A j : Stored(j)' = Stored(j)
    BY <1>1, <2>4, <2>5 DEF SinceOf, Goal, Stored
  <2> QED
    BY <1>1, <2>1, <2>2, <2>6 DEF SavingDevice
<1> QED
  BY <1>4, <1>6, <1>7, <1>8, <1>9, <1>10, <1>12, <1>13 DEF Tracks

\* The process dies or a call of it fails: the bitmaps stay complete.
LEMMA FailTrack == ASSUME FileInv, Tracks, Fail, torn' = {} PROVE Tracks'
<1>1. /\ op' = NoOp /\ UNCHANGED <<deltas, since>>
      /\ dev' = IF dev.on THEN dev ELSE [dev EXCEPT !.id = None, !.bits = {}]
      /\ torn' = torn \cup (Windows \ {"unsynced"})
  BY DEF Fail
<1>2. op.or = {} /\ op.pc # "send"
  <2>1. "taken" # "unsynced" /\ "sent" # "unsynced"
    OBVIOUS
  <2> QED
    BY <1>1, <2>1 DEF Windows
<1>3. /\ dev'.on = dev.on /\ dev'.top = dev.top
      /\ dev'.on => dev' = dev
      /\ dev'.id # None => dev' = dev
  BY <1>1 DEF FileInv, Shape, Dev
<1>4. Loads' /\ Dumped'
  BY <1>1, <1>3, LoadsSame DEF Tracks, Dumped, Top
<1>5. /\ \A k \in DOMAIN deltas' : DOMAIN deltas'[k].since \subseteq DOMAIN since'
      /\ dev'.id # None => dev'.id \in DOMAIN since'
  BY <1>1, <1>3 DEF Tracks, Sets
<1>6. dev'.on /\ dev'.id # None => since'[dev'.id] \subseteq dev'.bits
  BY <1>1, <1>2, <1>3 DEF Tracks, Kernel
<1> QED
  BY <1>1, <1>4, <1>5, <1>6, IdleTracks

\* The host loses power: the bitmaps stay complete.
LEMMA PowerLossTrack == ASSUME FileInv, Tracks, PowerLoss, torn' = {} PROVE Tracks'
<1>1. /\ op' = NoOp /\ UNCHANGED since /\ torn' = torn \cup Windows
      /\ dev' = [on |-> FALSE, top |-> 0, id |-> None, bits |-> {}]
  BY DEF PowerLoss
<1>2. \A k \in DOMAIN deltas : deltas[k].blk = disk[k].blk
  BY <1>1 DEF Windows
<1>3. ~ dev'.on /\ dev'.id = None
  BY <1>1
<1>4. PICK k \in DOMAIN deltas : \E f \in Leftover(disk[k], deltas[k]) :
                       /\ f \in Delta /\ f.since = deltas[k].since
                       /\ Len(deltas') = Len(deltas)
                       /\ DOMAIN deltas' = DOMAIN deltas /\ deltas'[k] = f
                       /\ (\A j \in DOMAIN deltas : j # k => deltas'[j] = deltas[j])
                       /\ deltas[k].blk = disk[k].blk => f \in {deltas[k], disk[k]}
  BY Lost
<1>5. PICK f : /\ f.since = deltas[k].since /\ deltas'[k] = f
               /\ f \in {deltas[k], disk[k]}
  BY <1>2, <1>4
<1>6. Loadable(f) => Loadable(deltas[k]) /\ Raw(f) = Raw(deltas[k])
  <2>1. CASE f = disk[k]
    <3> SUFFICES ASSUME Loadable(f) PROVE Loadable(deltas[k]) /\ Raw(f) = Raw(deltas[k])
      OBVIOUS
    <3>1. f.use = "v21" /\ f.ext \in DOMAIN f.blk /\ f.blk[f.ext].t = "ext"
      BY DEF Loadable, HasExt
    <3>2. HeaderKept(deltas[k], f)
      BY <2>1, TopFile DEF FileOK
    <3>3. deltas[k].use = f.use /\ deltas[k].ext = f.ext /\ deltas[k].blk = f.blk
      BY <1>2, <2>1, <3>1, <3>2 DEF HeaderKept
    <3> QED
      BY <3>3, SameOffer
  <2> QED
    BY <1>5, <2>1
<1>7. Loads'
  <2> SUFFICES ASSUME NEW j \in DOMAIN deltas, Loadable(deltas'[j])
               PROVE  Offers(Raw(deltas'[j]), SinceOf(j)')
    BY <1>4 DEF Loads
  <2>1. Loadable(deltas[j]) /\ Raw(deltas'[j]) = Raw(deltas[j]) /\ deltas'[j].since = deltas[j].since
    BY <1>4, <1>5, <1>6
  <2>2. Offers(Raw(deltas[j]), SinceOf(j))
    BY <2>1 DEF Tracks, Loads
  <2> QED
    BY <1>1, <1>4, <2>1, <2>2 DEF SinceOf, Top
<1>8. \A j \in DOMAIN deltas' : DOMAIN deltas'[j].since \subseteq DOMAIN since'
  BY <1>1, <1>4, <1>5 DEF Tracks, Sets
<1>9. Dumped'
  BY <1>3 DEF Dumped
<1> QED
  BY <1>1, <1>3, <1>7, <1>8, <1>9, IdleTracks

\* A device that was just mounted has no tracker and no snapshot.
LEMMA InitTracks == Init => Tracks
<1> SUFFICES ASSUME Init PROVE Tracks
  OBVIOUS
<1> DEFINE g == [NewDelta EXCEPT !.use = "yes"]
<1>1. /\ deltas = <<g>> /\ op = NoOp /\ since = << >>
      /\ dev = [on |-> TRUE, top |-> 1, id |-> None, bits |-> {}]
  BY DEF Init
<1>2. g \in Delta /\ g.use = "yes" /\ g.since = << >>
  BY NewTypes DEF NewDelta
<1> HIDE DEF g
<1>3. DOMAIN deltas = {1} /\ deltas[1] = g /\ Top = 1
  BY <1>1, <1>2 DEF Top
<1>4. op.pc = "idle" /\ op.raw = NoCbt /\ op.id = None /\ op.or = {}
  BY <1>1 DEF NoOp
<1>5. dev.on /\ dev.top = 1 /\ dev.id = None
  BY <1>1
<1>6. ~ Saving /\ ~ Towards("uuid") /\ ~ Towards("unlink")
  BY <1>4 DEF Saving, Towards
<1>7. Sets
  BY <1>1, <1>2, <1>3, <1>4, <1>5, <1>6 DEF Sets
<1>8. Loads
  BY <1>2, <1>3 DEF Loads, Loadable
<1> QED
  BY <1>3, <1>4, <1>5, <1>6, <1>7, <1>8
     DEF Tracks, Kernel, Dumped, Switching, Taken, Starting, Unlinking, SavingDevice, SavingRaw,
         Stopping

\* Stuttering.
LEMMA StutterTrack == ASSUME Tracks, UNCHANGED vars PROVE Tracks'
<1>1. UNCHANGED <<deltas, dev, op, since>>
  BY DEF vars
<1>2. (Saving' <=> Saving) /\ (\A pc : Towards(pc)' <=> Towards(pc)) /\ Top' = Top
  BY <1>1 DEF Saving, Towards, Top
<1>3. \A k : SinceOf(k)' = SinceOf(k)
  BY <1>1, <1>2 DEF SinceOf
<1>4. Goal' = Goal /\ \A j : Stored(j)' = Stored(j)
  BY <1>1, <1>3 DEF Goal, Stored, SinceOf, Top
<1>5. Sets' /\ Loads' /\ Kernel' /\ Dumped'
  BY <1>1, <1>2, <1>3, LoadsSame DEF Tracks, Sets, Kernel, Dumped
<1>6. Switching' /\ Taken' /\ Starting' /\ Unlinking' /\ Stopping'
  BY <1>1, <1>2, <1>3 DEF Tracks, Switching, Taken, Starting, Unlinking, Stopping
<1>7. SavingDevice'
  BY <1>1, <1>2, <1>4 DEF Tracks, SavingDevice, SinceOf, Top
<1>8. SavingRaw'
  BY <1>1, <1>2, <1>4 DEF Tracks, SavingRaw, SinceOf, Top
<1> QED
  BY <1>5, <1>6, <1>7, <1>8 DEF Tracks

\* Every step keeps the bitmaps complete, unless it is a fault in a window.
LEMMA TrackStep == FileInv /\ FileInv' /\ TrackInv /\ [Next]_vars => TrackInv'
<1> SUFFICES ASSUME FileInv, FileInv', TrackInv, [Next]_vars, torn' = {} PROVE Tracks'
  BY DEF TrackInv
<1>0. CASE UNCHANGED vars
  <2>1. torn = {}
    BY <1>0 DEF vars
  <2> QED
    BY <1>0, <2>1, StutterTrack DEF TrackInv
<1>1. CASE Save
  <2>1. torn = {}
    BY <1>1 DEF Save, SaveNothing, SaveGet, SaveRaw, SaveChunk, SaveHeader, SaveExt
  <2> QED
    BY <1>1, <2>1, SaveNothingTrack, SaveGetTrack, SaveRawTrack, SaveChunkTrack, SaveHeaderTrack,
       SaveExtTrack DEF Save, TrackInv
<1>2. ASSUME NEW u \in Uuid, Fresh(u), CreateSnapshot(u) \/ OfflineSnapshot(u) PROVE Tracks'
  <2>1. torn = {}
    BY <1>2 DEF CreateSnapshot, OfflineSnapshot
  <2>2. u \notin DOMAIN since
    BY <1>2 DEF Fresh
  <2> QED
    BY <1>2, <2>1, <2>2, CreateSnapshotTrack, OfflineSnapshotTrack DEF TrackInv
<1>3. CASE CreateSnapshot(None)
  <2>1. torn = {}
    BY <1>3 DEF CreateSnapshot
  <2>2. None \notin DOMAIN since
    BY SinceDomain, CbtAssumption DEF FileInv, Shape
  <2> QED
    BY <1>3, <2>1, <2>2, CreateSnapshotTrack DEF TrackInv
<1>4. CASE SnapshotPrepare \/ SnapshotIoctl \/ CbtSnapshot \/ SetUuid
  <2>1. torn = {}
    BY <1>4 DEF SnapshotPrepare, SnapshotIoctl, CbtSnapshot, SetUuid
  <2> QED
    BY <1>4, <2>1, SnapshotPrepareTrack, SnapshotIoctlTrack, CbtSnapshotTrack, SetUuidTrack
       DEF TrackInv
<1>5. CASE OfflineSnapshotMove
  <2>1. torn = {}
    BY <1>5 DEF OfflineSnapshotMove
  <2> QED
    BY <1>5, <2>1, OfflineSnapshotMoveTrack DEF TrackInv
<1>6. CASE OfflineSnapshotDump
  <2>1. torn = {} /\ dev.id = None
    BY <1>6 DEF OfflineSnapshotDump
  <2> QED
    BY <1>6, <2>1, OfflineSnapshotDumpTrack DEF TrackInv
<1>7. CASE MergeOffline \/ MergeUnlink \/ MergeOnline \/ DeleteTop
  <2>1. torn = {}
    BY <1>7 DEF MergeOffline, MergeUnlink, MergeOnline, DeleteTop
  <2> QED
    BY <1>7, <2>1, MergeOfflineTrack, MergeUnlinkTrack, MergeOnlineTrack, DeleteTopTrack
       DEF TrackInv
<1>8. CASE Mounts
  <2>1. torn = {}
    BY <1>8 DEF Mounts, MountCheck, LoadExt, Start, SendBitmap, Umount, CbtStop, DropCbt
  <2> QED
    BY <1>8, <2>1, MountCheckTrack, LoadExtTrack, StartTrack, SendBitmapTrack, UmountTrack,
       CbtStopTrack, DropCbtTrack DEF Mounts, TrackInv
<1>9. ASSUME NEW b \in Bits, GuestWrite(b) PROVE Tracks'
  <2>1. torn = {}
    BY <1>9 DEF GuestWrite
  <2> QED
    BY <1>9, <2>1, GuestWriteTrack DEF TrackInv
<1>10. CASE Fail
  <2>1. torn = {}
    BY <1>10 DEF Fail
  <2> QED
    BY <1>10, <2>1, FailTrack DEF TrackInv
<1>11. CASE PowerLoss
  <2>1. torn = {}
    BY <1>11 DEF PowerLoss
  <2> QED
    BY <1>11, <2>1, PowerLossTrack DEF TrackInv
<1>12. CASE Snapshots
  BY <1>2, <1>3, <1>4, <1>5, <1>6, <1>7, <1>12 DEF Snapshots
<1> QED
  BY <1>0, <1>1, <1>8, <1>9, <1>10, <1>11, <1>12 DEF Next

\* What is tracked follows from the invariant.
LEMMA TracksComplete == FileInv /\ TrackInv => ChangesTracked
<1> SUFFICES ASSUME FileInv, Tracks PROVE Complete
  BY DEF TrackInv, ChangesTracked
<1>1. None \notin DOMAIN since
  BY SinceDomain, CbtAssumption DEF FileInv, Shape
<1>2. dev.on /\ dev.id \in DOMAIN since => since[dev.id] \subseteq InKernel
  BY <1>1 DEF Tracks, Kernel, InKernel
<1>3. ASSUME NEW k \in DOMAIN deltas, Loadable(deltas[k])
      PROVE  SinceOf(k)[Raw(deltas[k]).id] \subseteq RawBits(Raw(deltas[k]))
  BY <1>3 DEF Tracks, Loads, Offers
<1> QED
  BY <1>2, <1>3 DEF Complete

\* Every block that was written since a uuid was set is in the bitmap that
\* the kernel or a delta offers under this uuid, unless a fault hit one of
\* the windows named in Cbt (cbt_snapshot_prepare, send_dirty_bitmap_to_kernel,
\* write_optional_header_to_image).
THEOREM AllChangesTracked == Spec => []ChangesTracked
<1>1. Init => TrackInv
  BY InitTracks DEF TrackInv
<1>2. FileInv /\ FileInv' /\ TrackInv /\ [Next]_vars => TrackInv'
  BY TrackStep
<1>3. FileInv /\ TrackInv => ChangesTracked
  BY TracksComplete
<1> QED
  BY <1>1, <1>2, <1>3, FilesInOrder, PTL DEF Spec

\* Nothing runs.
LEMMA IdleFollows ==
  ASSUME op' = NoOp, kept' = IF dev'.on THEN dev'.id ELSE LoadedId(deltas[Top])'
  PROVE  Follows'
<1>1. op'.pc = "idle"
  BY DEF NoOp
<1>2. ~ Saving' /\ ~ Towards("uuid")'
  BY <1>1 DEF Saving, Towards
<1> QED
  BY <1>1, <1>2 DEF Follows

\* An operation at pc that saves nothing now.
LEMMA StepFollows ==
  ASSUME op'.pc \in {"prepare", "ioctl", "cbt", "uuid", "unlink", "load", "start", "send", "stop"},
         op'.pc = "ioctl" /\ op'.id = None => kept' = dev'.id,
         op'.pc \in {"cbt", "uuid"} => kept' = op'.id,
         op'.pc \in {"load", "stop"} => kept' = LoadedId(deltas[Top])',
         op'.pc = "unlink" => kept' = LoadedId(deltas[Top - 1])',
         op'.pc \in {"start", "send"} => kept' = op'.raw.id,
         op'.pc = "send" => dev'.id = op'.raw.id
  PROVE  Follows'
<1>1. op' # NoOp
  <2>1. NoOp.pc = "idle"
    BY DEF NoOp
  <2> QED
    BY <2>1
<1>2. ~ Saving' /\ (Towards("uuid")' => op'.pc = "uuid")
  BY DEF Saving, Towards
<1> QED
  BY <1>1, <1>2 DEF Follows

\* An operation that saves.
LEMMA SaveFollows ==
  ASSUME op'.pc \in {"save", "save_chunk", "save_ext"},
         op'.next = "uuid" => kept' = op'.id,
         op'.raw # NoCbt => kept' = op'.raw.id,
         op'.next \in {"stop", "end"} /\ op'.raw = NoCbt => kept' = dev'.id,
         op'.next = "end" /\ op'.raw = NoCbt => dev'.on,
         op'.next = "unlink" => op'.raw # NoCbt
  PROVE  Follows'
<1>1. op' # NoOp
  <2>1. NoOp.pc = "idle"
    BY DEF NoOp
  <2> QED
    BY <2>1
<1>2. Towards("uuid")' => op'.next = "uuid"
  BY DEF Saving, Towards
<1> QED
  BY <1>1, <1>2 DEF Follows

\* What a save knows of the uuid.
LEMMA SavingKept ==
  ASSUME Follows, Saving
  PROVE  /\ op.next = "uuid" => kept = op.id
         /\ op.raw # NoCbt => kept = op.raw.id
         /\ op.next \in {"stop", "end"} /\ op.raw = NoCbt => kept = dev.id
         /\ op.next = "end" /\ op.raw = NoCbt => dev.on
         /\ op.next = "unlink" => op.raw # NoCbt
<1>1. op.next = "uuid" => Towards("uuid")
  BY DEF Towards
<1> QED
  BY <1>1 DEF Follows

\* A step inside of a save.
LEMMA InsideFollows ==
  ASSUME Follows, Saving, op'.pc \in {"save", "save_chunk", "save_ext"}, UNCHANGED <<dev, kept>>,
         op'.id = op.id, op'.next = op.next, op'.raw = op.raw
  PROVE  Follows'
  BY SavingKept, SaveFollows

\* One chunk of the bitmap of the device: the expected uuid is followed.
LEMMA SaveChunkFollows == ASSUME FileInv, Follows, SaveChunk PROVE Follows'
<1>1. Saving /\ UNCHANGED <<dev, kept>> /\ \E e \in Nat : Entry(e)
  BY SaveChunkEffect
<1>2. op'.pc = "save" /\ op'.id = op.id /\ op'.next = op.next /\ op'.raw = op.raw
  BY <1>1 DEF Entry
<1> QED
  BY <1>1, <1>2, InsideFollows

\* One entry of a bitmap that was read from another delta: the expected uuid is followed.
LEMMA SaveRawFollows == ASSUME FileInv, Follows, SaveRaw PROVE Follows'
<1>1. Saving /\ UNCHANGED <<dev, kept>> /\ \E e \in Nat : Entry(e)
  BY SaveRawEffect
<1>2. op'.pc = "save" /\ op'.id = op.id /\ op'.next = op.next /\ op'.raw = op.raw
  BY <1>1 DEF Entry
<1> QED
  BY <1>1, <1>2, InsideFollows

\* The header that announces the extension: the expected uuid is followed.
LEMMA SaveHeaderFollows == ASSUME FileInv, Follows, SaveHeader PROVE Follows'
  BY SaveHeaderEffect, InsideFollows

\* One BLKCBTGET while a bitmap is saved: the expected uuid is followed.
LEMMA SaveGetFollows == ASSUME FileInv, Follows, SaveGet PROVE Follows'
<1>1. op.pc = "save" /\ Saving /\ UNCHANGED <<dev, kept>> /\ op \in Op
  BY DEF SaveGet, Saving, FileInv, Shape
<1> DEFINE last == IF op.i * ChunkBits <= NBits THEN op.i * ChunkBits - 1 ELSE NBits - 1
           from == IF op.pos > (op.i - 1) * ChunkBits THEN op.pos ELSE (op.i - 1) * ChunkBits
           runs == Page(dev.bits, from, last)
           g == op.got \cup Covered(runs)
           p == IF Full(runs) THEN PageEnd(runs) ELSE op.pos
           c == IF Full(runs) THEN "save" ELSE "save_chunk"
<1>2. op' = [op EXCEPT !.got = g, !.pos = p, !.pc = c] /\ c \in {"save", "save_chunk"}
  BY DEF SaveGet
<1> HIDE DEF g, p, c
<1>3. /\ op'.pc \in {"save", "save_chunk"} /\ op'.id = op.id /\ op'.next = op.next
      /\ op'.raw = op.raw
  BY <1>1, <1>2 DEF Op
<1> QED
  BY <1>1, <1>3, InsideFollows

\* The caller goes on.
LEMMA EndFollows ==
  ASSUME FileInv, Tracks, Follows, Saving, EndSave, UNCHANGED <<dev, kept>>,
         op.raw # NoCbt => LoadedId(deltas'[op.img]) = op.raw.id,
         op.next = "stop" => LoadedId(deltas'[Top]) = dev.id,
         Len(deltas') = Len(deltas)
  PROVE  Follows'
<1>1. /\ op.next = "uuid" => kept = op.id
      /\ op.raw # NoCbt => kept = op.raw.id
      /\ op.next \in {"stop", "end"} /\ op.raw = NoCbt => kept = dev.id
      /\ op.next = "end" /\ op.raw = NoCbt => dev.on
      /\ op.next = "unlink" => op.raw # NoCbt
  BY SavingKept
<1>2. /\ op.next = "end" => op' = NoOp
      /\ op.next # "end" => /\ op'.pc \in {"uuid", "unlink", "stop"} /\ op'.pc = op.next
                            /\ op'.id = op.id
  BY EndSaveEffect DEF FileInv
<1>3. /\ op.raw # NoCbt => ~ dev.on /\ op.next \in {"end", "unlink"}
      /\ op.next = "end" /\ op.raw # NoCbt => op.img = Top
      /\ op.next = "unlink" => op.img = Top - 1
  BY DEF FileInv, Control
<1>4. Top' = Top
  BY DEF Top
<1>5. CASE op.next = "end"
  <2>1. op' = NoOp
    BY <1>2, <1>5
  <2>2. kept' = IF dev'.on THEN dev'.id ELSE LoadedId(deltas[Top])'
    BY <1>1, <1>3, <1>4, <1>5
  <2> QED
    BY <2>1, <2>2, IdleFollows
<1>6. CASE op.next # "end"
  <2>1. op'.pc \in {"uuid", "unlink", "stop"} /\ op'.pc = op.next /\ op'.id = op.id
    BY <1>2, <1>6
  <2>2. op'.pc = "uuid" => kept' = op'.id
    BY <1>1, <2>1
  <2>3. op'.pc = "stop" => kept' = LoadedId(deltas[Top])'
    BY <1>1, <1>3, <1>4, <2>1
  <2>4. op'.pc = "unlink" => kept' = LoadedId(deltas[Top - 1])'
    BY <1>1, <1>3, <1>4, <2>1
  <2> QED
    BY <2>1, <2>2, <2>3, <2>4, StepFollows
<1> QED
  BY <1>5, <1>6

\* A save of a device without a tracker writes nothing: the expected uuid is followed.
LEMMA SaveNothingFollows == ASSUME FileInv, Tracks, Follows, SaveNothing PROVE Follows'
<1>1. /\ op.pc = "save" /\ Saving /\ op.raw = NoCbt /\ EndSave /\ UNCHANGED <<deltas, dev, kept>>
      /\ dev.id = None \/ deltas[op.img].use = "yes"
  BY DEF SaveNothing, Saving
<1>2. dev.id = None
  BY <1>1, Target
<1>3. op.next = "stop" => deltas[Top].use = "v20"
  BY <1>1, <1>2 DEF Tracks, Stopping
<1>4. op.next = "stop" => LoadedId(deltas'[Top]) = dev.id
  BY <1>1, <1>2, <1>3 DEF LoadedId, Loadable
<1> QED
  BY <1>1, <1>4, EndFollows

\* What is saved can be loaded.
LEMMA SavedLoadable ==
  ASSUME FileInv, NEW f \in Delta, op.pc = "save_ext", f.use = "v21",
         f.ext = Len(deltas[op.img].blk) + 1, NEW id \in Uuid,
         f.blk = Append(deltas[op.img].blk, ExtBlock(id, op.l1))
  PROVE  Loadable(f)
<1> DEFINE c == deltas[op.img].blk
           x == ExtBlock(id, op.l1)
<1>1. Saving
  BY DEF Saving
<1>2. c \in Seq(Block) /\ op.l1 \in Seq(Nat)
  BY <1>1, Target
<1>3. \A j \in DOMAIN op.l1 : op.l1[j] > 1 => op.l1[j] - 1 \in DOMAIN c
  BY <1>1 DEF FileInv, Extending
<1>4. x.t = "ext" /\ x.l1 = op.l1
  BY DEF ExtBlock
<1>5. f.blk = Append(c, x) /\ f.ext = Len(c) + 1
  OBVIOUS
<1> HIDE DEF c, x
<1>6. DOMAIN f.blk = DOMAIN c \cup {f.ext} /\ f.blk[f.ext] = x /\ f.ext # 0
  BY <1>2, <1>5
<1>7. HasExt(f)
  BY <1>4, <1>6 DEF HasExt
<1>8. L1Readable(f)
  BY <1>3, <1>4, <1>6 DEF L1Readable
<1> QED
  BY <1>6, <1>7, <1>8 DEF Loadable

\* The extension block, the last step of a save: the expected uuid is followed.
LEMMA SaveExtFollows == ASSUME FileInv, Tracks, Follows, SaveExt PROVE Follows'
<1>1. /\ op.pc = "save_ext" /\ Saving /\ EndSave /\ UNCHANGED <<dev, kept>>
      /\ op.raw = NoCbt => dev.id # None
      /\ deltas' \in Seq(Delta) /\ Len(deltas') = Len(deltas) /\ DOMAIN deltas' = DOMAIN deltas
      /\ SavedId \in Uuid
      /\ deltas'[op.img].use = "v21" /\ deltas'[op.img].ext = Len(deltas[op.img].blk) + 1
      /\ deltas'[op.img].blk = Append(deltas[op.img].blk, ExtBlock(SavedId, op.l1))
  BY SaveExtEffect
<1>2. op.img \in DOMAIN deltas /\ deltas'[op.img] \in Delta
  BY <1>1, Target
<1>3. Loadable(deltas'[op.img])
  BY <1>1, <1>2, SavedLoadable
<1>4. HasExt(deltas'[op.img]) /\ L1Readable(deltas'[op.img])
  BY <1>3 DEF Loadable
<1>5. Raw(deltas'[op.img]).id = SavedId
  BY <1>1, <1>2, <1>4, SavedOffers
<1>6. LoadedId(deltas'[op.img]) = SavedId
  BY <1>3, <1>5 DEF LoadedId
<1>7. op.raw # NoCbt => LoadedId(deltas'[op.img]) = op.raw.id
  BY <1>6 DEF SavedId
<1>8. op.next = "stop" => LoadedId(deltas'[Top]) = dev.id
  <2>1. op.next = "stop" => op.raw = NoCbt
    BY <1>1 DEF FileInv, Control
  <2>2. op.next = "stop" /\ op.raw = NoCbt => op.img = Top
    BY <1>1 DEF Tracks, SavingDevice
  <2> QED
    BY <1>6, <2>1, <2>2 DEF SavedId
<1> QED
  BY <1>1, <1>7, <1>8, EndFollows

\* A delta that is new, dirty or of version 2.0 offers nothing.
LEMMA NothingLoaded ==
  ASSUME NEW f, f.use # "v21" \/ NothingToLoad(f)
  PROVE  ~ Loadable(f) /\ LoadedId(f) = None
<1>1. ~ Loadable(f)
  BY DEF Loadable, NothingToLoad
<1> QED
  BY <1>1 DEF LoadedId

\* Nothing ran.
LEMMA IdleKept == ASSUME Follows, op = NoOp
                  PROVE  kept = IF dev.on THEN dev.id ELSE LoadedId(deltas[Top])
  BY DEF Follows

\* The start of an online snapshot: the expected uuid is followed.
LEMMA CreateSnapshotFollows ==
  ASSUME NEW u \in Uuid \cup {None}, FileInv, Follows, CreateSnapshot(u) PROVE Follows'
<1>1. /\ op = NoOp /\ dev.on /\ kept' = kept
      /\ op' = [NoOp EXCEPT !.id = u, !.pc = IF u # None /\ dev.id # None THEN "prepare" ELSE "ioctl"]
      /\ u = None => dev' = dev
  BY DEF CreateSnapshot, CanSnapshot, Called
<1>2. op'.id = u /\ op'.pc \in {"prepare", "ioctl"}
  BY <1>1 DEF NoOp
<1>3. kept = dev.id
  BY <1>1, IdleKept
<1> QED
  BY <1>1, <1>2, <1>3, StepFollows

\* One BLKCBTGET that clears what it returns: the expected uuid is followed.
LEMMA SnapshotPrepareFollows == ASSUME FileInv, Tracks, Follows, SnapshotPrepare PROVE Follows'
<1> DEFINE runs == Page(dev.bits, op.pos, NBits - 1)
           o == op.or \cup Covered(runs)
           p == IF Full(runs) THEN PageEnd(runs) ELSE op.pos
           c == IF Full(runs) THEN "prepare" ELSE "ioctl"
<1>1. op.pc = "prepare" /\ op \in Op
  BY DEF SnapshotPrepare, FileInv, Shape
<1>2. op' = [op EXCEPT !.or = o, !.pos = p, !.pc = c] /\ c \in {"prepare", "ioctl"}
  BY <1>1 DEF SnapshotPrepare
<1> HIDE DEF o, p, c
<1>3. op'.pc \in {"prepare", "ioctl"} /\ op'.id = op.id
  BY <1>1, <1>2 DEF Op
<1>4. op.id # None
  BY <1>1 DEF Tracks, Sets
<1> QED
  BY <1>3, <1>4, StepFollows

\* PLOOP_IOC_SNAPSHOT, which freezes the top delta: the expected uuid is followed.
LEMMA SnapshotIoctlFollows == ASSUME FileInv, Follows, SnapshotIoctl PROVE Follows'
<1>1. /\ op.pc = "ioctl" /\ op.id = None => op' = NoOp /\ kept' = kept
      /\ op.id # None => op'.pc = "cbt" /\ op'.id = op.id /\ kept' = op.id
      /\ op.pc = "ioctl" /\ dev'.on /\ dev'.id = dev.id
  BY SnapshotIoctlEffect
<1>2. CASE op.id = None
  <2>1. kept = dev.id
    BY <1>1, <1>2 DEF Follows
  <2> QED
    BY <1>1, <1>2, <2>1, IdleFollows
<1>3. CASE op.id # None
  BY <1>1, <1>3, StepFollows
<1> QED
  BY <1>2, <1>3

\* cbt_snapshot, which saves into the frozen delta: the expected uuid is followed.
LEMMA CbtSnapshotFollows == ASSUME FileInv, Follows, CbtSnapshot PROVE Follows'
<1>1. /\ op.pc = "cbt" /\ op' = (IF dev.id = op.id THEN NoOp ELSE SaveTo(Top - 1, "uuid"))
      /\ UNCHANGED <<dev, kept>>
  BY DEF CbtSnapshot
<1>2. op \in Op /\ Top \in Nat /\ Top > 1 /\ op.raw = NoCbt /\ dev.on
  <2>1. Top > 1 /\ op.raw = NoCbt /\ dev.on
    BY <1>1 DEF FileInv, Control
  <2>2. op \in Op /\ Top \in Nat
    BY TopFile DEF Top, FileInv, Shape
  <2> QED
    BY <2>1, <2>2
<1>3. kept = op.id
  BY <1>1 DEF Follows
<1>4. CASE dev.id = op.id
  BY <1>1, <1>2, <1>3, <1>4, IdleFollows
<1>5. CASE dev.id # op.id
  <2>1. op' = SaveTo(Top - 1, "uuid")
    BY <1>1, <1>5
  <2>2. PICK k \in Nat : k = Top - 1
    BY <1>2
  <2>3. op'.pc = "save" /\ op'.next = "uuid" /\ op'.raw = op.raw /\ op'.id = op.id
    BY <1>2, <2>1, <2>2, SaveToOp
  <2> QED
    BY <1>1, <1>2, <1>3, <2>3, SaveFollows
<1> QED
  BY <1>4, <1>5

\* The tracker of the device gets its new uuid: the expected uuid is followed.
LEMMA SetUuidFollows == ASSUME FileInv, Follows, SetUuid PROVE Follows'
<1>1. op.pc = "uuid" /\ op' = NoOp /\ dev' = [dev EXCEPT !.id = op.id] /\ kept' = kept
  BY DEF SetUuid
<1>2. Towards("uuid")
  BY <1>1 DEF Towards
<1>3. kept = op.id
  BY <1>2 DEF Follows
<1>4. dev \in Dev /\ dev.on
  BY <1>2 DEF FileInv, Shape, Control
<1>5. dev'.on /\ dev'.id = op.id
  BY <1>1, <1>4 DEF Dev
<1> QED
  BY <1>1, <1>3, <1>5, IdleFollows

\* An offline snapshot with a uuid: the expected uuid is followed.
LEMMA OfflineSnapshotFollows ==
  ASSUME NEW u \in Uuid, FileInv, Follows, OfflineSnapshot(u) PROVE Follows'
<1>1. op'.pc = "save" /\ op'.next = "end" /\ op'.raw.id = u /\ kept' = u
  BY OfflineSnapshotEffect
<1>2. op'.raw # NoCbt
  <2>1. NoCbt.id = None
    BY DEF NoCbt
  <2> QED
    BY <1>1, <2>1, CbtAssumption
<1> QED
  BY <1>1, <1>2, SaveFollows

\* An offline snapshot that moves the bitmap to the new top: the expected uuid is followed.
LEMMA OfflineSnapshotMoveFollows == ASSUME FileInv, Follows, OfflineSnapshotMove PROVE Follows'
<1>1. op = NoOp /\ ~ dev.on /\ UNCHANGED <<dev, kept>> /\ AddDelta
  BY OfflineSnapshotMoveEffect
<1>2. kept = LoadedId(deltas[Top])
  BY <1>1, IdleKept
<1>3. CASE op' = NoOp /\ NothingToLoad(deltas[Top])
  <2>1. kept = None
    BY <1>2, <1>3, NothingLoaded
  <2>2. deltas'[Top'] = NewDelta
    <3> DEFINE s == [deltas EXCEPT ![Top] = Frozen(deltas[Top])]
    <3>1. deltas' = Append(s, NewDelta)
      BY <1>1 DEF AddDelta
    <3>2. s \in Seq(Delta) /\ NewDelta \in Delta
      <4>1. Frozen(deltas[Top]) \in Delta
        BY TopFile DEF Top, FileInv, Shape, Frozen, Delta
      <4> QED
        BY <4>1, NewTypes, TopFile DEF FileInv, Shape, Top
    <3> HIDE DEF s
    <3>3. Top' = Len(s) + 1
      BY <3>1, <3>2 DEF Top
    <3> QED
      BY <3>1, <3>2, <3>3
  <2>3. LoadedId(deltas[Top])' = None
    BY <2>2, NothingLoaded DEF NewDelta
  <2> QED
    BY <1>1, <1>3, <2>1, <2>3, IdleFollows
<1>4. CASE /\ Loadable(deltas[Top]) /\ op'.pc = "save" /\ op'.next = "end"
           /\ op'.raw = Raw(deltas[Top]) /\ op'.raw.id \in Uuid
  <2>1. kept = op'.raw.id
    BY <1>2, <1>4 DEF LoadedId
  <2>2. op'.raw # NoCbt
    <3>1. NoCbt.id = None
      BY DEF NoCbt
    <3> QED
      BY <1>4, <3>1, CbtAssumption
  <2> QED
    BY <1>1, <1>4, <2>1, <2>2, SaveFollows
<1> QED
  BY <1>3, <1>4, OfflineSnapshotMoveEffect

\* An offline snapshot of a running device: the expected uuid is followed.
LEMMA OfflineSnapshotDumpFollows ==
  ASSUME FileInv, Follows, OfflineSnapshotDump PROVE Follows'
<1>1. /\ op = NoOp /\ dev.on /\ UNCHANGED <<dev, kept>>
      /\ op'.pc = "save" /\ op'.next = "end" /\ op'.raw = NoCbt
  BY OfflineSnapshotDumpEffect
<1> QED
  BY <1>1, IdleKept, SaveFollows

\* An offline merge into the parent: the expected uuid is followed.
LEMMA MergeOfflineFollows == ASSUME FileInv, Follows, MergeOffline PROVE Follows'
<1>1. /\ op = NoOp /\ ~ dev.on /\ UNCHANGED <<dev, kept>> /\ Len(deltas') = Len(deltas)
      /\ deltas'[Top - 1].use = "v20"
  BY MergeOfflineEffect
<1>2. kept = LoadedId(deltas[Top]) /\ Top' = Top
  BY <1>1, IdleKept DEF Top
<1>3. CASE ~ Loadable(deltas[Top]) /\ op'.pc = "unlink"
  <2>1. LoadedId(deltas'[Top - 1]) = None /\ kept = None
    BY <1>1, <1>2, <1>3, NothingLoaded DEF LoadedId
  <2> QED
    BY <1>1, <1>2, <1>3, <2>1, StepFollows
<1>4. CASE /\ Loadable(deltas[Top]) /\ op'.pc = "save" /\ op'.next = "unlink"
           /\ op'.raw = Raw(deltas[Top]) /\ op'.raw.id \in Uuid
  <2>1. kept = op'.raw.id
    BY <1>2, <1>4 DEF LoadedId
  <2>2. op'.raw # NoCbt
    <3>1. NoCbt.id = None
      BY DEF NoCbt
    <3> QED
      BY <1>4, <3>1, CbtAssumption
  <2> QED
    BY <1>1, <1>4, <2>1, <2>2, SaveFollows
<1> QED
  BY <1>3, <1>4, MergeOfflineEffect

\* The file below the top becomes the top.
LEMMA FrontTop ==
  ASSUME FileInv, Top > 1, deltas' = Front(deltas)
  PROVE  deltas'[Top'] = deltas[Top - 1]
<1>1. deltas \in Seq(Delta) /\ Top \in Nat
  BY TopFile DEF FileInv, Shape, Top
<1>2. Len(deltas') = Len(deltas) - 1 /\ \A k \in 1 .. Len(deltas) - 1 : deltas'[k] = deltas[k]
  BY <1>1, FrontType DEF Top
<1>3. Top' = Top - 1 /\ Top - 1 \in 1 .. Len(deltas) - 1
  BY <1>1, <1>2 DEF Top
<1> QED
  BY <1>2, <1>3

\* The merged child is removed: the expected uuid is followed.
LEMMA MergeUnlinkFollows == ASSUME FileInv, Follows, MergeUnlink PROVE Follows'
<1>1. op.pc = "unlink" /\ op' = NoOp /\ UNCHANGED <<dev, kept>> /\ deltas' = Front(deltas)
  BY DEF MergeUnlink
<1>2. Towards("unlink")
  BY <1>1 DEF Towards
<1>3. ~ dev.on /\ Top > 1
  BY <1>2 DEF FileInv, Control
<1>4. kept = LoadedId(deltas[Top - 1])
  BY <1>1 DEF Follows
<1>5. deltas'[Top'] = deltas[Top - 1]
  BY <1>1, <1>3, FrontTop
<1> QED
  BY <1>1, <1>3, <1>4, <1>5, IdleFollows

\* A merge of the top delta by the kernel: the expected uuid is followed.
LEMMA MergeOnlineFollows == ASSUME FileInv, Follows, MergeOnline PROVE Follows'
<1>1. op = NoOp /\ op' = op /\ dev.on /\ dev'.on /\ dev'.id = dev.id /\ kept' = kept
  BY MergeOnlineEffect
<1> QED
  BY <1>1, IdleKept, IdleFollows

\* The top delta is dropped: the expected uuid is followed.
LEMMA DeleteTopFollows == ASSUME FileInv, Follows, DeleteTop PROVE Follows'
<1>1. /\ op = NoOp /\ op' = op /\ ~ dev.on /\ dev' = dev /\ Top > 1 /\ deltas' = Front(deltas)
      /\ kept' = IF Loadable(deltas[Top - 1]) THEN Raw(deltas[Top - 1]).id ELSE None
  BY DEF DeleteTop, Called
<1>2. deltas'[Top'] = deltas[Top - 1]
  BY <1>1, FrontTop
<1>3. kept' = LoadedId(deltas[Top - 1])
  BY <1>1 DEF LoadedId
<1> QED
  BY <1>1, <1>2, <1>3, IdleFollows

\* The check before a mount, which closes a dirty delta: the expected uuid is followed.
LEMMA MountCheckFollows == ASSUME FileInv, Follows, MountCheck PROVE Follows'
<1>1. /\ op = NoOp /\ ~ dev.on /\ UNCHANGED <<dev, kept>> /\ op'.pc = "load"
      /\ Len(deltas') = Len(deltas)
      /\ deltas' = deltas \/ (~ Loadable(deltas[Top]) /\ ~ Loadable(deltas'[Top]))
  BY MountCheckEffect
<1>2. Top' = Top
  BY <1>1 DEF Top
<1>3. LoadedId(deltas[Top])' = LoadedId(deltas[Top])
  BY <1>1, <1>2 DEF LoadedId
<1> QED
  BY <1>1, <1>3, IdleKept, StepFollows

\* The extension is read and cut off: the expected uuid is followed.
LEMMA LoadExtFollows == ASSUME FileInv, Follows, LoadExt PROVE Follows'
<1>1. /\ op.pc = "load" /\ kept' = kept /\ op'.pc = "start"
      /\ op'.raw = IF Loadable(deltas[Top]) THEN Raw(deltas[Top]) ELSE NoCbt
  BY LoadExtEffect
<1>2. kept = LoadedId(deltas[Top])
  BY <1>1 DEF Follows
<1>3. NoCbt.id = None
  BY DEF NoCbt
<1>4. kept' = op'.raw.id
  BY <1>1, <1>2, <1>3 DEF LoadedId
<1> QED
  BY <1>1, <1>4, StepFollows

\* The device starts on the top delta: the expected uuid is followed.
LEMMA StartFollows == ASSUME FileInv, Follows, Start PROVE Follows'
<1>1. /\ op.pc = "start" /\ kept' = kept /\ dev'.on /\ dev'.id = op.raw.id
      /\ op.raw = NoCbt => op' = NoOp
      /\ op.raw # NoCbt => op'.pc = "send" /\ op'.raw = op.raw
  BY StartEffect
<1>2. kept = op.raw.id
  BY <1>1 DEF Follows
<1> QED
  BY <1>1, <1>2, IdleFollows, StepFollows

\* One part of the bitmap is sent to the kernel: the expected uuid is followed.
LEMMA SendBitmapFollows == ASSUME FileInv, Follows, SendBitmap PROVE Follows'
<1>1. /\ op.pc = "send" /\ kept' = kept /\ dev'.on = dev.on /\ dev'.id = dev.id
      /\ op' = NoOp \/ (op'.pc = "send" /\ op'.raw = op.raw)
  BY SendBitmapEffect
<1>2. dev.on
  BY <1>1 DEF FileInv, Control
<1>3. kept = op.raw.id /\ dev.id = op.raw.id
  BY <1>1 DEF Follows
<1> QED
  BY <1>1, <1>2, <1>3, IdleFollows, StepFollows

\* The device stops and closes its top delta: the expected uuid is followed.
LEMMA UmountFollows == ASSUME FileInv, Follows, Umount PROVE Follows'
<1>1. /\ op = NoOp /\ dev.on /\ kept' = kept /\ dev'.id = dev.id
      /\ op'.pc = "save" /\ op'.next = "stop" /\ op'.raw = NoCbt
  BY UmountEffect
<1> QED
  BY <1>1, IdleKept, SaveFollows

\* The tracker of a stopped device is removed: the expected uuid is followed.
LEMMA CbtStopFollows == ASSUME FileInv, Follows, CbtStop PROVE Follows'
<1>1. /\ op.pc = "stop" /\ op' = NoOp /\ UNCHANGED <<deltas, kept>>
      /\ dev' = [dev EXCEPT !.id = None, !.bits = {}]
  BY DEF CbtStop
<1>2. Towards("stop") /\ dev \in Dev
  BY <1>1 DEF Towards, FileInv, Shape
<1>3. ~ dev.on
  BY <1>2 DEF FileInv, Control
<1>4. dev'.on = dev.on
  BY <1>1, <1>2 DEF Dev
<1>5. kept' = LoadedId(deltas[Top])'
  BY <1>1 DEF Follows, Top
<1> QED
  BY <1>1, <1>3, <1>4, <1>5, IdleFollows

\* Tracking is dropped: the expected uuid is followed.
LEMMA DropCbtFollows == ASSUME FileInv, Follows, DropCbt PROVE Follows'
<1>1. op' = NoOp /\ kept' = None
  BY DropCbtEffect
<1>2. CASE dev'.on /\ dev'.id = None
  BY <1>1, <1>2, IdleFollows
<1>3. CASE ~ dev'.on /\ Top' = Top /\ ~ Loadable(deltas'[Top])
  <2>1. kept' = LoadedId(deltas[Top])'
    BY <1>1, <1>3 DEF LoadedId
  <2> QED
    BY <1>1, <1>3, <2>1, IdleFollows
<1> QED
  BY <1>2, <1>3, DropCbtEffect

\* A write of the guest: the expected uuid is followed.
LEMMA GuestWriteFollows ==
  ASSUME NEW b \in Bits, FileInv, Follows, GuestWrite(b) PROVE Follows'
<1>1. dev.on /\ UNCHANGED <<op, kept>> /\ dev'.on /\ dev'.id = dev.id
  BY GuestWriteEffect
<1>2. (Saving' <=> Saving) /\ (\A pc : Towards(pc)' <=> Towards(pc))
  BY <1>1 DEF Saving, Towards
<1>3. op.pc \notin {"load", "stop", "unlink", "start"}
  BY <1>1 DEF FileInv, Control, Towards
<1> QED
  BY <1>1, <1>2, <1>3 DEF Follows

\* A device that was just mounted has no tracker.
LEMMA InitFollows == Init => Follows
<1> SUFFICES ASSUME Init PROVE Follows
  OBVIOUS
<1>1. op.pc = "idle" /\ op.raw = NoCbt /\ dev.on /\ dev.id = None /\ kept = None
  BY DEF Init, NoOp
<1>2. ~ Saving /\ ~ Towards("uuid")
  BY <1>1 DEF Saving, Towards
<1> QED
  BY <1>1, <1>2 DEF Follows

\* Stuttering.
LEMMA StutterFollows == ASSUME Follows, UNCHANGED vars PROVE Follows'
<1>1. UNCHANGED <<deltas, dev, op, kept>>
  BY DEF vars
<1>2. (Saving' <=> Saving) /\ (\A pc : Towards(pc)' <=> Towards(pc)) /\ Top' = Top
  BY <1>1 DEF Saving, Towards, Top
<1> QED
  BY <1>1, <1>2 DEF Follows

\* Every step but a fault keeps the uuid, or sets the one that is expected.
LEMMA KeptStep == FileInv /\ TrackInv /\ KeptInv /\ [Next]_vars => KeptInv'
<1> SUFFICES ASSUME FileInv, TrackInv, KeptInv, [Next]_vars, faults' = 0, torn' = {} PROVE Follows'
  BY DEF KeptInv
<1>a. faults = 0 /\ torn = {} => Tracks /\ Follows
  BY DEF TrackInv, KeptInv
<1>0. CASE UNCHANGED vars
  <2>1. faults = 0 /\ torn = {}
    BY <1>0 DEF vars
  <2> QED
    BY <1>a, <1>0, <2>1, StutterFollows
<1>1. CASE Save
  <2>1. faults = 0 /\ torn = {}
    BY <1>1 DEF Save, SaveNothing, SaveGet, SaveRaw, SaveChunk, SaveHeader, SaveExt
  <2> QED
    BY <1>a, <1>1, <2>1, SaveNothingFollows, SaveGetFollows, SaveRawFollows, SaveChunkFollows,
       SaveHeaderFollows, SaveExtFollows DEF Save
<1>2. ASSUME NEW u \in Uuid, Fresh(u), CreateSnapshot(u) \/ OfflineSnapshot(u) PROVE Follows'
  <2>1. faults = 0 /\ torn = {}
    BY <1>2 DEF CreateSnapshot, OfflineSnapshot
  <2> QED
    BY <1>a, <1>2, <2>1, CreateSnapshotFollows, OfflineSnapshotFollows
<1>3. CASE CreateSnapshot(None)
  <2>1. faults = 0 /\ torn = {}
    BY <1>3 DEF CreateSnapshot
  <2> QED
    BY <1>a, <1>3, <2>1, CreateSnapshotFollows
<1>4. CASE SnapshotPrepare \/ SnapshotIoctl \/ CbtSnapshot \/ SetUuid
  <2>1. faults = 0 /\ torn = {}
    BY <1>4 DEF SnapshotPrepare, SnapshotIoctl, CbtSnapshot, SetUuid
  <2> QED
    BY <1>a, <1>4, <2>1, SnapshotPrepareFollows, SnapshotIoctlFollows, CbtSnapshotFollows,
       SetUuidFollows
<1>5. CASE OfflineSnapshotMove \/ OfflineSnapshotDump
  <2>1. faults = 0 /\ torn = {}
    BY <1>5 DEF OfflineSnapshotMove, OfflineSnapshotDump
  <2> QED
    BY <1>a, <1>5, <2>1, OfflineSnapshotMoveFollows, OfflineSnapshotDumpFollows
<1>6. CASE MergeOffline \/ MergeUnlink \/ MergeOnline \/ DeleteTop
  <2>1. faults = 0 /\ torn = {}
    BY <1>6 DEF MergeOffline, MergeUnlink, MergeOnline, DeleteTop
  <2> QED
    BY <1>a, <1>6, <2>1, MergeOfflineFollows, MergeUnlinkFollows, MergeOnlineFollows,
       DeleteTopFollows
<1>7. CASE Mounts
  <2>1. faults = 0 /\ torn = {}
    BY <1>7 DEF Mounts, MountCheck, LoadExt, Start, SendBitmap, Umount, CbtStop, DropCbt
  <2> QED
    BY <1>a, <1>7, <2>1, MountCheckFollows, LoadExtFollows, StartFollows, SendBitmapFollows,
       UmountFollows, CbtStopFollows, DropCbtFollows DEF Mounts
<1>8. ASSUME NEW b \in Bits, GuestWrite(b) PROVE Follows'
  <2>1. faults = 0 /\ torn = {}
    BY <1>8 DEF GuestWrite
  <2> QED
    BY <1>a, <1>8, <2>1, GuestWriteFollows
<1>9. ~ Fail /\ ~ PowerLoss
  <2>1. faults \in Nat
    BY DEF FileInv, Shape
  <2> QED
    BY <2>1 DEF Fail, PowerLoss, Fault
<1>10. CASE Snapshots
  BY <1>2, <1>3, <1>4, <1>5, <1>6, <1>10 DEF Snapshots
<1> QED
  BY <1>0, <1>1, <1>7, <1>8, <1>9, <1>10 DEF Next

\* Without faults an idle running device is tracked under the uuid that was
\* set last, through snapshots, merges, unmounting and mounting.
THEOREM UuidKept == Spec => []TrackingKept
<1>1. Init => TrackInv /\ KeptInv
  BY InitTracks, InitFollows DEF TrackInv, KeptInv
<1>2. FileInv /\ FileInv' /\ TrackInv /\ [Next]_vars => TrackInv'
  BY TrackStep
<1>3. FileInv /\ TrackInv /\ KeptInv /\ [Next]_vars => KeptInv'
  BY KeptStep
<1>4. KeptInv => TrackingKept
  BY DEF KeptInv, Follows, TrackingKept
<1> QED
  BY <1>1, <1>2, <1>3, <1>4, FilesInOrder, PTL DEF Spec
=============================================================================
