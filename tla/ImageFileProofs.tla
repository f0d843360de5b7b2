--------------------------- MODULE ImageFileProofs ---------------------------
(***************************************************************************)
(* No file ends inside its own index table, and the kernel is never given  *)
(* deltas of two format versions, whatever was interrupted: for any number *)
(* of deltas, sizes, clusters, guest writes, kills and power losses.       *)
(*                                                                         *)
(* The invariant has two layers.  Wide types the state and says which      *)
(* tables fit into which file: a power loss may join the header of one     *)
(* file to the length of the other.  VersionsInv says which deltas are     *)
(* marked at which step of a conversion, of a restore and of a check, and  *)
(* that until all marks are gone there is one version to which every delta *)
(* can be taken back.  Each action keeps both: there is one lemma for each *)
(* layer and action.                                                       *)
(***************************************************************************)
EXTENDS ImageFile, TLAPS, SequenceTheorems, WellFoundedInduction

-----------------------------------------------------------------------------
(* The inductive invariant: types and tables.                              *)

\* a relocated cluster, as the kernel is told of it
RelocMap == [req : Int, iblk : Nat, zblk : Nat]

Pc == {"idle", "g_dirty", "g_append", "g_find", "g_index", "g_nullify", "g_clear",
       "l_ioctl", "l_zero", "l_sync",
       "c_backup", "c_dirty", "c_mark", "c_index", "c_unmark", "c_clear", "c_drop",
       "r_open", "r_unmark", "r_clear", "r_unlink", "k_check", "k_hdr", "start"}

OpType == [pc : Pc, img : Images, i : Nat, end : Nat, size : Nat,
           ver : {1, 2}, clu : Nat, maps : Seq(RelocMap)]

IsMap(m) == DOMAIN m \subseteq Nat /\ \A c \in DOMAIN m : m[c] \in Nat

FilesTyped == cache \in [Images -> File] /\ disk \in [Images -> File]

RestTyped ==
  /\ bak \in [Images -> File \cup {NoBackup}]
  /\ half \subseteq Nat
  /\ writes \in Nat /\ faults \in Nat
  /\ half # {} => Running
  /\ Running => DOMAIN core = Images /\ \A i \in Images : IsMap(core[i])

\* the index table for a device of that size is in the file
TableIn(f, size) == Len(f.blk) >= FirstBlock(size)

\* The header in the cache never speaks of a smaller device than the one on
\* the platter, and its table is in both files: so is the table of either
\* header after a power loss.
TablesFit ==
  \A i \in Images : /\ disk[i].size > 0
                    /\ cache[i].size >= disk[i].size
                    /\ TableIn(cache[i], cache[i].size)
                    /\ TableIn(disk[i], cache[i].size)

LowerPc == {"l_ioctl", "l_zero"}
GrowPc == {"g_find", "g_index", "g_nullify"} \cup LowerPc

\* What the header of a delta that grows will say is already true of the file.
GrowthFits ==
  /\ op.pc \in {"g_dirty", "g_append"} \cup GrowPc => op.size >= cache[op.img].size
  /\ op.pc \in GrowPc => TableIn(cache[op.img], op.size)
  /\ op.pc \in LowerPc => TableIn(disk[op.img], op.size)
  /\ op.pc = "l_zero" => op.i >= 1

Wide == FilesTyped /\ RestTyped /\ op \in OpType /\ TablesFit /\ GrowthFits

-----------------------------------------------------------------------------
(* The inductive invariant: marks and versions.                            *)

GrowSteps == {"g_dirty", "g_append", "g_find", "g_index", "g_nullify", "g_clear"}
Lower == {"l_ioctl", "l_zero", "l_sync"}
Lock == {"c_dirty", "c_mark"}
Restore == {"r_open", "r_unmark", "r_clear", "r_unlink"}
CheckPc == {"k_check", "k_hdr", "start"}

\* Headers are synced, but for the one that a restore has put back, and for
\* the fresh one of a grown top delta, which has lost a mark.
HeadersAgree ==
  \A i \in Images :
    \/ disk[i].conv = cache[i].conv /\ disk[i].ver = cache[i].ver
         /\ disk[i].inuse = cache[i].inuse
    \/ /\ disk[i].conv /\ cache[i].conv /\ cache[i].inuse = "one"
       /\ disk[i].inuse # "yes" => disk[i].ver = cache[i].ver
    \/ /\ i = Top /\ disk[i].conv /\ ~ cache[i].conv /\ disk[i].ver = cache[i].ver
       /\ disk[i].inuse = "yes" /\ cache[i].inuse = "yes"

\* Every delta is of version v, or has a backup of version v.
BackTo(v) ==
  \A i \in Images :
    /\ ~ cache[i].conv => cache[i].ver = v
    /\ (cache[i].conv \/ disk[i].conv) /\ bak[i] # NoBackup => bak[i].ver = v
    /\ cache[i].inuse # "yes" \/ (op.pc \in GrowSteps /\ op.img = i) => cache[i].ver = v

\* While the base is marked there is a version to go back to; when it is not,
\* all deltas are of one version.
Versions ==
  IF cache[1].conv
  THEN \E v \in {1, 2} : BackTo(v)
  ELSE \A i \in Images : /\ cache[i].ver = cache[1].ver
                         /\ cache[i].conv => cache[i].inuse = "yes"

\* Which marks are set at which step of which operation.
Phase ==
  LET k == op.img IN
  /\ Running => /\ op.pc \in {"idle"} \cup Lower \cup GrowSteps
                /\ \A i \in Images : ~ cache[i].conv
  /\ op.pc \in GrowSteps => IF cache[1].conv THEN k = Top ELSE ~ cache[k].conv
  /\ op.pc \in GrowSteps \ {"g_dirty"} => cache[k].inuse = "yes"
  /\ op.pc \in Lower => ~ cache[k].conv /\ cache[k].inuse = "no"
  /\ op.pc = "c_backup" =>
       \A i \in Images : /\ cache[i].inuse # "yes"
                         /\ i > 1 /\ ~ cache[1].conv => ~ cache[i].conv
                         /\ cache[i].ver = cache[1].ver
                         /\ i < k => bak[i] # NoBackup /\ bak[i].ver = cache[1].ver
  /\ op.pc \in Lock =>
       \A i \in Images : /\ bak[i] # NoBackup /\ bak[i].ver = cache[1].ver
                         /\ cache[i].ver = cache[1].ver
                         /\ i < k => cache[i].conv /\ cache[i].inuse = "yes"
                         /\ i > 1 /\ ~ cache[1].conv => ~ cache[i].conv
  /\ op.pc = "c_mark" => cache[k].inuse = "yes"
  /\ op.pc = "c_index" =>
       \A i \in Images : /\ cache[i].conv /\ cache[i].inuse = "yes"
                         /\ i < k => cache[i].ver = op.ver
  /\ op.pc \in {"c_unmark", "c_clear"} =>
       \A i \in Images : /\ cache[i].ver = op.ver
                         /\ i < k => ~ cache[i].conv
                         /\ i > k => cache[i].conv /\ cache[i].inuse = "yes"
  /\ op.pc = "c_unmark" => cache[k].conv /\ cache[k].inuse = "yes"
  /\ op.pc = "c_clear" => ~ cache[k].conv
  /\ op.pc = "c_drop" => \A i \in Images : ~ cache[i].conv
  /\ op.pc \in Restore =>
       IF k = 1 THEN \A i \in Images \ {1} : ~ cache[i].conv
       ELSE cache[1].conv /\ \A i \in Images : 1 < i /\ i < k => ~ cache[i].conv
  /\ op.pc = "r_unmark" => cache[k].conv /\ cache[k].inuse = "one"
  /\ op.pc \in {"r_clear", "r_unlink"} => ~ cache[k].conv
  /\ op.pc \in CheckPc => ~ cache[1].conv /\ \A i \in Images : i < k => ~ cache[i].conv
  /\ op.pc = "k_hdr" => ~ cache[k].conv
  /\ op.pc = "start" => \A i \in Images : ~ cache[i].conv

VersionsInv == HeadersAgree /\ Versions /\ Phase

ImageInv == Wide /\ VersionsInv

-----------------------------------------------------------------------------
(* The operators of the format keep types, headers and tables.             *)

USE DEF MapOffset, Pc

SameHeader(f, g) ==
  f.ver = g.ver /\ f.size = g.size /\ f.inuse = g.inuse /\ f.conv = g.conv

\* What is assumed of the constants.
LEMMA Consts ==
  /\ NImages \in Nat /\ NImages >= 1
  /\ Words \in Nat /\ Words >= 2
  /\ BlockSize \in Nat /\ BlockSize >= 1
  /\ InitSize \in Nat /\ InitSize >= 1
  /\ MaxSize \in Nat
BY ImageAssumption

\* The deltas are numbered from the base up, and there is a base and a top.
LEMMA ImagesNat == 1 \in Images /\ Top \in Images /\ \A i \in Images : i \in Nat /\ i >= 1 /\ i <= NImages
BY Consts DEF Images, Top

\* generate_pvd_header: header and index table take at least one cluster.
LEMMA FirstBlockNat ==
  ASSUME NEW s \in Nat
  PROVE  FirstBlock(s) \in Nat /\ FirstBlock(s) >= 1
<1> DEFINE n == MapOffset + s + Words - 1
<1>1. n \in Nat /\ n >= Words /\ Words \in Nat /\ Words > 0
  BY Consts
<1> HIDE DEF n
<1>2. n \div Words \in Nat /\ n \div Words >= 1
  BY <1>1, Z3
<1> QED
  BY <1>2 DEF FirstBlock, n

\* A slot is in a cluster of the index table.
LEMMA L2Type ==
  ASSUME NEW clu \in Nat
  PROVE  L2Cluster(clu) \in Nat /\ L2Slot(clu) \in 0 .. Words - 1
<1> DEFINE n == clu + MapOffset
<1>1. n \in Nat /\ Words \in Nat /\ Words > 0
  BY Consts
<1> HIDE DEF n
<1>2. n \div Words \in Nat /\ n % Words \in 0 .. Words - 1
  BY <1>1, Z3
<1> QED
  BY <1>2 DEF L2Cluster, L2Slot, n

\* What is stored in a slot is a number, in both versions,
LEMMA EncodeType ==
  ASSUME NEW n \in Nat, NEW ver
  PROVE  Encode(n, ver) \in Nat
<1>1. BlockSize \in Nat
  BY Consts
<1>2. n * BlockSize \in Nat
  BY <1>1, Z3
<1> QED
  BY <1>2 DEF Encode

\* and so is the cluster that it stands for.
LEMMA DecodeType ==
  ASSUME NEW n \in Nat, NEW ver
  PROVE  Decode(n, ver) \in Nat
<1>1. BlockSize \in Nat /\ BlockSize > 0
  BY Consts
<1>2. n \div BlockSize \in Nat
  BY <1>1, Z3
<1> QED
  BY <1>2 DEF Decode

\* Clusters that are nullified or written by the guest.
LEMMA ZeroType == Zero \in Cluster /\ \A v \in Nat : Data(v) \in Cluster
BY DEF Zero, Data, Cluster

\* The fields of a file.
LEMMA FileFields ==
  ASSUME NEW f \in File
  PROVE  /\ f.ver \in {1, 2} /\ f.size \in Nat /\ f.inuse \in {"no", "yes", "one"}
         /\ f.conv \in BOOLEAN /\ f.blk \in Seq(Cluster) /\ Len(f.blk) \in Nat
         /\ DOMAIN f.blk = 1 .. Len(f.blk)
BY DEF File

\* pread: past the end of a file there are zeroes.
LEMMA BlockAtType ==
  ASSUME NEW f, f.blk \in Seq(Cluster), NEW i \in Nat
  PROVE  BlockAt(f, i) \in Cluster
<1>1. CASE i < Len(f.blk)
  <2>1. i + 1 \in 1 .. Len(f.blk)
    BY <1>1
  <2>2. f.blk[i + 1] \in Cluster
    BY <2>1
  <2> QED
    BY <1>1, <2>2 DEF BlockAt, AllocHead
<1>2. CASE ~ (i < Len(f.blk))
  BY <1>2, ZeroType DEF BlockAt, AllocHead
<1> QED
  BY <1>1, <1>2

\* read_index: a slot of the index table, in the file or past it.
LEMMA SlotType ==
  ASSUME NEW f \in File, NEW clu \in Nat
  PROVE  Slot(f, clu) \in Nat
<1>1. BlockAt(f, L2Cluster(clu)) \in Cluster
  BY BlockAtType, L2Type, FileFields
<1>2. L2Slot(clu) \in 0 .. Words - 1
  BY L2Type
<1> QED
  BY <1>1, <1>2 DEF Slot, Cluster

\* pwrite may lengthen a file and leaves its header alone.
LEMMA PWriteType ==
  ASSUME NEW f \in File, NEW i \in Nat, NEW b \in Cluster
  PROVE  /\ PWrite(f, i, b) \in File
         /\ SameHeader(PWrite(f, i, b), f)
         /\ Len(PWrite(f, i, b).blk) >= Len(f.blk)
         /\ Len(PWrite(f, i, b).blk) >= i + 1
<1> DEFINE n == IF i < Len(f.blk) THEN Len(f.blk) ELSE i + 1
           s == [k \in 1 .. n |-> IF k = i + 1 THEN b ELSE BlockAt(f, k - 1)]
<1>1. n \in Nat /\ n >= Len(f.blk) /\ n >= i + 1
  BY FileFields
<1>2. \A k \in 1 .. n : BlockAt(f, k - 1) \in Cluster
  BY <1>1, BlockAtType, FileFields
<1>3. PWrite(f, i, b) = [f EXCEPT !.blk = s]
  BY DEF PWrite
<1> HIDE DEF n
<1>4. s \in Seq(Cluster) /\ Len(s) = n
  BY <1>1, <1>2
<1> HIDE DEF s
<1> QED
  BY <1>1, <1>3, <1>4 DEF File, SameHeader

\* So does a write of one slot of the index table.
LEMMA PWriteSlotType ==
  ASSUME NEW f \in File, NEW clu \in Nat, NEW w \in Nat
  PROVE  /\ PWriteSlot(f, clu, w) \in File
         /\ SameHeader(PWriteSlot(f, clu, w), f)
         /\ Len(PWriteSlot(f, clu, w).blk) >= Len(f.blk)
<1> DEFINE c == L2Cluster(clu)
           o == BlockAt(f, c)
           b == [o EXCEPT ![L2Slot(clu)] = w]
<1>1. c \in Nat /\ o \in Cluster
  BY BlockAtType, L2Type, FileFields
<1>2. PWriteSlot(f, clu, w) = PWrite(f, c, b)
  BY DEF PWriteSlot
<1> HIDE DEF c, o
<1>3. b \in Cluster
  BY <1>1 DEF Cluster
<1> HIDE DEF b
<1> QED
  BY <1>1, <1>2, <1>3, PWriteType

\* A set of numbers with a bound has a largest one.
LEMMA MaxExists ==
  ASSUME NEW S \in SUBSET Nat, S # {}, NEW h \in Nat, \A x \in S : x <= h
  PROVE  \E n \in S : \A m \in S : m <= n
<1> DEFINE T == {h - x : x \in S}
<1>1. T \subseteq Nat /\ T # {}
  <2>1. \A x \in S : x \in Nat
    OBVIOUS
  <2>2. \A x \in S : h - x \in Nat
    BY <2>1
  <2>3. PICK x \in S : TRUE
    OBVIOUS
  <2>4. h - x \in T
    BY <2>3
  <2> QED
    BY <2>2, <2>4
<1>2. PICK t \in T : \A y \in T : ~ (<<y, t>> \in OpToRel(<, Nat))
  BY <1>1, NatLessThanWellFounded, WFMin, Zenon
<1>3. \A y \in T : ~ (y < t)
  BY <1>1, <1>2 DEF OpToRel
<1>4. PICK n \in S : t = h - n
  BY <1>2
<1>5. \A m \in S : m <= n
  <2> TAKE m \in S
  <2>1. h - m \in T
    OBVIOUS
  <2>2. ~ (h - m < t)
    BY <2>1, <1>3
  <2>3. m \in Nat /\ n \in Nat
    OBVIOUS
  <2> QED
    BY <2>2, <2>3, <1>4
<1> QED
  BY <1>5

\* the largest element, as the code's loops find it
LEMMA MaxChosen ==
  ASSUME NEW S \in SUBSET Nat, S # {}, NEW h \in Nat, \A x \in S : x <= h
  PROVE  LET n == CHOOSE n \in S : \A m \in S : m <= n
         IN  n \in S /\ \A m \in S : m <= n
BY MaxExists, Zenon

\* The smallest one of a set of numbers.
LEMMA MinExists ==
  ASSUME NEW S \in SUBSET Nat, S # {}
  PROVE  LET n == CHOOSE n \in S : \A m \in S : n <= m
         IN  n \in S /\ \A m \in S : n <= m
<1>1. PICK t \in S : \A y \in S : ~ (<<y, t>> \in OpToRel(<, Nat))
  BY NatLessThanWellFounded, WFMin, Zenon
<1>2. \A y \in S : ~ (y < t)
  BY <1>1 DEF OpToRel
<1>3. \A y \in S : t <= y
  <2>1. \A y \in S : y \in Nat
    OBVIOUS
  <2> QED
    BY <1>2, <2>1
<1> QED
  BY <1>3, Zenon

\* ConvertIndex: one cluster of the table in the other version
ConvBlock(f, i, ver) ==
  LET first == IF i = 0 THEN MapOffset ELSE 0
  IN  [w \in 0 .. Words - 1 |->
         IF w < first THEN BlockAt(f, i)[w]
         ELSE Encode(Decode(BlockAt(f, i)[w], f.ver), ver)]

\* change_fmt_version writes a cluster of words.
LEMMA ConvBlockType ==
  ASSUME NEW f \in File, NEW i \in Nat, NEW ver
  PROVE  ConvBlock(f, i, ver) \in Cluster
<1>1. BlockAt(f, i) \in Cluster
  BY BlockAtType, FileFields
<1>2. \A w \in 0 .. Words - 1 : BlockAt(f, i)[w] \in Nat
  BY <1>1 DEF Cluster
<1>3. \A w \in 0 .. Words - 1 : Encode(Decode(BlockAt(f, i)[w], f.ver), ver) \in Nat
  BY <1>2, EncodeType, DecodeType
<1> QED
  BY <1>2, <1>3 DEF ConvBlock, Cluster

\* The kernel reads a mapping of numbers.
LEMMA MapOfType ==
  ASSUME NEW f \in File
  PROVE  IsMap(MapOf(f))
<1>1. \A clu \in 0 .. f.size - 1 : clu \in Nat
  BY FileFields
<1>2. \A clu \in 0 .. f.size - 1 : Slot(f, clu) \in Nat
  BY <1>1, SlotType
<1>3. \A clu \in 0 .. f.size - 1 : Decode(Slot(f, clu), f.ver) \in Nat
  BY <1>2, DecodeType
<1> QED
  BY <1>1, <1>2, <1>3 DEF MapOf, IsMap

\* the repair keeps the header, and the index table
LEMMA RepairedType ==
  ASSUME NEW f \in File, Len(f.blk) >= L1(f), ~ Fatal(f)
  PROVE  /\ Repaired(f) \in File
         /\ SameHeader(Repaired(f), f)
         /\ Len(Repaired(f).blk) >= L1(f)
<1> DEFINE used == {Decode(Slot(f, clu), f.ver) : clu \in Checked(f)} \cup {L1(f) - 1}
           top == CHOOSE n \in used : \A m \in used : m <= n
<1>0. L1(f) \in Nat /\ L1(f) >= 1 /\ Len(f.blk) \in Nat
  BY FirstBlockNat, FileFields DEF L1
<1>1. \A clu \in Checked(f) : clu \in Nat
  BY DEF Checked, Slots
<1>2. \A clu \in Checked(f) : Decode(Slot(f, clu), f.ver) \in Nat
  BY <1>1, SlotType, DecodeType
<1>3. \A clu \in Checked(f) : ~ (Decode(Slot(f, clu), f.ver) >= Len(f.blk))
  BY DEF Fatal, Corrupt, AllocHead
<1>4. used \in SUBSET Nat /\ used # {} /\ L1(f) - 1 \in used
  BY <1>0, <1>2
<1>5. \A n \in used : n <= Len(f.blk)
  BY <1>0, <1>2, <1>3
<1> HIDE DEF used
<1>6. top \in used /\ \A m \in used : m <= top
  BY <1>0, <1>4, <1>5, MaxChosen
<1>7. top \in Nat /\ top >= L1(f) - 1
  BY <1>4, <1>6
<1>8. UsedHead(f) = 1 + top
  BY DEF UsedHead, used
<1> HIDE DEF top
<1> DEFINE fixed == [k \in DOMAIN f.blk |-> [w \in 0 .. Words - 1 |->
                  LET clu == (k - 1) * Words + w - MapOffset
                  IN  IF clu \in Slots(f) /\ Beyond(f, clu) THEN 0
                      ELSE f.blk[k][w]]]
           n == IF UsedHead(f) < Len(f.blk) THEN UsedHead(f) ELSE Len(f.blk)
<1>9. Repaired(f) = [f EXCEPT !.blk = SubSeq(fixed, 1, n)]
  BY DEF Repaired
<1>10. \A k \in DOMAIN f.blk, w \in 0 .. Words - 1 : f.blk[k][w] \in Nat
  <2>1. \A k \in DOMAIN f.blk : f.blk[k] \in Cluster
    BY FileFields
  <2> QED
    BY <2>1 DEF Cluster
<1>11. \A k \in DOMAIN f.blk : fixed[k] \in Cluster
  BY <1>10 DEF Cluster
<1>12. DOMAIN fixed = 1 .. Len(f.blk)
  BY FileFields
<1>13. n \in Nat /\ n <= Len(f.blk) /\ n >= L1(f)
  BY <1>0, <1>7, <1>8
<1> HIDE DEF n
<1>14. fixed \in Seq(Cluster) /\ Len(fixed) = Len(f.blk)
  <2>1. fixed = [k \in 1 .. Len(f.blk) |-> fixed[k]]
    BY FileFields
  <2>2. \A k \in 1 .. Len(f.blk) : fixed[k] \in Cluster
    BY <1>11, FileFields
  <2> HIDE DEF fixed
  <2> QED
    BY <2>1, <2>2, <1>0
<1> HIDE DEF fixed
<1> DEFINE s == SubSeq(fixed, 1, n)
<1>15. s \in Seq(Cluster) /\ Len(s) = n
  BY <1>13, <1>14, <1>0
<1>16. Repaired(f) = [f EXCEPT !.blk = s]
  BY <1>9
<1> HIDE DEF s
<1> QED
  BY <1>13, <1>15, <1>16 DEF File, SameHeader

\* one of the files that a power loss may leave
Mixed(d, c, h, len, kept) ==
  [h EXCEPT !.blk = [k \in 1 .. len |-> [w \in 0 .. Words - 1 |->
     IF <<k, w>> \in kept THEN c.blk[k][w] ELSE BlockAt(d, k - 1)[w]]]]

\* After a power loss a file has the header and the length of one of the two
\* files it was left from, but perhaps not of the same.
LEMMA LeftoverType ==
  ASSUME NEW d \in File, NEW c \in File, NEW g \in Leftover(d, c)
  PROVE  /\ g \in File
         /\ SameHeader(g, d) \/ SameHeader(g, c)
         /\ Len(g.blk) = Len(d.blk) \/ Len(g.blk) = Len(c.blk)
<1>0. Leftover(d, c) = {Mixed(d, c, h, len, kept) :
         h \in {d, c}, len \in {Len(d.blk), Len(c.blk)}, kept \in SUBSET Unsynced(d, c)}
  BY DEF Leftover, Mixed
<1>1. PICK h \in {d, c}, len \in {Len(d.blk), Len(c.blk)}, kept \in SUBSET Unsynced(d, c) :
        g = Mixed(d, c, h, len, kept)
  BY <1>0
<1> DEFINE s == [k \in 1 .. len |-> [w \in 0 .. Words - 1 |->
               IF <<k, w>> \in kept THEN c.blk[k][w] ELSE BlockAt(d, k - 1)[w]]]
<1>2. len \in Nat
  BY FileFields
<1>3. ASSUME NEW k \in 1 .. len
      PROVE  s[k] \in Cluster
  <2>1. BlockAt(d, k - 1) \in Cluster
    BY <1>2, BlockAtType, FileFields
  <2>2. ASSUME NEW w \in 0 .. Words - 1, <<k, w>> \in kept
        PROVE  c.blk[k][w] \in Nat
    <3>1. k \in 1 .. Len(c.blk)
      BY <2>2 DEF Unsynced
    <3>2. c.blk[k] \in Cluster
      BY <3>1, FileFields
    <3> QED
      BY <3>2 DEF Cluster
  <2>3. \A w \in 0 .. Words - 1 : BlockAt(d, k - 1)[w] \in Nat
    BY <2>1 DEF Cluster
  <2> QED
    BY <2>2, <2>3 DEF Cluster
<1>4. s \in Seq(Cluster) /\ Len(s) = len
  <2>1. s = [k \in 1 .. len |-> s[k]]
    OBVIOUS
  <2> HIDE DEF s
  <2> QED
    BY <2>1, <1>2, <1>3
<1>5. g = [h EXCEPT !.blk = s]
  BY <1>1 DEF Mixed
<1> HIDE DEF s
<1> QED
  BY <1>4, <1>5 DEF File, SameHeader

\* backup_idx_table: the backup has the header of its delta.
LEMMA BackupType ==
  ASSUME NEW f \in File, Len(f.blk) >= L1(f)
  PROVE  /\ [f EXCEPT !.blk = SubSeq(@, 1, L1(f))] \in File
         /\ SameHeader([f EXCEPT !.blk = SubSeq(@, 1, L1(f))], f)
<1>1. L1(f) \in Nat
  BY FirstBlockNat, FileFields DEF L1
<1> DEFINE s == SubSeq(f.blk, 1, L1(f))
<1>2. s \in Seq(Cluster)
  BY <1>1, FileFields
<1>3. [f EXCEPT !.blk = SubSeq(@, 1, L1(f))] = [f EXCEPT !.blk = s]
  OBVIOUS
<1> HIDE DEF s
<1> QED
  BY <1>2, <1>3 DEF File, SameHeader

\* do_restore_fmt_version: the first cluster
Restored(f, b) ==
  [b EXCEPT !.inuse = "one", !.conv = TRUE, !.blk = PWrite(f, 0, BlockAt(b, 0)).blk]

\* A restored delta has the header of its backup and its own length.
LEMMA RestoredType ==
  ASSUME NEW f \in File, NEW b \in File
  PROVE  /\ Restored(f, b) \in File
         /\ Restored(f, b).ver = b.ver /\ Restored(f, b).size = b.size
         /\ Restored(f, b).inuse = "one" /\ Restored(f, b).conv = TRUE
         /\ Len(Restored(f, b).blk) >= Len(f.blk)
<1> DEFINE p == PWrite(f, 0, BlockAt(b, 0))
           s == p.blk
<1>1. p \in File /\ Len(p.blk) >= Len(f.blk)
  <2>1. BlockAt(b, 0) \in Cluster
    BY BlockAtType, FileFields
  <2> QED
    BY <2>1, PWriteType
<1>2. s \in Seq(Cluster) /\ Len(s) >= Len(f.blk)
  BY <1>1, FileFields
<1>3. Restored(f, b) = [b EXCEPT !.inuse = "one", !.conv = TRUE, !.blk = s]
  BY DEF Restored
<1> HIDE DEF s
<1> QED
  BY <1>2, <1>3 DEF File

\* What grow_delta appends does not touch the header.
LEMMA AppendedType ==
  ASSUME NEW f \in File, NEW gap \in Nat
  PROVE  LET g == [f EXCEPT !.blk = @ \o [k \in 1 .. gap |-> Zero]]
         IN  g \in File /\ SameHeader(g, f) /\ Len(g.blk) = Len(f.blk) + gap
<1> DEFINE z == [k \in 1 .. gap |-> Zero]
           s == f.blk \o z
<1>1. z \in Seq(Cluster) /\ Len(z) = gap
  BY ZeroType
<1> HIDE DEF z
<1>2. s \in Seq(Cluster) /\ Len(s) = Len(f.blk) + gap
  <2>1. f.blk \in Seq(Cluster)
    BY FileFields
  <2> QED
    BY <1>1, <2>1, ConcatProperties
<1>3. [f EXCEPT !.blk = @ \o [k \in 1 .. gap |-> Zero]] = [f EXCEPT !.blk = s]
  BY DEF z
<1> HIDE DEF s
<1> QED
  BY <1>2, <1>3 DEF File, SameHeader

\* A larger device does not need a shorter index table.
LEMMA FirstBlockMono ==
  ASSUME NEW a \in Nat, NEW b \in Nat, a <= b
  PROVE  FirstBlock(a) <= FirstBlock(b)
<1> DEFINE m == MapOffset + a + Words - 1
           n == MapOffset + b + Words - 1
<1>1. m \in Nat /\ n \in Nat /\ m <= n /\ Words \in Nat /\ Words > 0
  BY Consts
<1> HIDE DEF m, n
<1>2. m \div Words <= n \div Words
  <2> DEFINE q == m \div Words
             r == m % Words
             t == n \div Words
             u == n % Words
  <2>1. m = Words * q + r /\ r \in 0 .. Words - 1 /\ q \in Nat
    BY <1>1, Z3
  <2>2. n = Words * t + u /\ u \in 0 .. Words - 1 /\ t \in Nat
    BY <1>1, Z3
  <2> HIDE DEF q, r, t, u
  <2>3. ASSUME t + 1 <= q PROVE FALSE
    <3>1. Words * (t + 1) <= Words * q
      BY <2>1, <2>2, <2>3, <1>1, Z3
    <3>2. Words * (t + 1) = Words * t + Words
      BY <2>2, <1>1, Z3
    <3>3. Words * t \in Int /\ Words * q \in Int
      BY <2>1, <2>2, <1>1
    <3> QED
      BY <3>1, <3>2, <3>3, <2>1, <2>2, <1>1
  <2>4. q <= t
    BY <2>1, <2>2, <2>3
  <2> QED
    BY <2>4 DEF q, t
<1> QED
  BY <1>2 DEF FirstBlock, m, n

\* The length of the index table of a file.
LEMMA TableNat ==
  ASSUME NEW f \in File
  PROVE  FirstBlock(f.size) \in Nat /\ FirstBlock(f.size) >= 1 /\ Len(f.blk) \in Nat /\ f.size \in Nat
BY FileFields, FirstBlockNat

\* a longer file with the same header
LEMMA Longer ==
  ASSUME NEW f \in File, NEW g \in File, NEW s \in Nat, TableIn(g, s), Len(f.blk) >= Len(g.blk)
  PROVE  TableIn(f, s)
<1>1. FirstBlock(s) \in Nat /\ Len(f.blk) \in Nat /\ Len(g.blk) \in Nat
  BY FirstBlockNat, FileFields
<1> QED
  BY <1>1 DEF TableIn

-----------------------------------------------------------------------------
(* Steps that write a file, and steps that do not.                         *)

\* One of the files.
LEMMA FilesAt ==
  ASSUME FilesTyped, NEW i \in Images
  PROVE  cache[i] \in File /\ disk[i] \in File
BY DEF FilesTyped

\* A write that is not synced keeps all tables in their files if the table of
\* the new header fits into both the new file and the one on the platter.
LEMMA WriteOnlyFits ==
  ASSUME FilesTyped, TablesFit, NEW i \in Images, NEW f \in File, WriteOnly(i, f),
         f.size >= disk[i].size, TableIn(f, f.size), TableIn(disk[i], f.size)
  PROVE  /\ FilesTyped' /\ TablesFit'
         /\ cache'[i] = f /\ disk' = disk
         /\ \A j \in Images : j # i => cache'[j] = cache[j]
<1>1. cache' = [cache EXCEPT ![i] = f] /\ disk' = disk
  BY DEF WriteOnly
<1>2. FilesTyped' /\ cache'[i] = f /\ \A j \in Images : j # i => cache'[j] = cache[j]
  BY <1>1 DEF FilesTyped
<1>3. TablesFit'
  <2> SUFFICES ASSUME NEW j \in Images
               PROVE  /\ disk[j].size > 0 /\ cache'[j].size >= disk[j].size
                      /\ TableIn(cache'[j], cache'[j].size) /\ TableIn(disk[j], cache'[j].size)
    BY <1>1 DEF TablesFit, TableIn
  <2>1. CASE j = i
    BY <2>1, <1>2 DEF TablesFit
  <2>2. CASE j # i
    BY <2>2, <1>2 DEF TablesFit
  <2> QED
    BY <2>1, <2>2
<1> QED
  BY <1>1, <1>2, <1>3

\* A write that is synced needs it of the new file only.
LEMMA WriteSyncFits ==
  ASSUME FilesTyped, TablesFit, NEW i \in Images, NEW f \in File, WriteSync(i, f),
         f.size > 0, TableIn(f, f.size)
  PROVE  /\ FilesTyped' /\ TablesFit'
         /\ cache'[i] = f /\ disk'[i] = f
         /\ \A j \in Images : j # i => cache'[j] = cache[j] /\ disk'[j] = disk[j]
<1>1. cache' = [cache EXCEPT ![i] = f] /\ disk' = [disk EXCEPT ![i] = f]
  BY DEF WriteSync
<1>2. /\ FilesTyped' /\ cache'[i] = f /\ disk'[i] = f
      /\ \A j \in Images : j # i => cache'[j] = cache[j] /\ disk'[j] = disk[j]
  BY <1>1 DEF FilesTyped
<1>3. TablesFit'
  <2> SUFFICES ASSUME NEW j \in Images
               PROVE  /\ disk'[j].size > 0 /\ cache'[j].size >= disk'[j].size
                      /\ TableIn(cache'[j], cache'[j].size) /\ TableIn(disk'[j], cache'[j].size)
    BY DEF TablesFit, TableIn
  <2>1. CASE j = i
    <3>1. f.size \in Nat
      BY FileFields
    <3> QED
      BY <2>1, <3>1, <1>2
  <2>2. CASE j # i
    BY <2>2, <1>2 DEF TablesFit
  <2> QED
    BY <2>1, <2>2
<1> QED
  BY <1>2, <1>3

\* A write after an fsync: the old file is on the platter.
LEMMA SyncWriteFits ==
  ASSUME FilesTyped, TablesFit, NEW i \in Images, NEW f \in File, SyncWrite(i, f),
         f.size >= cache[i].size, TableIn(f, f.size), TableIn(cache[i], f.size)
  PROVE  /\ FilesTyped' /\ TablesFit'
         /\ cache'[i] = f /\ disk'[i] = cache[i]
         /\ \A j \in Images : j # i => cache'[j] = cache[j] /\ disk'[j] = disk[j]
<1>1. cache' = [cache EXCEPT ![i] = f] /\ disk' = [disk EXCEPT ![i] = cache[i]]
  BY DEF SyncWrite, Synced
<1>2. /\ FilesTyped' /\ cache'[i] = f /\ disk'[i] = cache[i]
      /\ \A j \in Images : j # i => cache'[j] = cache[j] /\ disk'[j] = disk[j]
  BY <1>1 DEF FilesTyped
<1>3. TablesFit'
  <2> SUFFICES ASSUME NEW j \in Images
               PROVE  /\ disk'[j].size > 0 /\ cache'[j].size >= disk'[j].size
                      /\ TableIn(cache'[j], cache'[j].size) /\ TableIn(disk'[j], cache'[j].size)
    BY DEF TablesFit, TableIn
  <2>1. CASE j = i
    <3>1. cache[i].size \in Nat /\ disk[i].size \in Nat
      BY FilesAt, FileFields
    <3>2. cache[i].size > 0
      BY <3>1 DEF TablesFit
    <3> QED
      BY <2>1, <3>2, <1>2
  <2>2. CASE j # i
    BY <2>2, <1>2 DEF TablesFit
  <2> QED
    BY <2>1, <2>2
<1> QED
  BY <1>2, <1>3

\* the same header, the file no shorter
LEMMA Kept ==
  ASSUME FilesTyped, TablesFit, NEW i \in Images, NEW f \in File,
         f.size = cache[i].size, Len(f.blk) >= Len(cache[i].blk)
  PROVE  /\ f.size > 0 /\ f.size >= disk[i].size /\ f.size >= cache[i].size
         /\ TableIn(f, f.size) /\ TableIn(disk[i], f.size) /\ TableIn(cache[i], f.size)
<1>1. cache[i].size \in Nat /\ disk[i].size \in Nat /\ cache[i] \in File
  BY FilesAt, FileFields
<1>2. cache[i].size > 0 /\ cache[i].size >= disk[i].size
  BY <1>1 DEF TablesFit
<1>3. TableIn(cache[i], f.size) /\ TableIn(disk[i], f.size)
  BY DEF TablesFit
<1> QED
  BY <1>1, <1>2, <1>3, Longer

\* A step that leaves the device and the counters alone.
LEMMA RestKept ==
  ASSUME RestTyped, UNCHANGED <<bak, core, half, writes, faults>>
  PROVE  RestTyped'
BY DEF RestTyped, Running

\* The fields of an operation.
LEMMA OpFields ==
  ASSUME op \in OpType
  PROVE  /\ op.pc \in Pc /\ op.img \in Images /\ op.i \in Nat /\ op.end \in Nat
         /\ op.size \in Nat /\ op.ver \in {1, 2} /\ op.clu \in Nat /\ op.maps \in Seq(RelocMap)
BY DEF OpType

\* An operation that goes on with the same delta.
LEMMA GotoType ==
  ASSUME op \in OpType, NEW pc \in Pc, Goto(pc)
  PROVE  /\ op' \in OpType
         /\ op'.pc = pc /\ op'.img = op.img /\ op'.size = op.size
BY DEF OpType, Goto

\* No operation is one that is idle.
LEMMA NoOpType == /\ NoOp \in OpType /\ NoOp.pc = "idle" /\ NoOp.img = 1 /\ NoOp.size = 0
BY ImagesNat DEF NoOp, OpType

\* Nothing is asked of operations that do not grow a delta.
LEMMA IdleFits ==
  ASSUME op'.pc \notin {"g_dirty", "g_append"} \cup GrowPc
  PROVE  GrowthFits'
BY DEF GrowthFits, GrowPc, LowerPc

\* growing goes on: what is known of the size it grows to
LEMMA GrowthKept ==
  ASSUME FilesTyped, TablesFit, GrowthFits, op \in OpType, FilesTyped',
         op'.img = op.img, op'.size = op.size,
         op.pc \in GrowPc \ LowerPc, op'.pc \in GrowPc \ LowerPc,
         cache'[op.img].size = cache[op.img].size,
         Len(cache'[op.img].blk) >= Len(cache[op.img].blk)
  PROVE  GrowthFits'
<1>1. op.img \in Images /\ op.size \in Nat
  BY OpFields
<1>2. cache[op.img] \in File /\ cache'[op.img] \in File
  BY <1>1 DEF FilesTyped
<1>3. TableIn(cache'[op.img], op.size)
  BY <1>1, <1>2, Longer DEF GrowthFits
<1> QED
  <2>1. op.size >= cache[op.img].size
    BY DEF GrowthFits, GrowPc, LowerPc
  <2> QED
    BY <2>1, <1>3 DEF GrowthFits, TableIn, GrowPc, LowerPc

-----------------------------------------------------------------------------
(* Types and tables, action by action.                                     *)

\* ploop_grow_delta_offline begins: no header changes.
LEMMA GrowOfflineTyped ==
  ASSUME Wide, NEW size \in 1 .. MaxSize, GrowOffline(size)
  PROVE  Wide'
<1> USE DEF Wide
<1>0. op \in OpType /\ op.img \in Images /\ op.size \in Nat
  BY OpFields
<1>00. cache[op.img] \in File /\ disk[op.img] \in File
  BY <1>0, FilesAt
<1>1. op' = [NoOp EXCEPT !.pc = "g_dirty", !.img = Top, !.size = size] /\ size \in Nat
  BY Consts DEF GrowOffline
<1>2. op' \in OpType /\ op'.pc = "g_dirty" /\ op'.img = Top /\ op'.size = size
  BY <1>1, ImagesNat, NoOpType DEF OpType
<1>3. FilesTyped' /\ TablesFit' /\ cache' = cache
  BY DEF GrowOffline, FilesTyped, TablesFit, TableIn
<1>4. RestTyped'
  BY RestKept DEF GrowOffline, ghosts
<1>5. GrowthFits'
  <2>1. size >= cache[Top].size
    BY <1>1, ImagesNat, FilesAt, FileFields DEF GrowOffline
  <2> QED
    BY <2>1, <1>2, <1>3 DEF GrowthFits, GrowPc, LowerPc
<1> QED
  BY <1>2, <1>3, <1>4, <1>5

\* grow_lower_delta begins: the base is not marked and can be opened.
LEMMA GrowLowerTyped ==
  ASSUME Wide, GrowLower
  PROVE  Wide'
<1> USE DEF Wide
<1>0. op \in OpType /\ op.img \in Images /\ op.size \in Nat
  BY OpFields
<1>00. cache[op.img] \in File /\ disk[op.img] \in File
  BY <1>0, FilesAt
<1>1. op' = [NoOp EXCEPT !.pc = "g_dirty", !.img = 1, !.size = cache[Top].size]
  BY DEF GrowLower
<1>11. cache[Top].size \in Nat /\ cache[1].size \in Nat
  BY ImagesNat, FilesAt, FileFields
<1>2. op' \in OpType /\ op'.pc = "g_dirty" /\ op'.img = 1 /\ op'.size = cache[Top].size
  BY <1>1, <1>11, ImagesNat, NoOpType DEF OpType
<1>3. FilesTyped' /\ TablesFit' /\ cache' = cache
  BY DEF GrowLower, FilesTyped, TablesFit, TableIn
<1>4. RestTyped'
  BY RestKept DEF GrowLower, ghosts
<1>5. GrowthFits'
  <2>1. cache[Top].size >= cache[1].size
    BY <1>11 DEF GrowLower
  <2> QED
    BY <2>1, <1>2, <1>3 DEF GrowthFits, GrowPc, LowerPc
<1> QED
  BY <1>2, <1>3, <1>4, <1>5

\* dirty_delta
LEMMA GrowDirtyTyped ==
  ASSUME Wide, GrowDirty
  PROVE  Wide'
<1> USE DEF Wide
<1>0. op \in OpType /\ op.img \in Images /\ op.size \in Nat
  BY OpFields
<1>00. cache[op.img] \in File /\ disk[op.img] \in File
  BY <1>0, FilesAt
<1> DEFINE f == [cache[op.img] EXCEPT !.inuse = "yes"]
<1>1. f \in File /\ f.size = cache[op.img].size /\ f.blk = cache[op.img].blk
  <2>1. cache[op.img] \in File
    BY <1>0, FilesAt
  <2> QED
    BY <2>1 DEF File
<1>2. WriteSync(op.img, f)
  BY DEF GrowDirty
<1> HIDE DEF f
<1>3. Len(f.blk) >= Len(cache[op.img].blk)
  BY <1>1, FileFields
<1>4. FilesTyped' /\ TablesFit' /\ cache'[op.img] = f /\ disk'[op.img] = f
  BY <1>0, <1>1, <1>2, <1>3, Kept, WriteSyncFits
<1>5. RestTyped'
  BY RestKept DEF GrowDirty, ghosts
<1>6. op' \in OpType /\ op'.pc = "g_append" /\ op'.img = op.img /\ op'.size = op.size
  BY GotoType DEF GrowDirty
<1>7. GrowthFits'
  BY <1>1, <1>4, <1>6 DEF GrowthFits, GrowPc, LowerPc, GrowDirty
<1> QED
  BY <1>4, <1>5, <1>6, <1>7

\* grow_delta: the gap before the longer table is appended.
LEMMA GrowAppendTyped ==
  ASSUME Wide, GrowAppend
  PROVE  Wide'
<1> USE DEF Wide
<1>0. op \in OpType /\ op.img \in Images /\ op.size \in Nat
  BY OpFields
<1>00. cache[op.img] \in File /\ disk[op.img] \in File
  BY <1>0, FilesAt
<1> DEFINE c == cache[op.img]
           l1 == FirstBlock(op.size)
           gap == IF Len(c.blk) < l1 THEN l1 - Len(c.blk) ELSE 0
           f == [c EXCEPT !.blk = @ \o [k \in 1 .. gap |-> Zero]]
<1>1. c \in File /\ l1 \in Nat /\ Len(c.blk) \in Nat /\ L1(c) \in Nat
  BY <1>0, <1>00, FirstBlockNat, FileFields DEF L1
<1>2. gap \in Nat /\ Len(c.blk) + gap >= l1 /\ l1 - gap \in Nat
  BY <1>1
<1>3. /\ WriteOnly(op.img, f)
      /\ op' = [op EXCEPT !.pc = "g_find", !.i = L1(c), !.end = l1 - gap]
  BY DEF GrowAppend, AllocHead
<1> HIDE DEF gap, l1
<1>4. f \in File /\ SameHeader(f, c) /\ Len(f.blk) = Len(c.blk) + gap
  BY <1>1, <1>2, AppendedType
<1> HIDE DEF f
<1>5. Len(f.blk) >= Len(c.blk) /\ f.size = c.size /\ Len(f.blk) >= l1
  BY <1>1, <1>2, <1>4 DEF SameHeader
<1>6. FilesTyped' /\ TablesFit' /\ cache'[op.img] = f
  BY <1>0, <1>3, <1>4, <1>5, Kept, WriteOnlyFits
<1> HIDE DEF c
<1>7. op' \in OpType /\ op'.pc = "g_find" /\ op'.img = op.img /\ op'.size = op.size
  BY <1>0, <1>1, <1>2, <1>3 DEF OpType
<1>8. GrowthFits'
  <2>1. op.size >= cache[op.img].size
    BY DEF GrowAppend, GrowthFits
  <2> QED
    BY <2>1, <1>5, <1>6, <1>7 DEF GrowthFits, GrowPc, LowerPc, TableIn, l1, c
<1>9. RestTyped'
  BY RestKept DEF GrowAppend, ghosts
<1> QED
  BY <1>6, <1>7, <1>8, <1>9

\* relocate_block: a cluster is copied to the end of the file.
LEMMA RelocateDataTyped ==
  ASSUME Wide, RelocateData
  PROVE  Wide'
<1> USE DEF Wide
<1>0. op \in OpType /\ op.img \in Images /\ op.size \in Nat
  BY OpFields
<1>00. cache[op.img] \in File /\ disk[op.img] \in File
  BY <1>0, FilesAt
<1>9. RestTyped'
  BY RestKept DEF RelocateData, ghosts
<1> DEFINE c == cache[op.img]
           found == Owners(c, op.i)
           clu == CHOOSE n \in found : \A d \in found : n <= d
           b == BlockAt(c, op.i)
           f == PWrite(c, Len(c.blk), b)
<1>1. op.i \in Nat /\ op.pc = "g_find"
  BY OpFields DEF RelocateData
<1>2. CASE found = {}
  <2>1. Goto("g_nullify") /\ UNCHANGED <<cache, disk>>
    BY <1>2 DEF RelocateData
  <2>2. op' \in OpType /\ op'.pc = "g_nullify" /\ op'.img = op.img /\ op'.size = op.size
    BY <2>1, GotoType
  <2>3. FilesTyped' /\ TablesFit'
    BY <2>1 DEF FilesTyped, TablesFit, TableIn
  <2>4. GrowthFits'
    BY <1>1, <2>1, <2>2 DEF GrowthFits, GrowPc, LowerPc, TableIn
  <2> QED
    BY <1>9, <2>2, <2>3, <2>4
<1>3. CASE found # {}
  <2>1. found \in SUBSET Nat
    BY FileFields, <1>00 DEF Owners
  <2>2. WriteOnly(op.img, f) /\ op' = [op EXCEPT !.pc = "g_index", !.clu = clu]
    BY <1>3 DEF RelocateData, AllocHead
  <2> HIDE DEF found
  <2>3. clu \in Nat
    BY <1>3, <2>1, MinExists
  <2> HIDE DEF clu
  <2>4. b \in Cluster /\ Len(c.blk) \in Nat
    BY <1>1, <1>00, BlockAtType, FileFields
  <2> HIDE DEF b
  <2>5. f \in File /\ SameHeader(f, c) /\ Len(f.blk) >= Len(c.blk)
    BY <1>00, <2>4, PWriteType
  <2> HIDE DEF f
  <2>6. f.size = c.size
    BY <2>5 DEF SameHeader
  <2>7. FilesTyped' /\ TablesFit' /\ cache'[op.img] = f
    BY <1>0, <2>2, <2>5, <2>6, Kept, WriteOnlyFits
  <2>8. op' \in OpType /\ op'.pc = "g_index" /\ op'.img = op.img /\ op'.size = op.size
    BY <1>0, <2>2, <2>3 DEF OpType
  <2>9. GrowthFits'
    <3>1. op.pc \in GrowPc \ LowerPc /\ op'.pc \in GrowPc \ LowerPc
      BY <1>1, <2>8 DEF GrowPc, LowerPc
    <3> QED
      BY <3>1, <2>5, <2>6, <2>7, <2>8, GrowthKept
  <2> QED
    BY <1>9, <2>7, <2>8, <2>9
<1> QED
  BY <1>2, <1>3

\* relocate_block: its index follows after an fsync.
LEMMA RelocateIndexTyped ==
  ASSUME Wide, RelocateIndex
  PROVE  Wide'
<1> USE DEF Wide
<1>0. op \in OpType /\ op.img \in Images /\ op.size \in Nat
  BY OpFields
<1>00. cache[op.img] \in File /\ disk[op.img] \in File
  BY <1>0, FilesAt
<1>9. RestTyped'
  BY RestKept DEF RelocateIndex
<1> DEFINE c == cache[op.img]
           n == Len(c.blk) - 1
           w == Encode(n, c.ver)
           f == PWriteSlot(c, op.clu, w)
           s == L2Slot(op.clu) - MapOffset
           m == Append(op.maps, [req |-> s, iblk |-> n, zblk |-> op.i])
<1>1. op.i \in Nat /\ op.clu \in Nat /\ op.maps \in Seq(RelocMap) /\ op.pc = "g_index"
  BY OpFields DEF RelocateIndex
<1>2. n \in Nat
  <2>1. TableIn(c, c.size)
    BY <1>0 DEF TablesFit
  <2> QED
    BY <2>1, <1>00, TableNat DEF TableIn
<1>3. SyncWrite(op.img, f)
  BY DEF RelocateIndex, AllocHead
<1>4. \/ Goto("g_nullify")
      \/ op' = [op EXCEPT !.pc = "g_find", !.i = op.i + 1, !.maps = m]
  BY DEF RelocateIndex, AllocHead
<1> HIDE DEF n
<1>5. w \in Nat
  BY <1>2, EncodeType
<1> HIDE DEF w
<1>6. f \in File /\ SameHeader(f, c) /\ Len(f.blk) >= Len(c.blk)
  BY <1>00, <1>1, <1>5, PWriteSlotType
<1> HIDE DEF f
<1>7. f.size = c.size
  BY <1>6 DEF SameHeader
<1>8. FilesTyped' /\ TablesFit' /\ cache'[op.img] = f
  BY <1>0, <1>3, <1>6, <1>7, Kept, SyncWriteFits
<1>10. s \in Int
  <2>1. L2Slot(op.clu) \in 0 .. Words - 1 /\ Words \in Nat
    BY <1>1, L2Type, Consts
  <2>2. L2Slot(op.clu) \in Int
    BY <2>1
  <2> QED
    BY <2>2
<1> HIDE DEF s
<1>11. m \in Seq(RelocMap)
  <2>1. [req |-> s, iblk |-> n, zblk |-> op.i] \in RelocMap
    BY <1>1, <1>2, <1>10 DEF RelocMap
  <2> QED
    BY <2>1, <1>1
<1> HIDE DEF m
<1>12. op' \in OpType /\ op'.pc \in {"g_nullify", "g_find"} /\ op'.img = op.img /\ op'.size = op.size
  <2>1. CASE Goto("g_nullify")
    BY <2>1, GotoType
  <2>2. CASE op' = [op EXCEPT !.pc = "g_find", !.i = op.i + 1, !.maps = m]
    <3>1. op.i + 1 \in Nat
      BY <1>1
    <3> QED
      BY <2>2, <3>1, <1>0, <1>11 DEF OpType
  <2> QED
    BY <1>4, <2>1, <2>2
<1>13. GrowthFits'
  <2>1. op.pc \in GrowPc \ LowerPc /\ op'.pc \in GrowPc \ LowerPc
    BY <1>1, <1>12 DEF GrowPc, LowerPc
  <2> QED
    BY <2>1, <1>6, <1>7, <1>8, <1>12, GrowthKept
<1> QED
  BY <1>8, <1>9, <1>12, <1>13

\* grow_delta: the freed cluster is nullified.
LEMMA NullifyTyped ==
  ASSUME Wide, Nullify
  PROVE  Wide'
<1> USE DEF Wide
<1>0. op \in OpType /\ op.img \in Images /\ op.size \in Nat
  BY OpFields
<1>00. cache[op.img] \in File /\ disk[op.img] \in File
  BY <1>0, FilesAt
<1>9. RestTyped'
  BY RestKept DEF Nullify, ghosts
<1> DEFINE c == cache[op.img]
           f == PWrite(c, op.i, Zero)
<1>1. op.i \in Nat /\ op.i + 1 \in Nat /\ op.pc = "g_nullify"
  BY OpFields DEF Nullify
<1>2. SyncWrite(op.img, f) /\ op' = [op EXCEPT !.pc = "g_find", !.i = op.i + 1]
  BY DEF Nullify
<1>3. f \in File /\ SameHeader(f, c) /\ Len(f.blk) >= Len(c.blk)
  BY <1>00, <1>1, ZeroType, PWriteType
<1> HIDE DEF f
<1>4. f.size = c.size
  BY <1>3 DEF SameHeader
<1>5. FilesTyped' /\ TablesFit' /\ cache'[op.img] = f
  BY <1>0, <1>2, <1>3, <1>4, Kept, SyncWriteFits
<1>6. op' \in OpType /\ op'.pc = "g_find" /\ op'.img = op.img /\ op'.size = op.size
  BY <1>0, <1>1, <1>2 DEF OpType
<1>7. GrowthFits'
  <2>1. op.pc \in GrowPc \ LowerPc /\ op'.pc \in GrowPc \ LowerPc
    BY <1>1, <1>6 DEF GrowPc, LowerPc
  <2> QED
    BY <2>1, <1>3, <1>4, <1>5, <1>6, GrowthKept
<1> QED
  BY <1>5, <1>6, <1>7, <1>9

\* grow_delta: the new size, for which the table is in the file and on the
\* platter.
LEMMA GrowHeaderTyped ==
  ASSUME Wide, GrowHeader
  PROVE  Wide'
<1> USE DEF Wide
<1>0. op \in OpType /\ op.img \in Images /\ op.size \in Nat
  BY OpFields
<1>00. cache[op.img] \in File /\ disk[op.img] \in File
  BY <1>0, FilesAt
<1>9. RestTyped'
  BY RestKept DEF GrowHeader, ghosts
<1> DEFINE c == cache[op.img]
           f == [c EXCEPT !.size = op.size, !.inuse = "yes", !.conv = FALSE]
<1>1. SyncWrite(op.img, f) /\ op.pc = "g_find" /\ Goto("g_clear")
  BY DEF GrowHeader
<1>2. f \in File /\ f.size = op.size /\ f.blk = c.blk
  BY <1>0, <1>00 DEF File
<1> HIDE DEF f
<1>3. op.size >= c.size /\ TableIn(c, op.size)
  BY <1>1 DEF GrowthFits, GrowPc, LowerPc
<1>4. TableIn(f, op.size)
  BY <1>2, <1>3 DEF TableIn
<1>5. FilesTyped' /\ TablesFit'
  BY <1>0, <1>1, <1>2, <1>3, <1>4, SyncWriteFits
<1>6. op' \in OpType /\ op'.pc = "g_clear"
  BY <1>1, GotoType
<1>7. GrowthFits'
  BY <1>6, IdleFits DEF GrowPc, LowerPc
<1> QED
  BY <1>5, <1>6, <1>7, <1>9

\* ploop_grow_delta_offline clears the dirty mark.
LEMMA GrowClearTyped ==
  ASSUME Wide, GrowClear
  PROVE  Wide'
<1> USE DEF Wide
<1>0. op \in OpType /\ op.img \in Images /\ op.size \in Nat
  BY OpFields
<1>00. cache[op.img] \in File /\ disk[op.img] \in File
  BY <1>0, FilesAt
<1> DEFINE f == [cache[op.img] EXCEPT !.inuse = "no"]
<1>1. f \in File /\ f.size = cache[op.img].size /\ f.blk = cache[op.img].blk
  <2>1. cache[op.img] \in File
    BY <1>0, FilesAt
  <2> QED
    BY <2>1 DEF File
<1>2. WriteSync(op.img, f)
  BY DEF GrowClear
<1> HIDE DEF f
<1>3. Len(f.blk) >= Len(cache[op.img].blk)
  BY <1>1, FileFields
<1>4. FilesTyped' /\ TablesFit' /\ cache'[op.img] = f /\ disk'[op.img] = f
  BY <1>0, <1>1, <1>2, <1>3, Kept, WriteSyncFits
<1>5. RestTyped'
  BY RestKept DEF GrowClear, ghosts
<1>6. op' \in OpType /\ op'.pc = "idle"
  BY NoOpType DEF GrowClear
<1>7. GrowthFits'
  BY <1>6, IdleFits DEF GrowPc, LowerPc
<1> QED
  BY <1>4, <1>5, <1>6, <1>7

\* grow_lower_delta clears the dirty mark before the kernel is told.
LEMMA LowerClearTyped ==
  ASSUME Wide, LowerClear
  PROVE  Wide'
<1> USE DEF Wide
<1>0. op \in OpType /\ op.img \in Images /\ op.size \in Nat
  BY OpFields
<1>00. cache[op.img] \in File /\ disk[op.img] \in File
  BY <1>0, FilesAt
<1> DEFINE f == [cache[op.img] EXCEPT !.inuse = "no"]
<1>1. f \in File /\ f.size = cache[op.img].size /\ f.blk = cache[op.img].blk
  <2>1. cache[op.img] \in File
    BY <1>0, FilesAt
  <2> QED
    BY <2>1 DEF File
<1>2. WriteSync(op.img, f)
  BY DEF LowerClear
<1> HIDE DEF f
<1>3. Len(f.blk) >= Len(cache[op.img].blk)
  BY <1>1, FileFields
<1>4. FilesTyped' /\ TablesFit' /\ cache'[op.img] = f /\ disk'[op.img] = f
  BY <1>0, <1>1, <1>2, <1>3, Kept, WriteSyncFits
<1>5. RestTyped'
  BY RestKept DEF LowerClear, ghosts
<1>6. op' \in OpType /\ op'.pc = "l_ioctl" /\ op'.img = op.img /\ op'.size = op.size
  BY GotoType DEF LowerClear
<1>7. GrowthFits'
  BY <1>1, <1>4, <1>6 DEF GrowthFits, GrowPc, LowerPc, TableIn, LowerClear
<1> QED
  BY <1>4, <1>5, <1>6, <1>7

\* PLOOP_IOC_UPDATE_INDEX
LEMMA LowerUpdateIndexTyped ==
  ASSUME Wide, LowerUpdateIndex
  PROVE  Wide'
<1> USE DEF Wide
<1>0. op \in OpType /\ op.img \in Images /\ op.size \in Nat
  BY OpFields
<1>00. cache[op.img] \in File /\ disk[op.img] \in File
  BY <1>0, FilesAt
<1> DEFINE T(clu) == {k \in DOMAIN op.maps : op.maps[k].req = clu}
           m == core[op.img]
           v(clu) == IF T(clu) = {} THEN m[clu]
                     ELSE op.maps[CHOOSE k \in T(clu) : \A n \in T(clu) : n <= k].iblk
<1>1. core' = [core EXCEPT ![op.img] = [clu \in DOMAIN m |-> v(clu)]]
  BY DEF LowerUpdateIndex
<1>2. op.maps \in Seq(RelocMap)
  BY OpFields
<1>3. ASSUME NEW clu, T(clu) # {}
      PROVE  op.maps[CHOOSE k \in T(clu) : \A n \in T(clu) : n <= k].iblk \in Nat
  <2>1. T(clu) \in SUBSET Nat /\ Len(op.maps) \in Nat /\ \A k \in T(clu) : k <= Len(op.maps)
    BY <1>2
  <2> DEFINE S == T(clu)
             k == CHOOSE k \in S : \A n \in S : n <= k
  <2>2. \A j \in S : j \in DOMAIN op.maps
    OBVIOUS
  <2>3. S # {}
    BY <1>3
  <2> HIDE DEF S
  <2>4. k \in S
    BY <2>1, <2>3, MaxChosen DEF S
  <2> HIDE DEF k
  <2>5. op.maps[k] \in RelocMap
    BY <2>2, <2>4, <1>2
  <2>6. op.maps[k].iblk \in Nat
    BY <2>5 DEF RelocMap
  <2> QED
    BY <2>6 DEF k, S
<1>4. RestTyped'
  <2>1. UNCHANGED <<bak, half, writes, faults>>
    BY DEF LowerUpdateIndex, ghosts
  <2>2. CASE Running
    <3>1. DOMAIN core = Images /\ \A i \in Images : IsMap(core[i])
      BY <2>2 DEF RestTyped
    <3>2. \A clu \in DOMAIN m : clu \in Nat /\ m[clu] \in Nat
      BY <3>1, <1>0 DEF IsMap
    <3>3. \A clu \in DOMAIN m : v(clu) \in Nat
      BY <3>2, <1>3
    <3> DEFINE g == [clu \in DOMAIN m |-> v(clu)]
    <3>4. IsMap(g)
      BY <3>2, <3>3 DEF IsMap
    <3>5. core' = [core EXCEPT ![op.img] = g]
      BY <1>1
    <3> HIDE DEF g
    <3>6. DOMAIN core' = Images /\ \A i \in Images : IsMap(core'[i])
      BY <3>1, <3>4, <3>5, <1>0
    <3>7. Running'
      <4>1. core' # << >>
        BY <3>6, ImagesNat
      <4> QED
        BY <4>1 DEF Running
    <3> QED
      BY <2>1, <3>6, <3>7 DEF RestTyped
  <2>3. CASE ~ Running
    <3>1. core = << >> /\ half = {}
      BY <2>3 DEF RestTyped, Running
    <3>2. core' = << >>
      <4> DEFINE g == [clu \in DOMAIN m |-> v(clu)]
      <4>1. core' = [core EXCEPT ![op.img] = g]
        BY <1>1
      <4> HIDE DEF g
      <4> QED
        BY <4>1, <3>1
    <3> QED
      BY <2>1, <3>1, <3>2 DEF RestTyped, Running
  <2> QED
    BY <2>2, <2>3
<1>5. FilesTyped' /\ TablesFit' /\ cache' = cache /\ disk' = disk
  BY DEF LowerUpdateIndex, FilesTyped, TablesFit, TableIn
<1>6. op' \in OpType /\ op'.pc = "l_zero" /\ op'.img = op.img /\ op'.size = op.size /\ op'.i = 1
  <2>1. op' = [op EXCEPT !.pc = "l_zero", !.i = 1]
    BY DEF LowerUpdateIndex
  <2> QED
    BY <2>1, <1>0 DEF OpType
<1>7. GrowthFits'
  BY <1>5, <1>6 DEF GrowthFits, GrowPc, LowerPc, TableIn, LowerUpdateIndex
<1> QED
  BY <1>4, <1>5, <1>6, <1>7

\* grow_lower_delta nullifies what was relocated.
LEMMA LowerNullifyTyped ==
  ASSUME Wide, LowerNullify
  PROVE  Wide'
<1> USE DEF Wide
<1>0. op \in OpType /\ op.img \in Images /\ op.size \in Nat
  BY OpFields
<1>00. cache[op.img] \in File /\ disk[op.img] \in File
  BY <1>0, FilesAt
<1>9. RestTyped'
  BY RestKept DEF LowerNullify, ghosts
<1> DEFINE c == cache[op.img]
           z == op.maps[op.i].zblk
           f == PWrite(c, z, Zero)
<1>1. op.i \in Nat /\ op.pc = "l_zero" /\ op.maps \in Seq(RelocMap) /\ op.i <= Len(op.maps) /\ op.i >= 1
  BY OpFields DEF LowerNullify, GrowthFits
<1>2. WriteOnly(op.img, f) /\ op' = [op EXCEPT !.i = op.i + 1]
  BY DEF LowerNullify
<1>21. z \in Nat
  <2>1. op.maps[op.i] \in RelocMap
    BY <1>1
  <2> QED
    BY <2>1 DEF RelocMap
<1> HIDE DEF z
<1>3. f \in File /\ SameHeader(f, c) /\ Len(f.blk) >= Len(c.blk)
  BY <1>00, <1>21, ZeroType, PWriteType
<1> HIDE DEF f
<1>4. f.size = c.size
  BY <1>3 DEF SameHeader
<1>5. FilesTyped' /\ TablesFit' /\ cache'[op.img] = f /\ disk' = disk
  BY <1>0, <1>2, <1>3, <1>4, Kept, WriteOnlyFits
<1>6. op' \in OpType /\ op'.pc = "l_zero" /\ op'.img = op.img /\ op'.size = op.size /\ op'.i >= 1
  BY <1>0, <1>1, <1>2 DEF OpType
<1>7. GrowthFits'
  <2>1. TableIn(c, op.size) /\ op.size >= c.size /\ TableIn(disk[op.img], op.size)
    BY <1>1 DEF GrowthFits, GrowPc, LowerPc
  <2>2. TableIn(f, op.size)
    BY <2>1, <1>00, <1>0, <1>3, Longer
  <2> QED
    BY <2>1, <2>2, <1>4, <1>5, <1>6 DEF GrowthFits, GrowPc, LowerPc, TableIn
<1> QED
  BY <1>5, <1>6, <1>7, <1>9

\* grow_lower_delta: the header, not yet synced.
LEMMA LowerHeaderTyped ==
  ASSUME Wide, LowerHeader
  PROVE  Wide'
<1> USE DEF Wide
<1>0. op \in OpType /\ op.img \in Images /\ op.size \in Nat
  BY OpFields
<1>00. cache[op.img] \in File /\ disk[op.img] \in File
  BY <1>0, FilesAt
<1>9. RestTyped'
  BY RestKept DEF LowerHeader, ghosts
<1> DEFINE c == cache[op.img]
           f == [c EXCEPT !.size = op.size, !.inuse = "no"]
<1>1. WriteOnly(op.img, f) /\ op.pc = "l_zero" /\ Goto("l_sync")
  BY DEF LowerHeader
<1>2. f \in File /\ f.size = op.size /\ f.blk = c.blk
  BY <1>0, <1>00 DEF File
<1> HIDE DEF f
<1>3. op.size >= c.size /\ TableIn(c, op.size) /\ TableIn(disk[op.img], op.size)
  BY <1>1 DEF GrowthFits, GrowPc, LowerPc
<1>31. c.size >= disk[op.img].size
  BY <1>0 DEF TablesFit
<1>32. op.size >= disk[op.img].size
  <2>1. c.size \in Nat /\ disk[op.img].size \in Nat
    BY <1>00, FileFields
  <2> QED
    BY <2>1, <1>0, <1>3, <1>31
<1>4. TableIn(f, op.size)
  BY <1>2, <1>3 DEF TableIn
<1>5. FilesTyped' /\ TablesFit'
  BY <1>0, <1>1, <1>2, <1>3, <1>32, <1>4, WriteOnlyFits
<1>6. op' \in OpType /\ op'.pc = "l_sync"
  BY <1>1, GotoType
<1>7. GrowthFits'
  BY <1>6, IdleFits DEF GrowPc, LowerPc
<1> QED
  BY <1>5, <1>6, <1>7, <1>9

\* grow_lower_delta: the fsync at the end.
LEMMA LowerSyncTyped ==
  ASSUME Wide, LowerSync
  PROVE  Wide'
<1> USE DEF Wide
<1>0. op \in OpType /\ op.img \in Images /\ op.size \in Nat
  BY OpFields
<1>00. cache[op.img] \in File /\ disk[op.img] \in File
  BY <1>0, FilesAt
<1>1. disk' = [disk EXCEPT ![op.img] = cache[op.img]] /\ cache' = cache
  BY DEF LowerSync, Synced
<1>2. FilesTyped'
  BY <1>1, <1>0 DEF FilesTyped
<1>4. FilesTyped' /\ TablesFit'
  <2> SUFFICES ASSUME NEW j \in Images
               PROVE  /\ disk'[j].size > 0 /\ cache[j].size >= disk'[j].size
                      /\ TableIn(cache[j], cache[j].size) /\ TableIn(disk'[j], cache[j].size)
    BY <1>1, <1>2 DEF TablesFit, TableIn
  <2>1. cache[j].size \in Nat /\ disk[j].size \in Nat
    BY FilesAt, FileFields
  <2>2. /\ cache[j].size >= disk[j].size /\ disk[j].size > 0
        /\ TableIn(cache[j], cache[j].size) /\ TableIn(disk[j], cache[j].size)
    BY DEF TablesFit
  <2>3. disk'[j] = IF j = op.img THEN cache[j] ELSE disk[j]
    BY <1>1, <1>0 DEF FilesTyped
  <2> QED
    BY <2>1, <2>2, <2>3
<1>5. RestTyped'
  BY RestKept DEF LowerSync, ghosts
<1>6. op' \in OpType /\ op'.pc = "idle"
  BY NoOpType DEF LowerSync
<1>7. GrowthFits'
  BY <1>6, IdleFits DEF GrowPc, LowerPc
<1> QED
  BY <1>4, <1>5, <1>6, <1>7

\* ploop_change_fmt_version begins when all deltas can be opened.
LEMMA ConvertTyped ==
  ASSUME Wide, NEW ver \in {1, 2}, Convert(ver)
  PROVE  Wide'
<1> USE DEF Wide
<1>0. op \in OpType /\ op.img \in Images /\ op.size \in Nat
  BY OpFields
<1>00. cache[op.img] \in File /\ disk[op.img] \in File
  BY <1>0, FilesAt
<1>1. op' = [NoOp EXCEPT !.pc = "c_backup", !.ver = ver]
  BY DEF Convert
<1>2. op' \in OpType /\ op'.pc = "c_backup"
  BY <1>1, ImagesNat, NoOpType DEF OpType
<1>3. FilesTyped' /\ TablesFit'
  BY DEF Convert, FilesTyped, TablesFit, TableIn
<1>4. RestTyped'
  BY RestKept DEF Convert, ghosts
<1>5. GrowthFits'
  BY <1>2, IdleFits DEF GrowPc, LowerPc
<1> QED
  BY <1>2, <1>3, <1>4, <1>5

\* The loops of ploop_change_fmt_version over the deltas.
LEMMA NextImageType ==
  ASSUME op \in OpType, NEW a \in Pc, NEW b \in Pc, NextImage(a, b)
  PROVE  op' \in OpType /\ op'.pc \in {a, b}
<1>1. op.img \in Images /\ 1 \in Images
  BY OpFields, ImagesNat
<1>2. CASE op.img < NImages
  <2>1. op.img + 1 \in Images
    BY <1>1, <1>2, Consts DEF Images
  <2>2. op' = [op EXCEPT !.pc = a, !.img = op.img + 1, !.i = 0]
    BY <1>2 DEF NextImage
  <2> QED
    BY <2>1, <2>2 DEF OpType
<1>3. CASE ~ (op.img < NImages)
  <2>2. op' = [op EXCEPT !.pc = b, !.img = 1, !.i = 0]
    BY <1>3 DEF NextImage
  <2> QED
    BY <1>1, <2>2 DEF OpType
<1> QED
  BY <1>2, <1>3

\* backup_idx_table
LEMMA BackupIndexTyped ==
  ASSUME Wide, BackupIndex
  PROVE  Wide'
<1> USE DEF Wide
<1>0. op \in OpType /\ op.img \in Images /\ op.size \in Nat
  BY OpFields
<1>00. cache[op.img] \in File /\ disk[op.img] \in File
  BY <1>0, FilesAt
<1> DEFINE c == cache[op.img]
           b == [c EXCEPT !.blk = SubSeq(@, 1, L1(c))]
<1>1. bak' = [bak EXCEPT ![op.img] = b]
  BY DEF BackupIndex
<1>2. b \in File
  <2>1. Len(c.blk) >= L1(c)
    BY <1>0 DEF TablesFit, TableIn, L1
  <2> QED
    BY <2>1, <1>00, BackupType
<1> HIDE DEF b
<1>4. FilesTyped' /\ TablesFit'
  BY DEF BackupIndex, FilesTyped, TablesFit, TableIn
<1>5. RestTyped'
  <2>1. UNCHANGED <<core, half, writes, faults>>
    BY DEF BackupIndex, ghosts
  <2>2. bak' \in [Images -> File \cup {NoBackup}]
    BY <1>0, <1>1, <1>2 DEF RestTyped
  <2> QED
    BY <2>1, <2>2 DEF RestTyped, Running
<1>6. op' \in OpType /\ op'.pc \in {"c_backup", "c_dirty"}
  BY NextImageType DEF BackupIndex
<1>7. GrowthFits'
  BY <1>6, IdleFits DEF GrowPc, LowerPc
<1> QED
  BY <1>4, <1>5, <1>6, <1>7

\* ploop_change_fmt_version marks a delta dirty.
LEMMA LockDeltaTyped ==
  ASSUME Wide, LockDelta
  PROVE  Wide'
<1> USE DEF Wide
<1>0. op \in OpType /\ op.img \in Images /\ op.size \in Nat
  BY OpFields
<1>00. cache[op.img] \in File /\ disk[op.img] \in File
  BY <1>0, FilesAt
<1> DEFINE f == [cache[op.img] EXCEPT !.inuse = "yes"]
<1>1. f \in File /\ f.size = cache[op.img].size /\ f.blk = cache[op.img].blk
  <2>1. cache[op.img] \in File
    BY <1>0, FilesAt
  <2> QED
    BY <2>1 DEF File
<1>2. WriteSync(op.img, f)
  BY DEF LockDelta
<1> HIDE DEF f
<1>3. Len(f.blk) >= Len(cache[op.img].blk)
  BY <1>1, FileFields
<1>4. FilesTyped' /\ TablesFit' /\ cache'[op.img] = f /\ disk'[op.img] = f
  BY <1>0, <1>1, <1>2, <1>3, Kept, WriteSyncFits
<1>5. RestTyped'
  BY RestKept DEF LockDelta, ghosts
<1>6. op' \in OpType /\ op'.pc = "c_mark" /\ op'.img = op.img /\ op'.size = op.size
  BY GotoType DEF LockDelta
<1>7. GrowthFits'
  BY <1>6, IdleFits DEF GrowPc, LowerPc
<1> QED
  BY <1>4, <1>5, <1>6, <1>7

\* ploop_change_fmt_version marks a delta as being converted.
LEMMA MarkDeltaTyped ==
  ASSUME Wide, MarkDelta
  PROVE  Wide'
<1> USE DEF Wide
<1>0. op \in OpType /\ op.img \in Images /\ op.size \in Nat
  BY OpFields
<1>00. cache[op.img] \in File /\ disk[op.img] \in File
  BY <1>0, FilesAt
<1> DEFINE f == [cache[op.img] EXCEPT !.conv = TRUE]
<1>1. f \in File /\ f.size = cache[op.img].size /\ f.blk = cache[op.img].blk
  <2>1. cache[op.img] \in File
    BY <1>0, FilesAt
  <2> QED
    BY <2>1 DEF File
<1>2. WriteSync(op.img, f)
  BY DEF MarkDelta
<1> HIDE DEF f
<1>3. Len(f.blk) >= Len(cache[op.img].blk)
  BY <1>1, FileFields
<1>4. FilesTyped' /\ TablesFit' /\ cache'[op.img] = f /\ disk'[op.img] = f
  BY <1>0, <1>1, <1>2, <1>3, Kept, WriteSyncFits
<1>5. RestTyped'
  BY RestKept DEF MarkDelta, ghosts
<1>6. op' \in OpType /\ op'.pc \in {"c_dirty", "c_index"}
  BY NextImageType DEF MarkDelta
<1>7. GrowthFits'
  BY <1>6, IdleFits DEF GrowPc, LowerPc
<1> QED
  BY <1>4, <1>5, <1>6, <1>7

\* change_fmt_version: a cluster of the table.
LEMMA ConvertIndexTyped ==
  ASSUME Wide, ConvertIndex
  PROVE  Wide'
<1> USE DEF Wide
<1>0. op \in OpType /\ op.img \in Images /\ op.size \in Nat
  BY OpFields
<1>00. cache[op.img] \in File /\ disk[op.img] \in File
  BY <1>0, FilesAt
<1> DEFINE c == cache[op.img]
           b == ConvBlock(c, op.i, op.ver)
           f == PWrite(c, op.i, b)
<1>1. op.i \in Nat /\ op.pc = "c_index"
  BY OpFields DEF ConvertIndex
<1>2. WriteOnly(op.img, f) /\ op' = [op EXCEPT !.i = op.i + 1]
  BY DEF ConvertIndex, ConvBlock
<1>21. b \in Cluster
  BY <1>1, <1>00, ConvBlockType
<1> HIDE DEF b
<1>3. f \in File /\ SameHeader(f, c) /\ Len(f.blk) >= Len(c.blk)
  BY <1>00, <1>1, <1>21, PWriteType
<1> HIDE DEF f
<1>31. f.size = c.size
  BY <1>3 DEF SameHeader
<1>4. FilesTyped' /\ TablesFit'
  BY <1>0, <1>2, <1>3, <1>31, Kept, WriteOnlyFits
<1>5. RestTyped'
  BY RestKept DEF ConvertIndex, ghosts
<1>6. op' \in OpType /\ op'.pc = "c_index"
  BY <1>0, <1>1, <1>2 DEF OpType
<1>7. GrowthFits'
  BY <1>6, IdleFits DEF GrowPc, LowerPc
<1> QED
  BY <1>4, <1>5, <1>6, <1>7

\* change_delta_version
LEMMA ConvertVersionTyped ==
  ASSUME Wide, ConvertVersion
  PROVE  Wide'
<1> USE DEF Wide
<1>0. op \in OpType /\ op.img \in Images /\ op.size \in Nat
  BY OpFields
<1>00. cache[op.img] \in File /\ disk[op.img] \in File
  BY <1>0, FilesAt
<1> DEFINE f == [cache[op.img] EXCEPT !.ver = op.ver]
<1>1. f \in File /\ f.size = cache[op.img].size /\ f.blk = cache[op.img].blk
  <2>1. cache[op.img] \in File
    BY <1>0, FilesAt
  <2> QED
    BY <2>1, OpFields DEF File
<1>2. WriteSync(op.img, f)
  BY DEF ConvertVersion
<1> HIDE DEF f
<1>3. Len(f.blk) >= Len(cache[op.img].blk)
  BY <1>1, FileFields
<1>4. FilesTyped' /\ TablesFit' /\ cache'[op.img] = f /\ disk'[op.img] = f
  BY <1>0, <1>1, <1>2, <1>3, Kept, WriteSyncFits
<1>5. RestTyped'
  BY RestKept DEF ConvertVersion, ghosts
<1>6. op' \in OpType /\ op'.pc \in {"c_index", "c_unmark"}
  BY NextImageType DEF ConvertVersion
<1>7. GrowthFits'
  BY <1>6, IdleFits DEF GrowPc, LowerPc
<1> QED
  BY <1>4, <1>5, <1>6, <1>7

\* ploop_change_fmt_version removes the mark of a delta.
LEMMA UnmarkDeltaTyped ==
  ASSUME Wide, UnmarkDelta
  PROVE  Wide'
<1> USE DEF Wide
<1>0. op \in OpType /\ op.img \in Images /\ op.size \in Nat
  BY OpFields
<1>00. cache[op.img] \in File /\ disk[op.img] \in File
  BY <1>0, FilesAt
<1> DEFINE f == [cache[op.img] EXCEPT !.conv = FALSE]
<1>1. f \in File /\ f.size = cache[op.img].size /\ f.blk = cache[op.img].blk
  <2>1. cache[op.img] \in File
    BY <1>0, FilesAt
  <2> QED
    BY <2>1 DEF File
<1>2. WriteSync(op.img, f)
  BY DEF UnmarkDelta
<1> HIDE DEF f
<1>3. Len(f.blk) >= Len(cache[op.img].blk)
  BY <1>1, FileFields
<1>4. FilesTyped' /\ TablesFit' /\ cache'[op.img] = f /\ disk'[op.img] = f
  BY <1>0, <1>1, <1>2, <1>3, Kept, WriteSyncFits
<1>5. RestTyped'
  BY RestKept DEF UnmarkDelta, ghosts
<1>6. op' \in OpType /\ op'.pc = "c_clear" /\ op'.img = op.img /\ op'.size = op.size
  BY GotoType DEF UnmarkDelta
<1>7. GrowthFits'
  BY <1>6, IdleFits DEF GrowPc, LowerPc
<1> QED
  BY <1>4, <1>5, <1>6, <1>7

\* ploop_change_fmt_version clears the dirty mark.
LEMMA UnlockDeltaTyped ==
  ASSUME Wide, UnlockDelta
  PROVE  Wide'
<1> USE DEF Wide
<1>0. op \in OpType /\ op.img \in Images /\ op.size \in Nat
  BY OpFields
<1>00. cache[op.img] \in File /\ disk[op.img] \in File
  BY <1>0, FilesAt
<1> DEFINE f == [cache[op.img] EXCEPT !.inuse = "no"]
<1>1. f \in File /\ f.size = cache[op.img].size /\ f.blk = cache[op.img].blk
  <2>1. cache[op.img] \in File
    BY <1>0, FilesAt
  <2> QED
    BY <2>1 DEF File
<1>2. WriteSync(op.img, f)
  BY DEF UnlockDelta
<1> HIDE DEF f
<1>3. Len(f.blk) >= Len(cache[op.img].blk)
  BY <1>1, FileFields
<1>4. FilesTyped' /\ TablesFit' /\ cache'[op.img] = f /\ disk'[op.img] = f
  BY <1>0, <1>1, <1>2, <1>3, Kept, WriteSyncFits
<1>5. RestTyped'
  BY RestKept DEF UnlockDelta, ghosts
<1>6. op' \in OpType /\ op'.pc \in {"c_unmark", "c_drop"}
  BY NextImageType DEF UnlockDelta
<1>7. GrowthFits'
  BY <1>6, IdleFits DEF GrowPc, LowerPc
<1> QED
  BY <1>4, <1>5, <1>6, <1>7

\* ploop_change_fmt_version unlinks the backups.
LEMMA DropBackupsTyped ==
  ASSUME Wide, DropBackups
  PROVE  Wide'
<1> USE DEF Wide
<1>0. op \in OpType /\ op.img \in Images /\ op.size \in Nat
  BY OpFields
<1>00. cache[op.img] \in File /\ disk[op.img] \in File
  BY <1>0, FilesAt
<1>4. FilesTyped' /\ TablesFit'
  BY DEF DropBackups, FilesTyped, TablesFit, TableIn
<1>5. RestTyped'
  BY DEF RestTyped, Running, DropBackups, ghosts
<1>6. op' \in OpType /\ op'.pc = "idle"
  BY NoOpType DEF DropBackups
<1>7. GrowthFits'
  BY <1>6, IdleFits DEF GrowPc, LowerPc
<1> QED
  BY <1>4, <1>5, <1>6, <1>7

\* ploop_mount_image takes the way of a restore if the base is marked.
LEMMA MountTyped ==
  ASSUME Wide, Mount
  PROVE  Wide'
<1> USE DEF Wide
<1>0. op \in OpType /\ op.img \in Images /\ op.size \in Nat
  BY OpFields
<1>00. cache[op.img] \in File /\ disk[op.img] \in File
  BY <1>0, FilesAt
<1>4. FilesTyped' /\ TablesFit'
  BY DEF Mount, FilesTyped, TablesFit, TableIn
<1>5. RestTyped'
  BY RestKept DEF Mount, ghosts
<1>6. op' \in OpType /\ op'.pc \in {"r_open", "k_check"}
  <2>1. PICK pc \in {"r_open", "k_check"}, img \in Images : op' = [NoOp EXCEPT !.pc = pc, !.img = img]
    <3>1. (IF cache[1].conv /\ NImages > 1 THEN 2 ELSE 1) \in Images
      BY Consts DEF Images
    <3> QED
      BY <3>1 DEF Mount
  <2> QED
    BY <2>1, NoOpType DEF OpType
<1>7. GrowthFits'
  BY <1>6, IdleFits DEF GrowPc, LowerPc
<1> QED
  BY <1>4, <1>5, <1>6, <1>7

\* The loop of check_and_restore_fmt_version.
LEMMA NextRestoreType ==
  ASSUME op \in OpType, NextRestore
  PROVE  op' \in OpType /\ op'.pc \in {"k_check", "r_open"}
<1>1. op.img \in Images /\ 1 \in Images
  BY OpFields, ImagesNat
<1>2. CASE op.img = 1
  <2>1. op' = [op EXCEPT !.pc = "k_check"]
    BY <1>2 DEF NextRestore
  <2> QED
    BY <2>1 DEF OpType
<1>3. CASE op.img # 1
  <2> DEFINE k == IF op.img = NImages THEN 1 ELSE op.img + 1
  <2>1. k \in Images
    BY <1>1, Consts DEF Images
  <2>2. op' = [op EXCEPT !.pc = "r_open", !.img = k]
    BY <1>3 DEF NextRestore
  <2> HIDE DEF k
  <2> QED
    BY <2>1, <2>2 DEF OpType
<1> QED
  BY <1>2, <1>3

\* The loop of check_deltas.
LEMMA NextCheckType ==
  ASSUME op \in OpType, NEW a \in Pc,
         op' = IF op.img = NImages THEN [op EXCEPT !.pc = "start"] ELSE [op EXCEPT !.pc = a, !.img = @ + 1]
  PROVE  op' \in OpType /\ op'.pc \in {"start", a}
<1>1. op.img \in Images
  BY OpFields
<1>2. CASE op.img = NImages
  <2>1. op' = [op EXCEPT !.pc = "start"]
    BY <1>2
  <2> QED
    BY <2>1 DEF OpType
<1>3. CASE op.img # NImages
  <2>1. op' = [op EXCEPT !.pc = a, !.img = op.img + 1]
    BY <1>3
  <2>2. op.img + 1 \in Images
    BY <1>1, <1>3, Consts DEF Images
  <2> QED
    BY <2>1, <2>2 DEF OpType
<1> QED
  BY <1>2, <1>3

\* restore_fmt_version: the delta is not marked.
LEMMA RestoreSkipTyped ==
  ASSUME Wide, RestoreSkip
  PROVE  Wide'
<1> USE DEF Wide
<1>0. op \in OpType /\ op.img \in Images /\ op.size \in Nat
  BY OpFields
<1>00. cache[op.img] \in File /\ disk[op.img] \in File
  BY <1>0, FilesAt
<1>4. FilesTyped' /\ TablesFit'
  BY DEF RestoreSkip, FilesTyped, TablesFit, TableIn
<1>5. RestTyped'
  BY RestKept DEF RestoreSkip, ghosts
<1>6. op' \in OpType /\ op'.pc \in {"k_check", "r_open"}
  BY NextRestoreType DEF RestoreSkip
<1>7. GrowthFits'
  BY <1>6, IdleFits DEF GrowPc, LowerPc
<1> QED
  BY <1>4, <1>5, <1>6, <1>7

\* restore_fmt_version: the backup does not belong to the delta.
LEMMA RestoreFailsTyped ==
  ASSUME Wide, RestoreFails
  PROVE  Wide'
<1> USE DEF Wide
<1>0. op \in OpType /\ op.img \in Images /\ op.size \in Nat
  BY OpFields
<1>00. cache[op.img] \in File /\ disk[op.img] \in File
  BY <1>0, FilesAt
<1>4. FilesTyped' /\ TablesFit'
  BY DEF RestoreFails, FilesTyped, TablesFit, TableIn
<1>5. RestTyped'
  BY RestKept DEF RestoreFails, ghosts
<1>6. op' \in OpType /\ op'.pc = "idle"
  BY NoOpType DEF RestoreFails
<1>7. GrowthFits'
  BY <1>6, IdleFits DEF GrowPc, LowerPc
<1> QED
  BY <1>4, <1>5, <1>6, <1>7

\* What is read from a backup, also past its end.
LEMMA BackedBlock ==
  ASSUME RestTyped, NEW k \in Images, NEW i \in Nat, i < L1(bak[k])
  PROVE  BlockAt(bak[k], i) \in Cluster
<1>1. CASE bak[k] \in File
  BY <1>1, BlockAtType, FileFields
<1>2. CASE bak[k] = NoBackup
  <2>1. NoBackup.blk = << >>
    BY DEF NoBackup
  <2>2. BlockAt(bak[k], i) = Zero
    BY <1>2, <2>1 DEF BlockAt, AllocHead
  <2> QED
    BY <2>2, ZeroType
<1> QED
  BY <1>1, <1>2 DEF RestTyped

\* do_restore_fmt_version: header and table of the backup, not yet synced.
LEMMA RestoreIndexTyped ==
  ASSUME Wide, RestoreIndex
  PROVE  Wide'
<1> USE DEF Wide
<1>0. op \in OpType /\ op.img \in Images /\ op.size \in Nat
  BY OpFields
<1>00. cache[op.img] \in File /\ disk[op.img] \in File
  BY <1>0, FilesAt
<1> DEFINE c == cache[op.img]
           b == bak[op.img]
           f == Restored(c, b)
<1>1. b.size = c.size /\ WriteOnly(op.img, f)
  BY DEF RestoreIndex, Restored
<1>2. b \in File
  <2>1. c.size > 0
    <3>1. c.size \in Nat /\ disk[op.img].size \in Nat
      BY <1>00, FileFields
    <3> QED
      BY <3>1, <1>0 DEF TablesFit
  <2>2. b \in File \cup {NoBackup}
    BY <1>0 DEF RestTyped
  <2>3. NoBackup.size = 0
    BY DEF NoBackup
  <2> QED
    BY <1>1, <2>1, <2>2, <2>3
<1> HIDE DEF b
<1>3. f \in File /\ f.size = c.size /\ Len(f.blk) >= Len(c.blk)
  BY <1>00, <1>1, <1>2, RestoredType
<1> HIDE DEF f
<1>4. FilesTyped' /\ TablesFit'
  BY <1>0, <1>1, <1>3, Kept, WriteOnlyFits
<1>5. RestTyped'
  BY RestKept DEF RestoreIndex, ghosts
<1>6. op' \in OpType /\ op'.pc = "r_unmark" /\ op'.img = op.img /\ op'.size = op.size
  BY <1>0 DEF RestoreIndex, OpType
<1>7. GrowthFits'
  BY <1>6, IdleFits DEF GrowPc, LowerPc
<1> QED
  BY <1>4, <1>5, <1>6, <1>7

\* do_restore_fmt_version: a cluster of the table.
LEMMA RestoreTableTyped ==
  ASSUME Wide, RestoreTable
  PROVE  Wide'
<1> USE DEF Wide
<1>0. op \in OpType /\ op.img \in Images /\ op.size \in Nat /\ op.i \in Nat
  BY OpFields
<1>00. cache[op.img] \in File /\ disk[op.img] \in File
  BY <1>0, FilesAt
<1> DEFINE c == cache[op.img]
           b == BlockAt(bak[op.img], op.i)
           f == PWrite(c, op.i, b)
<1>1. op.pc = "r_unmark" /\ WriteOnly(op.img, f) /\ op' = [op EXCEPT !.i = op.i + 1]
  BY DEF RestoreTable
<1>2. b \in Cluster
  BY <1>0, BackedBlock DEF RestoreTable
<1> HIDE DEF b
<1>3. f \in File /\ SameHeader(f, c) /\ Len(f.blk) >= Len(c.blk)
  BY <1>0, <1>00, <1>2, PWriteType
<1> HIDE DEF f
<1>31. f.size = c.size
  BY <1>3 DEF SameHeader
<1>4. FilesTyped' /\ TablesFit'
  BY <1>0, <1>1, <1>3, <1>31, Kept, WriteOnlyFits
<1>5. RestTyped'
  BY RestKept DEF RestoreTable, ghosts
<1>6. op' \in OpType /\ op'.pc = "r_unmark"
  BY <1>0, <1>1 DEF OpType
<1>7. GrowthFits'
  BY <1>6, IdleFits DEF GrowPc, LowerPc
<1> QED
  BY <1>4, <1>5, <1>6, <1>7

\* restore_fmt_version removes the mark.
LEMMA RestoreUnmarkTyped ==
  ASSUME Wide, RestoreUnmark
  PROVE  Wide'
<1> USE DEF Wide
<1>0. op \in OpType /\ op.img \in Images /\ op.size \in Nat
  BY OpFields
<1>00. cache[op.img] \in File /\ disk[op.img] \in File
  BY <1>0, FilesAt
<1> DEFINE f == [cache[op.img] EXCEPT !.conv = FALSE]
<1>1. f \in File /\ f.size = cache[op.img].size /\ f.blk = cache[op.img].blk
  <2>1. cache[op.img] \in File
    BY <1>0, FilesAt
  <2> QED
    BY <2>1 DEF File
<1>2. WriteSync(op.img, f)
  BY DEF RestoreUnmark
<1> HIDE DEF f
<1>3. Len(f.blk) >= Len(cache[op.img].blk)
  BY <1>1, FileFields
<1>4. FilesTyped' /\ TablesFit' /\ cache'[op.img] = f /\ disk'[op.img] = f
  BY <1>0, <1>1, <1>2, <1>3, Kept, WriteSyncFits
<1>5. RestTyped'
  BY RestKept DEF RestoreUnmark, ghosts
<1>6. op' \in OpType /\ op'.pc = "r_clear" /\ op'.img = op.img /\ op'.size = op.size
  BY GotoType DEF RestoreUnmark
<1>7. GrowthFits'
  BY <1>6, IdleFits DEF GrowPc, LowerPc
<1> QED
  BY <1>4, <1>5, <1>6, <1>7

\* restore_fmt_version clears the dirty mark.
LEMMA RestoreClearTyped ==
  ASSUME Wide, RestoreClear
  PROVE  Wide'
<1> USE DEF Wide
<1>0. op \in OpType /\ op.img \in Images /\ op.size \in Nat
  BY OpFields
<1>00. cache[op.img] \in File /\ disk[op.img] \in File
  BY <1>0, FilesAt
<1> DEFINE f == [cache[op.img] EXCEPT !.inuse = "no"]
<1>1. f \in File /\ f.size = cache[op.img].size /\ f.blk = cache[op.img].blk
  <2>1. cache[op.img] \in File
    BY <1>0, FilesAt
  <2> QED
    BY <2>1 DEF File
<1>2. WriteSync(op.img, f)
  BY DEF RestoreClear
<1> HIDE DEF f
<1>3. Len(f.blk) >= Len(cache[op.img].blk)
  BY <1>1, FileFields
<1>4. FilesTyped' /\ TablesFit' /\ cache'[op.img] = f /\ disk'[op.img] = f
  BY <1>0, <1>1, <1>2, <1>3, Kept, WriteSyncFits
<1>5. RestTyped'
  BY RestKept DEF RestoreClear, ghosts
<1>6. op' \in OpType /\ op'.pc = "r_unlink" /\ op'.img = op.img /\ op'.size = op.size
  BY GotoType DEF RestoreClear
<1>7. GrowthFits'
  BY <1>6, IdleFits DEF GrowPc, LowerPc
<1> QED
  BY <1>4, <1>5, <1>6, <1>7

\* restore_fmt_version unlinks the backup.
LEMMA RestoreUnlinkTyped ==
  ASSUME Wide, RestoreUnlink
  PROVE  Wide'
<1> USE DEF Wide
<1>0. op \in OpType /\ op.img \in Images /\ op.size \in Nat
  BY OpFields
<1>00. cache[op.img] \in File /\ disk[op.img] \in File
  BY <1>0, FilesAt
<1>4. FilesTyped' /\ TablesFit'
  BY DEF RestoreUnlink, FilesTyped, TablesFit, TableIn
<1>5. RestTyped'
  BY DEF RestTyped, Running, RestoreUnlink, ghosts
<1>6. op' \in OpType /\ op'.pc \in {"k_check", "r_open"}
  BY NextRestoreType DEF RestoreUnlink
<1>7. GrowthFits'
  BY <1>6, IdleFits DEF GrowPc, LowerPc
<1> QED
  BY <1>4, <1>5, <1>6, <1>7

\* ploop_check: the image is clean.
LEMMA CheckSkipTyped ==
  ASSUME Wide, CheckSkip
  PROVE  Wide'
<1> USE DEF Wide
<1>0. op \in OpType /\ op.img \in Images /\ op.size \in Nat
  BY OpFields
<1>00. cache[op.img] \in File /\ disk[op.img] \in File
  BY <1>0, FilesAt
<1>4. FilesTyped' /\ TablesFit'
  BY DEF CheckSkip, FilesTyped, TablesFit, TableIn
<1>5. RestTyped'
  BY RestKept DEF CheckSkip, ghosts
<1>6. op' \in OpType /\ op'.pc \in {"start", "k_check"}
  <2>1. op' = IF op.img = NImages THEN [op EXCEPT !.pc = "start"] ELSE [op EXCEPT !.pc = "k_check", !.img = @ + 1]
    <3>1. op.pc = "k_check"
      BY DEF CheckSkip
    <3>2. [op EXCEPT !.img = @ + 1] = [op EXCEPT !.pc = "k_check", !.img = @ + 1]
      BY <3>1, <1>0 DEF OpType
    <3> QED
      BY <3>2 DEF CheckSkip, NextCheck
  <2> QED
    BY <2>1, NextCheckType
<1>7. GrowthFits'
  BY <1>6, IdleFits DEF GrowPc, LowerPc
<1> QED
  BY <1>4, <1>5, <1>6, <1>7

\* ploop_check: the image is not repaired.
LEMMA CheckRefusedTyped ==
  ASSUME Wide, CheckRefused
  PROVE  Wide'
<1> USE DEF Wide
<1>0. op \in OpType /\ op.img \in Images /\ op.size \in Nat
  BY OpFields
<1>00. cache[op.img] \in File /\ disk[op.img] \in File
  BY <1>0, FilesAt
<1>4. FilesTyped' /\ TablesFit'
  BY DEF CheckRefused, FilesTyped, TablesFit, TableIn
<1>5. RestTyped'
  BY RestKept DEF CheckRefused, ghosts
<1>6. op' \in OpType /\ op'.pc = "idle"
  BY NoOpType DEF CheckRefused
<1>7. GrowthFits'
  BY <1>6, IdleFits DEF GrowPc, LowerPc
<1> QED
  BY <1>4, <1>5, <1>6, <1>7

\* ploop_check: a repair keeps the header and the table.
LEMMA CheckRepairTyped ==
  ASSUME Wide, CheckRepair
  PROVE  Wide'
<1> USE DEF Wide
<1>0. op \in OpType /\ op.img \in Images /\ op.size \in Nat
  BY OpFields
<1>00. cache[op.img] \in File /\ disk[op.img] \in File
  BY <1>0, FilesAt
<1> DEFINE c == cache[op.img]
           f == Repaired(c)
<1>1. WriteOnly(op.img, f) /\ ~ Fatal(c)
  BY DEF CheckRepair, Refused
<1>2. /\ TableIn(c, c.size) /\ TableIn(disk[op.img], c.size) /\ c.size >= disk[op.img].size
  BY <1>0 DEF TablesFit
<1>3. f \in File /\ SameHeader(f, c) /\ Len(f.blk) >= L1(c)
  BY <1>00, <1>1, <1>2, RepairedType DEF TableIn, L1
<1> HIDE DEF f
<1>31. f.size = c.size /\ TableIn(f, f.size)
  BY <1>3 DEF SameHeader, TableIn, L1
<1>4. FilesTyped' /\ TablesFit'
  BY <1>0, <1>1, <1>2, <1>3, <1>31, WriteOnlyFits
<1>5. RestTyped'
  BY RestKept DEF CheckRepair, ghosts
<1>6. op' \in OpType /\ op'.pc = "k_hdr" /\ op'.img = op.img /\ op'.size = op.size
  BY GotoType DEF CheckRepair
<1>7. GrowthFits'
  BY <1>6, IdleFits DEF GrowPc, LowerPc
<1> QED
  BY <1>4, <1>5, <1>6, <1>7

\* ploop_check clears the dirty mark.
LEMMA CheckHeaderTyped ==
  ASSUME Wide, CheckHeader
  PROVE  Wide'
<1> USE DEF Wide
<1>0. op \in OpType /\ op.img \in Images /\ op.size \in Nat
  BY OpFields
<1>00. cache[op.img] \in File /\ disk[op.img] \in File
  BY <1>0, FilesAt
<1> DEFINE f == [cache[op.img] EXCEPT !.inuse = "no"]
<1>1. f \in File /\ f.size = cache[op.img].size /\ f.blk = cache[op.img].blk
  <2>1. cache[op.img] \in File
    BY <1>0, FilesAt
  <2> QED
    BY <2>1 DEF File
<1>2. WriteSync(op.img, f)
  BY DEF CheckHeader
<1> HIDE DEF f
<1>3. Len(f.blk) >= Len(cache[op.img].blk)
  BY <1>1, FileFields
<1>4. FilesTyped' /\ TablesFit' /\ cache'[op.img] = f /\ disk'[op.img] = f
  BY <1>0, <1>1, <1>2, <1>3, Kept, WriteSyncFits
<1>5. RestTyped'
  BY RestKept DEF CheckHeader, ghosts
<1>6. op' \in OpType /\ op'.pc \in {"start", "k_check"}
  BY NextCheckType DEF CheckHeader
<1>7. GrowthFits'
  BY <1>6, IdleFits DEF GrowPc, LowerPc
<1> QED
  BY <1>4, <1>5, <1>6, <1>7

\* The device starts and marks the top delta.
LEMMA StartTyped ==
  ASSUME Wide, Start
  PROVE  Wide'
<1> USE DEF Wide
<1>0. op \in OpType /\ op.img \in Images /\ op.size \in Nat
  BY OpFields
<1>00. cache[op.img] \in File /\ disk[op.img] \in File
  BY <1>0, FilesAt
<1> DEFINE f == [cache[Top] EXCEPT !.inuse = "yes"]
<1>1. f \in File /\ f.size = cache[Top].size /\ f.blk = cache[Top].blk
  <2>1. cache[Top] \in File
    BY <1>0, ImagesNat, FilesAt
  <2> QED
    BY <2>1 DEF File
<1>2. WriteSync(Top, f)
  BY DEF Start
<1> HIDE DEF f
<1>3. Len(f.blk) >= Len(cache[Top].blk)
  BY <1>1, FileFields
<1>4. FilesTyped' /\ TablesFit' /\ cache'[Top] = f /\ disk'[Top] = f
  BY <1>0, ImagesNat, <1>1, <1>2, <1>3, Kept, WriteSyncFits
<1>5. RestTyped'
  <2>1. UNCHANGED <<bak, half, writes, faults>> /\ core' = [i \in Images |-> MapOf(cache[i])]
    BY DEF Start
  <2>2. \A i \in Images : IsMap(core'[i])
    BY <2>1, FilesAt, MapOfType
  <2>3. DOMAIN core' = Images
    BY <2>1
  <2>4. core' # << >>
    BY <2>3, ImagesNat
  <2> QED
    BY <2>1, <2>2, <2>3, <2>4 DEF RestTyped, Running
<1>6. op' \in OpType /\ op'.pc = "idle"
  BY NoOpType DEF Start
<1>7. GrowthFits'
  BY <1>6, IdleFits DEF GrowPc, LowerPc
<1> QED
  BY <1>4, <1>5, <1>6, <1>7

\* The device stops and clears the mark of the top delta.
LEMMA UmountTyped ==
  ASSUME Wide, Umount
  PROVE  Wide'
<1> USE DEF Wide
<1>0. op \in OpType /\ op.img \in Images /\ op.size \in Nat
  BY OpFields
<1>00. cache[op.img] \in File /\ disk[op.img] \in File
  BY <1>0, FilesAt
<1> DEFINE f == [cache[Top] EXCEPT !.inuse = "no"]
<1>1. f \in File /\ f.size = cache[Top].size /\ f.blk = cache[Top].blk
  <2>1. cache[Top] \in File
    BY <1>0, ImagesNat, FilesAt
  <2> QED
    BY <2>1 DEF File
<1>2. WriteSync(Top, f)
  BY DEF Umount
<1> HIDE DEF f
<1>3. Len(f.blk) >= Len(cache[Top].blk)
  BY <1>1, FileFields
<1>4. FilesTyped' /\ TablesFit' /\ cache'[Top] = f /\ disk'[Top] = f
  BY <1>0, ImagesNat, <1>1, <1>2, <1>3, Kept, WriteSyncFits
<1>5. RestTyped'
  BY DEF RestTyped, Running, Umount, ghosts
<1>6. op' \in OpType /\ op'.pc = "idle"
  BY NoOpType DEF Umount
<1>7. GrowthFits'
  BY <1>6, IdleFits DEF GrowPc, LowerPc
<1> QED
  BY <1>4, <1>5, <1>6, <1>7

\* A guest write to a mapped cluster.
LEMMA GuestOverwriteTyped ==
  ASSUME Wide, NEW clu \in 0 .. MaxSize - 1, GuestOverwrite(clu)
  PROVE  Wide'
<1> USE DEF Wide
<1>0. op \in OpType /\ op.img \in Images /\ op.size \in Nat
  BY OpFields
<1>00. cache[op.img] \in File /\ disk[op.img] \in File
  BY <1>0, FilesAt
<1> DEFINE f == PWrite(cache[Top], core[Top][clu], Data(writes + 1))
<1>1. WriteSync(Top, f)
  BY DEF GuestOverwrite
<1>2. cache[Top] \in File /\ disk[Top] \in File /\ Top \in Images
  BY ImagesNat, FilesAt
<1>21. core[Top][clu] \in Nat /\ writes + 1 \in Nat
  BY <1>2 DEF GuestOverwrite, RestTyped, IsMap
<1>3. f \in File
  BY <1>2, <1>21, ZeroType, PWriteType
<1>31. SameHeader(f, cache[Top]) /\ Len(f.blk) >= Len(cache[Top].blk)
  BY <1>2, <1>21, ZeroType, PWriteType
<1> HIDE DEF f
<1>32. f.size = cache[Top].size
  BY <1>31 DEF SameHeader
<1>4. /\ FilesTyped' /\ TablesFit' /\ cache'[Top] = f /\ disk'[Top] = f
      /\ \A j \in Images : j # Top => cache'[j] = cache[j] /\ disk'[j] = disk[j]
  BY <1>1, <1>2, <1>3, <1>31, <1>32, Kept, WriteSyncFits
<1>5. RestTyped'
  BY <1>21 DEF RestTyped, Running, GuestOverwrite
<1>6. op' = op
  BY DEF GuestOverwrite
<1>7. GrowthFits'
  <2>1. op'.pc = op.pc /\ op'.img = op.img /\ op'.size = op.size /\ op'.i = op.i
    BY <1>6
  <2>2. CASE op.img = Top
    <3>1. \A s \in Nat : TableIn(cache[Top], s) => TableIn(f, s)
      BY <1>2, <1>3, <1>31, Longer
    <3>2. TableIn(cache[Top], op.size) => TableIn(f, op.size)
      BY <3>1, <1>0
    <3> QED
      BY <2>1, <2>2, <3>2, <1>4, <1>32, <1>0 DEF GrowthFits, TableIn, GrowPc, LowerPc
  <2>3. CASE op.img # Top
    <3>1. cache'[op.img] = cache[op.img] /\ disk'[op.img] = disk[op.img]
      BY <2>3, <1>4, <1>0
    <3> QED
      BY <2>1, <3>1 DEF GrowthFits, TableIn
  <2> QED
    BY <2>2, <2>3
<1> QED
  BY <1>0, <1>4, <1>5, <1>6, <1>7

\* A guest write to a new cluster.
LEMMA GuestAllocateTyped ==
  ASSUME Wide, NEW clu \in 0 .. MaxSize - 1, GuestAllocate(clu)
  PROVE  Wide'
<1> USE DEF Wide
<1>0. op \in OpType /\ op.img \in Images /\ op.size \in Nat
  BY OpFields
<1>00. cache[op.img] \in File /\ disk[op.img] \in File
  BY <1>0, FilesAt
<1> DEFINE f == PWrite(cache[Top], Len(cache[Top].blk), Data(writes + 1))
<1>1. WriteSync(Top, f)
  BY DEF GuestAllocate, AllocHead
<1>2. cache[Top] \in File /\ disk[Top] \in File /\ Top \in Images
  BY ImagesNat, FilesAt
<1>21. Len(cache[Top].blk) \in Nat /\ writes + 1 \in Nat /\ clu \in Nat
  BY <1>2, FileFields DEF RestTyped
<1>3. f \in File
  BY <1>2, <1>21, ZeroType, PWriteType
<1>31. SameHeader(f, cache[Top]) /\ Len(f.blk) >= Len(cache[Top].blk)
  BY <1>2, <1>21, ZeroType, PWriteType
<1> HIDE DEF f
<1>32. f.size = cache[Top].size
  BY <1>31 DEF SameHeader
<1>4. /\ FilesTyped' /\ TablesFit' /\ cache'[Top] = f /\ disk'[Top] = f
      /\ \A j \in Images : j # Top => cache'[j] = cache[j] /\ disk'[j] = disk[j]
  BY <1>1, <1>2, <1>3, <1>31, <1>32, Kept, WriteSyncFits
<1>5. RestTyped'
  BY <1>21 DEF RestTyped, Running, GuestAllocate
<1>6. op' = op
  BY DEF GuestAllocate
<1>7. GrowthFits'
  <2>1. op'.pc = op.pc /\ op'.img = op.img /\ op'.size = op.size /\ op'.i = op.i
    BY <1>6
  <2>2. CASE op.img = Top
    <3>1. \A s \in Nat : TableIn(cache[Top], s) => TableIn(f, s)
      BY <1>2, <1>3, <1>31, Longer
    <3>2. TableIn(cache[Top], op.size) => TableIn(f, op.size)
      BY <3>1, <1>0
    <3> QED
      BY <2>1, <2>2, <3>2, <1>4, <1>32, <1>0 DEF GrowthFits, TableIn, GrowPc, LowerPc
  <2>3. CASE op.img # Top
    <3>1. cache'[op.img] = cache[op.img] /\ disk'[op.img] = disk[op.img]
      BY <2>3, <1>4, <1>0
    <3> QED
      BY <2>1, <3>1 DEF GrowthFits, TableIn
  <2> QED
    BY <2>2, <2>3
<1> QED
  BY <1>0, <1>4, <1>5, <1>6, <1>7

\* The index of that cluster.
LEMMA GuestMapTyped ==
  ASSUME Wide, GuestMap
  PROVE  Wide'
<1> USE DEF Wide
<1>0. op \in OpType /\ op.img \in Images /\ op.size \in Nat
  BY OpFields
<1>00. cache[op.img] \in File /\ disk[op.img] \in File
  BY <1>0, FilesAt
<1>01. PICK clu \in half :
         LET c == cache[Top]
             iblk == AllocHead(c) - 1
         IN  /\ WriteSync(Top, PWriteSlot(c, clu, Encode(iblk, c.ver)))
             /\ core' = [core EXCEPT ![Top][clu] = iblk]
  BY DEF GuestMap
<1> DEFINE n == Len(cache[Top].blk) - 1
           w == Encode(n, cache[Top].ver)
           f == PWriteSlot(cache[Top], clu, w)
<1>1. WriteSync(Top, f)
  BY <1>01 DEF AllocHead
<1>2. cache[Top] \in File /\ disk[Top] \in File /\ Top \in Images
  BY ImagesNat, FilesAt
<1>21. n \in Nat /\ clu \in Nat
  <2>1. TableIn(cache[Top], cache[Top].size)
    BY <1>2 DEF TablesFit
  <2> QED
    BY <2>1, <1>2, TableNat DEF TableIn, RestTyped
<1>22. w \in Nat
  BY <1>21, EncodeType
<1>23. core' = [core EXCEPT ![Top][clu] = n]
  BY <1>01 DEF AllocHead
<1> HIDE DEF w, n
<1>3. f \in File
  BY <1>2, <1>21, <1>22, PWriteSlotType
<1>31. SameHeader(f, cache[Top]) /\ Len(f.blk) >= Len(cache[Top].blk)
  BY <1>2, <1>21, <1>22, PWriteSlotType
<1> HIDE DEF f
<1>32. f.size = cache[Top].size
  BY <1>31 DEF SameHeader
<1>4. /\ FilesTyped' /\ TablesFit' /\ cache'[Top] = f /\ disk'[Top] = f
      /\ \A j \in Images : j # Top => cache'[j] = cache[j] /\ disk'[j] = disk[j]
  BY <1>1, <1>2, <1>3, <1>31, <1>32, Kept, WriteSyncFits
<1>5. RestTyped'
  <2>1. Running
    BY DEF RestTyped
  <2>2. DOMAIN core = Images /\ \A i \in Images : IsMap(core[i])
    BY <2>1 DEF RestTyped
  <2> DEFINE m == [core[Top] EXCEPT ![clu] = n]
  <2>3. core' = [core EXCEPT ![Top] = m]
    BY <1>23
  <2>4. IsMap(m)
    BY <1>2, <1>21, <2>2 DEF IsMap
  <2> HIDE DEF m
  <2>5. DOMAIN core' = Images /\ \A i \in Images : IsMap(core'[i])
    BY <1>2, <2>2, <2>3, <2>4
  <2>6. UNCHANGED <<bak, writes, faults>> /\ half' = {}
    BY DEF GuestMap
  <2> QED
    BY <2>5, <2>6 DEF RestTyped
<1>6. op' = op
  BY DEF GuestMap
<1>7. GrowthFits'
  <2>1. op'.pc = op.pc /\ op'.img = op.img /\ op'.size = op.size /\ op'.i = op.i
    BY <1>6
  <2>2. CASE op.img = Top
    <3>1. \A s \in Nat : TableIn(cache[Top], s) => TableIn(f, s)
      BY <1>2, <1>3, <1>31, Longer
    <3>2. TableIn(cache[Top], op.size) => TableIn(f, op.size)
      BY <3>1, <1>0
    <3> QED
      BY <2>1, <2>2, <3>2, <1>4, <1>32, <1>0 DEF GrowthFits, TableIn, GrowPc, LowerPc
  <2>3. CASE op.img # Top
    <3>1. cache'[op.img] = cache[op.img] /\ disk'[op.img] = disk[op.img]
      BY <2>3, <1>4, <1>0
    <3> QED
      BY <2>1, <3>1 DEF GrowthFits, TableIn
  <2> QED
    BY <2>2, <2>3
<1> QED
  BY <1>0, <1>4, <1>5, <1>6, <1>7

\* The process is killed: the files stay as they are.
LEMMA KillTyped ==
  ASSUME Wide, Kill
  PROVE  Wide'
<1> USE DEF Wide
<1>0. op \in OpType /\ op.img \in Images /\ op.size \in Nat
  BY OpFields
<1>00. cache[op.img] \in File /\ disk[op.img] \in File
  BY <1>0, FilesAt
<1>4. FilesTyped' /\ TablesFit'
  BY DEF Kill, FilesTyped, TablesFit, TableIn
<1>5. RestTyped'
  BY DEF RestTyped, Running, Kill, Fault
<1>6. op' \in OpType /\ op'.pc = "idle"
  BY NoOpType DEF Kill
<1>7. GrowthFits'
  BY <1>6, IdleFits DEF GrowPc, LowerPc
<1> QED
  BY <1>4, <1>5, <1>6, <1>7

\* A failed backup removes all backups, before any delta is marked.
LEMMA BackupFailsTyped ==
  ASSUME Wide, BackupFails
  PROVE  Wide'
<1> USE DEF Wide
<1>0. op \in OpType /\ op.img \in Images /\ op.size \in Nat
  BY OpFields
<1>00. cache[op.img] \in File /\ disk[op.img] \in File
  BY <1>0, FilesAt
<1>4. FilesTyped' /\ TablesFit'
  BY DEF BackupFails, FilesTyped, TablesFit, TableIn
<1>5. RestTyped'
  BY DEF RestTyped, Running, BackupFails, ghosts
<1>6. op' \in OpType /\ op'.pc = "idle"
  BY NoOpType DEF BackupFails
<1>7. GrowthFits'
  BY <1>6, IdleFits DEF GrowPc, LowerPc
<1> QED
  BY <1>4, <1>5, <1>6, <1>7

\* A power loss keeps any part of what was not synced.
LEMMA PowerLossTyped ==
  ASSUME Wide, PowerLoss
  PROVE  Wide'
<1> USE DEF Wide
<1>0. op \in OpType /\ op.img \in Images /\ op.size \in Nat
  BY OpFields
<1>00. cache[op.img] \in File /\ disk[op.img] \in File
  BY <1>0, FilesAt
<1>1. PICK left \in [Images -> UNION {Leftover(disk[i], cache[i]) : i \in Images}] :
         /\ \A i \in Images : left[i] \in Leftover(disk[i], cache[i])
         /\ cache' = left
         /\ disk' = left
  BY DEF PowerLoss
<1>2. ASSUME NEW i \in Images
      PROVE  left[i] \in File /\ left[i].size > 0 /\ TableIn(left[i], left[i].size)
  <2> DEFINE g == left[i]
             d == disk[i]
             c == cache[i]
  <2>1. g \in Leftover(d, c) /\ d \in File /\ c \in File
    BY <1>1, FilesAt
  <2>2. /\ d.size > 0 /\ c.size >= d.size
        /\ TableIn(c, c.size) /\ TableIn(d, c.size)
    BY DEF TablesFit
  <2> HIDE DEF g, c, d
  <2>3. /\ g \in File
        /\ SameHeader(g, d) \/ SameHeader(g, c)
        /\ Len(g.blk) = Len(d.blk) \/ Len(g.blk) = Len(c.blk)
    BY <2>1, LeftoverType
  <2>4. g.size = d.size \/ g.size = c.size
    BY <2>3 DEF SameHeader
  <2>5. d.size \in Nat /\ c.size \in Nat /\ FirstBlock(d.size) \in Nat /\ FirstBlock(c.size) \in Nat
    BY <2>1, TableNat
  <2>6. FirstBlock(d.size) <= FirstBlock(c.size)
    BY <2>2, <2>5, FirstBlockMono
  <2>7. Len(g.blk) >= FirstBlock(c.size) /\ Len(g.blk) \in Nat
    BY <2>2, <2>3, FileFields DEF TableIn
  <2>8. Len(g.blk) >= FirstBlock(g.size)
    BY <2>4, <2>5, <2>6, <2>7
  <2>9. g.size > 0
    BY <2>2, <2>4, <2>5
  <2> QED
    BY <2>3, <2>8, <2>9 DEF TableIn, g
<1>3. FilesTyped'
  BY <1>1, <1>2 DEF FilesTyped
<1>4. FilesTyped' /\ TablesFit'
  <2>1. \A i \in Images : left[i].size \in Nat
    BY <1>2, FileFields
  <2> QED
    BY <2>1, <1>1, <1>2, <1>3 DEF TablesFit, TableIn
<1>5. RestTyped'
  BY DEF RestTyped, Running, PowerLoss, Fault
<1>6. op' \in OpType /\ op'.pc = "idle"
  BY NoOpType DEF PowerLoss
<1>7. GrowthFits'
  BY <1>6, IdleFits DEF GrowPc, LowerPc
<1> QED
  BY <1>4, <1>5, <1>6, <1>7

-----------------------------------------------------------------------------
(* Marks and versions: what one step may do to them.                       *)

SameMarks(f, g) == f.ver = g.ver /\ f.inuse = g.inuse /\ f.conv = g.conv

\* files of image k whose marks change to those of f, synced
MarksSynced(k, ver, inuse, conv) ==
  /\ \A j \in Images : j # k => cache'[j] = cache[j] /\ disk'[j] = disk[j]
  /\ cache'[k].ver = ver /\ cache'[k].inuse = inuse /\ cache'[k].conv = conv
  /\ disk'[k].ver = ver /\ disk'[k].inuse = inuse /\ disk'[k].conv = conv

\* A synced header is the same in the cache and on the platter.
LEMMA MarksWritten ==
  ASSUME FilesTyped, NEW k \in Images, NEW f, WriteSync(k, f)
  PROVE  MarksSynced(k, f.ver, f.inuse, f.conv)
BY DEF WriteSync, MarksSynced, FilesTyped

\* Where ploop_change_fmt_version is after one delta.
LEMMA NextImageAt ==
  ASSUME op \in OpType, NEW a \in Pc, NEW b \in Pc, NextImage(a, b)
  PROVE  /\ op'.ver = op.ver
         /\ \/ op.img < NImages /\ op'.pc = a /\ op'.img = op.img + 1
            \/ op.img = NImages /\ op'.pc = b /\ op'.img = 1
BY OpFields, Consts DEF NextImage, OpType, Images

\* Where check_and_restore_fmt_version is after one delta.
LEMMA NextRestoreAt ==
  ASSUME op \in OpType, NextRestore, op.pc \in Restore
  PROVE  \/ op.img = 1 /\ op'.pc = "k_check" /\ op'.img = 1
         \/ op.img # 1 /\ op.img = NImages /\ op'.pc = "r_open" /\ op'.img = 1
         \/ op.img # 1 /\ op.img < NImages /\ op'.pc = "r_open" /\ op'.img = op.img + 1
BY OpFields, Consts DEF NextRestore, OpType, Images

\* A step with the same delta.
LEMMA GotoAt ==
  ASSUME op \in OpType, NEW pc \in Pc, Goto(pc)
  PROVE  op'.pc = pc /\ op'.img = op.img /\ op'.ver = op.ver
BY DEF OpType, Goto

\* a step that writes data, or syncs what was written: the marks stay
LEMMA DataStep ==
  ASSUME Wide, VersionsInv,
         \A j \in Images : /\ SameMarks(cache'[j], cache[j])
                           /\ SameMarks(disk'[j], disk[j]) \/ SameMarks(disk'[j], cache[j]),
         bak' = bak, Running' => Running,
         op'.img = op.img, op'.ver = op.ver,
         \/ op'.pc = op.pc
         \/ op.pc \in GrowSteps \ {"g_dirty"} /\ op'.pc \in GrowSteps
         \/ op.pc \in Lower /\ op'.pc \in Lower
         \/ op.pc = "k_check" /\ op'.pc = "k_hdr" /\ ~ cache[op.img].conv
  PROVE  VersionsInv'
<1>0. op.img \in Images
  BY OpFields DEF Wide
<1>00. op'.pc \in GrowSteps <=> op.pc \in GrowSteps
  BY DEF GrowSteps, Lower
<1>1. HeadersAgree'
  BY DEF VersionsInv, HeadersAgree, SameMarks
<1>2. ASSUME NEW v \in {1, 2} PROVE BackTo(v) => BackTo(v)'
  BY <1>00 DEF BackTo, SameMarks
<1>3. Versions'
  BY <1>2, ImagesNat DEF VersionsInv, Versions, SameMarks
<1>4. Phase'
  <2>1. \A j \in Images : /\ cache'[j].conv = cache[j].conv /\ cache'[j].ver = cache[j].ver
                         /\ cache'[j].inuse = cache[j].inuse
    BY DEF SameMarks
  <2>2. CASE op'.pc = op.pc
    BY <1>0, <2>1, <2>2, ImagesNat DEF VersionsInv, Phase
  <2>3. CASE op.pc \in GrowSteps \ {"g_dirty"} /\ op'.pc \in GrowSteps
    <3> QED
      BY <1>0, <2>1, <2>3, ImagesNat DEF VersionsInv, Phase, GrowSteps, Lower, Lock, Restore, CheckPc
  <2>4. CASE op.pc \in Lower /\ op'.pc \in Lower
    BY <1>0, <2>1, <2>4, ImagesNat DEF VersionsInv, Phase, GrowSteps, Lower, Lock, Restore, CheckPc
  <2>5. CASE op.pc = "k_check" /\ op'.pc = "k_hdr" /\ ~ cache[op.img].conv
    BY <1>0, <2>1, <2>5, ImagesNat DEF VersionsInv, Phase, GrowSteps, Lower, Lock, Restore, CheckPc
  <2> QED
    BY <2>2, <2>3, <2>4, <2>5
<1> QED
  BY <1>1, <1>3, <1>4 DEF VersionsInv

\* When no operation runs, Phase speaks of the device only.
LEMMA PhaseIdle ==
  ASSUME op'.pc = "idle", Running' => \A i \in Images : ~ cache'[i].conv
  PROVE  Phase'
BY DEF Phase, GrowSteps, Lower, Lock, Restore, CheckPc

\* nothing but the step of the operation changes
LEMMA ControlStep ==
  ASSUME VersionsInv, UNCHANGED <<cache, disk, bak>>,
         op'.pc \in GrowSteps => op.pc \in GrowSteps /\ op'.img = op.img
  PROVE  HeadersAgree' /\ Versions'
<1>1. HeadersAgree'
  BY DEF VersionsInv, HeadersAgree
<1>2. ASSUME NEW v \in {1, 2} PROVE BackTo(v) => BackTo(v)'
  BY DEF BackTo
<1> QED
  BY <1>1, <1>2 DEF VersionsInv, Versions

-----------------------------------------------------------------------------
(* Marks and versions, action by action.                                   *)

\* grow_delta: the gap before the longer table is appended.
LEMMA GrowAppendVersions ==
  ASSUME Wide, VersionsInv, GrowAppend
  PROVE  VersionsInv'
<1>0. op \in OpType /\ op.img \in Images /\ FilesTyped
  BY OpFields DEF Wide
<1>00. cache[op.img] \in File
  BY <1>0, FilesAt
<1> DEFINE c == cache[op.img]
           l1 == FirstBlock(op.size)
           gap == IF Len(c.blk) < l1 THEN l1 - Len(c.blk) ELSE 0
           f == [c EXCEPT !.blk = @ \o [k \in 1 .. gap |-> Zero]]
<1>01. op.size \in Nat
  BY <1>0, OpFields
<1>1. /\ WriteOnly(op.img, f)
      /\ op' = [op EXCEPT !.pc = "g_find", !.i = L1(c), !.end = l1 - gap]
  BY DEF GrowAppend, AllocHead
<1>11. gap \in Nat
  <2>1. l1 \in Nat /\ Len(c.blk) \in Nat
    BY <1>00, <1>01, FirstBlockNat, FileFields
  <2> HIDE DEF l1
  <2> QED
    BY <2>1
<1> HIDE DEF gap, l1
<1>2. SameHeader(f, c)
  BY <1>00, <1>11, AppendedType
<1> HIDE DEF f
<1>80. cache' = [cache EXCEPT ![op.img] = f] /\ disk' = disk
  BY <1>1 DEF WriteOnly, WriteSync, SyncWrite, Synced
<1>81. SameMarks(f, cache[op.img])
  BY <1>2 DEF SameHeader, SameMarks
<1>82. \A j \in Images : /\ SameMarks(cache'[j], cache[j])
                         /\ SameMarks(disk'[j], disk[j]) \/ SameMarks(disk'[j], cache[j])
  BY <1>0, <1>80, <1>81, ImagesNat DEF FilesTyped, SameMarks
<1>83. bak' = bak /\ (Running' => Running)
  BY DEF GrowAppend, Running
<1>84. op'.img = op.img /\ op'.ver = op.ver /\ op.pc \in GrowSteps \ {"g_dirty"} /\ op'.pc \in GrowSteps
  BY <1>0, <1>1 DEF OpType, GrowAppend, GrowSteps
<1> QED
  BY <1>82, <1>83, <1>84, DataStep

\* relocate_block: a cluster is copied to the end of the file.
LEMMA RelocateDataVersions ==
  ASSUME Wide, VersionsInv, RelocateData
  PROVE  VersionsInv'
<1>0. op \in OpType /\ op.img \in Images /\ FilesTyped
  BY OpFields DEF Wide
<1>00. cache[op.img] \in File
  BY <1>0, FilesAt
<1> DEFINE c == cache[op.img]
           found == Owners(c, op.i)
           clu == CHOOSE n \in found : \A d \in found : n <= d
           f == PWrite(c, Len(c.blk), BlockAt(c, op.i))
<1>1. op.i \in Nat /\ op.pc = "g_find" /\ bak' = bak /\ core' = core
  BY <1>0, OpFields DEF RelocateData
<1>2. CASE found = {}
  <2>1. Goto("g_nullify") /\ UNCHANGED <<cache, disk>>
    BY <1>2 DEF RelocateData
  <2>2. op'.pc = "g_nullify" /\ op'.img = op.img /\ op'.ver = op.ver
    BY <2>1, <1>0, GotoAt
  <2> QED
    BY <1>1, <2>1, <2>2, DataStep DEF SameMarks, GrowSteps, Running
<1>3. CASE found # {}
  <2>2. WriteOnly(op.img, f) /\ op' = [op EXCEPT !.pc = "g_index", !.clu = clu]
    BY <1>3 DEF RelocateData, AllocHead
  <2> HIDE DEF found, clu
  <2>4. BlockAt(c, op.i) \in Cluster /\ Len(c.blk) \in Nat
    BY <1>1, <1>00, BlockAtType, FileFields
  <2>5. SameMarks(f, c)
    BY <1>00, <2>4, PWriteType DEF SameHeader, SameMarks
  <2> HIDE DEF f
  <2>6. \A j \in Images : SameMarks(cache'[j], cache[j]) /\ SameMarks(disk'[j], disk[j])
    BY <1>0, <2>2, <2>5 DEF WriteOnly, FilesTyped, SameMarks
  <2>7. op'.img = op.img /\ op'.ver = op.ver /\ op'.pc = "g_index"
    BY <1>0, <2>2 DEF OpType
  <2> QED
    BY <1>1, <2>6, <2>7, DataStep DEF GrowSteps, Running
<1> QED
  BY <1>2, <1>3

\* relocate_block: its index follows after an fsync.
LEMMA RelocateIndexVersions ==
  ASSUME Wide, VersionsInv, RelocateIndex
  PROVE  VersionsInv'
<1>0. op \in OpType /\ op.img \in Images /\ FilesTyped
  BY OpFields DEF Wide
<1>00. cache[op.img] \in File
  BY <1>0, FilesAt
<1> DEFINE c == cache[op.img]
           n == Len(c.blk) - 1
           w == Encode(n, c.ver)
           f == PWriteSlot(c, op.clu, w)
<1>01. op.clu \in Nat /\ op.pc = "g_index"
  BY <1>0, OpFields DEF RelocateIndex
<1>02. n \in Nat
  <2>1. TableIn(c, c.size)
    BY <1>0 DEF Wide, TablesFit
  <2> QED
    BY <2>1, <1>00, TableNat DEF TableIn
<1>1. SyncWrite(op.img, f)
  BY DEF RelocateIndex, AllocHead
<1> HIDE DEF n
<1>2. SameHeader(f, c)
  BY <1>00, <1>01, <1>02, EncodeType, PWriteSlotType
<1> HIDE DEF f
<1>80. cache' = [cache EXCEPT ![op.img] = f] /\ disk' = [disk EXCEPT ![op.img] = cache[op.img]]
  BY <1>1 DEF WriteOnly, WriteSync, SyncWrite, Synced
<1>81. SameMarks(f, cache[op.img])
  BY <1>2 DEF SameHeader, SameMarks
<1>82. \A j \in Images : /\ SameMarks(cache'[j], cache[j])
                         /\ SameMarks(disk'[j], disk[j]) \/ SameMarks(disk'[j], cache[j])
  BY <1>0, <1>80, <1>81, ImagesNat DEF FilesTyped, SameMarks
<1>83. bak' = bak /\ (Running' => Running)
  BY DEF RelocateIndex, Running
<1>84. op'.img = op.img /\ op'.ver = op.ver /\ op.pc \in GrowSteps \ {"g_dirty"} /\ op'.pc \in GrowSteps
  <2>1. CASE Offline
    <3>1. Goto("g_nullify")
      BY <2>1 DEF RelocateIndex
    <3> QED
      BY <1>0, <1>01, <3>1, GotoAt DEF GrowSteps
  <2>2. CASE ~ Offline
    <3> DEFINE m == Append(op.maps, [req |-> L2Slot(op.clu) - MapOffset, iblk |-> Len(c.blk) - 1, zblk |-> op.i])
    <3>1. op' = [op EXCEPT !.pc = "g_find", !.i = op.i + 1, !.maps = m]
      BY <2>2 DEF RelocateIndex, AllocHead
    <3> HIDE DEF m
    <3> QED
      BY <1>0, <1>01, <3>1 DEF OpType, GrowSteps
  <2> QED
    BY <2>1, <2>2
<1> QED
  BY <1>82, <1>83, <1>84, DataStep

\* grow_delta: the freed cluster is nullified.
LEMMA NullifyVersions ==
  ASSUME Wide, VersionsInv, Nullify
  PROVE  VersionsInv'
<1>0. op \in OpType /\ op.img \in Images /\ FilesTyped
  BY OpFields DEF Wide
<1>00. cache[op.img] \in File
  BY <1>0, FilesAt
<1> DEFINE c == cache[op.img]
           f == PWrite(c, op.i, Zero)
<1>1. SyncWrite(op.img, f) /\ op' = [op EXCEPT !.pc = "g_find", !.i = op.i + 1]
  BY DEF Nullify
<1>2. SameHeader(f, c)
  BY <1>0, <1>00, OpFields, ZeroType, PWriteType
<1> HIDE DEF f
<1>80. cache' = [cache EXCEPT ![op.img] = f] /\ disk' = [disk EXCEPT ![op.img] = cache[op.img]]
  BY <1>1 DEF WriteOnly, WriteSync, SyncWrite, Synced
<1>81. SameMarks(f, cache[op.img])
  BY <1>2 DEF SameHeader, SameMarks
<1>82. \A j \in Images : /\ SameMarks(cache'[j], cache[j])
                         /\ SameMarks(disk'[j], disk[j]) \/ SameMarks(disk'[j], cache[j])
  BY <1>0, <1>80, <1>81, ImagesNat DEF FilesTyped, SameMarks
<1>83. bak' = bak /\ (Running' => Running)
  BY DEF Nullify, Running
<1>84. op'.img = op.img /\ op'.ver = op.ver /\ op.pc \in GrowSteps \ {"g_dirty"} /\ op'.pc \in GrowSteps
  BY <1>0, <1>1 DEF OpType, Nullify, GrowSteps
<1> QED
  BY <1>82, <1>83, <1>84, DataStep

\* PLOOP_IOC_UPDATE_INDEX
LEMMA LowerUpdateIndexVersions ==
  ASSUME Wide, VersionsInv, LowerUpdateIndex
  PROVE  VersionsInv'
<1>0. op \in OpType /\ op.img \in Images /\ FilesTyped
  BY OpFields DEF Wide
<1>00. cache[op.img] \in File
  BY <1>0, FilesAt
<1>1. UNCHANGED <<cache, disk, bak>> /\ op' = [op EXCEPT !.pc = "l_zero", !.i = 1] /\ op.pc = "l_ioctl"
  BY DEF LowerUpdateIndex
<1>2. op'.img = op.img /\ op'.ver = op.ver /\ op'.pc = "l_zero"
  BY <1>0, <1>1 DEF OpType
<1>3. Running' => Running
  <2>1. CASE core = << >>
    <3> DEFINE g == [clu \in DOMAIN core[op.img] |->
                   LET told == {k \in DOMAIN op.maps : op.maps[k].req = clu}
                   IN  IF told = {} THEN core[op.img][clu]
                       ELSE op.maps[CHOOSE k \in told : \A m \in told : m <= k].iblk]
    <3>1. core' = [core EXCEPT ![op.img] = g]
      BY DEF LowerUpdateIndex
    <3> HIDE DEF g
    <3> QED
      BY <2>1, <3>1 DEF Running
  <2> QED
    BY <2>1 DEF Running
<1> QED
  BY <1>1, <1>2, <1>3, DataStep DEF SameMarks, Lower

\* grow_lower_delta nullifies what was relocated.
LEMMA LowerNullifyVersions ==
  ASSUME Wide, VersionsInv, LowerNullify
  PROVE  VersionsInv'
<1>0. op \in OpType /\ op.img \in Images /\ FilesTyped
  BY OpFields DEF Wide
<1>00. cache[op.img] \in File
  BY <1>0, FilesAt
<1> DEFINE c == cache[op.img]
           z == op.maps[op.i].zblk
           f == PWrite(c, z, Zero)
<1>01. op.i \in Nat /\ op.pc = "l_zero" /\ op.maps \in Seq(RelocMap) /\ op.i <= Len(op.maps) /\ op.i >= 1
  BY OpFields DEF LowerNullify, GrowthFits, Wide
<1>1. WriteOnly(op.img, f) /\ op' = [op EXCEPT !.i = op.i + 1]
  BY DEF LowerNullify
<1>21. z \in Nat
  <2>1. op.maps[op.i] \in RelocMap
    BY <1>01
  <2> QED
    BY <2>1 DEF RelocMap
<1> HIDE DEF z
<1>2. SameHeader(f, c)
  BY <1>00, <1>21, ZeroType, PWriteType
<1> HIDE DEF f
<1>80. cache' = [cache EXCEPT ![op.img] = f] /\ disk' = disk
  BY <1>1 DEF WriteOnly, WriteSync, SyncWrite, Synced
<1>81. SameMarks(f, cache[op.img])
  BY <1>2 DEF SameHeader, SameMarks
<1>82. \A j \in Images : /\ SameMarks(cache'[j], cache[j])
                         /\ SameMarks(disk'[j], disk[j]) \/ SameMarks(disk'[j], cache[j])
  BY <1>0, <1>80, <1>81, ImagesNat DEF FilesTyped, SameMarks
<1>83. bak' = bak /\ (Running' => Running)
  BY DEF LowerNullify, Running
<1>84. op'.img = op.img /\ op'.ver = op.ver /\ op'.pc = op.pc
  BY <1>0, <1>1 DEF OpType
<1> QED
  BY <1>82, <1>83, <1>84, DataStep

\* change_fmt_version: a cluster of the table.
LEMMA ConvertIndexVersions ==
  ASSUME Wide, VersionsInv, ConvertIndex
  PROVE  VersionsInv'
<1>0. op \in OpType /\ op.img \in Images /\ FilesTyped
  BY OpFields DEF Wide
<1>00. cache[op.img] \in File
  BY <1>0, FilesAt
<1> DEFINE c == cache[op.img]
           b == ConvBlock(c, op.i, op.ver)
           f == PWrite(c, op.i, b)
<1>01. op.i \in Nat /\ op.pc = "c_index"
  BY <1>0, OpFields DEF ConvertIndex
<1>1. WriteOnly(op.img, f) /\ op' = [op EXCEPT !.i = op.i + 1]
  BY DEF ConvertIndex, ConvBlock
<1>21. b \in Cluster
  BY <1>01, <1>00, ConvBlockType
<1> HIDE DEF b
<1>2. SameHeader(f, c)
  BY <1>00, <1>01, <1>21, PWriteType
<1> HIDE DEF f
<1>80. cache' = [cache EXCEPT ![op.img] = f] /\ disk' = disk
  BY <1>1 DEF WriteOnly, WriteSync, SyncWrite, Synced
<1>81. SameMarks(f, cache[op.img])
  BY <1>2 DEF SameHeader, SameMarks
<1>82. \A j \in Images : /\ SameMarks(cache'[j], cache[j])
                         /\ SameMarks(disk'[j], disk[j]) \/ SameMarks(disk'[j], cache[j])
  BY <1>0, <1>80, <1>81, ImagesNat DEF FilesTyped, SameMarks
<1>83. bak' = bak /\ (Running' => Running)
  BY DEF ConvertIndex, Running
<1>84. op'.img = op.img /\ op'.ver = op.ver /\ op'.pc = op.pc
  BY <1>0, <1>1 DEF OpType
<1> QED
  BY <1>82, <1>83, <1>84, DataStep

\* ploop_check: a repair keeps the header and the table.
LEMMA CheckRepairVersions ==
  ASSUME Wide, VersionsInv, CheckRepair
  PROVE  VersionsInv'
<1>0. op \in OpType /\ op.img \in Images /\ FilesTyped
  BY OpFields DEF Wide
<1>00. cache[op.img] \in File
  BY <1>0, FilesAt
<1> DEFINE c == cache[op.img]
           f == Repaired(c)
<1>1. WriteOnly(op.img, f) /\ ~ Fatal(c)
  BY DEF CheckRepair, Refused
<1>11. TableIn(c, c.size)
  BY <1>0 DEF Wide, TablesFit
<1>2. SameHeader(f, c)
  BY <1>00, <1>1, <1>11, RepairedType DEF TableIn, L1
<1> HIDE DEF f
<1>80. cache' = [cache EXCEPT ![op.img] = f] /\ disk' = disk
  BY <1>1 DEF WriteOnly, WriteSync, SyncWrite, Synced
<1>81. SameMarks(f, cache[op.img])
  BY <1>2 DEF SameHeader, SameMarks
<1>82. \A j \in Images : /\ SameMarks(cache'[j], cache[j])
                         /\ SameMarks(disk'[j], disk[j]) \/ SameMarks(disk'[j], cache[j])
  BY <1>0, <1>80, <1>81, ImagesNat DEF FilesTyped, SameMarks
<1>83. bak' = bak /\ (Running' => Running)
  BY DEF CheckRepair, Running
<1>84. /\ op'.img = op.img /\ op'.ver = op.ver
      /\ op.pc = "k_check" /\ op'.pc = "k_hdr" /\ ~ cache[op.img].conv
  BY <1>0, GotoAt DEF CheckRepair, Refused
<1> QED
  BY <1>82, <1>83, <1>84, DataStep

\* A guest write to a mapped cluster.
LEMMA GuestOverwriteVersions ==
  ASSUME Wide, VersionsInv, NEW clu \in 0 .. MaxSize - 1, GuestOverwrite(clu)
  PROVE  VersionsInv'
<1>0. op \in OpType /\ op.img \in Images /\ FilesTyped
  BY OpFields DEF Wide
<1>00. cache[op.img] \in File
  BY <1>0, FilesAt
<1>01. cache[Top] \in File /\ Top \in Images
  BY <1>0, ImagesNat, FilesAt
<1> DEFINE f == PWrite(cache[Top], core[Top][clu], Data(writes + 1))
<1>1. WriteSync(Top, f)
  BY DEF GuestOverwrite
<1>21. core[Top][clu] \in Nat /\ writes + 1 \in Nat
  BY <1>01 DEF GuestOverwrite, Wide, RestTyped, IsMap
<1>2. SameHeader(f, cache[Top])
  BY <1>01, <1>21, ZeroType, PWriteType
<1> HIDE DEF f
<1>80. cache' = [cache EXCEPT ![Top] = f] /\ disk' = [disk EXCEPT ![Top] = f]
  BY <1>1 DEF WriteOnly, WriteSync, SyncWrite, Synced
<1>81. SameMarks(f, cache[Top])
  BY <1>2 DEF SameHeader, SameMarks
<1>82. \A j \in Images : /\ SameMarks(cache'[j], cache[j])
                         /\ SameMarks(disk'[j], disk[j]) \/ SameMarks(disk'[j], cache[j])
  BY <1>0, <1>80, <1>81, ImagesNat DEF FilesTyped, SameMarks
<1>83. bak' = bak /\ (Running' => Running)
  BY DEF GuestOverwrite, Running
<1>84. op'.img = op.img /\ op'.ver = op.ver /\ op'.pc = op.pc
  BY DEF GuestOverwrite
<1> QED
  BY <1>82, <1>83, <1>84, DataStep

\* A guest write to a new cluster.
LEMMA GuestAllocateVersions ==
  ASSUME Wide, VersionsInv, NEW clu \in 0 .. MaxSize - 1, GuestAllocate(clu)
  PROVE  VersionsInv'
<1>0. op \in OpType /\ op.img \in Images /\ FilesTyped
  BY OpFields DEF Wide
<1>00. cache[op.img] \in File
  BY <1>0, FilesAt
<1>01. cache[Top] \in File /\ Top \in Images
  BY <1>0, ImagesNat, FilesAt
<1> DEFINE f == PWrite(cache[Top], Len(cache[Top].blk), Data(writes + 1))
<1>1. WriteSync(Top, f)
  BY DEF GuestAllocate, AllocHead
<1>21. Len(cache[Top].blk) \in Nat /\ writes + 1 \in Nat
  BY <1>01, FileFields DEF Wide, RestTyped
<1>2. SameHeader(f, cache[Top])
  BY <1>01, <1>21, ZeroType, PWriteType
<1> HIDE DEF f
<1>80. cache' = [cache EXCEPT ![Top] = f] /\ disk' = [disk EXCEPT ![Top] = f]
  BY <1>1 DEF WriteOnly, WriteSync, SyncWrite, Synced
<1>81. SameMarks(f, cache[Top])
  BY <1>2 DEF SameHeader, SameMarks
<1>82. \A j \in Images : /\ SameMarks(cache'[j], cache[j])
                         /\ SameMarks(disk'[j], disk[j]) \/ SameMarks(disk'[j], cache[j])
  BY <1>0, <1>80, <1>81, ImagesNat DEF FilesTyped, SameMarks
<1>83. bak' = bak /\ (Running' => Running)
  BY DEF GuestAllocate, Running
<1>84. op'.img = op.img /\ op'.ver = op.ver /\ op'.pc = op.pc
  BY DEF GuestAllocate
<1> QED
  BY <1>82, <1>83, <1>84, DataStep

\* The index of that cluster.
LEMMA GuestMapVersions ==
  ASSUME Wide, VersionsInv, GuestMap
  PROVE  VersionsInv'
<1>0. op \in OpType /\ op.img \in Images /\ FilesTyped
  BY OpFields DEF Wide
<1>00. cache[op.img] \in File
  BY <1>0, FilesAt
<1>01. cache[Top] \in File /\ Top \in Images
  BY <1>0, ImagesNat, FilesAt
<1>02. PICK clu \in half :
         WriteSync(Top, PWriteSlot(cache[Top], clu, Encode(Len(cache[Top].blk) - 1, cache[Top].ver)))
  BY DEF GuestMap, AllocHead
<1> DEFINE n == Len(cache[Top].blk) - 1
           f == PWriteSlot(cache[Top], clu, Encode(n, cache[Top].ver))
<1>1. WriteSync(Top, f)
  BY <1>02
<1>21. n \in Nat /\ clu \in Nat
  <2>1. TableIn(cache[Top], cache[Top].size)
    BY <1>01 DEF Wide, TablesFit
  <2> QED
    BY <2>1, <1>01, TableNat DEF TableIn, Wide, RestTyped
<1> HIDE DEF n
<1>2. SameHeader(f, cache[Top])
  BY <1>01, <1>21, EncodeType, PWriteSlotType
<1> HIDE DEF f
<1>80. cache' = [cache EXCEPT ![Top] = f] /\ disk' = [disk EXCEPT ![Top] = f]
  BY <1>1 DEF WriteOnly, WriteSync, SyncWrite, Synced
<1>81. SameMarks(f, cache[Top])
  BY <1>2 DEF SameHeader, SameMarks
<1>82. \A j \in Images : /\ SameMarks(cache'[j], cache[j])
                         /\ SameMarks(disk'[j], disk[j]) \/ SameMarks(disk'[j], cache[j])
  BY <1>0, <1>80, <1>81, ImagesNat DEF FilesTyped, SameMarks
<1>83. bak' = bak /\ (Running' => Running)
  BY DEF GuestMap, Running, RestTyped, Wide
<1>84. op'.img = op.img /\ op'.ver = op.ver /\ op'.pc = op.pc
  BY DEF GuestMap
<1> QED
  BY <1>82, <1>83, <1>84, DataStep

\* ploop_grow_delta_offline begins: no header changes.
LEMMA GrowOfflineVersions ==
  ASSUME Wide, VersionsInv, NEW size \in 1 .. MaxSize, GrowOffline(size)
  PROVE  VersionsInv'
<1>0. op \in OpType /\ op.img \in Images /\ FilesTyped
  BY OpFields DEF Wide
<1>00. cache[op.img] \in File
  BY <1>0, FilesAt
<1>1. /\ UNCHANGED <<cache, disk, bak, core>> /\ ~ Running /\ op.pc = "idle"
      /\ op'.pc = "g_dirty" /\ op'.img = Top /\ cache[Top].inuse # "yes"
  BY DEF GrowOffline, CanOpen, Called, NoOp
<1>2. HeadersAgree'
  BY <1>1 DEF VersionsInv, HeadersAgree
<1>3. ASSUME NEW v \in {1, 2}, cache[1].conv, BackTo(v) PROVE BackTo(v)'
  BY <1>1, <1>3 DEF BackTo, GrowSteps
<1>4. Versions'
  BY <1>1, <1>3 DEF VersionsInv, Versions
<1>5. IF cache[1].conv THEN NImages = 1 \/ Top # 1 ELSE ~ cache[Top].conv
  BY <1>1, ImagesNat DEF VersionsInv, Versions, Top
<1>6. Phase'
  BY <1>1, <1>5, ImagesNat DEF Phase, GrowSteps, Lower, Lock, Restore, CheckPc, Running
<1> QED
  BY <1>2, <1>4, <1>6 DEF VersionsInv

\* grow_lower_delta begins: the base is not marked and can be opened.
LEMMA GrowLowerVersions ==
  ASSUME Wide, VersionsInv, GrowLower
  PROVE  VersionsInv'
<1>0. op \in OpType /\ op.img \in Images /\ FilesTyped
  BY OpFields DEF Wide
<1>00. cache[op.img] \in File
  BY <1>0, FilesAt
<1>1. /\ UNCHANGED <<cache, disk, bak, core>> /\ Running /\ op.pc = "idle"
      /\ op'.pc = "g_dirty" /\ op'.img = 1
  BY DEF GrowLower, Called, NoOp
<1>2. \A i \in Images : ~ cache[i].conv
  BY <1>1 DEF VersionsInv, Phase
<1>3. HeadersAgree'
  BY <1>1 DEF VersionsInv, HeadersAgree
<1>4. Versions'
  BY <1>1, <1>2, ImagesNat DEF VersionsInv, Versions
<1>6. Phase'
  BY <1>1, <1>2, ImagesNat DEF Phase, GrowSteps, Lower, Lock, Restore, CheckPc, Running
<1> QED
  BY <1>3, <1>4, <1>6 DEF VersionsInv

\* dirty_delta
LEMMA GrowDirtyVersions ==
  ASSUME Wide, VersionsInv, GrowDirty
  PROVE  VersionsInv'
<1>0. op \in OpType /\ op.img \in Images /\ FilesTyped
  BY OpFields DEF Wide
<1>00. cache[op.img] \in File
  BY <1>0, FilesAt
<1> DEFINE f == [cache[op.img] EXCEPT !.inuse = "yes"]
<1>01. cache[op.img] \in File /\ op.img \in Images
  BY <1>0, FilesAt
<1>1. f.ver = cache[op.img].ver /\ f.inuse = "yes" /\ f.conv = cache[op.img].conv
  BY <1>01 DEF File
<1>2. WriteSync(op.img, f)
  BY DEF GrowDirty
<1> HIDE DEF f
<1>3. MarksSynced(op.img, cache[op.img].ver, "yes", cache[op.img].conv)
  BY <1>0, <1>01, <1>1, <1>2, MarksWritten
<1>4. /\ op'.pc = "g_append" /\ op'.img = op.img /\ op'.ver = op.ver /\ op.pc = "g_dirty"
      /\ bak' = bak /\ core' = core
  BY <1>0, GotoAt DEF GrowDirty
<1>5. HeadersAgree'
  BY <1>01, <1>3 DEF VersionsInv, HeadersAgree, MarksSynced
<1>6. Versions'
  <2>1. ASSUME NEW v \in {1, 2}, cache[1].conv, cache'[1].conv, BackTo(v) PROVE BackTo(v)'
    BY <1>01, <1>3, <1>4, <2>1, ImagesNat DEF BackTo, MarksSynced, VersionsInv, Versions, Phase, GrowSteps, Lower, Lock, Restore, CheckPc
  <2> QED
    BY <1>01, <1>3, <1>4, <2>1, ImagesNat DEF VersionsInv, Versions, BackTo, MarksSynced, Phase, GrowSteps, Lower, Lock, Restore, CheckPc
<1>7. Phase'
  BY <1>01, <1>3, <1>4, ImagesNat DEF VersionsInv, Phase, MarksSynced, Running, GrowSteps, Lower, Lock, Restore, CheckPc
<1> QED
  BY <1>5, <1>6, <1>7 DEF VersionsInv

\* ploop_grow_delta_offline clears the dirty mark.
LEMMA GrowClearVersions ==
  ASSUME Wide, VersionsInv, GrowClear
  PROVE  VersionsInv'
<1>0. op \in OpType /\ op.img \in Images /\ FilesTyped
  BY OpFields DEF Wide
<1>00. cache[op.img] \in File
  BY <1>0, FilesAt
<1> DEFINE f == [cache[op.img] EXCEPT !.inuse = "no"]
<1>01. cache[op.img] \in File /\ op.img \in Images
  BY <1>0, FilesAt
<1>1. f.ver = cache[op.img].ver /\ f.inuse = "no" /\ f.conv = cache[op.img].conv
  BY <1>01 DEF File
<1>2. WriteSync(op.img, f)
  BY DEF GrowClear
<1> HIDE DEF f
<1>3. MarksSynced(op.img, cache[op.img].ver, "no", cache[op.img].conv)
  BY <1>0, <1>01, <1>1, <1>2, MarksWritten
<1>4. /\ op'.pc = "idle" /\ op.pc = "g_clear" /\ bak' = bak /\ core' = core
  BY DEF GrowClear, NoOp
<1>5. HeadersAgree'
  BY <1>01, <1>3 DEF VersionsInv, HeadersAgree, MarksSynced
<1>6. Versions'
  <2>1. ASSUME NEW v \in {1, 2}, cache[1].conv, cache'[1].conv, BackTo(v) PROVE BackTo(v)'
    BY <1>01, <1>3, <1>4, <2>1, ImagesNat DEF BackTo, MarksSynced, VersionsInv, Versions, Phase, GrowSteps, Lower, Lock, Restore, CheckPc
  <2> QED
    BY <1>01, <1>3, <1>4, <2>1, ImagesNat DEF VersionsInv, Versions, BackTo, MarksSynced, Phase, GrowSteps, Lower, Lock, Restore, CheckPc, Top
<1>7. Phase'
  BY <1>01, <1>3, <1>4, ImagesNat DEF VersionsInv, Phase, MarksSynced, Running, GrowSteps, Lower, Lock, Restore, CheckPc
<1> QED
  BY <1>5, <1>6, <1>7 DEF VersionsInv

\* grow_lower_delta clears the dirty mark before the kernel is told.
LEMMA LowerClearVersions ==
  ASSUME Wide, VersionsInv, LowerClear
  PROVE  VersionsInv'
<1>0. op \in OpType /\ op.img \in Images /\ FilesTyped
  BY OpFields DEF Wide
<1>00. cache[op.img] \in File
  BY <1>0, FilesAt
<1> DEFINE f == [cache[op.img] EXCEPT !.inuse = "no"]
<1>01. cache[op.img] \in File /\ op.img \in Images
  BY <1>0, FilesAt
<1>1. f.ver = cache[op.img].ver /\ f.inuse = "no" /\ f.conv = cache[op.img].conv
  BY <1>01 DEF File
<1>2. WriteSync(op.img, f)
  BY DEF LowerClear
<1> HIDE DEF f
<1>3. MarksSynced(op.img, cache[op.img].ver, "no", cache[op.img].conv)
  BY <1>0, <1>01, <1>1, <1>2, MarksWritten
<1>4. /\ op'.pc = "l_ioctl" /\ op'.img = op.img /\ op'.ver = op.ver /\ op.pc = "g_find"
      /\ bak' = bak /\ core' = core
  BY <1>0, GotoAt DEF LowerClear
<1>41. ~ cache[op.img].conv /\ ~ cache[1].conv
  <2>1. op.size \in Nat /\ cache[op.img].size \in Nat /\ disk[op.img].size \in Nat
    BY <1>0, <1>00, OpFields, FileFields, FilesAt
  <2>2. op.size > 0
    BY <2>1, <1>0, <1>4 DEF Wide, GrowthFits, TablesFit, GrowPc, LowerPc
  <2>3. op.img # Top \/ Running
    BY <2>1, <2>2 DEF LowerClear, Offline
  <2> QED
    BY <2>3, <1>0, <1>4, ImagesNat DEF VersionsInv, Phase, GrowSteps
<1>5. HeadersAgree'
  BY <1>01, <1>3 DEF VersionsInv, HeadersAgree, MarksSynced
<1>6. Versions'
  <2>1. ASSUME NEW v \in {1, 2}, cache[1].conv, cache'[1].conv, BackTo(v) PROVE BackTo(v)'
    BY <1>01, <1>3, <1>4, <2>1, ImagesNat DEF BackTo, MarksSynced, VersionsInv, Versions, Phase, GrowSteps, Lower, Lock, Restore, CheckPc
  <2> QED
    BY <1>41, <1>01, <1>3, <1>4, <2>1, ImagesNat DEF VersionsInv, Versions, BackTo, MarksSynced, Phase, GrowSteps, Lower, Lock, Restore, CheckPc
<1>7. Phase'
  BY <1>01, <1>3, <1>4, <1>41, ImagesNat DEF VersionsInv, Phase, MarksSynced, Running, GrowSteps, Lower, Lock, Restore, CheckPc
<1> QED
  BY <1>5, <1>6, <1>7 DEF VersionsInv

\* ploop_change_fmt_version marks a delta dirty.
LEMMA LockDeltaVersions ==
  ASSUME Wide, VersionsInv, LockDelta
  PROVE  VersionsInv'
<1>0. op \in OpType /\ op.img \in Images /\ FilesTyped
  BY OpFields DEF Wide
<1>00. cache[op.img] \in File
  BY <1>0, FilesAt
<1> DEFINE f == [cache[op.img] EXCEPT !.inuse = "yes"]
<1>01. cache[op.img] \in File /\ op.img \in Images
  BY <1>0, FilesAt
<1>1. f.ver = cache[op.img].ver /\ f.inuse = "yes" /\ f.conv = cache[op.img].conv
  BY <1>01 DEF File
<1>2. WriteSync(op.img, f)
  BY DEF LockDelta
<1> HIDE DEF f
<1>3. MarksSynced(op.img, cache[op.img].ver, "yes", cache[op.img].conv)
  BY <1>0, <1>01, <1>1, <1>2, MarksWritten
<1>4. /\ op'.pc = "c_mark" /\ op'.img = op.img /\ op'.ver = op.ver /\ op.pc = "c_dirty"
      /\ bak' = bak /\ core' = core
  BY <1>0, GotoAt DEF LockDelta
<1>5. HeadersAgree'
  BY <1>01, <1>3 DEF VersionsInv, HeadersAgree, MarksSynced
<1>6. Versions'
  <2>1. ASSUME NEW v \in {1, 2}, cache[1].conv, cache'[1].conv, BackTo(v) PROVE BackTo(v)'
    BY <1>01, <1>3, <1>4, <2>1, ImagesNat DEF BackTo, MarksSynced, VersionsInv, Versions, Phase, GrowSteps, Lower, Lock, Restore, CheckPc
  <2> QED
    BY <1>01, <1>3, <1>4, <2>1, ImagesNat DEF VersionsInv, Versions, BackTo, MarksSynced, Phase, GrowSteps, Lower, Lock, Restore, CheckPc
<1>7. Phase'
  BY <1>01, <1>3, <1>4, ImagesNat DEF VersionsInv, Phase, MarksSynced, Running, GrowSteps, Lower, Lock, Restore, CheckPc
<1> QED
  BY <1>5, <1>6, <1>7 DEF VersionsInv

\* ploop_change_fmt_version marks a delta as being converted.
LEMMA MarkDeltaVersions ==
  ASSUME Wide, VersionsInv, MarkDelta
  PROVE  VersionsInv'
<1>0. op \in OpType /\ op.img \in Images /\ FilesTyped
  BY OpFields DEF Wide
<1>00. cache[op.img] \in File
  BY <1>0, FilesAt
<1> DEFINE f == [cache[op.img] EXCEPT !.conv = TRUE]
<1>01. cache[op.img] \in File /\ op.img \in Images
  BY <1>0, FilesAt
<1>1. f.ver = cache[op.img].ver /\ f.inuse = cache[op.img].inuse /\ f.conv = TRUE
  BY <1>01 DEF File
<1>2. WriteSync(op.img, f)
  BY DEF MarkDelta
<1> HIDE DEF f
<1>3. MarksSynced(op.img, cache[op.img].ver, cache[op.img].inuse, TRUE)
  BY <1>0, <1>01, <1>1, <1>2, MarksWritten
<1>4. /\ op'.ver = op.ver /\ op.pc = "c_mark" /\ bak' = bak /\ core' = core
      /\ \/ op.img < NImages /\ op'.pc = "c_dirty" /\ op'.img = op.img + 1
         \/ op.img = NImages /\ op'.pc = "c_index" /\ op'.img = 1
  BY <1>0, NextImageAt DEF MarkDelta
<1>5. HeadersAgree'
  BY <1>01, <1>3 DEF VersionsInv, HeadersAgree, MarksSynced
<1>6. Versions'
  <2>1. \A i \in Images : /\ bak[i] # NoBackup /\ bak[i].ver = cache[1].ver
                          /\ cache[i].ver = cache[1].ver
                          /\ i < op.img => cache[i].conv /\ cache[i].inuse = "yes"
                          /\ i > 1 /\ ~ cache[1].conv => ~ cache[i].conv
    BY <1>4 DEF VersionsInv, Phase, Lock
  <2>2. cache[op.img].inuse = "yes"
    BY <1>4 DEF VersionsInv, Phase
  <2>3. PICK v \in {1, 2} : v = cache[1].ver
    BY ImagesNat, <1>0, FilesAt, FileFields
  <2>4. cache'[1].conv /\ cache'[1].inuse = "yes"
    <3>1. CASE op.img = 1
      BY <3>1, <1>3, <2>2 DEF MarksSynced
    <3>2. CASE op.img # 1
      <4>1. 1 < op.img /\ cache'[1] = cache[1]
        BY <3>2, <1>01, <1>3, ImagesNat DEF MarksSynced
      <4> QED
        BY <4>1, <2>1, ImagesNat
    <3> QED
      BY <3>1, <3>2
  <2>5. op'.pc \notin GrowSteps
    BY <1>4 DEF GrowSteps
  <2>6. ASSUME NEW i \in Images
        PROVE  cache'[i].ver = v /\ bak'[i].ver = v
    <3>1. CASE i = op.img
      BY <3>1, <1>3, <1>4, <2>1, <2>3 DEF MarksSynced
    <3>2. CASE i # op.img
      BY <3>2, <1>3, <1>4, <2>1, <2>3 DEF MarksSynced
    <3> QED
      BY <3>1, <3>2
  <2>7. BackTo(v)'
    BY <2>5, <2>6 DEF BackTo
  <2> QED
    BY <2>3, <2>4, <2>7 DEF Versions
<1>7. Phase'
  <2>1. CASE op'.pc = "c_dirty"
    BY <2>1, <1>01, <1>3, <1>4, ImagesNat, Consts DEF VersionsInv, Phase, MarksSynced, Running, GrowSteps, Lower, Lock, Restore, CheckPc
  <2>2. CASE op'.pc = "c_index"
    BY <2>2, <1>01, <1>3, <1>4, ImagesNat, Consts DEF VersionsInv, Phase, MarksSynced, Running, GrowSteps, Lower, Lock, Restore, CheckPc
  <2> QED
    BY <1>4, <2>1, <2>2
<1> QED
  BY <1>5, <1>6, <1>7 DEF VersionsInv

\* change_delta_version
LEMMA ConvertVersionVersions ==
  ASSUME Wide, VersionsInv, ConvertVersion
  PROVE  VersionsInv'
<1>0. op \in OpType /\ op.img \in Images /\ FilesTyped
  BY OpFields DEF Wide
<1>00. cache[op.img] \in File
  BY <1>0, FilesAt
<1> DEFINE f == [cache[op.img] EXCEPT !.ver = op.ver]
<1>01. cache[op.img] \in File /\ op.img \in Images
  BY <1>0, FilesAt
<1>1. f.ver = op.ver /\ f.inuse = cache[op.img].inuse /\ f.conv = cache[op.img].conv
  BY <1>01 DEF File
<1>2. WriteSync(op.img, f)
  BY DEF ConvertVersion
<1> HIDE DEF f
<1>3. MarksSynced(op.img, op.ver, cache[op.img].inuse, cache[op.img].conv)
  BY <1>0, <1>01, <1>1, <1>2, MarksWritten
<1>4. /\ op'.ver = op.ver /\ op.pc = "c_index" /\ bak' = bak /\ core' = core
      /\ \/ op.img < NImages /\ op'.pc = "c_index" /\ op'.img = op.img + 1
         \/ op.img = NImages /\ op'.pc = "c_unmark" /\ op'.img = 1
  BY <1>0, NextImageAt DEF ConvertVersion
<1>5. HeadersAgree'
  BY <1>01, <1>3 DEF VersionsInv, HeadersAgree, MarksSynced
<1>6. Versions'
  <2>1. ASSUME NEW v \in {1, 2}, cache[1].conv, cache'[1].conv, BackTo(v) PROVE BackTo(v)'
    BY <1>01, <1>3, <1>4, <2>1, ImagesNat DEF BackTo, MarksSynced, VersionsInv, Versions, Phase, GrowSteps, Lower, Lock, Restore, CheckPc
  <2> QED
    BY <1>01, <1>3, <1>4, <2>1, ImagesNat DEF VersionsInv, Versions, BackTo, MarksSynced, Phase, GrowSteps, Lower, Lock, Restore, CheckPc
<1>7. Phase'
  <2>1. CASE op'.pc = "c_index"
    BY <2>1, <1>01, <1>3, <1>4, ImagesNat, Consts DEF VersionsInv, Phase, MarksSynced, Running, GrowSteps, Lower, Lock, Restore, CheckPc
  <2>2. CASE op'.pc = "c_unmark"
    BY <2>2, <1>01, <1>3, <1>4, ImagesNat, Consts DEF VersionsInv, Phase, MarksSynced, Running, GrowSteps, Lower, Lock, Restore, CheckPc
  <2> QED
    BY <1>4, <2>1, <2>2
<1> QED
  BY <1>5, <1>6, <1>7 DEF VersionsInv

\* ploop_change_fmt_version removes the mark of a delta.
LEMMA UnmarkDeltaVersions ==
  ASSUME Wide, VersionsInv, UnmarkDelta
  PROVE  VersionsInv'
<1>0. op \in OpType /\ op.img \in Images /\ FilesTyped
  BY OpFields DEF Wide
<1>00. cache[op.img] \in File
  BY <1>0, FilesAt
<1> DEFINE f == [cache[op.img] EXCEPT !.conv = FALSE]
<1>01. cache[op.img] \in File /\ op.img \in Images
  BY <1>0, FilesAt
<1>1. f.ver = cache[op.img].ver /\ f.inuse = cache[op.img].inuse /\ f.conv = FALSE
  BY <1>01 DEF File
<1>2. WriteSync(op.img, f)
  BY DEF UnmarkDelta
<1> HIDE DEF f
<1>3. MarksSynced(op.img, cache[op.img].ver, cache[op.img].inuse, FALSE)
  BY <1>0, <1>01, <1>1, <1>2, MarksWritten
<1>4. /\ op'.pc = "c_clear" /\ op'.img = op.img /\ op'.ver = op.ver /\ op.pc = "c_unmark"
      /\ bak' = bak /\ core' = core
  BY <1>0, GotoAt DEF UnmarkDelta
<1>5. HeadersAgree'
  BY <1>01, <1>3 DEF VersionsInv, HeadersAgree, MarksSynced
<1>6. Versions'
  <2>1. ASSUME NEW v \in {1, 2}, cache[1].conv, cache'[1].conv, BackTo(v) PROVE BackTo(v)'
    BY <1>01, <1>3, <1>4, <2>1, ImagesNat DEF BackTo, MarksSynced, VersionsInv, Versions, Phase, GrowSteps, Lower, Lock, Restore, CheckPc
  <2> QED
    BY <1>01, <1>3, <1>4, <2>1, ImagesNat DEF VersionsInv, Versions, BackTo, MarksSynced, Phase, GrowSteps, Lower, Lock, Restore, CheckPc
<1>7. Phase'
  BY <1>01, <1>3, <1>4, ImagesNat DEF VersionsInv, Phase, MarksSynced, Running, GrowSteps, Lower, Lock, Restore, CheckPc
<1> QED
  BY <1>5, <1>6, <1>7 DEF VersionsInv

\* ploop_change_fmt_version clears the dirty mark.
LEMMA UnlockDeltaVersions ==
  ASSUME Wide, VersionsInv, UnlockDelta
  PROVE  VersionsInv'
<1>0. op \in OpType /\ op.img \in Images /\ FilesTyped
  BY OpFields DEF Wide
<1>00. cache[op.img] \in File
  BY <1>0, FilesAt
<1> DEFINE f == [cache[op.img] EXCEPT !.inuse = "no"]
<1>01. cache[op.img] \in File /\ op.img \in Images
  BY <1>0, FilesAt
<1>1. f.ver = cache[op.img].ver /\ f.inuse = "no" /\ f.conv = cache[op.img].conv
  BY <1>01 DEF File
<1>2. WriteSync(op.img, f)
  BY DEF UnlockDelta
<1> HIDE DEF f
<1>3. MarksSynced(op.img, cache[op.img].ver, "no", cache[op.img].conv)
  BY <1>0, <1>01, <1>1, <1>2, MarksWritten
<1>4. /\ op'.ver = op.ver /\ op.pc = "c_clear" /\ bak' = bak /\ core' = core
      /\ \/ op.img < NImages /\ op'.pc = "c_unmark" /\ op'.img = op.img + 1
         \/ op.img = NImages /\ op'.pc = "c_drop" /\ op'.img = 1
  BY <1>0, NextImageAt DEF UnlockDelta
<1>5. HeadersAgree'
  BY <1>01, <1>3 DEF VersionsInv, HeadersAgree, MarksSynced
<1>6. Versions'
  <2>1. ASSUME NEW v \in {1, 2}, cache[1].conv, cache'[1].conv, BackTo(v) PROVE BackTo(v)'
    BY <1>01, <1>3, <1>4, <2>1, ImagesNat DEF BackTo, MarksSynced, VersionsInv, Versions, Phase, GrowSteps, Lower, Lock, Restore, CheckPc
  <2> QED
    BY <1>01, <1>3, <1>4, <2>1, ImagesNat DEF VersionsInv, Versions, BackTo, MarksSynced, Phase, GrowSteps, Lower, Lock, Restore, CheckPc
<1>7. Phase'
  <2>0. \A i \in Images : /\ cache[i].ver = op.ver
                          /\ i < op.img => ~ cache[i].conv
                          /\ i > op.img => cache[i].conv /\ cache[i].inuse = "yes"
    BY <1>4 DEF VersionsInv, Phase
  <2>00. ~ cache[op.img].conv /\ ~ Running
    BY <1>4 DEF VersionsInv, Phase, Lower, GrowSteps
  <2>1. CASE op'.pc = "c_unmark"
    <3>1. op'.img = op.img + 1 /\ op.img < NImages
      BY <2>1, <1>4
    <3>2. op.img + 1 \in Images
      BY <3>1, <1>01, Consts DEF Images
    <3>3. ASSUME NEW i \in Images
          PROVE  /\ cache'[i].ver = op.ver
                 /\ i < op.img + 1 => ~ cache'[i].conv
                 /\ i > op.img => i # op.img /\ cache'[i].conv /\ cache'[i].inuse = "yes"
      <4>1. CASE i = op.img
        BY <4>1, <1>3, <2>0, <2>00, ImagesNat DEF MarksSynced
      <4>2. CASE i # op.img
        <5>1. cache'[i] = cache[i] /\ (i < op.img + 1 => i < op.img)
          BY <4>2, <1>3, <1>01, ImagesNat DEF MarksSynced
        <5> QED
          BY <4>2, <5>1, <2>0
      <4> QED
        BY <4>1, <4>2
    <3>4. cache'[op.img + 1].conv /\ cache'[op.img + 1].inuse = "yes"
      BY <3>2, <3>3, <1>01, ImagesNat
    <3>5. \A i \in Images : i > op.img + 1 => i > op.img
      BY <1>01, ImagesNat
    <3> QED
      BY <2>1, <2>00, <3>1, <3>3, <3>4, <3>5, <1>4 DEF Phase, Running, GrowSteps, Lower, Lock, Restore, CheckPc
  <2>2. CASE op'.pc = "c_drop"
    BY <2>2, <1>01, <1>3, <1>4, ImagesNat, Consts DEF VersionsInv, Phase, MarksSynced, Running, GrowSteps, Lower, Lock, Restore, CheckPc
  <2> QED
    BY <1>4, <2>1, <2>2
<1> QED
  BY <1>5, <1>6, <1>7 DEF VersionsInv

\* do_restore_fmt_version: a cluster of the table.
LEMMA RestoreTableVersions ==
  ASSUME Wide, VersionsInv, RestoreTable
  PROVE  VersionsInv'
<1>0. op \in OpType /\ op.img \in Images /\ op.i \in Nat /\ FilesTyped
  BY OpFields DEF Wide
<1>00. cache[op.img] \in File
  BY <1>0, FilesAt
<1> DEFINE c == cache[op.img]
           b == BlockAt(bak[op.img], op.i)
           f == PWrite(c, op.i, b)
<1>1. WriteOnly(op.img, f) /\ op' = [op EXCEPT !.i = op.i + 1]
  BY DEF RestoreTable
<1>21. b \in Cluster
  BY <1>0, BackedBlock DEF RestoreTable, Wide
<1> HIDE DEF b
<1>2. SameHeader(f, c)
  BY <1>0, <1>00, <1>21, PWriteType
<1> HIDE DEF f
<1>80. cache' = [cache EXCEPT ![op.img] = f] /\ disk' = disk
  BY <1>1 DEF WriteOnly, WriteSync, SyncWrite, Synced
<1>81. SameMarks(f, cache[op.img])
  BY <1>2 DEF SameHeader, SameMarks
<1>82. \A j \in Images : /\ SameMarks(cache'[j], cache[j])
                         /\ SameMarks(disk'[j], disk[j]) \/ SameMarks(disk'[j], cache[j])
  BY <1>0, <1>80, <1>81, ImagesNat DEF FilesTyped, SameMarks
<1>83. bak' = bak /\ (Running' => Running)
  BY DEF RestoreTable, Running
<1>84. op'.img = op.img /\ op'.ver = op.ver /\ op'.pc = op.pc
  BY <1>0, <1>1 DEF OpType
<1> QED
  BY <1>82, <1>83, <1>84, DataStep

\* restore_fmt_version removes the mark.
LEMMA RestoreUnmarkVersions ==
  ASSUME Wide, VersionsInv, RestoreUnmark
  PROVE  VersionsInv'
<1>0. op \in OpType /\ op.img \in Images /\ FilesTyped
  BY OpFields DEF Wide
<1>00. cache[op.img] \in File
  BY <1>0, FilesAt
<1> DEFINE f == [cache[op.img] EXCEPT !.conv = FALSE]
<1>01. cache[op.img] \in File /\ op.img \in Images
  BY <1>0, FilesAt
<1>1. f.ver = cache[op.img].ver /\ f.inuse = cache[op.img].inuse /\ f.conv = FALSE
  BY <1>01 DEF File
<1>2. WriteSync(op.img, f)
  BY DEF RestoreUnmark
<1> HIDE DEF f
<1>3. MarksSynced(op.img, cache[op.img].ver, cache[op.img].inuse, FALSE)
  BY <1>0, <1>01, <1>1, <1>2, MarksWritten
<1>4. /\ op'.pc = "r_clear" /\ op'.img = op.img /\ op'.ver = op.ver /\ op.pc = "r_unmark"
      /\ bak' = bak /\ core' = core
  BY <1>0, GotoAt DEF RestoreUnmark
<1>5. HeadersAgree'
  BY <1>01, <1>3 DEF VersionsInv, HeadersAgree, MarksSynced
<1>6. Versions'
  <2>1. ASSUME NEW v \in {1, 2}, cache[1].conv, cache'[1].conv, BackTo(v) PROVE BackTo(v)'
    BY <1>01, <1>3, <1>4, <2>1, ImagesNat DEF BackTo, MarksSynced, VersionsInv, Versions, Phase, GrowSteps, Lower, Lock, Restore, CheckPc
  <2> QED
    BY <1>01, <1>3, <1>4, <2>1, ImagesNat DEF VersionsInv, Versions, BackTo, MarksSynced, Phase, GrowSteps, Lower, Lock, Restore, CheckPc
<1>7. Phase'
  BY <1>01, <1>3, <1>4, ImagesNat DEF VersionsInv, Phase, MarksSynced, Running, GrowSteps, Lower, Lock, Restore, CheckPc
<1> QED
  BY <1>5, <1>6, <1>7 DEF VersionsInv

\* restore_fmt_version clears the dirty mark.
LEMMA RestoreClearVersions ==
  ASSUME Wide, VersionsInv, RestoreClear
  PROVE  VersionsInv'
<1>0. op \in OpType /\ op.img \in Images /\ FilesTyped
  BY OpFields DEF Wide
<1>00. cache[op.img] \in File
  BY <1>0, FilesAt
<1> DEFINE f == [cache[op.img] EXCEPT !.inuse = "no"]
<1>01. cache[op.img] \in File /\ op.img \in Images
  BY <1>0, FilesAt
<1>1. f.ver = cache[op.img].ver /\ f.inuse = "no" /\ f.conv = cache[op.img].conv
  BY <1>01 DEF File
<1>2. WriteSync(op.img, f)
  BY DEF RestoreClear
<1> HIDE DEF f
<1>3. MarksSynced(op.img, cache[op.img].ver, "no", cache[op.img].conv)
  BY <1>0, <1>01, <1>1, <1>2, MarksWritten
<1>4. /\ op'.pc = "r_unlink" /\ op'.img = op.img /\ op'.ver = op.ver /\ op.pc = "r_clear"
      /\ bak' = bak /\ core' = core
  BY <1>0, GotoAt DEF RestoreClear
<1>5. HeadersAgree'
  BY <1>01, <1>3 DEF VersionsInv, HeadersAgree, MarksSynced
<1>6. Versions'
  <2>1. ASSUME NEW v \in {1, 2}, cache[1].conv, cache'[1].conv, BackTo(v) PROVE BackTo(v)'
    BY <1>01, <1>3, <1>4, <2>1, ImagesNat DEF BackTo, MarksSynced, VersionsInv, Versions, Phase, GrowSteps, Lower, Lock, Restore, CheckPc
  <2> QED
    BY <1>01, <1>3, <1>4, <2>1, ImagesNat DEF VersionsInv, Versions, BackTo, MarksSynced, Phase, GrowSteps, Lower, Lock, Restore, CheckPc
<1>7. Phase'
  BY <1>01, <1>3, <1>4, ImagesNat DEF VersionsInv, Phase, MarksSynced, Running, GrowSteps, Lower, Lock, Restore, CheckPc
<1> QED
  BY <1>5, <1>6, <1>7 DEF VersionsInv

\* ploop_check clears the dirty mark.
LEMMA CheckHeaderVersions ==
  ASSUME Wide, VersionsInv, CheckHeader
  PROVE  VersionsInv'
<1>0. op \in OpType /\ op.img \in Images /\ FilesTyped
  BY OpFields DEF Wide
<1>00. cache[op.img] \in File
  BY <1>0, FilesAt
<1> DEFINE f == [cache[op.img] EXCEPT !.inuse = "no"]
<1>01. cache[op.img] \in File /\ op.img \in Images
  BY <1>0, FilesAt
<1>1. f.ver = cache[op.img].ver /\ f.inuse = "no" /\ f.conv = cache[op.img].conv
  BY <1>01 DEF File
<1>2. WriteSync(op.img, f)
  BY DEF CheckHeader
<1> HIDE DEF f
<1>3. MarksSynced(op.img, cache[op.img].ver, "no", cache[op.img].conv)
  BY <1>0, <1>01, <1>1, <1>2, MarksWritten
<1>4. /\ op.pc = "k_hdr" /\ bak' = bak /\ core' = core
      /\ \/ op.img = NImages /\ op'.pc = "start" /\ op'.img = op.img
         \/ op.img < NImages /\ op'.pc = "k_check" /\ op'.img = op.img + 1
  BY <1>0, Consts DEF CheckHeader, OpType, Images
<1>5. HeadersAgree'
  BY <1>01, <1>3 DEF VersionsInv, HeadersAgree, MarksSynced
<1>6. Versions'
  <2>1. ASSUME NEW v \in {1, 2}, cache[1].conv, cache'[1].conv, BackTo(v) PROVE BackTo(v)'
    BY <1>01, <1>3, <1>4, <2>1, ImagesNat DEF BackTo, MarksSynced, VersionsInv, Versions, Phase, GrowSteps, Lower, Lock, Restore, CheckPc
  <2> QED
    BY <1>01, <1>3, <1>4, <2>1, ImagesNat DEF VersionsInv, Versions, BackTo, MarksSynced, Phase, GrowSteps, Lower, Lock, Restore, CheckPc
<1>7. Phase'
  <2>1. CASE op'.pc = "start"
    BY <2>1, <1>01, <1>3, <1>4, ImagesNat, Consts DEF VersionsInv, Phase, MarksSynced, Running, GrowSteps, Lower, Lock, Restore, CheckPc
  <2>2. CASE op'.pc = "k_check"
    BY <2>2, <1>01, <1>3, <1>4, ImagesNat, Consts DEF VersionsInv, Phase, MarksSynced, Running, GrowSteps, Lower, Lock, Restore, CheckPc
  <2> QED
    BY <1>4, <2>1, <2>2
<1> QED
  BY <1>5, <1>6, <1>7 DEF VersionsInv

\* The device starts and marks the top delta.
LEMMA StartVersions ==
  ASSUME Wide, VersionsInv, Start
  PROVE  VersionsInv'
<1>0. op \in OpType /\ op.img \in Images /\ FilesTyped
  BY OpFields DEF Wide
<1>00. cache[op.img] \in File
  BY <1>0, FilesAt
<1> DEFINE f == [cache[Top] EXCEPT !.inuse = "yes"]
<1>01. cache[Top] \in File /\ Top \in Images
  BY <1>0, ImagesNat, FilesAt
<1>1. f.ver = cache[Top].ver /\ f.inuse = "yes" /\ f.conv = cache[Top].conv
  BY <1>01 DEF File
<1>2. WriteSync(Top, f)
  BY DEF Start
<1> HIDE DEF f
<1>3. MarksSynced(Top, cache[Top].ver, "yes", cache[Top].conv)
  BY <1>0, <1>01, <1>1, <1>2, MarksWritten
<1>4. /\ op.pc = "start" /\ op'.pc = "idle" /\ bak' = bak
  BY DEF Start, NoOp
<1>5. HeadersAgree'
  BY <1>01, <1>3 DEF VersionsInv, HeadersAgree, MarksSynced
<1>6. Versions'
  <2>1. ASSUME NEW v \in {1, 2}, cache[1].conv, cache'[1].conv, BackTo(v) PROVE BackTo(v)'
    BY <1>01, <1>3, <1>4, <2>1, ImagesNat DEF BackTo, MarksSynced, VersionsInv, Versions, Phase, GrowSteps, Lower, Lock, Restore, CheckPc
  <2> QED
    BY <1>01, <1>3, <1>4, <2>1, ImagesNat DEF VersionsInv, Versions, BackTo, MarksSynced, Phase, GrowSteps, Lower, Lock, Restore, CheckPc
<1>7. Phase'
  BY <1>01, <1>3, <1>4, ImagesNat DEF VersionsInv, Phase, MarksSynced, Running, GrowSteps, Lower, Lock, Restore, CheckPc
<1> QED
  BY <1>5, <1>6, <1>7 DEF VersionsInv

\* The device stops and clears the mark of the top delta.
LEMMA UmountVersions ==
  ASSUME Wide, VersionsInv, Umount
  PROVE  VersionsInv'
<1>0. op \in OpType /\ op.img \in Images /\ FilesTyped
  BY OpFields DEF Wide
<1>00. cache[op.img] \in File
  BY <1>0, FilesAt
<1> DEFINE f == [cache[Top] EXCEPT !.inuse = "no"]
<1>01. cache[Top] \in File /\ Top \in Images
  BY <1>0, ImagesNat, FilesAt
<1>1. f.ver = cache[Top].ver /\ f.inuse = "no" /\ f.conv = cache[Top].conv
  BY <1>01 DEF File
<1>2. WriteSync(Top, f)
  BY DEF Umount
<1> HIDE DEF f
<1>3. MarksSynced(Top, cache[Top].ver, "no", cache[Top].conv)
  BY <1>0, <1>01, <1>1, <1>2, MarksWritten
<1>4. /\ op.pc = "idle" /\ op'.pc = op.pc /\ bak' = bak /\ Running /\ core' = << >>
  BY DEF Umount, NoOp
<1>5. HeadersAgree'
  BY <1>01, <1>3 DEF VersionsInv, HeadersAgree, MarksSynced
<1>6. Versions'
  <2>1. ASSUME NEW v \in {1, 2}, cache[1].conv, cache'[1].conv, BackTo(v) PROVE BackTo(v)'
    BY <1>01, <1>3, <1>4, <2>1, ImagesNat DEF BackTo, MarksSynced, VersionsInv, Versions, Phase, GrowSteps, Lower, Lock, Restore, CheckPc
  <2> QED
    BY <1>01, <1>3, <1>4, <2>1, ImagesNat DEF VersionsInv, Versions, BackTo, MarksSynced, Phase, GrowSteps, Lower, Lock, Restore, CheckPc
<1>7. Phase'
  BY <1>01, <1>3, <1>4, ImagesNat DEF VersionsInv, Phase, MarksSynced, Running, GrowSteps, Lower, Lock, Restore, CheckPc
<1> QED
  BY <1>5, <1>6, <1>7 DEF VersionsInv

\* grow_delta: the new size, for which the table is in the file and on the
\* platter.
LEMMA GrowHeaderVersions ==
  ASSUME Wide, VersionsInv, GrowHeader
  PROVE  VersionsInv'
<1>0. op \in OpType /\ op.img \in Images /\ FilesTyped
  BY OpFields DEF Wide
<1>00. cache[op.img] \in File
  BY <1>0, FilesAt
<1> DEFINE f == [cache[op.img] EXCEPT !.size = op.size, !.inuse = "yes", !.conv = FALSE]
<1>1. f.ver = cache[op.img].ver /\ f.inuse = "yes" /\ f.conv = FALSE
  BY <1>00 DEF File
<1>2. SyncWrite(op.img, f)
  BY DEF GrowHeader
<1> HIDE DEF f
<1>01. op.img \in Images
  BY <1>0
<1>3. /\ \A j \in Images : j # op.img => cache'[j] = cache[j] /\ disk'[j] = disk[j]
      /\ cache'[op.img].ver = cache[op.img].ver /\ cache'[op.img].inuse = "yes"
      /\ cache'[op.img].conv = FALSE /\ disk'[op.img] = cache[op.img]
  BY <1>0, <1>1, <1>2 DEF WriteOnly, SyncWrite, Synced, FilesTyped
<1>4. /\ op'.pc = "g_clear" /\ op'.img = op.img /\ op'.ver = op.ver /\ op.pc = "g_find"
      /\ bak' = bak /\ core' = core
  BY <1>0, GotoAt DEF GrowHeader
<1>41. cache[op.img].inuse = "yes" /\ (cache[op.img].conv => op.img = Top)
  BY <1>0, <1>4 DEF VersionsInv, Phase, HeadersAgree, GrowSteps, Lower
<1>42. cache[op.img].conv \in BOOLEAN
  BY <1>00, FileFields
<1>5. HeadersAgree'
  BY <1>01, <1>3, <1>41, <1>42 DEF VersionsInv, HeadersAgree
<1>6. Versions'
  <2>1. ASSUME NEW v \in {1, 2}, cache[1].conv, cache'[1].conv, BackTo(v) PROVE BackTo(v)'
    BY <1>01, <1>3, <1>4, <1>42, <2>1, ImagesNat DEF BackTo, MarksSynced, VersionsInv, Versions, Phase, GrowSteps, Lower, Lock, Restore, CheckPc
  <2>2. CASE cache[1].conv /\ cache'[1].conv
    BY <2>1, <2>2 DEF VersionsInv, Versions
  <2>3. CASE cache[1].conv /\ ~ cache'[1].conv
    <3>1. op.img = 1
      BY <2>3, <1>3, ImagesNat
    <3>2. Images = {1}
      BY <2>3, <3>1, <1>4 DEF VersionsInv, Phase, GrowSteps, Top, Images
    <3> QED
      BY <2>3, <3>1, <3>2, <1>3 DEF Versions
  <2>4. CASE ~ cache[1].conv
    <3>1. ~ cache'[1].conv
      BY <2>4, <1>3, ImagesNat
    <3> QED
      BY <2>4, <3>1, <1>01, <1>3, ImagesNat DEF VersionsInv, Versions
  <2> QED
    BY <2>2, <2>3, <2>4
<1>7. Phase'
  BY <1>01, <1>3, <1>4, ImagesNat DEF VersionsInv, Phase, MarksSynced, Running, GrowSteps, Lower, Lock, Restore, CheckPc
<1> QED
  BY <1>5, <1>6, <1>7 DEF VersionsInv

\* grow_lower_delta: the header, not yet synced.
LEMMA LowerHeaderVersions ==
  ASSUME Wide, VersionsInv, LowerHeader
  PROVE  VersionsInv'
<1>0. op \in OpType /\ op.img \in Images /\ FilesTyped
  BY OpFields DEF Wide
<1>00. cache[op.img] \in File
  BY <1>0, FilesAt
<1> DEFINE f == [cache[op.img] EXCEPT !.size = op.size, !.inuse = "no"]
<1>1. f.ver = cache[op.img].ver /\ f.inuse = "no" /\ f.conv = cache[op.img].conv
  BY <1>00 DEF File
<1>2. WriteOnly(op.img, f)
  BY DEF LowerHeader
<1> HIDE DEF f
<1>01. op.img \in Images
  BY <1>0
<1>3. /\ \A j \in Images : j # op.img => cache'[j] = cache[j] /\ disk'[j] = disk[j]
      /\ cache'[op.img].ver = cache[op.img].ver /\ cache'[op.img].inuse = "no"
      /\ cache'[op.img].conv = cache[op.img].conv /\ disk'[op.img] = disk[op.img]
  BY <1>0, <1>1, <1>2 DEF WriteOnly, SyncWrite, Synced, FilesTyped
<1>4. /\ op'.pc = "l_sync" /\ op'.img = op.img /\ op'.ver = op.ver /\ op.pc = "l_zero"
      /\ bak' = bak /\ core' = core
  BY <1>0, GotoAt DEF LowerHeader
<1>41. cache[op.img].inuse = "no" /\ (op.pc \in Lower => disk[op.img].inuse = "no")
  BY <1>0, <1>4 DEF VersionsInv, Phase, HeadersAgree, GrowSteps, Lower
<1>5. HeadersAgree'
  BY <1>01, <1>3, <1>41 DEF VersionsInv, HeadersAgree
<1>6. Versions'
  <2>1. ASSUME NEW v \in {1, 2}, cache[1].conv, cache'[1].conv, BackTo(v) PROVE BackTo(v)'
    BY <1>01, <1>3, <1>4, <2>1, ImagesNat DEF BackTo, MarksSynced, VersionsInv, Versions, Phase, GrowSteps, Lower, Lock, Restore, CheckPc
  <2> QED
    BY <1>01, <1>3, <1>4, <2>1, ImagesNat DEF VersionsInv, Versions, BackTo, MarksSynced, Phase, GrowSteps, Lower, Lock, Restore, CheckPc
<1>7. Phase'
  BY <1>01, <1>3, <1>4, ImagesNat DEF VersionsInv, Phase, MarksSynced, Running, GrowSteps, Lower, Lock, Restore, CheckPc
<1> QED
  BY <1>5, <1>6, <1>7 DEF VersionsInv

\* restore_fmt_version: the delta is not marked.
LEMMA RestoreSkipVersions ==
  ASSUME Wide, VersionsInv, RestoreSkip
  PROVE  VersionsInv'
<1>0. op \in OpType /\ op.img \in Images /\ FilesTyped
  BY OpFields DEF Wide
<1>00. cache[op.img] \in File
  BY <1>0, FilesAt
<1>1. /\ UNCHANGED <<cache, disk, bak, core>> /\ op.pc = "r_open" /\ ~ cache[op.img].conv
      /\ \/ op.img = 1 /\ op'.pc = "k_check" /\ op'.img = 1
         \/ op.img # 1 /\ op.img = NImages /\ op'.pc = "r_open" /\ op'.img = 1
         \/ op.img # 1 /\ op.img < NImages /\ op'.pc = "r_open" /\ op'.img = op.img + 1
  BY <1>0, NextRestoreAt DEF RestoreSkip, Restore
<1>8. HeadersAgree' /\ Versions'
  BY <1>1, ControlStep DEF GrowSteps
<1>9. Phase'
  BY <1>0, <1>1, ImagesNat, Consts DEF VersionsInv, Phase, Running, GrowSteps, Lower, Lock, Restore, CheckPc, Images
<1> QED
  BY <1>8, <1>9 DEF VersionsInv

\* ploop_check: the image is clean.
LEMMA CheckSkipVersions ==
  ASSUME Wide, VersionsInv, CheckSkip
  PROVE  VersionsInv'
<1>0. op \in OpType /\ op.img \in Images /\ FilesTyped
  BY OpFields DEF Wide
<1>00. cache[op.img] \in File
  BY <1>0, FilesAt
<1>1. /\ UNCHANGED <<cache, disk, bak, core>> /\ op.pc = "k_check" /\ cache[op.img].inuse # "yes"
      /\ \/ op.img = NImages /\ op'.pc = "start" /\ op'.img = op.img
         \/ op.img < NImages /\ op'.pc = "k_check" /\ op'.img = op.img + 1
  BY <1>0, Consts DEF CheckSkip, NextCheck, OpType, Images
<1>8. HeadersAgree' /\ Versions'
  BY <1>1, ControlStep DEF GrowSteps
<1>9. Phase'
  <2>1. ~ cache[op.img].conv
    BY <1>0, <1>1 DEF VersionsInv, Phase, Versions, CheckPc
  <2> QED
    BY <1>0, <1>1, <2>1, ImagesNat, Consts DEF VersionsInv, Phase, Running, GrowSteps, Lower, Lock, Restore, CheckPc, Images
<1> QED
  BY <1>8, <1>9 DEF VersionsInv

\* ploop_mount_image takes the way of a restore if the base is marked.
LEMMA MountVersions ==
  ASSUME Wide, VersionsInv, Mount
  PROVE  VersionsInv'
<1>0. op \in OpType /\ op.img \in Images /\ FilesTyped
  BY OpFields DEF Wide
<1>00. cache[op.img] \in File
  BY <1>0, FilesAt
<1>1. /\ UNCHANGED <<cache, disk, bak, core>> /\ ~ Running /\ op.pc = "idle"
      /\ op'.pc = (IF cache[1].conv THEN "r_open" ELSE "k_check")
      /\ op'.img = (IF cache[1].conv /\ NImages > 1 THEN 2 ELSE 1)
  BY DEF Mount, NoOp
<1>8. HeadersAgree' /\ Versions'
  BY <1>1, ControlStep DEF GrowSteps
<1>9. Phase'
  BY <1>0, <1>1, ImagesNat, Consts DEF VersionsInv, Phase, Running, GrowSteps, Lower, Lock, Restore, CheckPc, Images
<1> QED
  BY <1>8, <1>9 DEF VersionsInv

\* ploop_change_fmt_version begins when all deltas can be opened.
LEMMA ConvertVersions ==
  ASSUME Wide, VersionsInv, NEW ver \in {1, 2}, Convert(ver)
  PROVE  VersionsInv'
<1>0. op \in OpType /\ op.img \in Images /\ FilesTyped
  BY OpFields DEF Wide
<1>00. cache[op.img] \in File
  BY <1>0, FilesAt
<1>1. /\ UNCHANGED <<cache, disk, bak, core>> /\ ~ Running /\ op.pc = "idle" /\ \A i \in Images : cache[i].inuse # "yes"
      /\ op'.pc = "c_backup" /\ op'.img = 1
  BY DEF Convert, NoOp, Called, CanOpen
<1>8. HeadersAgree' /\ Versions'
  BY <1>1, ControlStep DEF GrowSteps
<1>9. Phase'
  <2>1. \A i \in Images : cache[i].ver = cache[1].ver /\ (i > 1 /\ ~ cache[1].conv => ~ cache[i].conv)
    BY <1>1, ImagesNat DEF VersionsInv, Versions, BackTo
  <2> QED
    BY <1>1, <2>1, ImagesNat DEF Phase, Running, GrowSteps, Lower, Lock, Restore, CheckPc
<1> QED
  BY <1>8, <1>9 DEF VersionsInv

\* restore_fmt_version: the backup does not belong to the delta.
LEMMA RestoreFailsVersions ==
  ASSUME Wide, VersionsInv, RestoreFails
  PROVE  VersionsInv'
<1>0. op \in OpType /\ op.img \in Images /\ FilesTyped
  BY OpFields DEF Wide
<1>00. cache[op.img] \in File
  BY <1>0, FilesAt
<1>1. UNCHANGED <<cache, disk, bak, core>> /\ op'.pc = "idle"
  BY DEF RestoreFails, NoOp
<1>8. HeadersAgree' /\ Versions'
  BY <1>1, ControlStep DEF GrowSteps
<1>9. Phase'
  BY <1>0, <1>1, ImagesNat, Consts DEF VersionsInv, Phase, Running, GrowSteps, Lower, Lock, Restore, CheckPc, Images
<1> QED
  BY <1>8, <1>9 DEF VersionsInv

\* ploop_check: the image is not repaired.
LEMMA CheckRefusedVersions ==
  ASSUME Wide, VersionsInv, CheckRefused
  PROVE  VersionsInv'
<1>0. op \in OpType /\ op.img \in Images /\ FilesTyped
  BY OpFields DEF Wide
<1>00. cache[op.img] \in File
  BY <1>0, FilesAt
<1>1. UNCHANGED <<cache, disk, bak, core>> /\ op'.pc = "idle"
  BY DEF CheckRefused, NoOp
<1>8. HeadersAgree' /\ Versions'
  BY <1>1, ControlStep DEF GrowSteps
<1>9. Phase'
  BY <1>0, <1>1, ImagesNat, Consts DEF VersionsInv, Phase, Running, GrowSteps, Lower, Lock, Restore, CheckPc, Images
<1> QED
  BY <1>8, <1>9 DEF VersionsInv

\* The process is killed: the files stay as they are.
LEMMA KillVersions ==
  ASSUME Wide, VersionsInv, Kill
  PROVE  VersionsInv'
<1>0. op \in OpType /\ op.img \in Images /\ FilesTyped
  BY OpFields DEF Wide
<1>00. cache[op.img] \in File
  BY <1>0, FilesAt
<1>1. UNCHANGED <<cache, disk, bak, core>> /\ op'.pc = "idle"
  BY DEF Kill, NoOp
<1>8. HeadersAgree' /\ Versions'
  BY <1>1, ControlStep DEF GrowSteps
<1>9. Phase'
  BY <1>0, <1>1, ImagesNat, Consts DEF VersionsInv, Phase, Running, GrowSteps, Lower, Lock, Restore, CheckPc, Images
<1> QED
  BY <1>8, <1>9 DEF VersionsInv

\* grow_lower_delta: the fsync at the end.
LEMMA LowerSyncVersions ==
  ASSUME Wide, VersionsInv, LowerSync
  PROVE  VersionsInv'
<1>0. op \in OpType /\ op.img \in Images /\ FilesTyped
  BY OpFields DEF Wide
<1>00. cache[op.img] \in File
  BY <1>0, FilesAt
<1>1. disk' = [disk EXCEPT ![op.img] = cache[op.img]] /\ UNCHANGED <<cache, bak, core>> /\ op'.pc = "idle"
  BY DEF LowerSync, Synced, NoOp
<1>2. HeadersAgree'
  BY <1>0, <1>1 DEF VersionsInv, HeadersAgree, FilesTyped
<1>3. ASSUME NEW v \in {1, 2} PROVE BackTo(v) => BackTo(v)'
  BY <1>1 DEF BackTo, GrowSteps
<1>4. Versions'
  BY <1>1, <1>3 DEF VersionsInv, Versions
<1>5. Phase'
  BY <1>1, PhaseIdle DEF VersionsInv, Phase, Running
<1> QED
  BY <1>2, <1>4, <1>5 DEF VersionsInv

\* backup_idx_table
LEMMA BackupIndexVersions ==
  ASSUME Wide, VersionsInv, BackupIndex
  PROVE  VersionsInv'
<1>0. op \in OpType /\ op.img \in Images /\ FilesTyped
  BY OpFields DEF Wide
<1>00. cache[op.img] \in File
  BY <1>0, FilesAt
<1> DEFINE c == cache[op.img]
           b == [c EXCEPT !.blk = SubSeq(@, 1, L1(c))]
<1>1. /\ bak' = [bak EXCEPT ![op.img] = b] /\ UNCHANGED <<cache, disk, core>>
  BY DEF BackupIndex
<1>2. b \in File /\ SameHeader(b, c)
  <2>1. Len(c.blk) >= L1(c)
    BY <1>0 DEF Wide, TablesFit, TableIn, L1
  <2> QED
    BY <2>1, <1>00, BackupType
<1> HIDE DEF b
<1>3. b.ver = c.ver /\ b # NoBackup
  <2>1. b.ver = c.ver
    BY <1>2 DEF SameHeader
  <2>2. "ver" \in DOMAIN b /\ "ver" \notin DOMAIN NoBackup
    BY <1>2 DEF File, NoBackup
  <2> QED
    BY <2>1, <2>2
<1>4. /\ bak'[op.img] = b /\ \A j \in Images : j # op.img => bak'[j] = bak[j]
  BY <1>0, <1>1 DEF Wide, RestTyped
<1>5. /\ op'.ver = op.ver /\ op.pc = "c_backup"
      /\ \/ op.img < NImages /\ op'.pc = "c_backup" /\ op'.img = op.img + 1
         \/ op.img = NImages /\ op'.pc = "c_dirty" /\ op'.img = 1
  BY <1>0, NextImageAt DEF BackupIndex
<1>6. HeadersAgree'
  BY <1>1 DEF VersionsInv, HeadersAgree
<1>7. \A i \in Images : /\ cache[i].inuse # "yes" /\ cache[i].ver = cache[1].ver
                        /\ i > 1 /\ ~ cache[1].conv => ~ cache[i].conv
                        /\ i < op.img => bak[i] # NoBackup /\ bak[i].ver = cache[1].ver
  BY <1>5 DEF VersionsInv, Phase
<1>8. Versions'
  <2>1. CASE cache[1].conv
    <3>1. PICK v \in {1, 2} : BackTo(v)
      BY <2>1 DEF VersionsInv, Versions
    <3>2. v = cache[1].ver
      BY <3>1, <1>7, ImagesNat DEF BackTo
    <3>3. BackTo(v)'
      BY <1>0, <1>1, <1>3, <1>4, <1>5, <1>7, <3>1, <3>2 DEF BackTo, GrowSteps
    <3> QED
      BY <1>1, <2>1, <3>3 DEF VersionsInv, Versions
  <2>2. CASE ~ cache[1].conv
    BY <1>1, <2>2 DEF VersionsInv, Versions
  <2> QED
    BY <2>1, <2>2
<1>9. \A i \in Images : i < op.img + 1 => bak'[i] # NoBackup /\ bak'[i].ver = cache[1].ver
  BY <1>0, <1>3, <1>4, <1>7, ImagesNat
<1>10. Phase'
  <2>1. Running' => Running
    BY <1>1 DEF Running
  <2>2. ~ Running
    BY <1>5 DEF VersionsInv, Phase, Lower, GrowSteps
  <2>3. CASE op'.pc = "c_backup"
    BY <2>1, <2>2, <2>3, <1>1, <1>5, <1>7, <1>9, ImagesNat DEF Phase, Running, GrowSteps, Lower, Lock, Restore, CheckPc
  <2>4. CASE op'.pc = "c_dirty"
    <3>1. \A i \in Images : i < op.img + 1
      BY <2>4, <1>5, ImagesNat, Consts
    <3>2. \A i \in Images : ~ (i < 1)
      BY ImagesNat
    <3> QED
      BY <2>1, <2>2, <2>4, <3>1, <3>2, <1>1, <1>5, <1>7, <1>9, ImagesNat DEF Phase, Running, GrowSteps, Lower, Lock, Restore, CheckPc
  <2> QED
    BY <1>5, <2>3, <2>4
<1> QED
  BY <1>6, <1>8, <1>10 DEF VersionsInv

\* ploop_change_fmt_version unlinks the backups.
LEMMA DropBackupsVersions ==
  ASSUME Wide, VersionsInv, DropBackups
  PROVE  VersionsInv'
<1>0. op \in OpType /\ op.img \in Images /\ FilesTyped
  BY OpFields DEF Wide
<1>00. cache[op.img] \in File
  BY <1>0, FilesAt
<1>1. /\ UNCHANGED <<cache, disk, core>>
      /\ \A i \in Images : bak'[i] = bak[i] \/ bak'[i] = NoBackup
  BY <1>0 DEF DropBackups, Wide, RestTyped
<1>2. op'.pc = "idle"
  BY DEF DropBackups, NoOp
<1>3. HeadersAgree'
  BY <1>1 DEF VersionsInv, HeadersAgree
<1>4. ASSUME NEW v \in {1, 2}, BackTo(v) PROVE BackTo(v)'
  BY <1>1, <1>2, <1>4 DEF BackTo, GrowSteps
<1>5. Versions'
  BY <1>1, <1>4 DEF VersionsInv, Versions
<1>6. Phase'
  BY <1>0, <1>1, <1>2, ImagesNat, Consts DEF VersionsInv, Phase, Running, GrowSteps, Lower, Lock, Restore, CheckPc, Images
<1> QED
  BY <1>3, <1>5, <1>6 DEF VersionsInv

\* A failed backup removes all backups, before any delta is marked.
LEMMA BackupFailsVersions ==
  ASSUME Wide, VersionsInv, BackupFails
  PROVE  VersionsInv'
<1>0. op \in OpType /\ op.img \in Images /\ FilesTyped
  BY OpFields DEF Wide
<1>00. cache[op.img] \in File
  BY <1>0, FilesAt
<1>1. /\ UNCHANGED <<cache, disk, core>>
      /\ \A i \in Images : bak'[i] = bak[i] \/ bak'[i] = NoBackup
  BY <1>0 DEF BackupFails, Wide, RestTyped
<1>2. op'.pc = "idle"
  BY DEF BackupFails, NoOp
<1>3. HeadersAgree'
  BY <1>1 DEF VersionsInv, HeadersAgree
<1>4. ASSUME NEW v \in {1, 2}, BackTo(v) PROVE BackTo(v)'
  BY <1>1, <1>2, <1>4 DEF BackTo, GrowSteps
<1>5. Versions'
  BY <1>1, <1>4 DEF VersionsInv, Versions
<1>6. Phase'
  BY <1>0, <1>1, <1>2, ImagesNat, Consts DEF VersionsInv, Phase, Running, GrowSteps, Lower, Lock, Restore, CheckPc, Images
<1> QED
  BY <1>3, <1>5, <1>6 DEF VersionsInv

\* restore_fmt_version unlinks the backup.
LEMMA RestoreUnlinkVersions ==
  ASSUME Wide, VersionsInv, RestoreUnlink
  PROVE  VersionsInv'
<1>0. op \in OpType /\ op.img \in Images /\ FilesTyped
  BY OpFields DEF Wide
<1>00. cache[op.img] \in File
  BY <1>0, FilesAt
<1>1. /\ UNCHANGED <<cache, disk, core>>
      /\ \A i \in Images : bak'[i] = bak[i] \/ bak'[i] = NoBackup
  BY <1>0 DEF RestoreUnlink, Wide, RestTyped
<1>2. /\ op.pc = "r_unlink"
      /\ \/ op.img = 1 /\ op'.pc = "k_check" /\ op'.img = 1
         \/ op.img # 1 /\ op.img = NImages /\ op'.pc = "r_open" /\ op'.img = 1
         \/ op.img # 1 /\ op.img < NImages /\ op'.pc = "r_open" /\ op'.img = op.img + 1
  BY <1>0, NextRestoreAt DEF RestoreUnlink, Restore
<1>3. HeadersAgree'
  BY <1>1 DEF VersionsInv, HeadersAgree
<1>4. ASSUME NEW v \in {1, 2}, BackTo(v) PROVE BackTo(v)'
  BY <1>1, <1>2, <1>4 DEF BackTo, GrowSteps
<1>5. Versions'
  BY <1>1, <1>4 DEF VersionsInv, Versions
<1>6. Phase'
  BY <1>0, <1>1, <1>2, ImagesNat, Consts DEF VersionsInv, Phase, Running, GrowSteps, Lower, Lock, Restore, CheckPc, Images
<1> QED
  BY <1>3, <1>5, <1>6 DEF VersionsInv

\* do_restore_fmt_version: header and table of the backup, not yet synced.
LEMMA RestoreIndexVersions ==
  ASSUME Wide, VersionsInv, RestoreIndex
  PROVE  VersionsInv'
<1>0. op \in OpType /\ op.img \in Images /\ FilesTyped
  BY OpFields DEF Wide
<1>00. cache[op.img] \in File
  BY <1>0, FilesAt
<1> DEFINE c == cache[op.img]
           b == bak[op.img]
           f == Restored(c, b)
<1>1. /\ b.size = c.size /\ WriteOnly(op.img, f) /\ c.conv /\ op.pc = "r_open"
      /\ bak' = bak /\ core' = core
  BY DEF RestoreIndex, Restored
<1>2. b \in File /\ b # NoBackup
  <2>1. c.size > 0
    <3>1. c.size \in Nat /\ disk[op.img] \in File /\ disk[op.img].size \in Nat
      BY <1>0, <1>00, FilesAt, FileFields
    <3> QED
      BY <3>1, <1>0 DEF Wide, TablesFit
  <2>2. b \in File \cup {NoBackup}
    BY <1>0 DEF Wide, RestTyped
  <2>3. NoBackup.size = 0
    BY DEF NoBackup
  <2> QED
    BY <1>1, <2>1, <2>2, <2>3
<1> HIDE DEF b
<1>3. f.ver = b.ver /\ f.inuse = "one" /\ f.conv = TRUE
  BY <1>00, <1>2, RestoredType
<1> HIDE DEF f
<1>4. /\ disk' = disk /\ \A j \in Images : j # op.img => cache'[j] = cache[j]
      /\ cache'[op.img].ver = b.ver /\ cache'[op.img].inuse = "one" /\ cache'[op.img].conv
  BY <1>0, <1>1, <1>3 DEF WriteOnly, FilesTyped
<1>5. op'.pc = "r_unmark" /\ op'.img = op.img
  BY <1>0 DEF RestoreIndex, OpType
<1>6. cache[1].conv /\ (op.img = 1 => \A i \in Images \ {1} : ~ cache[i].conv)
  BY <1>1 DEF VersionsInv, Phase, Restore
<1>7. ASSUME NEW v \in {1, 2}, BackTo(v) PROVE BackTo(v)' /\ b.ver = v
  <2>1. b.ver = v
    BY <1>0, <1>1, <1>2, <1>7 DEF BackTo, b
  <2> QED
    BY <1>0, <1>1, <1>4, <1>5, <1>7, <2>1 DEF BackTo, GrowSteps
<1>8. PICK v \in {1, 2} : BackTo(v)
  BY <1>6 DEF VersionsInv, Versions
<1>9. Versions'
  <2>1. BackTo(v)' /\ cache'[1].conv
    BY <1>4, <1>6, <1>7, <1>8, ImagesNat
  <2> QED
    BY <2>1 DEF Versions
<1>10. HeadersAgree'
  <2>1. ASSUME NEW j \in Images
        PROVE  \/ /\ disk[j].conv = cache'[j].conv /\ disk[j].ver = cache'[j].ver
                  /\ disk[j].inuse = cache'[j].inuse
               \/ /\ disk[j].conv /\ cache'[j].conv /\ cache'[j].inuse = "one"
                  /\ disk[j].inuse # "yes" => disk[j].ver = cache'[j].ver
               \/ /\ j = Top /\ disk[j].conv /\ ~ cache'[j].conv
                  /\ disk[j].ver = cache'[j].ver
                  /\ disk[j].inuse = "yes" /\ cache'[j].inuse = "yes"
    <3>1. CASE j # op.img
      BY <3>1, <1>4 DEF VersionsInv, HeadersAgree
    <3>2. CASE j = op.img
      <4>1. disk[j].conv = c.conv
        BY <3>2, <1>1, <1>0, FilesAt, FileFields DEF VersionsInv, HeadersAgree
      <4>2. c.conv \in BOOLEAN /\ cache'[op.img].conv = TRUE
        BY <1>0, <1>00, FileFields, <1>1, <1>3 DEF WriteOnly, FilesTyped
      <4>3. ASSUME disk[j].inuse # "yes" PROVE disk[j].ver = v
        <5>1. c.inuse # "yes" /\ disk[j].ver = c.ver
          BY <3>2, <4>3 DEF VersionsInv, HeadersAgree
        <5> QED
          BY <3>2, <5>1, <1>0, <1>8 DEF BackTo
      <4> QED
        BY <3>2, <4>1, <4>2, <4>3, <1>1, <1>4, <1>7, <1>8
    <3> QED
      BY <3>1, <3>2
  <2> QED
    BY <2>1, <1>4 DEF HeadersAgree
<1>11. Phase'
  BY <1>0, <1>1, <1>4, <1>5, <1>6, ImagesNat DEF VersionsInv, Phase, Running, GrowSteps, Lower, Lock, Restore, CheckPc
<1> QED
  BY <1>9, <1>10, <1>11 DEF VersionsInv

\* A power loss keeps any part of what was not synced.
LEMMA PowerLossVersions ==
  ASSUME Wide, VersionsInv, PowerLoss
  PROVE  VersionsInv'
<1>0. op \in OpType /\ op.img \in Images /\ FilesTyped
  BY OpFields DEF Wide
<1>00. cache[op.img] \in File
  BY <1>0, FilesAt
<1>1. PICK left \in [Images -> UNION {Leftover(disk[i], cache[i]) : i \in Images}] :
         /\ \A i \in Images : left[i] \in Leftover(disk[i], cache[i])
         /\ cache' = left
         /\ disk' = left
  BY DEF PowerLoss
<1>2. ASSUME NEW i \in Images
      PROVE  SameMarks(left[i], disk[i]) \/ SameMarks(left[i], cache[i])
  <2> DEFINE g == left[i]
             d == disk[i]
             c == cache[i]
  <2>1. g \in Leftover(d, c) /\ d \in File /\ c \in File
    BY <1>0, <1>1, FilesAt
  <2> HIDE DEF g, c, d
  <2>2. SameHeader(g, d) \/ SameHeader(g, c)
    BY <2>1, LeftoverType
  <2> QED
    BY <2>2 DEF SameHeader, SameMarks, g, c, d
<1>3. /\ core' = << >> /\ op'.pc = "idle" /\ bak' = bak
  BY DEF PowerLoss, NoOp
<1>4. HeadersAgree'
  BY <1>1 DEF HeadersAgree
<1>5. ASSUME NEW i \in Images
      PROVE  /\ disk'[i] = cache'[i]
             /\ \/ /\ cache'[i].conv = cache[i].conv
                   /\ cache'[i].ver = cache[i].ver /\ cache'[i].inuse = cache[i].inuse
                \/ /\ cache'[i].conv = cache[i].conv /\ cache[i].conv
                   /\ cache[i].inuse = "one"
                   /\ cache'[i].inuse # "yes" => cache'[i].ver = cache[i].ver
                \/ /\ i = Top /\ disk[i].conv /\ ~ cache[i].conv
                   /\ cache'[i].ver = cache[i].ver /\ cache'[i].inuse = "yes"
  <2>1. /\ cache[i].conv \in BOOLEAN /\ disk[i].conv \in BOOLEAN
        /\ cache'[i] = left[i] /\ disk'[i] = left[i]
    BY <1>0, <1>1, FilesAt, FileFields
  <2> QED
    BY <2>1, <1>2 DEF VersionsInv, HeadersAgree, SameMarks
<1>6. ASSUME NEW v \in {1, 2}, BackTo(v) PROVE BackTo(v)'
  BY <1>3, <1>5, <1>6 DEF BackTo, GrowSteps
<1>7. Versions'
  <2>1. CASE cache[1].conv
    BY <2>1, <1>5, <1>6, ImagesNat DEF VersionsInv, Versions
  <2>2. CASE ~ cache[1].conv /\ ~ cache'[1].conv
    BY <2>2, <1>5, ImagesNat DEF VersionsInv, Versions
  <2>3. CASE ~ cache[1].conv /\ cache'[1].conv
    <3>1. 1 = Top /\ cache'[1].inuse = "yes"
      BY <2>3, <1>5, ImagesNat
    <3>2. Images = {1}
      BY <3>1 DEF Top, Images
    <3>3. \E v \in {1, 2} : bak[1] # NoBackup => bak[1].ver = v
      <4>1. bak[1] \in File \cup {NoBackup}
        BY ImagesNat DEF Wide, RestTyped
      <4> QED
        BY <4>1, FileFields
    <3> QED
      BY <2>3, <3>1, <3>2, <3>3, <1>3 DEF Versions, BackTo, GrowSteps
  <2> QED
    BY <2>1, <2>2, <2>3
<1>8. Phase'
  BY <1>3, PhaseIdle DEF Running
<1> QED
  BY <1>4, <1>7, <1>8 DEF VersionsInv

-----------------------------------------------------------------------------
(* The theorems.                                                           *)

\* the files that every image starts with
LEMMA NewFileType ==
  /\ LET empty == [k \in 1 .. FirstBlock(InitSize) |-> Zero]
         f == NewFile(InitSize, empty)
         g == NewFile(InitSize, empty \o <<Data(1)>>)
     IN  /\ f \in File /\ Len(f.blk) = FirstBlock(InitSize)
         /\ g \in File /\ Len(g.blk) = FirstBlock(InitSize) + 1
<1> DEFINE n == FirstBlock(InitSize)
           e == [k \in 1 .. n |-> Zero]
           s == e \o <<Data(1)>>
<1>1. n \in Nat
  BY Consts, FirstBlockNat
<1> HIDE DEF n
<1>2. e \in Seq(Cluster) /\ Len(e) = n
  BY <1>1, ZeroType
<1> HIDE DEF e
<1>3. <<Data(1)>> \in Seq(Cluster) /\ Len(<<Data(1)>>) = 1
  BY ZeroType
<1>4. s \in Seq(Cluster) /\ Len(s) = n + 1
  BY <1>2, <1>3, ConcatProperties
<1> HIDE DEF s
<1>5. InitSize \in Nat
  BY Consts
<1>6. NewFile(InitSize, e) \in File /\ NewFile(InitSize, e).blk = e
  BY <1>2, <1>5 DEF NewFile, File
<1>7. NewFile(InitSize, s) \in File /\ NewFile(InitSize, s).blk = s
  BY <1>4, <1>5 DEF NewFile, File
<1> QED
  BY <1>2, <1>4, <1>6, <1>7 DEF n, e, s

\* The image as it is created.
LEMMA InitInv == Init => ImageInv
<1> SUFFICES ASSUME Init PROVE ImageInv
  OBVIOUS
<1> DEFINE n == FirstBlock(InitSize)
           f == NewFile(InitSize, [k \in 1 .. n |-> Zero])
           g == NewFile(InitSize, [k \in 1 .. n |-> Zero] \o <<Data(1)>>)
<1>1. PICK first \in 0 .. InitSize - 1 :
        cache = [i \in Images |-> IF i = 1 THEN PWriteSlot(g, first, Encode(n, 1)) ELSE f]
  BY DEF Init
<1>2. n \in Nat /\ first \in Nat /\ InitSize \in Nat /\ InitSize > 0 /\ Encode(n, 1) \in Nat
  BY Consts, FirstBlockNat, EncodeType
<1>3. /\ f \in File /\ Len(f.blk) = n
      /\ g \in File /\ Len(g.blk) = n + 1
  BY NewFileType
<1>4. /\ f.ver = 1 /\ f.size = InitSize /\ f.inuse = "no" /\ f.conv = FALSE
      /\ g.ver = 1 /\ g.size = InitSize /\ g.inuse = "no" /\ g.conv = FALSE
  BY DEF NewFile
<1> DEFINE base == PWriteSlot(g, first, Encode(n, 1))
<1> HIDE DEF f, g
<1>5. /\ base \in File /\ SameHeader(base, g) /\ Len(base.blk) >= n + 1
  BY <1>2, <1>3, PWriteSlotType
<1>6. cache = [i \in Images |-> IF i = 1 THEN base ELSE f]
  BY <1>1
<1> HIDE DEF base
<1>7. \A i \in Images :
        /\ cache[i] \in File /\ Len(cache[i].blk) >= n
        /\ cache[i].ver = 1 /\ cache[i].size = InitSize
        /\ cache[i].inuse = "no" /\ cache[i].conv = FALSE
  <2> TAKE i \in Images
  <2>1. CASE i = 1
    BY <2>1, <1>2, <1>3, <1>4, <1>5, <1>6, FileFields DEF SameHeader
  <2>2. CASE i # 1
    BY <2>2, <1>2, <1>3, <1>4, <1>6
  <2> QED
    BY <2>1, <2>2
<1>8. /\ disk = cache /\ bak = [i \in Images |-> NoBackup]
      /\ core = << >> /\ op = NoOp /\ half = {} /\ writes = 1 /\ faults = 0
  BY DEF Init
<1>9. FilesTyped
  BY <1>6, <1>7, <1>8 DEF FilesTyped
<1>10. RestTyped
  BY <1>8 DEF RestTyped, Running
<1>11. TablesFit
  BY <1>2, <1>7, <1>8 DEF TablesFit, TableIn, n
<1>12. op \in OpType /\ GrowthFits
  BY <1>8, NoOpType DEF GrowthFits, GrowPc, LowerPc
<1>13. HeadersAgree
  BY <1>7, <1>8 DEF HeadersAgree
<1>14. Versions
  BY <1>7, ImagesNat DEF Versions
<1>15. Phase
  BY <1>7, <1>8, NoOpType DEF Phase, Running, GrowSteps, Lower, Lock, Restore, CheckPc
<1> QED
  BY <1>9, <1>10, <1>11, <1>12, <1>13, <1>14, <1>15 DEF ImageInv, Wide, VersionsInv

\* Steps of others.
LEMMA StutterInv == ImageInv /\ UNCHANGED vars => ImageInv'
<1> SUFFICES ASSUME ImageInv, UNCHANGED vars PROVE ImageInv'
  OBVIOUS
<1>1. /\ cache' = cache /\ disk' = disk /\ bak' = bak /\ core' = core /\ op' = op
      /\ half' = half /\ writes' = writes /\ faults' = faults
  BY DEF vars
<1>2. Wide'
  <2>1. FilesTyped' /\ RestTyped' /\ (op \in OpType)'
    BY <1>1 DEF ImageInv, Wide, FilesTyped, RestTyped, Running, IsMap
  <2>2. TablesFit' /\ GrowthFits'
    BY <1>1 DEF ImageInv, Wide, TablesFit, GrowthFits, TableIn
  <2> QED
    BY <2>1, <2>2 DEF Wide
<1>3. HeadersAgree' /\ Phase'
  BY <1>1 DEF ImageInv, VersionsInv, HeadersAgree, Phase, Running
<1>4. ASSUME NEW v \in {1, 2}, BackTo(v) PROVE BackTo(v)'
  BY <1>1, <1>4 DEF BackTo
<1>5. Versions'
  BY <1>1, <1>4 DEF ImageInv, VersionsInv, Versions
<1> QED
  BY <1>2, <1>3, <1>5 DEF ImageInv, VersionsInv

\* Growing the top delta or a lower one, one write or fsync at a time.
LEMMA GrowInv == ImageInv /\ Grow => ImageInv'
<1> SUFFICES ASSUME ImageInv, Grow PROVE ImageInv'
  OBVIOUS
<1> USE DEF ImageInv
<1>1. CASE GrowDirty
  BY <1>1, GrowDirtyTyped, GrowDirtyVersions
<1>2. CASE GrowAppend
  BY <1>2, GrowAppendTyped, GrowAppendVersions
<1>3. CASE RelocateData
  BY <1>3, RelocateDataTyped, RelocateDataVersions
<1>4. CASE RelocateIndex
  BY <1>4, RelocateIndexTyped, RelocateIndexVersions
<1>5. CASE Nullify
  BY <1>5, NullifyTyped, NullifyVersions
<1>6. CASE GrowHeader
  BY <1>6, GrowHeaderTyped, GrowHeaderVersions
<1>7. CASE GrowClear
  BY <1>7, GrowClearTyped, GrowClearVersions
<1>8. CASE LowerClear
  BY <1>8, LowerClearTyped, LowerClearVersions
<1>9. CASE LowerUpdateIndex
  BY <1>9, LowerUpdateIndexTyped, LowerUpdateIndexVersions
<1>10. CASE LowerNullify
  BY <1>10, LowerNullifyTyped, LowerNullifyVersions
<1>11. CASE LowerHeader
  BY <1>11, LowerHeaderTyped, LowerHeaderVersions
<1>12. CASE LowerSync
  BY <1>12, LowerSyncTyped, LowerSyncVersions
<1> QED
  BY <1>1, <1>2, <1>3, <1>4, <1>5, <1>6, <1>7, <1>8, <1>9, <1>10, <1>11, <1>12 DEF Grow

\* ploop_change_fmt_version, one delta at a time.
LEMMA ChangeVersionInv == ImageInv /\ ChangeVersion => ImageInv'
<1> SUFFICES ASSUME ImageInv, ChangeVersion PROVE ImageInv'
  OBVIOUS
<1> USE DEF ImageInv
<1>1. CASE BackupIndex
  BY <1>1, BackupIndexTyped, BackupIndexVersions
<1>2. CASE LockDelta
  BY <1>2, LockDeltaTyped, LockDeltaVersions
<1>3. CASE MarkDelta
  BY <1>3, MarkDeltaTyped, MarkDeltaVersions
<1>4. CASE ConvertIndex
  BY <1>4, ConvertIndexTyped, ConvertIndexVersions
<1>5. CASE ConvertVersion
  BY <1>5, ConvertVersionTyped, ConvertVersionVersions
<1>6. CASE UnmarkDelta
  BY <1>6, UnmarkDeltaTyped, UnmarkDeltaVersions
<1>7. CASE UnlockDelta
  BY <1>7, UnlockDeltaTyped, UnlockDeltaVersions
<1>8. CASE DropBackups
  BY <1>8, DropBackupsTyped, DropBackupsVersions
<1> QED
  BY <1>1, <1>2, <1>3, <1>4, <1>5, <1>6, <1>7, <1>8 DEF ChangeVersion

\* Restoring, checking and starting a device.
LEMMA MountStepsInv == ImageInv /\ MountSteps => ImageInv'
<1> SUFFICES ASSUME ImageInv, MountSteps PROVE ImageInv'
  OBVIOUS
<1> USE DEF ImageInv
<1>1. CASE RestoreSkip
  BY <1>1, RestoreSkipTyped, RestoreSkipVersions
<1>2. CASE RestoreFails
  BY <1>2, RestoreFailsTyped, RestoreFailsVersions
<1>3. CASE RestoreIndex
  BY <1>3, RestoreIndexTyped, RestoreIndexVersions
<1>31. CASE RestoreTable
  BY <1>31, RestoreTableTyped, RestoreTableVersions
<1>4. CASE RestoreUnmark
  BY <1>4, RestoreUnmarkTyped, RestoreUnmarkVersions
<1>5. CASE RestoreClear
  BY <1>5, RestoreClearTyped, RestoreClearVersions
<1>6. CASE RestoreUnlink
  BY <1>6, RestoreUnlinkTyped, RestoreUnlinkVersions
<1>7. CASE CheckSkip
  BY <1>7, CheckSkipTyped, CheckSkipVersions
<1>8. CASE CheckRefused
  BY <1>8, CheckRefusedTyped, CheckRefusedVersions
<1>9. CASE CheckRepair
  BY <1>9, CheckRepairTyped, CheckRepairVersions
<1>10. CASE CheckHeader
  BY <1>10, CheckHeaderTyped, CheckHeaderVersions
<1>11. CASE Start
  BY <1>11, StartTyped, StartVersions
<1> QED
  BY <1>1, <1>2, <1>3, <1>31, <1>4, <1>5, <1>6, <1>7, <1>8, <1>9, <1>10, <1>11 DEF MountSteps

\* ploop_grow_image, ploop_change_fmt_version, mount and umount begin.
LEMMA CallInv == ImageInv /\ Call => ImageInv'
<1> SUFFICES ASSUME ImageInv, Call PROVE ImageInv'
  OBVIOUS
<1> USE DEF ImageInv
<1>1. ASSUME NEW size \in 1 .. MaxSize, GrowOffline(size) PROVE ImageInv'
  BY <1>1, GrowOfflineTyped, GrowOfflineVersions
<1>2. CASE GrowLower
  BY <1>2, GrowLowerTyped, GrowLowerVersions
<1>3. ASSUME NEW ver \in {1, 2}, Convert(ver) PROVE ImageInv'
  BY <1>3, ConvertTyped, ConvertVersions
<1>4. CASE Mount
  BY <1>4, MountTyped, MountVersions
<1>5. CASE Umount
  BY <1>5, UmountTyped, UmountVersions
<1> QED
  BY <1>1, <1>2, <1>3, <1>4, <1>5 DEF Call

\* The guest writes while the device runs.
LEMMA GuestInv == ImageInv /\ Guest => ImageInv'
<1> SUFFICES ASSUME ImageInv, Guest PROVE ImageInv'
  OBVIOUS
<1> USE DEF ImageInv
<1>1. ASSUME NEW clu \in 0 .. MaxSize - 1, GuestOverwrite(clu) PROVE ImageInv'
  BY <1>1, GuestOverwriteTyped, GuestOverwriteVersions
<1>2. ASSUME NEW clu \in 0 .. MaxSize - 1, GuestAllocate(clu) PROVE ImageInv'
  BY <1>2, GuestAllocateTyped, GuestAllocateVersions
<1>3. CASE GuestMap
  BY <1>3, GuestMapTyped, GuestMapVersions
<1> QED
  BY <1>1, <1>2, <1>3 DEF Guest

\* The invariant holds in every state: at the start every table is in its file
\* and no delta is marked, and every step keeps both layers.
THEOREM Invariant == Spec => []ImageInv
<1>1. Init => ImageInv
  BY InitInv
<1>2. ImageInv /\ [Next]_vars => ImageInv'
  <2> SUFFICES ASSUME ImageInv, [Next]_vars PROVE ImageInv'
    OBVIOUS
  <2>1. CASE Step
    BY <2>1, GrowInv, ChangeVersionInv, MountStepsInv DEF Step
  <2>2. CASE Call
    BY <2>2, CallInv
  <2>3. CASE Guest
    BY <2>3, GuestInv
  <2>4. CASE Kill
    BY <2>4, KillTyped, KillVersions DEF ImageInv
  <2>5. CASE BackupFails
    BY <2>5, BackupFailsTyped, BackupFailsVersions DEF ImageInv
  <2>6. CASE PowerLoss
    BY <2>6, PowerLossTyped, PowerLossVersions DEF ImageInv
  <2>7. CASE UNCHANGED vars
    BY <2>7, StutterInv
  <2> QED
    BY <2>1, <2>2, <2>3, <2>4, <2>5, <2>6, <2>7 DEF Next
<1> QED
  BY <1>1, <1>2, PTL DEF Spec

\* TypeOK: types, and no file ends inside its own index table at any step of
\* grow_delta, of a restore or of a repair, nor after a power loss.
THEOREM TypeCorrect == Spec => []TypeOK
<1>1. ImageInv => TypeOK
  <2> SUFFICES ASSUME ImageInv PROVE TypeOK
    OBVIOUS
  <2>1. \A i \in Images : AllocHead(cache[i]) >= L1(cache[i])
    BY DEF ImageInv, Wide, TablesFit, TableIn, AllocHead, L1
  <2> QED
    BY <2>1 DEF ImageInv, Wide, FilesTyped, RestTyped, TypeOK
<1> QED
  BY <1>1, Invariant, PTL

\* VersionsAgree: PLOOP_IOC_ADD_DELTA is never given deltas of two format
\* versions.  A mount starts the device only when the base is not marked, and
\* the mark of the base is set before the first version changes and removed only
\* when all are the same again.
THEOREM OneVersion == Spec => []VersionsAgree
<1>1. ImageInv => VersionsAgree
  <2> SUFFICES ASSUME ImageInv, Running, NEW i \in Images, NEW j \in Images
               PROVE  cache[i].ver = cache[j].ver
    BY DEF VersionsAgree
  <2>1. ~ cache[1].conv
    BY ImagesNat DEF ImageInv, VersionsInv, Phase
  <2> QED
    BY <2>1 DEF ImageInv, VersionsInv, Versions
<1> QED
  BY <1>1, Invariant, PTL
=============================================================================
