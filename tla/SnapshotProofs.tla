--------------------------- MODULE SnapshotProofs ---------------------------
(***************************************************************************)
(* Proofs about Snapshot, for any uuids, files, blocks and bounds, in      *)
(* four parts.  First, what the lookups and updates of DiskDescriptor      *)
(* return, for descriptors of any length: types, which files a changed     *)
(* descriptor lists, and under which conditions a snapshot tree stays one. *)
(*                                                                         *)
(* Second, SnapshotInv is inductive; it implies that all variables keep    *)
(* their type and, when the clients do not merge into a new delta, that    *)
(* DiskDescriptor.xml never names a missing file.  One lemma per action,   *)
(* with a step for the files and descriptors, the devices, the operation   *)
(* and the order of file operations.                                       *)
(*                                                                         *)
(* Third, DiskDescriptor.xml stays a well-formed snapshot tree, through    *)
(* every fault.  The invariant says which descriptor the running operation *)
(* works on: the stored one while it only reads, a tree of its own between *)
(* a deletion and its store, and what conf.tmp holds from there to the     *)
(* rename.                                                                 *)
(*                                                                         *)
(* Fourth, without faults no operation leaves an image file or a conf.tmp  *)
(* behind.  The invariant says, for every step, which files there are and  *)
(* which of them each of the three descriptors lists.                      *)
(***************************************************************************)
EXTENDS Snapshot, FiniteSetTheorems, WellFoundedInduction, TLAPS

\* Two descriptors list the same files in the same order.
SameFiles(d, e) == /\ DOMAIN d.ent = DOMAIN e.ent
                   /\ \A i \in DOMAIN d.ent : d.ent[i].file = e.ent[i].file

-----------------------------------------------------------------------------
(* Lookups.                                                                *)

\* A non-empty set of numbers has a smallest element, the one the
\* first-match loops of the code stop at.
LEMMA Least == \A S \in SUBSET Nat : S # {} => \E i \in S : \A j \in S : i <= j
<1> SUFFICES ASSUME NEW S \in SUBSET Nat, S # {}
             PROVE  \E i \in S : \A j \in S : i <= j
  OBVIOUS
<1> DEFINE R == OpToRel(<, Nat)
<1>1. IsWellFoundedOn(R, Nat)
  BY NatLessThanWellFounded
<1>2. \A i, j \in Nat : j < i => <<j, i>> \in R
  BY Zenon DEF OpToRel
<1> HIDE DEF R
<1>3. \E i \in S : \A j \in S : ~ (<<j, i>> \in R)
  BY <1>1, WFMin
<1>4. PICK i \in S : \A j \in S : ~ (<<j, i>> \in R)
  BY <1>3
<1>5. \A j \in S : ~ (j < i)
  BY <1>2, <1>4
<1> QED
  BY <1>5

\* find_snapshot_by_guid finds an entry with the uuid when there is one.
LEMMA FindIs == ASSUME NEW di \in Descriptor, NEW g, Has(di, g)
                PROVE  /\ Find(di, g) \in DOMAIN di.ent
                       /\ di.ent[Find(di, g)].guid = g
<1> DEFINE S == {i \in DOMAIN di.ent : di.ent[i].guid = g}
<1>1. S \in SUBSET Nat /\ S # {}
  BY DEF Has, Descriptor
<1>2. \E i \in S : \A j \in S : i <= j
  BY <1>1, Least
<1>3. \E i \in DOMAIN di.ent :
         /\ di.ent[i].guid = g
         /\ \A j \in DOMAIN di.ent : di.ent[j].guid = g => i <= j
  BY <1>2
<1> QED
  BY <1>3 DEF Find

\* An entry found by its uuid has a file, a parent and a flag.
LEMMA LookupType == ASSUME NEW di \in Descriptor, NEW g, Has(di, g)
                    PROVE  /\ FileOf(di, g) \in FilesOf(di)
                           /\ FileOf(di, g) \in File
                           /\ ParentOf(di, g) \in AnyGuid \cup {NoneUuid}
                           /\ IsTemp(di, g) \in BOOLEAN
<1> DEFINE e == di.ent[Find(di, g)]
<1>1. Find(di, g) \in DOMAIN di.ent
  BY FindIs
<1>2. di.ent \in Seq(Entry)
  BY DEF Descriptor
<1>3. e \in Entry
  BY <1>1, <1>2
<1>4. e.file \in FilesOf(di)
  BY <1>1 DEF FilesOf
<1> HIDE DEF e
<1>5. /\ e.file \in File
      /\ e.parent \in AnyGuid \cup {NoneUuid}
      /\ e.temp \in BOOLEAN
  BY <1>3 DEF Entry
<1> QED
  BY <1>4, <1>5 DEF FileOf, ParentOf, IsTemp, e

\* A snapshot whose child count is not 0 has a first child.
LEMMA ChildType == ASSUME NEW di \in Descriptor, NEW g, ChildCount(di, g) # 0
                   PROVE  ChildOf(di, g) \in AnyGuid
<1>1. Children(di, g) # {}
  BY FS_EmptySet DEF ChildCount
<1>2. Children(di, g) \in SUBSET Nat /\ Children(di, g) \subseteq DOMAIN di.ent
  BY DEF Children, Descriptor
<1>3. \E i \in Children(di, g) : \A j \in Children(di, g) : i <= j
  BY <1>1, <1>2, Least
<1> DEFINE c == CHOOSE i \in Children(di, g) : \A j \in Children(di, g) : i <= j
<1>4. c \in DOMAIN di.ent
  BY <1>2, <1>3
<1> HIDE DEF c
<1>5. di.ent \in Seq(Entry)
  BY DEF Descriptor
<1>6. di.ent[c] \in Entry
  BY <1>4, <1>5
<1>7. di.ent[c].guid \in AnyGuid
  BY <1>6 DEF Entry
<1> QED
  BY <1>7 DEF ChildOf, c

\* make_images_list returns a list: its length is a number of steps of the
\* walk to the base.
LEMMA ImagesListSeq == ASSUME NEW di \in Descriptor, NEW g, NEW S,
                              {ImagesList(di, g)[i] :
                                  i \in DOMAIN ImagesList(di, g)} \subseteq S
                       PROVE  ImagesList(di, g) \in Seq(S)
<1> DEFINE walk == Walk(di, g)
           roots == {n \in 0 .. Len(di.ent) : walk[n] = NoneUuid}
           d == CHOOSE n \in roots : \A m \in roots : n <= m
           list == [i \in 1 .. d |-> FileOf(di, walk[d - i])]
<1>1. ImagesList(di, g) = IF roots = {} THEN << >> ELSE list
  BY DEF ImagesList
<1>2. CASE roots = {}
  BY <1>1, <1>2
<1>3. CASE roots # {}
  <2>1. Len(di.ent) \in Nat
    BY DEF Descriptor
  <2>2. roots \in SUBSET Nat
    BY <2>1
  <2>3. \E n \in roots : \A m \in roots : n <= m
    BY <2>2, <1>3, Least
  <2>4. d \in Nat
    BY <2>2, <2>3
  <2>5. ImagesList(di, g) = list
    BY <1>1, <1>3
  <2> HIDE DEF d, walk
  <2>6. DOMAIN list = 1 .. d
    OBVIOUS
  <2>7. \A i \in 1 .. d : list[i] \in S
    BY <2>5, <2>6
  <2>8. list \in [1 .. d -> S]
    BY <2>7
  <2> QED
    BY <2>4, <2>5, <2>8
<1> QED
  BY <1>2, <1>3

-----------------------------------------------------------------------------
(* Updates keep the type.                                                  *)

\* remove_data_from_array returns an array.
LEMMA RemoveAtType == ASSUME NEW S, NEW s \in Seq(S), NEW k
                      PROVE  RemoveAt(s, k) \in Seq(S)
<1>1. CASE s = << >>
  BY <1>1 DEF RemoveAt
<1>2. CASE s # << >>
  <2>1. Len(s) - 1 \in Nat
    BY <1>2
  <2>2. \A i \in 1 .. Len(s) - 1 : s[i] \in S /\ s[i+1] \in S
    BY <1>2
  <2>3. RemoveAt(s, k) \in [1 .. Len(s) - 1 -> S]
    BY <2>2 DEF RemoveAt
  <2> QED
    BY <2>1, <2>3
<1> QED
  BY <1>1, <1>2

\* ploop_di_add_image keeps the type.
LEMMA AddImageType ==
  ASSUME NEW di \in Descriptor, NEW f \in File, NEW g \in AnyGuid,
         NEW p \in AnyGuid
  PROVE  AddImage(di, f, g, p) \in Descriptor
<1>1. [guid |-> g, parent |-> p, temp |-> FALSE, file |-> f] \in Entry
  BY DEF Entry
<1> QED
  BY <1>1 DEF AddImage, Descriptor

\* ploop_di_change_guid keeps the type, wherever its loop stops.
LEMMA ChangeGuidType ==
  ASSUME NEW di \in Descriptor, NEW g, NEW new \in AnyGuid, NEW last
  PROVE  /\ ChangeGuidUpTo(di, g, new, last) \in Descriptor
         /\ ChangeGuid(di, g, new) \in Descriptor
<1>1. \A e \in Entry : RenamedIn(e, g, new) \in Entry
  BY DEF Entry, Renamed, RenamedIn
<1>2. ASSUME NEW n
      PROVE  ChangeGuidUpTo(di, g, new, n) \in Descriptor
  <2> DEFINE ent == [i \in DOMAIN di.ent |->
              IF i <= n THEN RenamedIn(di.ent[i], g, new) ELSE di.ent[i]]
  <2>1. di.ent \in Seq(Entry) /\ di.top \in AnyGuid
    BY DEF Descriptor
  <2>2. \A i \in DOMAIN di.ent : ent[i] \in Entry
    BY <1>1, <2>1
  <2> HIDE DEF ent
  <2>3. DOMAIN ent = 1 .. Len(di.ent) /\ ent = [i \in DOMAIN ent |-> ent[i]]
    BY <2>1 DEF ent
  <2>4. ent \in [1 .. Len(di.ent) -> Entry]
    BY <2>1, <2>2, <2>3
  <2>5. ent \in Seq(Entry)
    BY <2>1, <2>4
  <2> QED
    BY <2>1, <2>5 DEF ChangeGuidUpTo, Descriptor, ent
<1>3. ChangeGuid(di, g, new) \in Descriptor
  BY <1>2 DEF ChangeGuid, Descriptor, Renamed
<1> QED
  BY <1>2, <1>3

\* Setting the temporary flag keeps the type of an entry.
LEMMA EntryTemp == \A e \in Entry : [e EXCEPT !.temp = TRUE] \in Entry
  BY DEF Entry

\* Setting the file name keeps the type of an entry.
LEMMA EntryFile == \A e \in Entry, f \in File : [e EXCEPT !.file = f] \in Entry
  BY DEF Entry

\* Taking over a uuid and a temporary flag keeps the type of an entry.
LEMMA EntryTaken == \A e \in Entry, g \in AnyGuid, t \in BOOLEAN :
                       TakenOver(e, g, t) \in Entry
  BY DEF Entry, TakenOver

\* ploop_di_set_temporary keeps the type.
LEMMA SetTemporaryType == ASSUME NEW di \in Descriptor, NEW g
                          PROVE  SetTemporary(di, g) \in Descriptor
<1>1. CASE Has(di, g)
  <2> DEFINE k == Find(di, g)
  <2>1. k \in DOMAIN di.ent
    BY <1>1, FindIs
  <2> HIDE DEF k
  <2>a. di.ent \in Seq(Entry)
    BY DEF Descriptor
  <2>b. [di.ent[k] EXCEPT !.temp = TRUE] \in Entry
    BY <2>1, <2>a, EntryTemp
  <2>2. [di.ent EXCEPT ![k].temp = TRUE] \in Seq(Entry)
    BY <2>1, <2>a, <2>b
  <2>3. [di EXCEPT !.ent[k].temp = TRUE] \in Descriptor
    BY <2>2 DEF Descriptor
  <2> QED
    BY <1>1, <2>3 DEF SetTemporary, k
<1>2. CASE ~ Has(di, g)
  BY <1>2 DEF SetTemporary
<1> QED
  BY <1>1, <1>2

\* Storing the name of the new delta keeps the type.
LEMMA SetFileType == ASSUME NEW di \in Descriptor, NEW g, NEW f \in File
                     PROVE  SetFile(di, g, f) \in Descriptor
<1> DEFINE k == Find(di, g)
<1> HIDE DEF k
<1>a. di.ent \in Seq(Entry)
  BY DEF Descriptor
<1>1. [di.ent EXCEPT ![k].file = f] \in Seq(Entry)
  <2>1. CASE k \in DOMAIN di.ent
    <3>1. [di.ent[k] EXCEPT !.file = f] \in Entry
      BY <1>a, <2>1, EntryFile
    <3> QED
      BY <1>a, <2>1, <3>1
  <2>2. CASE k \notin DOMAIN di.ent
    <3>1. [di.ent EXCEPT ![k].file = f] = di.ent
      BY <1>a, <2>2
    <3> QED
      BY <1>a, <3>1
  <2> QED
    BY <2>1, <2>2
<1>2. [di EXCEPT !.ent[k].file = f] \in Descriptor
  BY <1>1 DEF Descriptor
<1> QED
  BY <1>2 DEF SetFile, k

\* Taking an entry out of both arrays keeps the type.
LEMMA RemoveEntryType == ASSUME NEW di \in Descriptor, NEW k
                         PROVE  RemoveEntry(di, k) \in Descriptor
<1>1. RemoveAt(di.ent, k) \in Seq(Entry)
  BY RemoveAtType DEF Descriptor
<1> QED
  BY <1>1 DEF RemoveEntry, Descriptor

\* ploop_di_remove_image keeps the type.
LEMMA RemoveImageType == ASSUME NEW di \in Descriptor, NEW g, NEW renewTop
                         PROVE  RemoveImage(di, g, renewTop) \in Descriptor
<1> DEFINE k == Find(di, g)
           renamed == ChangeGuidUpTo(di, di.ent[k].parent, TopDelta, k)
<1>1. renamed \in Descriptor
  BY ChangeGuidType DEF AnyGuid
<1> HIDE DEF k, renamed
<1>2. RemoveEntry(renamed, k) \in Descriptor /\ RemoveEntry(di, k) \in Descriptor
  BY <1>1, RemoveEntryType
<1> QED
  BY <1>2 DEF RemoveImage, k, renamed

\* ploop_di_merge_image keeps the type.
LEMMA MergeImageType == ASSUME NEW di \in Descriptor, NEW g \in AnyGuid, Has(di, g)
                        PROVE  MergeImage(di, g) \in Descriptor
<1> DEFINE k == Find(di, g)
           p == di.ent[k].parent
           ent == [i \in DOMAIN di.ent |->
                     IF di.ent[i].guid = p
                     THEN TakenOver(di.ent[i], g, di.ent[k].temp)
                     ELSE di.ent[i]]
           taken == [di EXCEPT !.ent = ent]
           removed == RemoveEntry(taken, k)
<1>1. k \in DOMAIN di.ent
  BY FindIs
<1> HIDE DEF k
<1>2. di.ent \in Seq(Entry)
  BY DEF Descriptor
<1>a. di.ent[k].temp \in BOOLEAN
  <2>1. di.ent[k] \in Entry
    BY <1>1, <1>2
  <2> QED
    BY <2>1 DEF Entry
<1>b. \A i \in DOMAIN di.ent : ent[i] \in Entry
  BY <1>2, <1>a, EntryTaken
<1> HIDE DEF ent
<1>c. DOMAIN ent = 1 .. Len(di.ent) /\ ent = [i \in DOMAIN ent |-> ent[i]]
  BY <1>2 DEF ent
<1>3. ent \in [1 .. Len(di.ent) -> Entry]
  BY <1>b, <1>c
<1>d. ent \in Seq(Entry)
  BY <1>2, <1>3
<1>4. taken \in Descriptor
  BY <1>d DEF Descriptor
<1> HIDE DEF taken, p
<1>5. removed \in Descriptor
  BY <1>4, RemoveEntryType
<1> HIDE DEF removed
<1>6. ChangeGuid(removed, p, TopDelta) \in Descriptor
  BY <1>5, ChangeGuidType DEF AnyGuid
<1> QED
  BY <1>5, <1>6 DEF MergeImage, k, p, ent, taken, removed

-----------------------------------------------------------------------------
(* Which files a changed descriptor lists.                                 *)

\* Descriptors that list the same files agree on all questions about files.
LEMMA SameFilesFacts == ASSUME NEW d, NEW e, SameFiles(d, e)
                        PROVE  /\ FilesOf(d) = FilesOf(e)
                               /\ UniqueFiles(d) <=> UniqueFiles(e)
  BY DEF SameFiles, FilesOf, UniqueFiles

\* ploop_di_change_guid changes no file name.
LEMMA ChangeGuidFiles ==
  ASSUME NEW di \in Descriptor, NEW g, NEW new, NEW last
  PROVE  /\ SameFiles(ChangeGuidUpTo(di, g, new, last), di)
         /\ SameFiles(ChangeGuid(di, g, new), di)
<1>1. di.ent \in Seq(Entry)
  BY DEF Descriptor
<1>2. \A e \in Entry : RenamedIn(e, g, new).file = e.file
  BY DEF Entry, RenamedIn
<1>3. ASSUME NEW n
      PROVE  SameFiles(ChangeGuidUpTo(di, g, new, n), di)
  BY <1>1, <1>2 DEF ChangeGuidUpTo, SameFiles
<1>4. ChangeGuid(di, g, new).ent = ChangeGuidUpTo(di, g, new, Len(di.ent)).ent
  BY DEF ChangeGuid, ChangeGuidUpTo
<1> QED
  BY <1>3, <1>4 DEF SameFiles

\* ploop_di_set_temporary changes no file name.
LEMMA SetTemporaryFiles == ASSUME NEW di \in Descriptor, NEW g
                           PROVE  SameFiles(SetTemporary(di, g), di)
<1>1. CASE Has(di, g)
  <2> DEFINE k == Find(di, g)
  <2>1. k \in DOMAIN di.ent
    BY <1>1, FindIs
  <2> HIDE DEF k
  <2>2. di.ent \in Seq(Entry)
    BY DEF Descriptor
  <2>3. \A e \in Entry : [e EXCEPT !.temp = TRUE].file = e.file
    BY DEF Entry
  <2>4. [di.ent[k] EXCEPT !.temp = TRUE].file = di.ent[k].file
    BY <2>1, <2>2, <2>3
  <2> DEFINE ent == [di.ent EXCEPT ![k] = [di.ent[k] EXCEPT !.temp = TRUE]]
  <2>5. SetTemporary(di, g).ent = ent
    BY <1>1 DEF SetTemporary, k, Descriptor
  <2>6. DOMAIN ent = DOMAIN di.ent
    BY <2>2
  <2>7. \A i \in DOMAIN di.ent : ent[i].file = di.ent[i].file
    BY <2>2, <2>4
  <2> QED
    BY <2>5, <2>6, <2>7 DEF SameFiles
<1>2. CASE ~ Has(di, g)
  BY <1>2 DEF SetTemporary, SameFiles
<1> QED
  BY <1>1, <1>2

\* Taking entry k out removes its file from the list, and no other.
LEMMA RemoveEntryFiles ==
  ASSUME NEW di \in Descriptor, NEW k \in DOMAIN di.ent, UniqueFiles(di)
  PROVE  /\ FilesOf(RemoveEntry(di, k)) = FilesOf(di) \ {di.ent[k].file}
         /\ di.ent[k].file \in FilesOf(di)
         /\ UniqueFiles(RemoveEntry(di, k))
<1> DEFINE s == di.ent
           r == RemoveAt(s, k)
           at(i) == IF i < k THEN i ELSE i + 1
<1>1. s \in Seq(Entry) /\ k \in 1 .. Len(s) /\ Len(s) \in Nat
  BY DEF Descriptor
<1>2. RemoveEntry(di, k).ent = r
  BY DEF RemoveEntry, Descriptor
<1>3. DOMAIN r = 1 .. Len(s) - 1
  BY DEF RemoveAt
<1>4. \A i \in 1 .. Len(s) - 1 : r[i] = s[at(i)]
  BY DEF RemoveAt
<1>5. \A i \in 1 .. Len(s) - 1 : at(i) \in DOMAIN s /\ at(i) # k
  BY <1>1
<1>6. \A i, j \in 1 .. Len(s) - 1 : at(i) = at(j) => i = j
  BY <1>1
<1>7. \A i, j \in DOMAIN s : s[i].file = s[j].file => i = j
  BY DEF UniqueFiles
<1>d. \A j \in DOMAIN s \ {k} : \E i \in 1 .. Len(s) - 1 : at(i) = j
  <2> SUFFICES ASSUME NEW j \in DOMAIN s \ {k}
               PROVE  \E i \in 1 .. Len(s) - 1 : at(i) = j
    OBVIOUS
  <2> DEFINE i == IF j < k THEN j ELSE j - 1
  <2>1. i \in 1 .. Len(s) - 1 /\ at(i) = j
    BY <1>1
  <2> QED
    BY <2>1
<1> HIDE DEF s, r, at
<1>8. FilesOf(RemoveEntry(di, k)) = {r[i].file : i \in 1 .. Len(s) - 1}
  BY <1>2, <1>3 DEF FilesOf
<1>9. FilesOf(di) = {s[i].file : i \in DOMAIN s}
  BY DEF FilesOf, s
<1>10. FilesOf(RemoveEntry(di, k)) \subseteq FilesOf(di)
  BY <1>4, <1>5, <1>8, <1>9
<1>11. s[k].file \notin FilesOf(RemoveEntry(di, k))
  BY <1>1, <1>4, <1>5, <1>7, <1>8
<1>12. UniqueFiles(RemoveEntry(di, k))
  BY <1>2, <1>3, <1>4, <1>5, <1>6, <1>7 DEF UniqueFiles
<1>13. \A j \in DOMAIN s \ {k} : s[j].file \in FilesOf(RemoveEntry(di, k))
  BY <1>4, <1>8, <1>d
<1>14. FilesOf(di) \ {s[k].file} \subseteq FilesOf(RemoveEntry(di, k))
  BY <1>9, <1>13
<1>15. s[k].file \in FilesOf(di)
  BY <1>1, <1>9
<1> QED
  BY <1>10, <1>11, <1>12, <1>14, <1>15 DEF s

\* ploop_di_add_image adds one file.
LEMMA AddImageFiles ==
  ASSUME NEW di \in Descriptor, NEW f, NEW g, NEW p
  PROVE  /\ FilesOf(AddImage(di, f, g, p)) = FilesOf(di) \cup {f}
         /\ UniqueFiles(di) /\ f \notin FilesOf(di)
              => UniqueFiles(AddImage(di, f, g, p))
<1> DEFINE s == di.ent
           e == [guid |-> g, parent |-> p, temp |-> FALSE, file |-> f]
           r == Append(s, e)
<1>1. s \in Seq(Entry) /\ Len(s) \in Nat
  BY DEF Descriptor
<1>2. AddImage(di, f, g, p).ent = r
  BY DEF AddImage
<1>3. e.file = f
  OBVIOUS
<1> HIDE DEF s, e
<1>4. DOMAIN s = 1 .. Len(s) /\ DOMAIN r = 1 .. Len(s) + 1
  BY <1>1
<1>5. r[Len(s) + 1] = e /\ \A i \in 1 .. Len(s) : r[i] = s[i]
  BY <1>1
<1> HIDE DEF r
<1>6. FilesOf(di) = {s[i].file : i \in DOMAIN s}
  BY DEF FilesOf, s
<1>7. FilesOf(AddImage(di, f, g, p)) = {r[i].file : i \in DOMAIN r}
  BY <1>2 DEF FilesOf
<1>8. FilesOf(AddImage(di, f, g, p)) = FilesOf(di) \cup {f}
  <2>1. \A i \in DOMAIN r : r[i].file \in FilesOf(di) \cup {f}
    BY <1>1, <1>3, <1>4, <1>5, <1>6
  <2>2. \A i \in DOMAIN s : \E j \in DOMAIN r : s[i].file = r[j].file
    BY <1>1, <1>4, <1>5
  <2>3. \E j \in DOMAIN r : f = r[j].file
    BY <1>1, <1>3, <1>4, <1>5
  <2> QED
    BY <1>6, <1>7, <2>1, <2>2, <2>3
<1>9. ASSUME UniqueFiles(di), f \notin FilesOf(di)
      PROVE  UniqueFiles(AddImage(di, f, g, p))
  <2>1. \A i, j \in DOMAIN s : s[i].file = s[j].file => i = j
    BY <1>9 DEF UniqueFiles, s
  <2>2. \A i \in DOMAIN s : s[i].file # f
    BY <1>6, <1>9
  <2>3. \A i, j \in DOMAIN r : r[i].file = r[j].file => i = j
    BY <1>1, <1>3, <1>4, <1>5, <2>1, <2>2
  <2> QED
    BY <1>2, <2>3 DEF UniqueFiles
<1> QED
  BY <1>8, <1>9

\* ploop_di_remove_image takes the file of the image off the list, renaming
\* the parent or not.
LEMMA RemoveImageFiles ==
  ASSUME NEW di \in Descriptor, NEW g, NEW renewTop, Has(di, g), UniqueFiles(di)
  PROVE  /\ FilesOf(RemoveImage(di, g, renewTop)) = FilesOf(di) \ {FileOf(di, g)}
         /\ FileOf(di, g) \in FilesOf(di)
         /\ UniqueFiles(RemoveImage(di, g, renewTop))
<1> DEFINE k == Find(di, g)
           low == ChangeGuidUpTo(di, di.ent[k].parent, TopDelta, k)
           d == IF renewTop /\ g = di.top THEN low ELSE di
<1>1. k \in DOMAIN di.ent
  BY FindIs
<1>2. RemoveImage(di, g, renewTop) = RemoveEntry(d, k)
  BY DEF RemoveImage
<1>3. low \in Descriptor /\ SameFiles(low, di)
  BY ChangeGuidType, ChangeGuidFiles DEF AnyGuid
<1>4. SameFiles(di, di)
  BY DEF SameFiles
<1> HIDE DEF low, k
<1>5. d \in Descriptor /\ SameFiles(d, di)
  BY <1>3, <1>4
<1> HIDE DEF d
<1>6. k \in DOMAIN d.ent /\ d.ent[k].file = di.ent[k].file
  BY <1>1, <1>5 DEF SameFiles
<1>7. UniqueFiles(d) /\ FilesOf(d) = FilesOf(di)
  BY <1>5, SameFilesFacts
<1>8. /\ FilesOf(RemoveEntry(d, k)) = FilesOf(d) \ {d.ent[k].file}
      /\ d.ent[k].file \in FilesOf(d)
      /\ UniqueFiles(RemoveEntry(d, k))
  BY <1>5, <1>6, <1>7, RemoveEntryFiles
<1>9. FileOf(di, g) = di.ent[k].file
  BY DEF FileOf, k
<1> QED
  BY <1>2, <1>6, <1>7, <1>8, <1>9

\* ploop_di_merge_image takes the file of the child off the list.
LEMMA MergeImageFiles ==
  ASSUME NEW di \in Descriptor, NEW g \in AnyGuid, Has(di, g), UniqueFiles(di)
  PROVE  /\ FilesOf(MergeImage(di, g)) = FilesOf(di) \ {FileOf(di, g)}
         /\ FileOf(di, g) \in FilesOf(di)
         /\ UniqueFiles(MergeImage(di, g))
<1> DEFINE k == Find(di, g)
           p == di.ent[k].parent
           ent == [i \in DOMAIN di.ent |->
                     IF di.ent[i].guid = p
                     THEN TakenOver(di.ent[i], g, di.ent[k].temp)
                     ELSE di.ent[i]]
           taken == [di EXCEPT !.ent = ent]
           removed == RemoveEntry(taken, k)
<1>1. k \in DOMAIN di.ent
  BY FindIs
<1>2. MergeImage(di, g) = IF g = TopDelta THEN ChangeGuid(removed, p, TopDelta)
                                          ELSE removed
  BY DEF MergeImage
<1>3. di.ent \in Seq(Entry)
  BY DEF Descriptor
<1> HIDE DEF k
<1>4. di.ent[k] \in Entry
  BY <1>1, <1>3
<1>5. di.ent[k].temp \in BOOLEAN
  BY <1>4 DEF Entry
<1>6. \A e \in Entry, t \in BOOLEAN : TakenOver(e, g, t).file = e.file
  BY DEF Entry, TakenOver
<1>7. \A i \in DOMAIN di.ent : ent[i] \in Entry /\ ent[i].file = di.ent[i].file
  BY <1>3, <1>5, <1>6, EntryTaken
<1>8. DOMAIN ent = DOMAIN di.ent /\ ent = [i \in DOMAIN ent |-> ent[i]]
  OBVIOUS
<1> HIDE DEF ent
<1>9. ent \in [1 .. Len(di.ent) -> Entry]
  BY <1>3, <1>7, <1>8
<1>10. ent \in Seq(Entry)
  BY <1>3, <1>9
<1>11. taken \in Descriptor /\ taken.ent = ent
  BY <1>10 DEF Descriptor
<1>12. SameFiles(taken, di)
  BY <1>7, <1>8, <1>11 DEF SameFiles
<1> HIDE DEF taken, p
<1>13. UniqueFiles(taken) /\ FilesOf(taken) = FilesOf(di)
  BY <1>12, SameFilesFacts
<1>14. k \in DOMAIN taken.ent /\ taken.ent[k].file = di.ent[k].file
  BY <1>1, <1>12 DEF SameFiles
<1>15. /\ FilesOf(removed) = FilesOf(taken) \ {taken.ent[k].file}
       /\ taken.ent[k].file \in FilesOf(taken)
       /\ UniqueFiles(removed)
  BY <1>11, <1>13, <1>14, RemoveEntryFiles
<1>16. removed \in Descriptor
  BY <1>11, RemoveEntryType
<1> HIDE DEF removed
<1>17. SameFiles(ChangeGuid(removed, p, TopDelta), removed)
  BY <1>16, ChangeGuidFiles
<1>18. /\ FilesOf(ChangeGuid(removed, p, TopDelta)) = FilesOf(removed)
       /\ UniqueFiles(ChangeGuid(removed, p, TopDelta))
  BY <1>15, <1>17, SameFilesFacts
<1>19. FileOf(di, g) = di.ent[k].file
  BY DEF FileOf, k
<1> QED
  BY <1>2, <1>13, <1>14, <1>15, <1>18, <1>19

-----------------------------------------------------------------------------
(* The snapshot tree.                                                      *)

\* What WellFormed says of everything but the top delta, and that nothing
\* hangs below the top delta.
Base(di) == /\ di.ent # << >>
            /\ UniqueGuids(di)
            /\ UniqueFiles(di)
            /\ BaseFirst(di)
            /\ ParentsBefore(di)
            /\ \A i \in DOMAIN di.ent : di.ent[i].parent # TopDelta

\* A tree with its writable top delta.
Tree(di) == /\ Base(di)
            /\ di.top = TopDelta
            /\ \E i \in DOMAIN di.ent : di.ent[i].guid = TopDelta /\ ~ di.ent[i].temp

\* Two descriptors have the same uuids and parents.
SameShape(d, e) == /\ DOMAIN d.ent = DOMAIN e.ent
                   /\ \A i \in DOMAIN d.ent : /\ d.ent[i].guid = e.ent[i].guid
                                              /\ d.ent[i].parent = e.ent[i].parent

\* With unique uuids the lookup of an entry's uuid gives that entry.
LEMMA FindUnique ==
  ASSUME NEW di \in Descriptor, UniqueGuids(di), NEW i \in DOMAIN di.ent
  PROVE  Find(di, di.ent[i].guid) = i
<1>1. Has(di, di.ent[i].guid)
  BY DEF Has
<1>2. /\ Find(di, di.ent[i].guid) \in DOMAIN di.ent
      /\ di.ent[Find(di, di.ent[i].guid)].guid = di.ent[i].guid
  BY <1>1, FindIs
<1> QED
  BY <1>2 DEF UniqueGuids

\* A tree is well-formed.
LEMMA TreeWellFormed == ASSUME NEW di \in Descriptor, Tree(di)
                        PROVE  WellFormed(di)
<1>1. PICK i \in DOMAIN di.ent : di.ent[i].guid = TopDelta /\ ~ di.ent[i].temp
  BY DEF Tree
<1>2. Find(di, TopDelta) = i
  BY <1>1, FindUnique DEF Tree, Base
<1>3. Has(di, TopDelta) /\ ~ IsTemp(di, TopDelta)
  BY <1>1, <1>2 DEF Has, IsTemp
<1> QED
  BY <1>3 DEF WellFormed, Valid, Tree, Base

\* The entries of a descriptor and their number.
LEMMA EntriesType == ASSUME NEW di \in Descriptor
                     PROVE  /\ di.ent \in Seq(Entry)
                            /\ Len(di.ent) \in Nat
                            /\ DOMAIN di.ent = 1 .. Len(di.ent)
                            /\ di.ent # << >> => Len(di.ent) > 0
                            /\ \A i \in DOMAIN di.ent :
                                 /\ di.ent[i] \in Entry
                                 /\ di.ent[i].guid \in AnyGuid
                                 /\ di.ent[i].parent \in AnyGuid \cup {NoneUuid}
<1>1. di.ent \in Seq(Entry)
  BY DEF Descriptor
<1>2. \A i \in DOMAIN di.ent : di.ent[i] \in Entry
  BY <1>1
<1> QED
  BY <1>1, <1>2 DEF Entry

\* Whoever has no children is nobody's parent.
LEMMA NoChild == ASSUME NEW di \in Descriptor, NEW g, ChildCount(di, g) = 0
                 PROVE  \A i \in DOMAIN di.ent : di.ent[i].parent # g
<1>1. Children(di, g) \subseteq 1 .. Len(di.ent)
  BY EntriesType DEF Children
<1>2. IsFiniteSet(1 .. Len(di.ent))
  BY EntriesType, FS_Interval
<1>3. IsFiniteSet(Children(di, g))
  BY <1>1, <1>2, FS_Subset
<1>4. Children(di, g) = {}
  BY <1>3, FS_EmptySet DEF ChildCount
<1> QED
  BY <1>4 DEF Children

\* An only child is the only one.
LEMMA OnlyChild == ASSUME NEW di \in Descriptor, NEW g, ChildCount(di, g) <= 1,
                          NEW k \in DOMAIN di.ent, di.ent[k].parent = g
                   PROVE  \A i \in DOMAIN di.ent : di.ent[i].parent = g => i = k
<1> DEFINE S == Children(di, g)
<1>1. S \subseteq 1 .. Len(di.ent) /\ k \in S
  BY EntriesType DEF Children
<1>2. IsFiniteSet(1 .. Len(di.ent))
  BY EntriesType, FS_Interval
<1>3. IsFiniteSet(S)
  BY <1>1, <1>2, FS_Subset
<1>4. Cardinality(S) \in Nat /\ Cardinality(S) <= 1 /\ Cardinality(S) # 0
  <2>1. Cardinality(S) \in Nat
    BY <1>3, FS_CardinalityType
  <2>2. Cardinality(S) <= 1
    BY DEF ChildCount
  <2>3. Cardinality(S) # 0
    BY <1>1, <1>3, FS_EmptySet
  <2> QED
    BY <2>1, <2>2, <2>3
<1>a. Cardinality(S) = 1
  BY <1>4
<1>b. IsFiniteSet(S) => (Cardinality(S) = 1 <=> \E x : S = {x})
  BY FS_Singleton, Zenon
<1>5. PICK x : S = {x}
  BY <1>3, <1>a, <1>b
<1>6. \A i \in DOMAIN di.ent : di.ent[i].parent = g => i \in S
  BY DEF Children
<1> HIDE DEF S
<1> QED
  BY <1>1, <1>5, <1>6

\* Taking entry k out: the others keep their order.
LEMMA RemovedAt ==
  ASSUME NEW di \in Descriptor, NEW k \in DOMAIN di.ent
  PROVE  LET r == RemoveEntry(di, k).ent
             at(i) == IF i < k THEN i ELSE i + 1
         IN  /\ DOMAIN r = 1 .. Len(di.ent) - 1
             /\ RemoveEntry(di, k).top = di.top
             /\ \A i \in DOMAIN r : /\ at(i) \in DOMAIN di.ent \ {k}
                                    /\ r[i] = di.ent[at(i)]
             /\ \A j \in DOMAIN di.ent \ {k} :
                   \E i \in DOMAIN r : at(i) = j
<1> DEFINE s == di.ent
           r == RemoveAt(s, k)
           at(i) == IF i < k THEN i ELSE i + 1
<1>1. Len(s) \in Nat /\ DOMAIN s = 1 .. Len(s) /\ k \in 1 .. Len(s)
  BY EntriesType
<1>2. RemoveEntry(di, k).ent = r /\ RemoveEntry(di, k).top = di.top
  BY DEF RemoveEntry, Descriptor
<1>3. DOMAIN r = 1 .. Len(s) - 1
  BY DEF RemoveAt
<1>4. \A i \in 1 .. Len(s) - 1 : r[i] = s[at(i)]
  BY DEF RemoveAt
<1> HIDE DEF s, r
<1>5. \A i \in 1 .. Len(s) - 1 : at(i) \in DOMAIN s \ {k}
  BY <1>1
<1>6. ASSUME NEW j \in DOMAIN s \ {k}
      PROVE  \E i \in 1 .. Len(s) - 1 : at(i) = j
  <2> DEFINE i == IF j < k THEN j ELSE j - 1
  <2>1. i \in 1 .. Len(s) - 1 /\ at(i) = j
    BY <1>1
  <2> QED
    BY <2>1
<1> QED
  BY <1>2, <1>3, <1>4, <1>5, <1>6 DEF s

\* Taking an entry out that is not the base and that nobody hangs on leaves
\* the rest as it is.
LEMMA RemoveLeafBase ==
  ASSUME NEW di \in Descriptor, Base(di), NEW k \in DOMAIN di.ent,
         di.ent[k].parent # NoneUuid,
         \A i \in DOMAIN di.ent : i # k => di.ent[i].parent # di.ent[k].guid
  PROVE  /\ Base(RemoveEntry(di, k))
         /\ GuidsOf(RemoveEntry(di, k)) = GuidsOf(di) \ {di.ent[k].guid}
<1> DEFINE s == di.ent
           q == RemoveEntry(di, k)
           r == q.ent
           at(i) == IF i < k THEN i ELSE i + 1
<1>1. /\ Len(s) \in Nat /\ DOMAIN s = 1 .. Len(s) /\ k \in 1 .. Len(s)
      /\ s # << >>
  BY EntriesType DEF Base
<1>2. /\ DOMAIN r = 1 .. Len(s) - 1
      /\ \A i \in DOMAIN r : at(i) \in DOMAIN s \ {k} /\ r[i] = s[at(i)]
      /\ \A j \in DOMAIN s \ {k} : \E i \in DOMAIN r : at(i) = j
  BY RemovedAt
<1>3. /\ UniqueGuids(di) /\ UniqueFiles(di) /\ BaseFirst(di) /\ ParentsBefore(di)
      /\ \A i \in DOMAIN s : s[i].parent # TopDelta
  BY DEF Base
<1>4. k # 1 /\ Len(s) > 1
  BY <1>1, <1>3 DEF BaseFirst
<1>5. UniqueFiles(q)
  BY <1>3, RemoveEntryFiles
<1>6. \A i \in DOMAIN r : \A j \in DOMAIN r : at(i) = at(j) => i = j
  BY <1>1, <1>2
<1>7. \A i, j \in DOMAIN s : s[i].guid = s[j].guid => i = j
  BY <1>3 DEF UniqueGuids
<1>8. \A i \in DOMAIN s : s[i].parent = NoneUuid <=> i = 1
  BY <1>3 DEF BaseFirst
<1>9. \A i \in DOMAIN s : \/ s[i].parent = NoneUuid
                          \/ \E j \in 1 .. i - 1 : s[j].guid = s[i].parent
  BY <1>3 DEF ParentsBefore
<1>a. \A i \in DOMAIN s : i # k => s[i].parent # s[k].guid
  OBVIOUS
<1> HIDE DEF s, q
<1>10. UniqueGuids(q)
  BY <1>2, <1>6, <1>7 DEF UniqueGuids
<1>11. BaseFirst(q)
  <2> SUFFICES ASSUME NEW i \in DOMAIN r PROVE r[i].parent = NoneUuid <=> i = 1
    BY DEF BaseFirst
  <2>1. at(i) = 1 <=> i = 1
    BY <1>1, <1>2, <1>4
  <2> QED
    BY <1>2, <1>8, <2>1
<1>12. ParentsBefore(q)
  <2> SUFFICES ASSUME NEW i \in DOMAIN r, r[i].parent # NoneUuid
               PROVE  \E j \in 1 .. i - 1 : r[j].guid = r[i].parent
    BY DEF ParentsBefore
  <2>1. at(i) \in DOMAIN s \ {k} /\ r[i] = s[at(i)]
    BY <1>2
  <2>2. PICK jj \in 1 .. at(i) - 1 : s[jj].guid = r[i].parent
    BY <1>9, <2>1
  <2>3. jj \in DOMAIN s
    BY <1>1, <2>1
  <2>4. jj # k
    BY <1>a, <2>1, <2>2
  <2>5. PICK j \in DOMAIN r : at(j) = jj
    BY <1>2, <2>3, <2>4
  <2>6. r[j].guid = r[i].parent
    BY <1>2, <2>2, <2>5
  <2>7. j \in 1 .. i - 1
    BY <1>1, <1>2, <2>2, <2>5
  <2> QED
    BY <2>6, <2>7
<1>13. r # << >>
  BY <1>1, <1>2, <1>4
<1>14. \A i \in DOMAIN r : r[i].parent # TopDelta
  BY <1>2, <1>3 DEF s
<1>15. GuidsOf(q) = GuidsOf(di) \ {s[k].guid}
  <2>1. GuidsOf(q) = {r[i].guid : i \in DOMAIN r}
    BY DEF GuidsOf
  <2>2. GuidsOf(di) = {s[i].guid : i \in DOMAIN s}
    BY DEF GuidsOf, s
  <2>3. \A i \in DOMAIN r : r[i].guid \in GuidsOf(di) /\ r[i].guid # s[k].guid
    BY <1>1, <1>2, <1>7, <2>2
  <2>4. \A j \in DOMAIN s \ {k} : \E i \in DOMAIN r : r[i].guid = s[j].guid
    BY <1>2
  <2> QED
    BY <2>1, <2>2, <2>3, <2>4
<1> QED
  BY <1>5, <1>10, <1>11, <1>12, <1>13, <1>14, <1>15 DEF Base, s, q

\* Only a leaf passes the checks of ploop_di_remove_image.
LEMMA CanRemoveIs ==
  ASSUME NEW di \in Descriptor, NEW g, CanRemove(di, g)
  PROVE  LET k == Find(di, g)
         IN  /\ k \in DOMAIN di.ent
             /\ di.ent[k].guid = g
             /\ di.ent[k].parent # NoneUuid
             /\ \A i \in DOMAIN di.ent : di.ent[i].parent # g
<1>1. Has(di, g) /\ ChildCount(di, g) = 0 /\ di.ent[Find(di, g)].parent # NoneUuid
  BY DEF CanRemove, ParentOf
<1>2. Find(di, g) \in DOMAIN di.ent /\ di.ent[Find(di, g)].guid = g
  BY <1>1, FindIs
<1>3. \A i \in DOMAIN di.ent : di.ent[i].parent # g
  BY <1>1, NoChild
<1> QED
  BY <1>1, <1>2, <1>3

\* ploop_di_remove_image of a leaf below the top keeps the tree.
LEMMA RemoveImageTree ==
  ASSUME NEW di \in Descriptor, Tree(di), NEW g, CanRemove(di, g), g # TopDelta,
         NEW renewTop
  PROVE  /\ Tree(RemoveImage(di, g, renewTop))
         /\ GuidsOf(RemoveImage(di, g, renewTop)) \subseteq GuidsOf(di)
<1> DEFINE k == Find(di, g)
           q == RemoveEntry(di, k)
<1>1. /\ k \in DOMAIN di.ent /\ di.ent[k].guid = g /\ di.ent[k].parent # NoneUuid
      /\ \A i \in DOMAIN di.ent : di.ent[i].parent # g
  BY CanRemoveIs
<1>2. RemoveImage(di, g, renewTop) = q
  BY DEF RemoveImage, Tree
<1> HIDE DEF k
<1>3. Base(di) /\ di.top = TopDelta
  BY DEF Tree
<1>4. Base(q) /\ GuidsOf(q) \subseteq GuidsOf(di)
  BY <1>1, <1>3, RemoveLeafBase
<1>5. PICK t \in DOMAIN di.ent : di.ent[t].guid = TopDelta /\ ~ di.ent[t].temp
  BY DEF Tree
<1>6. q.top = TopDelta
  BY <1>1, <1>3, RemovedAt
<1>7. ASSUME NEW j \in DOMAIN di.ent \ {k}
      PROVE  \E i \in DOMAIN q.ent : q.ent[i] = di.ent[j]
  <2> DEFINE at(i) == IF i < k THEN i ELSE i + 1
  <2>1. /\ \A i \in DOMAIN q.ent : q.ent[i] = di.ent[at(i)]
        /\ \E i \in DOMAIN q.ent : at(i) = j
    BY <1>1, RemovedAt
  <2> HIDE DEF at, q
  <2> QED
    BY <2>1
<1>8. t # k
  BY <1>1, <1>5
<1>9. \E i \in DOMAIN q.ent : q.ent[i].guid = TopDelta /\ ~ q.ent[i].temp
  BY <1>5, <1>7, <1>8
<1> HIDE DEF q
<1> QED
  BY <1>2, <1>4, <1>6, <1>9 DEF Tree

\* Without the top delta a tree is one that a new top delta can be put on.
LEMMA RemoveTopBase ==
  ASSUME NEW di \in Descriptor, Tree(di), CanRemove(di, TopDelta)
  PROVE  LET q == RemoveImage(di, TopDelta, FALSE)
         IN  /\ Base(q)
             /\ ~ Has(q, TopDelta)
             /\ \A g : Has(di, g) /\ g # TopDelta => Has(q, g)
<1> DEFINE k == Find(di, TopDelta)
           q == RemoveEntry(di, k)
<1>1. /\ k \in DOMAIN di.ent /\ di.ent[k].guid = TopDelta /\ di.ent[k].parent # NoneUuid
      /\ \A i \in DOMAIN di.ent : di.ent[i].parent # TopDelta
  BY CanRemoveIs
<1>2. RemoveImage(di, TopDelta, FALSE) = q
  BY DEF RemoveImage
<1> HIDE DEF k
<1>3. Base(di)
  BY DEF Tree
<1>4. Base(q) /\ GuidsOf(q) = GuidsOf(di) \ {TopDelta}
  BY <1>1, <1>3, RemoveLeafBase
<1> HIDE DEF q
<1>5. \A g : Has(q, g) <=> g \in GuidsOf(q)
  BY DEF Has, GuidsOf
<1>6. \A g : Has(di, g) <=> g \in GuidsOf(di)
  BY DEF Has, GuidsOf
<1> QED
  BY <1>2, <1>4, <1>5, <1>6

\* ploop_di_add_image of a new top delta above an existing snapshot.
LEMMA AddTopTree ==
  ASSUME NEW di \in Descriptor, Base(di), ~ Has(di, TopDelta), NEW g \in Guid,
         Has(di, g), NEW f \in File, f \notin FilesOf(di)
  PROVE  Tree(AddImage(di, f, TopDelta, g))
<1> DEFINE s == di.ent
           n == Len(s)
           e == [guid |-> TopDelta, parent |-> g, temp |-> FALSE, file |-> f]
           q == AddImage(di, f, TopDelta, g)
           r == q.ent
<1>1. s \in Seq(Entry) /\ n \in Nat /\ n > 0 /\ DOMAIN s = 1 .. n
  BY EntriesType DEF Base
<1>2. r = Append(s, e) /\ q.top = TopDelta
  BY DEF AddImage
<1>3. /\ DOMAIN r = 1 .. n + 1
      /\ r[n + 1] = e
      /\ \A i \in 1 .. n : r[i] = s[i]
  BY <1>1, <1>2
<1>4. e.guid = TopDelta /\ e.parent = g /\ ~ e.temp
  OBVIOUS
<1>5. UniqueFiles(q)
  BY AddImageFiles DEF Base
<1>6. /\ \A i, j \in 1 .. n : s[i].guid = s[j].guid => i = j
      /\ \A i \in 1 .. n : s[i].parent = NoneUuid <=> i = 1
      /\ \A i \in 1 .. n : \/ s[i].parent = NoneUuid
                           \/ \E j \in 1 .. i - 1 : s[j].guid = s[i].parent
      /\ \A i \in 1 .. n : s[i].parent # TopDelta
  BY <1>1 DEF Base, UniqueGuids, BaseFirst, ParentsBefore
<1>7. \A i \in 1 .. n : s[i].guid # TopDelta
  BY <1>1 DEF Has
<1>8. \E j \in 1 .. n : s[j].guid = g
  BY <1>1 DEF Has
<1>9. g # NoneUuid /\ g # TopDelta
  BY GuidAssumption
<1> HIDE DEF e, s, n, q
<1>10. UniqueGuids(q)
  BY <1>1, <1>3, <1>4, <1>6, <1>7 DEF UniqueGuids
<1>11. BaseFirst(q)
  BY <1>1, <1>3, <1>4, <1>6, <1>9 DEF BaseFirst
<1>12. ParentsBefore(q)
  <2> SUFFICES ASSUME NEW i \in DOMAIN r, r[i].parent # NoneUuid
               PROVE  \E j \in 1 .. i - 1 : r[j].guid = r[i].parent
    BY DEF ParentsBefore
  <2>1. CASE i = n + 1
    <3>1. PICK j \in 1 .. n : s[j].guid = g
      BY <1>8
    <3>2. r[j].guid = g /\ r[i].parent = g
      BY <1>3, <1>4, <2>1, <3>1
    <3>3. i - 1 = n
      BY <1>1, <2>1
    <3> QED
      BY <3>1, <3>2, <3>3
  <2>2. CASE i # n + 1
    <3>1. i \in 1 .. n /\ r[i] = s[i]
      BY <1>1, <1>3, <2>2
    <3>2. PICK j \in 1 .. i - 1 : s[j].guid = s[i].parent
      BY <1>6, <3>1
    <3>3. j \in 1 .. n /\ r[j] = s[j]
      BY <1>1, <1>3, <3>1
    <3> QED
      BY <3>1, <3>2, <3>3
  <2> QED
    BY <2>1, <2>2
<1>13. \A i \in DOMAIN r : r[i].parent # TopDelta
  BY <1>1, <1>3, <1>4, <1>6, <1>9
<1>14. r # << >> /\ n + 1 \in DOMAIN r
  BY <1>1, <1>3
<1> QED
  BY <1>2, <1>3, <1>4, <1>5, <1>10, <1>11, <1>12, <1>13, <1>14 DEF Tree, Base, q

\* ploop_di_change_guid of the top delta: a snapshot takes its place.
LEMMA RenameTopBase ==
  ASSUME NEW di \in Descriptor, Tree(di), NEW new \in Guid, ~ Has(di, new)
  PROVE  LET q == ChangeGuid(di, TopDelta, new)
         IN  /\ Base(q)
             /\ ~ Has(q, TopDelta)
             /\ Has(q, new)
             /\ \A g : Has(di, g) /\ g # TopDelta => Has(q, g)
<1> DEFINE s == di.ent
           n == Len(s)
           q == ChangeGuid(di, TopDelta, new)
           r == q.ent
<1>1. s \in Seq(Entry) /\ n \in Nat /\ n > 0 /\ DOMAIN s = 1 .. n
  BY EntriesType DEF Base, Tree
<1>2. /\ DOMAIN r = 1 .. n
      /\ \A i \in 1 .. n : r[i] = RenamedIn(s[i], TopDelta, new)
  BY <1>1 DEF ChangeGuid, ChangeGuidUpTo
<1>3. UniqueFiles(q)
  BY ChangeGuidFiles, SameFilesFacts DEF Base, Tree
<1>4. /\ \A i, j \in 1 .. n : s[i].guid = s[j].guid => i = j
      /\ \A i \in 1 .. n : s[i].parent = NoneUuid <=> i = 1
      /\ \A i \in 1 .. n : \/ s[i].parent = NoneUuid
                           \/ \E j \in 1 .. i - 1 : s[j].guid = s[i].parent
      /\ \A i \in 1 .. n : s[i].parent # TopDelta
      /\ \E i \in 1 .. n : s[i].guid = TopDelta
  BY <1>1 DEF Base, Tree, UniqueGuids, BaseFirst, ParentsBefore
<1>5. \A i \in 1 .. n : s[i].guid # new
  BY <1>1 DEF Has
<1>6. new # TopDelta
  BY GuidAssumption
<1> HIDE DEF s, n, q
<1>7. \A e \in Entry : /\ RenamedIn(e, TopDelta, new).guid
                             = IF e.guid = TopDelta THEN new ELSE e.guid
                       /\ e.parent # TopDelta =>
                            RenamedIn(e, TopDelta, new).parent = e.parent
  BY DEF Entry, RenamedIn, Renamed
<1>8. \A i \in 1 .. n : /\ r[i].guid = IF s[i].guid = TopDelta THEN new ELSE s[i].guid
                        /\ r[i].parent = s[i].parent
  BY <1>1, <1>2, <1>4, <1>7
<1>9. UniqueGuids(q)
  BY <1>2, <1>4, <1>5, <1>8 DEF UniqueGuids
<1>10. BaseFirst(q)
  BY <1>2, <1>4, <1>8 DEF BaseFirst
<1>11. ParentsBefore(q)
  <2> SUFFICES ASSUME NEW i \in 1 .. n, r[i].parent # NoneUuid
               PROVE  \E j \in 1 .. i - 1 : r[j].guid = r[i].parent
    BY <1>2 DEF ParentsBefore
  <2>1. PICK j \in 1 .. i - 1 : s[j].guid = s[i].parent
    BY <1>4, <1>8
  <2>2. j \in 1 .. n
    BY <1>1
  <2>3. r[j].guid = s[i].parent
    BY <1>4, <1>8, <2>1, <2>2
  <2> QED
    BY <1>8, <2>3
<1>12. \A i \in DOMAIN r : r[i].parent # TopDelta
  BY <1>2, <1>4, <1>8
<1>13. r # << >>
  BY <1>1, <1>2
<1>14. ~ Has(q, TopDelta) /\ Has(q, new)
  BY <1>2, <1>4, <1>6, <1>8 DEF Has
<1>15. \A g : Has(di, g) /\ g # TopDelta => Has(q, g)
  BY <1>1, <1>2, <1>8 DEF Has, s
<1> QED
  BY <1>3, <1>9, <1>10, <1>11, <1>12, <1>13, <1>14, <1>15 DEF Base, q

\* Descriptors with the same uuids and parents are trees together.
LEMMA SameShapeBase ==
  ASSUME NEW d \in Descriptor, NEW e \in Descriptor, SameShape(d, e), Base(e),
         UniqueFiles(d)
  PROVE  /\ Base(d)
         /\ \A g : Has(d, g) <=> Has(e, g)
<1>1. /\ DOMAIN d.ent = DOMAIN e.ent
      /\ \A i \in DOMAIN e.ent : /\ d.ent[i].guid = e.ent[i].guid
                                 /\ d.ent[i].parent = e.ent[i].parent
  BY DEF SameShape
<1>2. d.ent # << >>
  BY <1>1, EntriesType DEF Base
<1>3. DOMAIN e.ent = 1 .. Len(e.ent) /\ Len(e.ent) \in Nat
  BY EntriesType
<1>4. UniqueGuids(d) /\ BaseFirst(d)
  BY <1>1 DEF Base, UniqueGuids, BaseFirst
<1>5. ParentsBefore(d)
  BY <1>1, <1>3 DEF Base, ParentsBefore
<1>6. \A i \in DOMAIN d.ent : d.ent[i].parent # TopDelta
  BY <1>1 DEF Base
<1>7. \A g : Has(d, g) <=> Has(e, g)
  BY <1>1 DEF Has
<1> QED
  BY <1>2, <1>4, <1>5, <1>6, <1>7 DEF Base

\* ploop_di_set_temporary keeps uuids and parents, and the top delta's mark.
LEMMA SetTemporaryTree ==
  ASSUME NEW di \in Descriptor, Base(di), NEW g
  PROVE  /\ Base(SetTemporary(di, g))
         /\ \A h : Has(SetTemporary(di, g), h) <=> Has(di, h)
         /\ Tree(di) /\ g # TopDelta => Tree(SetTemporary(di, g))
<1> DEFINE k == Find(di, g)
           q == SetTemporary(di, g)
<1>1. q \in Descriptor
  BY SetTemporaryType
<1>2. SameFiles(q, di)
  BY SetTemporaryFiles
<1>3. UniqueFiles(q)
  BY <1>2, SameFilesFacts DEF Base
<1>4. CASE ~ Has(di, g)
  BY <1>4 DEF SetTemporary
<1>5. CASE Has(di, g)
  <2>1. k \in DOMAIN di.ent /\ di.ent[k].guid = g
    BY <1>5, FindIs
  <2>2. q = [di EXCEPT !.ent[k].temp = TRUE]
    BY <1>5 DEF SetTemporary
  <2> HIDE DEF k, q
  <2>3. di.ent \in Seq(Entry) /\ \A i \in DOMAIN di.ent : di.ent[i] \in Entry
    BY EntriesType
  <2>4. /\ q.top = di.top
        /\ q.ent = [di.ent EXCEPT ![k].temp = TRUE]
    BY <2>2 DEF Descriptor
  <2>5. \A e \in Entry : /\ [e EXCEPT !.temp = TRUE].guid = e.guid
                         /\ [e EXCEPT !.temp = TRUE].parent = e.parent
    BY DEF Entry
  <2>6. \A i \in DOMAIN di.ent :
           q.ent[i] = IF i = k THEN [di.ent[i] EXCEPT !.temp = TRUE] ELSE di.ent[i]
    BY <2>3, <2>4
  <2>7. \A i \in DOMAIN di.ent : /\ q.ent[i].guid = di.ent[i].guid
                                 /\ q.ent[i].parent = di.ent[i].parent
                                 /\ i # k => q.ent[i].temp = di.ent[i].temp
    BY <2>3, <2>5, <2>6
  <2>8. SameShape(q, di)
    BY <1>2, <2>7 DEF SameShape, SameFiles
  <2>9. Base(q) /\ \A h : Has(q, h) <=> Has(di, h)
    BY <1>1, <1>3, <2>8, SameShapeBase
  <2>10. ASSUME Tree(di), g # TopDelta PROVE Tree(q)
    <3>1. PICK t \in DOMAIN di.ent : di.ent[t].guid = TopDelta /\ ~ di.ent[t].temp
      BY <2>10 DEF Tree
    <3>2. t # k
      BY <2>1, <2>10, <3>1
    <3>3. t \in DOMAIN q.ent /\ q.ent[t].guid = TopDelta /\ ~ q.ent[t].temp
      BY <2>7, <2>8, <3>1, <3>2 DEF SameShape
    <3> QED
      BY <2>4, <2>9, <2>10, <3>3 DEF Tree
  <2> QED
    BY <2>9, <2>10 DEF q
<1> QED
  BY <1>4, <1>5

\* A new file name in an entry leaves the tree as it is.
LEMMA SetFileTree ==
  ASSUME NEW di \in Descriptor, Tree(di), NEW g, NEW f \in File, f \notin FilesOf(di)
  PROVE  /\ Tree(SetFile(di, g, f))
         /\ \A h : Has(SetFile(di, g, f), h) <=> Has(di, h)
<1> DEFINE k == Find(di, g)
           q == SetFile(di, g, f)
<1>1. q \in Descriptor
  BY SetFileType
<1>2. q = [di EXCEPT !.ent[k].file = f]
  BY DEF SetFile
<1> HIDE DEF k, q
<1>3. di.ent \in Seq(Entry) /\ \A i \in DOMAIN di.ent : di.ent[i] \in Entry
  BY EntriesType
<1>4. /\ q.top = di.top
      /\ q.ent = [di.ent EXCEPT ![k].file = f]
  BY <1>2 DEF Descriptor
<1>5. \A e \in Entry : /\ [e EXCEPT !.file = f].guid = e.guid
                       /\ [e EXCEPT !.file = f].parent = e.parent
                       /\ [e EXCEPT !.file = f].temp = e.temp
                       /\ [e EXCEPT !.file = f].file = f
  BY DEF Entry
<1>6. /\ DOMAIN q.ent = DOMAIN di.ent
      /\ \A i \in DOMAIN di.ent :
           q.ent[i] = IF i = k THEN [di.ent[i] EXCEPT !.file = f] ELSE di.ent[i]
  BY <1>3, <1>4
<1>7. \A i \in DOMAIN di.ent : /\ q.ent[i].guid = di.ent[i].guid
                               /\ q.ent[i].parent = di.ent[i].parent
                               /\ q.ent[i].temp = di.ent[i].temp
                               /\ q.ent[i].file = IF i = k THEN f ELSE di.ent[i].file
  BY <1>3, <1>5, <1>6
<1>8. SameShape(q, di)
  BY <1>6, <1>7 DEF SameShape
<1>9. UniqueFiles(q)
  <2>1. /\ \A i, j \in DOMAIN di.ent : di.ent[i].file = di.ent[j].file => i = j
        /\ \A i \in DOMAIN di.ent : di.ent[i].file # f
    BY DEF Tree, Base, UniqueFiles, FilesOf
  <2> QED
    BY <1>6, <1>7, <2>1 DEF UniqueFiles
<1>10. Base(q) /\ \A h : Has(q, h) <=> Has(di, h)
  BY <1>1, <1>8, <1>9, SameShapeBase DEF Tree
<1> QED
  BY <1>4, <1>6, <1>7, <1>10 DEF Tree, q

\* ploop_di_merge_image: the parent's entry stands for both, behind the
\* parent's parent and before the child's children.
LEMMA MergeImageTree ==
  ASSUME NEW di \in Descriptor, Tree(di), NEW g \in AnyGuid, CanMerge(di, g)
  PROVE  /\ Tree(MergeImage(di, g))
         /\ \A h : Has(MergeImage(di, g), h) => Has(di, h)
<1> DEFINE k == Find(di, g)
           s == di.ent
           p == s[k].parent
           ent == [i \in DOMAIN s |->
                     IF s[i].guid = p THEN TakenOver(s[i], g, s[k].temp) ELSE s[i]]
           taken == [di EXCEPT !.ent = ent]
           q == RemoveEntry(taken, k)
           r == q.ent
           at(i) == IF i < k THEN i ELSE i + 1
<1>1. k \in DOMAIN s /\ s[k].guid = g
  BY FindIs DEF CanMerge
<1>2. MergeImage(di, g) = IF g = TopDelta THEN ChangeGuid(q, p, TopDelta) ELSE q
  BY DEF MergeImage
<1>3. p # NoneUuid /\ ChildCount(di, p) <= 1
  BY DEF CanMerge, ParentOf
<1> HIDE DEF k
<1>4. \A i \in DOMAIN s : s[i].parent = p => i = k
  BY <1>1, <1>3, OnlyChild
<1>5. /\ \A i \in DOMAIN s : \A j \in DOMAIN s : s[i].guid = s[j].guid => i = j
      /\ \A i \in DOMAIN s : s[i].parent = NoneUuid <=> i = 1
      /\ \A i \in DOMAIN s : \/ s[i].parent = NoneUuid
                             \/ \E j \in 1 .. i - 1 : s[j].guid = s[i].parent
      /\ \A i \in DOMAIN s : s[i].parent # TopDelta
      /\ di.top = TopDelta
      /\ \E i \in DOMAIN s : s[i].guid = TopDelta /\ ~ s[i].temp
      /\ UniqueFiles(di)
  BY DEF Tree, Base, UniqueGuids, BaseFirst, ParentsBefore
<1>6. /\ Len(s) \in Nat /\ DOMAIN s = 1 .. Len(s)
      /\ \A i \in DOMAIN s : s[i] \in Entry
      /\ s \in Seq(Entry)
  BY EntriesType
<1>7. \A e \in Entry, t \in BOOLEAN : /\ TakenOver(e, g, t).guid = g
                                      /\ TakenOver(e, g, t).parent = e.parent
                                      /\ TakenOver(e, g, t).file = e.file
                                      /\ TakenOver(e, g, t).temp = t
                                      /\ TakenOver(e, g, t) \in Entry
  BY DEF Entry, TakenOver
<1>8. s[k].temp \in BOOLEAN
  BY <1>1, <1>6 DEF Entry
<1> HIDE DEF s, p
<1>9. /\ DOMAIN ent = DOMAIN s
      /\ \A i \in DOMAIN s :
           /\ ent[i].guid = IF s[i].guid = p THEN g ELSE s[i].guid
           /\ ent[i].parent = s[i].parent
           /\ ent[i].file = s[i].file
           /\ ent[i].temp = IF s[i].guid = p THEN s[k].temp ELSE s[i].temp
           /\ ent[i] \in Entry
  BY <1>6, <1>7, <1>8
<1>10. ent \in Seq(Entry)
  <2>1. ent = [i \in DOMAIN ent |-> ent[i]]
    OBVIOUS
  <2> HIDE DEF ent
  <2>2. ent \in [1 .. Len(s) -> Entry]
    BY <1>6, <1>9, <2>1
  <2> QED
    BY <1>6, <2>2
<1> HIDE DEF ent
<1>11. taken \in Descriptor /\ taken.ent = ent /\ taken.top = di.top
  BY <1>10 DEF Descriptor
<1> HIDE DEF taken
<1>12. Len(ent) = Len(s)
  BY <1>6, <1>9, <1>10
<1>13. /\ DOMAIN r = 1 .. Len(s) - 1
       /\ q.top = TopDelta
       /\ \A i \in DOMAIN r : at(i) \in DOMAIN s \ {k} /\ r[i] = ent[at(i)]
       /\ \A j \in DOMAIN s \ {k} : \E i \in DOMAIN r : at(i) = j
  <2>1. k \in DOMAIN taken.ent
    BY <1>1, <1>9, <1>11
  <2>2. /\ DOMAIN r = 1 .. Len(taken.ent) - 1
        /\ q.top = taken.top
        /\ \A i \in DOMAIN r : at(i) \in DOMAIN taken.ent \ {k} /\ r[i] = taken.ent[at(i)]
        /\ \A j \in DOMAIN taken.ent \ {k} : \E i \in DOMAIN r : at(i) = j
    BY <1>11, <2>1, RemovedAt
  <2> HIDE DEF at, q
  <2> QED
    BY <1>5, <1>9, <1>11, <1>12, <2>2
<1>14. q \in Descriptor
  BY <1>11, RemoveEntryType
<1>15. UniqueFiles(taken)
  BY <1>5, <1>9, <1>11 DEF UniqueFiles, s
<1>16. UniqueFiles(q)
  BY <1>1, <1>9, <1>11, <1>15, RemoveEntryFiles
<1> HIDE DEF q
<1>17. k # 1 /\ k \in 1 .. Len(s) /\ Len(s) > 1
  BY <1>1, <1>3, <1>5, <1>6 DEF p
<1>18. PICK pk \in 1 .. k - 1 : s[pk].guid = p
  BY <1>1, <1>3, <1>5 DEF p
<1>19. pk \in DOMAIN s \ {k} /\ pk < k
  BY <1>6, <1>17
<1>20. \A i \in DOMAIN s : s[i].guid = p <=> i = pk
  BY <1>5, <1>18, <1>19
<1>21. \A i \in DOMAIN r : \A j \in DOMAIN r : at(i) = at(j) => i = j
  BY <1>6, <1>13, <1>17
<1>22. UniqueGuids(q)
  <2> SUFFICES ASSUME NEW i \in DOMAIN r, NEW j \in DOMAIN r, r[i].guid = r[j].guid
               PROVE  at(i) = at(j)
    BY <1>21 DEF UniqueGuids
  <2>1. /\ at(i) \in DOMAIN s \ {k} /\ r[i] = ent[at(i)]
        /\ at(j) \in DOMAIN s \ {k} /\ r[j] = ent[at(j)]
    BY <1>13
  <2> HIDE DEF at
  <2>2. \A x \in DOMAIN s \ {k} : s[x].guid # g
    BY <1>1, <1>5
  <2>3. CASE at(i) = pk \/ at(j) = pk
    BY <1>9, <1>20, <2>1, <2>2, <2>3
  <2>4. CASE at(i) # pk /\ at(j) # pk
    BY <1>5, <1>9, <1>20, <2>1, <2>4
  <2> QED
    BY <2>3, <2>4
<1>23. BaseFirst(q)
  <2> SUFFICES ASSUME NEW i \in DOMAIN r PROVE r[i].parent = NoneUuid <=> i = 1
    BY DEF BaseFirst
  <2>1. at(i) = 1 <=> i = 1
    BY <1>6, <1>13, <1>17
  <2>2. at(i) \in DOMAIN s /\ r[i].parent = s[at(i)].parent
    BY <1>9, <1>13
  <2> QED
    BY <1>5, <2>1, <2>2
<1>24. ParentsBefore(q)
  <2> SUFFICES ASSUME NEW i \in DOMAIN r, r[i].parent # NoneUuid
               PROVE  \E j \in 1 .. i - 1 : r[j].guid = r[i].parent
    BY DEF ParentsBefore
  <2>1. at(i) \in DOMAIN s \ {k} /\ r[i].parent = s[at(i)].parent
    BY <1>9, <1>13
  <2>2. PICK jj \in 1 .. at(i) - 1 : s[jj].guid = r[i].parent
    BY <1>5, <2>1
  <2>3. jj \in DOMAIN s
    BY <1>6, <2>1
  <2>4. jj # pk
    BY <1>4, <1>20, <2>1, <2>2, <2>3
  <2> DEFINE x == IF jj = k THEN pk ELSE jj
  <2>5. x \in DOMAIN s \ {k} /\ x <= jj
    BY <1>6, <1>17, <1>19, <2>3
  <2>6. ent[x].guid = r[i].parent
    <3>1. CASE jj = k
      BY <1>1, <1>9, <1>19, <1>20, <2>2, <3>1
    <3>2. CASE jj # k
      BY <1>9, <1>20, <2>2, <2>3, <2>4, <3>2
    <3> QED
      BY <3>1, <3>2
  <2> HIDE DEF x
  <2>7. PICK j \in DOMAIN r : at(j) = x
    BY <1>13, <2>5
  <2>8. r[j].guid = r[i].parent
    BY <1>13, <2>6, <2>7
  <2>9. j \in 1 .. i - 1
    BY <1>6, <1>13, <1>17, <2>2, <2>3, <2>5, <2>7
  <2> QED
    BY <2>8, <2>9
<1>25. \A i \in DOMAIN r : r[i].parent # TopDelta
  BY <1>5, <1>9, <1>13
<1>26. r # << >>
  BY <1>6, <1>13, <1>17
<1>27. Base(q)
  BY <1>16, <1>22, <1>23, <1>24, <1>25, <1>26 DEF Base
<1>28. \E i \in DOMAIN r : r[i].guid = TopDelta /\ ~ r[i].temp
  <2>1. PICK t \in DOMAIN s : s[t].guid = TopDelta /\ ~ s[t].temp
    BY <1>5
  <2> DEFINE x == IF t = k THEN pk ELSE t
  <2>2. p # TopDelta
    BY <1>1, <1>5 DEF p
  <2>3. x \in DOMAIN s \ {k} /\ ent[x].guid = TopDelta /\ ~ ent[x].temp
    <3>1. CASE t = k
      BY <1>1, <1>9, <1>19, <1>20, <2>1, <3>1
    <3>2. CASE t # k
      BY <1>9, <2>1, <2>2, <3>2
    <3> QED
      BY <3>1, <3>2
  <2> HIDE DEF x
  <2>4. PICK i \in DOMAIN r : at(i) = x
    BY <1>13, <2>3
  <2>5. r[i] = ent[x]
    BY <1>13, <2>4
  <2> QED
    BY <2>3, <2>5
<1>29. Tree(q)
  BY <1>13, <1>27, <1>28 DEF Tree
<1>30. \A h : Has(q, h) => Has(di, h)
  <2> SUFFICES ASSUME NEW i \in DOMAIN r
               PROVE  \E j \in DOMAIN s : s[j].guid = r[i].guid
    BY DEF Has, s
  <2>1. at(i) \in DOMAIN s /\ r[i] = ent[at(i)]
    BY <1>13
  <2> HIDE DEF at
  <2>2. r[i].guid = g \/ r[i].guid = s[at(i)].guid
    BY <1>9, <2>1
  <2> QED
    BY <1>1, <2>1, <2>2
<1>31. \A i \in DOMAIN r : r[i].guid # p /\ r[i].parent # p
  <2> SUFFICES ASSUME NEW i \in DOMAIN r PROVE r[i].guid # p /\ r[i].parent # p
    OBVIOUS
  <2>1. at(i) \in DOMAIN s \ {k} /\ r[i] = ent[at(i)]
    BY <1>13
  <2> HIDE DEF at
  <2>2. g # p
    BY <1>1, <1>19, <1>20
  <2> QED
    BY <1>4, <1>9, <2>1, <2>2
<1>32. ChangeGuid(q, p, TopDelta) = q
  <2>1. \A e \in Entry : e.guid # p /\ e.parent # p => RenamedIn(e, p, TopDelta) = e
    BY DEF RenamedIn, Renamed, Entry
  <2>2. r \in Seq(Entry) /\ \A i \in DOMAIN r : r[i] \in Entry
    BY <1>14, EntriesType
  <2>3. \A i \in DOMAIN r : RenamedIn(r[i], p, TopDelta) = r[i]
    BY <1>31, <2>1, <2>2
  <2> DEFINE c == ChangeGuid(q, p, TopDelta)
  <2>4. c.ent = [i \in DOMAIN r |-> IF i <= Len(r) THEN RenamedIn(r[i], p, TopDelta) ELSE r[i]]
    BY DEF ChangeGuid, ChangeGuidUpTo
  <2>5. c.ent = [i \in DOMAIN r |-> r[i]]
    BY <2>3, <2>4
  <2>6. c.ent = r
    BY <2>2, <2>5
  <2>7. c.top = TopDelta
    BY <1>13 DEF ChangeGuid, ChangeGuidUpTo, Renamed
  <2>8. c = [ent |-> c.ent, top |-> c.top]
    <3>1. c \in Descriptor
      BY <1>14, ChangeGuidType DEF AnyGuid
    <3> HIDE DEF c
    <3> QED
      BY <3>1 DEF Descriptor
  <2>9. q = [ent |-> q.ent, top |-> q.top]
    BY <1>14 DEF Descriptor
  <2> QED
    BY <1>13, <2>6, <2>7, <2>8, <2>9
<1> QED
  BY <1>2, <1>29, <1>30, <1>32

\* The file of an entry replaced: the old name is off the list, the new on it.
LEMMA SetFileFiles ==
  ASSUME NEW di \in Descriptor, UniqueFiles(di), NEW g, Has(di, g),
         NEW f \in File, f \notin FilesOf(di)
  PROVE  /\ FilesOf(SetFile(di, g, f)) = (FilesOf(di) \ {FileOf(di, g)}) \cup {f}
         /\ FileOf(di, g) \in FilesOf(di)
         /\ UniqueFiles(SetFile(di, g, f))
<1> DEFINE k == Find(di, g)
           s == di.ent
           q == SetFile(di, g, f)
<1>1. k \in DOMAIN s /\ FileOf(di, g) = s[k].file
  BY FindIs DEF FileOf
<1>2. q = [di EXCEPT !.ent[k].file = f]
  BY DEF SetFile
<1> HIDE DEF k, q
<1>3. s \in Seq(Entry) /\ \A i \in DOMAIN s : s[i] \in Entry
  BY EntriesType
<1>4. q.ent = [s EXCEPT ![k].file = f]
  BY <1>2 DEF Descriptor
<1>5. \A e \in Entry : [e EXCEPT !.file = f].file = f
  BY DEF Entry
<1>6. /\ DOMAIN q.ent = DOMAIN s
      /\ \A i \in DOMAIN s :
           q.ent[i] = IF i = k THEN [s[i] EXCEPT !.file = f] ELSE s[i]
  BY <1>3, <1>4
<1>7. \A i \in DOMAIN s : q.ent[i].file = IF i = k THEN f ELSE s[i].file
  BY <1>3, <1>5, <1>6
<1>8. /\ \A i, j \in DOMAIN s : s[i].file = s[j].file => i = j
      /\ FilesOf(di) = {s[i].file : i \in DOMAIN s}
      /\ \A i \in DOMAIN s : s[i].file # f
  BY DEF UniqueFiles, FilesOf
<1>9. FilesOf(q) = {q.ent[i].file : i \in DOMAIN s}
  BY <1>6 DEF FilesOf
<1> HIDE DEF s
<1>10. UniqueFiles(q)
  BY <1>6, <1>7, <1>8 DEF UniqueFiles
<1>11. \A x \in FilesOf(q) : x = f \/ (x \in FilesOf(di) /\ x # s[k].file)
  BY <1>1, <1>7, <1>8, <1>9
<1>12. f \in FilesOf(q)
  BY <1>1, <1>7, <1>9
<1>13. \A x \in FilesOf(di) \ {s[k].file} : x \in FilesOf(q)
  BY <1>7, <1>8, <1>9
<1>14. s[k].file \in FilesOf(di)
  BY <1>1, <1>8
<1> QED
  BY <1>1, <1>10, <1>11, <1>12, <1>13, <1>14 DEF q

\* After a merge the child's uuid stands for the parent's file.
LEMMA MergedChild ==
  ASSUME NEW di \in Descriptor, Tree(di), NEW g \in AnyGuid, CanMerge(di, g),
         Has(di, ParentOf(di, g))
  PROVE  /\ Has(MergeImage(di, g), g)
         /\ FileOf(MergeImage(di, g), g) = FileOf(di, ParentOf(di, g))
<1> DEFINE k == Find(di, g)
           s == di.ent
           p == s[k].parent
           j == Find(di, p)
           m == MergeImage(di, g)
           ent == [i \in DOMAIN s |->
                     IF s[i].guid = p THEN TakenOver(s[i], g, s[k].temp) ELSE s[i]]
           taken == [di EXCEPT !.ent = ent]
           q == RemoveEntry(taken, k)
           at(i) == IF i < k THEN i ELSE i + 1
<1>1. k \in DOMAIN s /\ s[k].guid = g
  BY FindIs DEF CanMerge
<1>2. j \in DOMAIN s /\ s[j].guid = p /\ FileOf(di, ParentOf(di, g)) = s[j].file
  BY FindIs DEF ParentOf, FileOf
<1>3. m = IF g = TopDelta THEN ChangeGuid(q, p, TopDelta) ELSE q
  BY DEF MergeImage
<1>4. Tree(m)
  BY MergeImageTree
<1>5. m \in Descriptor
  BY MergeImageType DEF CanMerge
<1>6. p # NoneUuid
  BY DEF CanMerge, ParentOf
<1> HIDE DEF k, j, m
<1>7. /\ Len(s) \in Nat /\ DOMAIN s = 1 .. Len(s)
      /\ \A i \in DOMAIN s : s[i] \in Entry
      /\ s \in Seq(Entry)
  BY EntriesType
<1>8. j # k
  <2>1. UniqueGuids(di) /\ ParentsBefore(di)
    BY DEF Tree, Base
  <2>2. PICK x \in 1 .. k - 1 : s[x].guid = p
    BY <1>1, <1>6, <2>1 DEF ParentsBefore
  <2>3. x \in DOMAIN s
    BY <1>1, <1>7, <2>2
  <2>4. x = j
    BY <1>2, <2>1, <2>2, <2>3 DEF UniqueGuids
  <2> QED
    BY <1>1, <1>7, <2>2, <2>4
<1>9. \A e \in Entry, t \in BOOLEAN : /\ TakenOver(e, g, t).guid = g
                                      /\ TakenOver(e, g, t).file = e.file
                                      /\ TakenOver(e, g, t) \in Entry
  BY DEF Entry, TakenOver
<1>10. s[k].temp \in BOOLEAN
  BY <1>1, <1>7 DEF Entry
<1> HIDE DEF s, p
<1>11. /\ DOMAIN ent = DOMAIN s
       /\ \A i \in DOMAIN s : ent[i] \in Entry
       /\ ent[j].guid = g /\ ent[j].file = s[j].file
  BY <1>2, <1>7, <1>9, <1>10
<1>12. ent \in Seq(Entry)
  <2>1. ent = [i \in DOMAIN ent |-> ent[i]]
    OBVIOUS
  <2> HIDE DEF ent
  <2>2. ent \in [1 .. Len(s) -> Entry]
    BY <1>7, <1>11, <2>1
  <2> QED
    BY <1>7, <2>2
<1> HIDE DEF ent
<1>13. taken \in Descriptor /\ taken.ent = ent
  BY <1>12 DEF Descriptor
<1> HIDE DEF taken
<1>14. /\ \A i \in DOMAIN q.ent : q.ent[i] = ent[at(i)]
       /\ \A x \in DOMAIN s \ {k} : \E i \in DOMAIN q.ent : at(i) = x
  <2>1. k \in DOMAIN taken.ent
    BY <1>1, <1>11, <1>13
  <2>2. /\ \A i \in DOMAIN q.ent : at(i) \in DOMAIN taken.ent \ {k} /\ q.ent[i] = taken.ent[at(i)]
        /\ \A x \in DOMAIN taken.ent \ {k} : \E i \in DOMAIN q.ent : at(i) = x
    BY <1>13, <2>1, RemovedAt
  <2> HIDE DEF at, q
  <2> QED
    BY <1>11, <1>13, <2>2
<1>15. PICK i \in DOMAIN q.ent : at(i) = j
  BY <1>2, <1>8, <1>14
<1>16. q.ent[i].guid = g /\ q.ent[i].file = s[j].file
  BY <1>11, <1>14, <1>15
<1>17. q \in Descriptor
  BY <1>13, RemoveEntryType
<1> HIDE DEF q
<1>18. i \in DOMAIN m.ent /\ m.ent[i].guid = g /\ m.ent[i].file = s[j].file
  <2>1. CASE g = TopDelta
    <3>1. /\ q.ent \in Seq(Entry) /\ Len(q.ent) \in Nat /\ DOMAIN q.ent = 1 .. Len(q.ent)
          /\ q.ent[i] \in Entry
      BY <1>15, <1>17, EntriesType
    <3>2. m.ent = [x \in DOMAIN q.ent |-> IF x <= Len(q.ent) THEN RenamedIn(q.ent[x], p, TopDelta)
                                                           ELSE q.ent[x]]
      BY <1>3, <2>1 DEF ChangeGuid, ChangeGuidUpTo
    <3>3. i \in DOMAIN m.ent /\ m.ent[i] = RenamedIn(q.ent[i], p, TopDelta)
      BY <1>15, <3>1, <3>2
    <3>4. \A e \in Entry : e.guid = TopDelta => /\ RenamedIn(e, p, TopDelta).guid = TopDelta
                                                /\ RenamedIn(e, p, TopDelta).file = e.file
      BY DEF RenamedIn, Renamed, Entry
    <3> QED
      BY <1>16, <2>1, <3>1, <3>3, <3>4
  <2>2. CASE g # TopDelta
    BY <1>3, <1>15, <1>16, <2>2
  <2> QED
    BY <2>1, <2>2
<1>19. Has(m, g)
  BY <1>18 DEF Has
<1>20. Find(m, g) = i
  <2>1. UniqueGuids(m)
    BY <1>4 DEF Tree, Base
  <2> QED
    BY <1>5, <1>18, <2>1, FindUnique
<1> QED
  BY <1>2, <1>18, <1>19, <1>20 DEF FileOf, m, s

-----------------------------------------------------------------------------
(* Facts about the helpers.                                                *)

\* The state of a process that holds no lock is a well-typed operation.
LEMMA NoOpType == /\ NoDi \in Descriptor
                  /\ NoOp \in Operation
                  /\ Locals(NoOp)
<1>1. NoDi \in Descriptor
  BY DEF NoDi, Descriptor, AnyGuid
<1> QED
  BY <1>1 DEF NoOp, Operation, Locals, Pcs, Rets, Commands, AnyGuid

\* Assigning a local variable of the operation keeps its type.
LEMMA SetOp == \A o \in Operation :
  /\ \A v \in Commands : [o EXCEPT !.cmd = v] \in Operation
  /\ \A v \in Pcs : [o EXCEPT !.pc = v] \in Operation
  /\ \A v \in Rets : [o EXCEPT !.ret = v] \in Operation
  /\ \A v \in Descriptor : [o EXCEPT !.di = v] \in Operation
  /\ \A v \in AnyGuid : /\ [o EXCEPT !.guid = v] \in Operation
                         /\ [o EXCEPT !.victim = v] \in Operation
                         /\ [o EXCEPT !.child = v] \in Operation
  /\ \A v \in File \cup {NoFile} : /\ [o EXCEPT !.file = v] \in Operation
                                   /\ [o EXCEPT !.del = v] \in Operation
                                   /\ [o EXCEPT !.old = v] \in Operation
  /\ \A v \in BOOLEAN : /\ [o EXCEPT !.online = v] \in Operation
                         /\ [o EXCEPT !.kern = v] \in Operation
                         /\ [o EXCEPT !.top = v] \in Operation
                         /\ [o EXCEPT !.new = v] \in Operation
                         /\ [o EXCEPT !.err = v] \in Operation
  /\ \A v \in Nat : /\ [o EXCEPT !.i = v] \in Operation
                     /\ [o EXCEPT !.n = v] \in Operation
  /\ \A v \in SUBSET Block : [o EXCEPT !.todo = v] \in Operation
<1> SUFFICES ASSUME NEW o \in Operation
             PROVE  SetOp!(o)
  BY Zenon
<1> USE DEF Operation
<1>1. \A v \in Commands : [o EXCEPT !.cmd = v] \in Operation
  OBVIOUS
<1>2. \A v \in Pcs : [o EXCEPT !.pc = v] \in Operation
  OBVIOUS
<1>3. \A v \in Rets : [o EXCEPT !.ret = v] \in Operation
  OBVIOUS
<1>4. \A v \in Descriptor : [o EXCEPT !.di = v] \in Operation
  OBVIOUS
<1>5. \A v \in AnyGuid : /\ [o EXCEPT !.guid = v] \in Operation
                         /\ [o EXCEPT !.victim = v] \in Operation
                         /\ [o EXCEPT !.child = v] \in Operation
  OBVIOUS
<1>6. \A v \in File \cup {NoFile} : /\ [o EXCEPT !.file = v] \in Operation
                                   /\ [o EXCEPT !.del = v] \in Operation
                                   /\ [o EXCEPT !.old = v] \in Operation
  OBVIOUS
<1>7. \A v \in BOOLEAN : /\ [o EXCEPT !.online = v] \in Operation
                         /\ [o EXCEPT !.kern = v] \in Operation
                         /\ [o EXCEPT !.top = v] \in Operation
                         /\ [o EXCEPT !.new = v] \in Operation
                         /\ [o EXCEPT !.err = v] \in Operation
  OBVIOUS
<1>8. \A v \in Nat : /\ [o EXCEPT !.i = v] \in Operation
                     /\ [o EXCEPT !.n = v] \in Operation
  OBVIOUS
<1>9. \A v \in SUBSET Block : [o EXCEPT !.todo = v] \in Operation
  OBVIOUS
<1> HIDE DEF Operation
<1> QED
  BY <1>1, <1>2, <1>3, <1>4, <1>5, <1>6, <1>7, <1>8, <1>9, Zenon

\* Returning to the caller of a deletion or a merge continues with the same
\* descriptor at one of a few places, or ends the operation.
LEMMA ReturnIs ==
  ASSUME NEW o \in Operation, NEW ok \in BOOLEAN, Locals(o)
  PROVE  /\ Return(o, ok) \in Operation
         /\ Locals(Return(o, ok))
         /\ Return(o, ok).new => o.new
         /\ \/ Return(o, ok) = NoOp
            \/ /\ Return(o, ok).pc \in {"mtmp", "mg", "mg2", "um_stop"}
               /\ Return(o, ok).di = o.di
               /\ ok
<1>0. o.i \in Nat /\ o.i + 1 \in Nat /\ 1 \in Nat /\ o.di.top \in AnyGuid /\ o.ret \in Rets
  BY DEF Operation, Descriptor
<1>1. CASE o.ret # "none" /\ ok
  <2> DEFINE r == [o EXCEPT !.pc = o.ret, !.ret = "none", !.kern = FALSE,
                   !.top = FALSE, !.del = NoFile, !.err = FALSE]
  <2>1. Return(o, ok) = r
    BY <1>1 DEF Return
  <2>2. r \in Operation
    BY <1>0, <1>1, SetOp, Zenon DEF Rets, Pcs
  <2>3. /\ r.pc = o.ret /\ r.ret = "none" /\ r.i = o.i /\ r.di = o.di /\ r.new = o.new
    BY DEF Operation
  <2> HIDE DEF r
  <2> QED
    BY <1>0, <1>1, <2>1, <2>2, <2>3 DEF Locals, Rets
<1>2. CASE o.ret = "none" /\ o.i > 0 /\ ok
  <2> DEFINE j == IF Len(o.di.ent) # o.n THEN 1 ELSE o.i + 1
             r == [o EXCEPT !.pc = "mtmp", !.kern = FALSE, !.top = FALSE,
                   !.del = NoFile, !.err = FALSE, !.i = j]
  <2>1. Return(o, ok) = r
    BY <1>0, <1>2 DEF Return
  <2>2. j \in Nat /\ j > 0
    BY <1>0
  <2> HIDE DEF j
  <2>3. r \in Operation
    BY <1>0, <1>2, <2>2, SetOp, Zenon DEF Rets, Pcs
  <2>4. /\ r.pc = "mtmp" /\ r.ret = "none" /\ r.i = j /\ r.di = o.di /\ r.new = o.new
    BY <1>2 DEF Operation
  <2> HIDE DEF r
  <2> QED
    BY <1>2, <2>1, <2>2, <2>3, <2>4 DEF Locals
<1>3. CASE o.ret = "none" /\ o.i = 0 /\ o.cmd = "delete" /\ ok
  <2> DEFINE r == [o EXCEPT !.pc = "mtmp", !.kern = FALSE, !.top = FALSE,
                   !.del = NoFile, !.err = FALSE, !.i = 1]
  <2>1. Return(o, ok) = r
    BY <1>3 DEF Return
  <2>2. r \in Operation
    BY <1>0, <1>3, SetOp, Zenon DEF Rets, Pcs
  <2>3. /\ r.pc = "mtmp" /\ r.ret = "none" /\ r.i = 1 /\ r.di = o.di /\ r.new = o.new
    BY <1>3 DEF Operation
  <2> HIDE DEF r
  <2>4. Locals(r)
    BY <2>3 DEF Locals
  <2> QED
    BY <1>3, <2>1, <2>2, <2>3, <2>4
<1>4. CASE /\ o.ret = "none" /\ o.i = 0 /\ o.cmd = "merge_all" /\ ok
           /\ Len(o.di.ent) # 1
  <2> DEFINE r == [o EXCEPT !.pc = "mg", !.kern = FALSE, !.top = FALSE,
                   !.del = NoFile, !.err = FALSE, !.child = o.di.top]
  <2>1. Return(o, ok) = r
    BY <1>4 DEF Return
  <2>2. r \in Operation
    BY <1>0, <1>4, SetOp, Zenon DEF Rets, Pcs
  <2>3. /\ r.pc = "mg" /\ r.ret = "none" /\ r.di = o.di /\ r.new = o.new
    BY <1>4 DEF Operation
  <2> HIDE DEF r
  <2> QED
    BY <1>4, <2>1, <2>2, <2>3 DEF Locals
<1>5. CASE \/ ~ ok
           \/ o.ret = "none" /\ o.i = 0 /\ o.cmd \notin {"delete", "merge_all"}
           \/ o.ret = "none" /\ o.i = 0 /\ o.cmd = "merge_all" /\ Len(o.di.ent) = 1
  <2>1. Return(o, ok) = NoOp
    BY <1>5 DEF Return
  <2> QED
    BY <2>1, NoOpType DEF NoOp
<1> QED
  BY <1>0, <1>1, <1>2, <1>3, <1>4, <1>5

\* A generated file name is a new one.
LEMMA NewFileIs == ASSUME NameLeft
                   PROVE  NewFile \in File /\ NewFile \notin Taken
  BY DEF NameLeft, NewFile

\* What holds of a process without an operation holds at the end of one.
LEMMA Ended == ASSUME op' = NoOp PROVE op' \in Operation /\ Locals(op')
  BY NoOpType

\* An operation that has ended needs the stored files only.
LEMMA EndedFiles == ASSUME FilesInv, op' = NoOp, dd' = dd, FilesOf(dd) \subseteq link'
                    PROVE  FilesInv'
<1>1. op'.pc = "idle" /\ ~ op'.new
  BY DEF NoOp
<1> USE <1>1 DEF FilesInv
<1>2. FilesExist' /\ UniqueFiles(dd)'
  BY DEF FilesExist
<1>3. NoNewDelta'
  BY DEF NoNewDelta
<1>4. WorkingCopy'
  BY DEF WorkingCopy, ReadPcs, UnlinkPcs, NewDeltaPcs, MergePcs
<1>5. ListedFiles'
  BY DEF ListedFiles, UnlinkPcs, NewDeltaPcs, MergePcs
<1> QED
  BY <1>2, <1>3, <1>4, <1>5

\* The same for an operation that still works on the stored descriptor.
LEMMA ReadingFiles ==
  ASSUME FilesExist', UniqueFiles(dd)', op'.pc \in ReadPcs \cup {"um_stop"},
         op'.di = dd', ~ op'.new
  PROVE  FilesInv'
<1> USE DEF ReadPcs
<1>1. NoNewDelta'
  BY DEF NoNewDelta
<1>2. WorkingCopy'
  BY DEF WorkingCopy, UnlinkPcs, NewDeltaPcs, MergePcs
<1>3. ListedFiles'
  BY DEF ListedFiles, UnlinkPcs, NewDeltaPcs, MergePcs
<1> QED
  BY <1>1, <1>2, <1>3 DEF FilesInv

\* A step that leaves the directory, the descriptors and the operation alone.
LEMMA KeepingFiles == ASSUME FilesInv, UNCHANGED <<dd, tmp, link, op>>
                      PROVE  FilesInv'
  BY DEF FilesInv, FilesExist, NoNewDelta, WorkingCopy, ListedFiles

-----------------------------------------------------------------------------
(* Actions.                                                                *)

\* complete_running_operation with nothing to complete goes on: the
\* invariant is preserved.
LEMMA CompleteNothingInv == SnapshotInv /\ CompleteNothing => SnapshotInv'
<1> SUFFICES ASSUME SnapshotInv, CompleteNothing PROVE SnapshotInv'
  OBVIOUS
<1> USE DEF SnapshotInv, TypeOK, CompleteNothing, At, files, world, ghosts
<1>1. StorageOK'
  BY DEF StorageOK
<1>2. DevicesOK'
  BY DEF DevicesOK
<1>3. op.ret \in Rets \ {"none"}
  BY DEF Operation, Locals
<1>4. op' \in Operation
  BY <1>3, SetOp, Zenon DEF Rets, Pcs
<1>5. op'.pc = op.ret /\ op'.ret = "none" /\ op'.i = op.i /\ op'.di = op.di /\ op'.new = op.new
  BY DEF Operation
<1>6. Locals(op')
  BY <1>3, <1>5 DEF Locals, Rets
<1>7. ASSUME FilesInv PROVE FilesInv'
  <2>1. op'.di = dd' /\ ~ op'.new
    BY <1>5, <1>7 DEF FilesInv, WorkingCopy, ReadPcs, NoNewDelta
  <2> QED
    BY <1>3, <1>5, <1>7, <2>1, ReadingFiles DEF FilesInv, FilesExist, ReadPcs, Rets
<1> QED
  BY <1>1, <1>2, <1>4, <1>6, <1>7

\* do_mntn_merge finishes the merge of the top delta that was interrupted,
\* over the descriptor as stored: the invariant is preserved.
LEMMA MntnMergeInv == SnapshotInv /\ MntnMerge => SnapshotInv'
<1> SUFFICES ASSUME SnapshotInv, MntnMerge PROVE SnapshotInv'
  OBVIOUS
<1> USE DEF SnapshotInv, TypeOK, At, world
<1> DEFINE t == op.di.top
           ok == /\ CanMerge(op.di, t)
                 /\ FileOf(op.di, t) \in link
                 /\ FileOf(op.di, t) = Top(dev.stack)
           merged == MergeImage(op.di, t)
<1>1. op.di \in Descriptor /\ t \in AnyGuid
  BY DEF Operation, Descriptor
<1>2. UNCHANGED <<dd, link, data, dev, ro, writes, faults>>
  BY DEF MntnMerge
<1>3. DevicesOK'
  BY <1>2 DEF DevicesOK
<1>4. CASE ok
  <2>1. Has(op.di, t)
    BY <1>4 DEF CanMerge
  <2>2. merged \in Descriptor /\ FileOf(op.di, t) \in File
    BY <1>1, <2>1, MergeImageType, LookupType
  <2>3. /\ op' = [op EXCEPT !.pc = "mg_ioctl", !.di = merged,
                            !.kern = TRUE, !.top = TRUE, !.new = FALSE,
                            !.del = FileOf(op.di, t)]
        /\ tmp' = merged
    BY <1>4 DEF MntnMerge
  <2> HIDE DEF t, ok, merged
  <2>4. StorageOK'
    BY <1>2, <2>2, <2>3 DEF StorageOK
  <2>5. op' \in Operation
    BY <2>2, <2>3, SetOp, Zenon DEF Pcs
  <2>6. /\ op'.pc = "mg_ioctl" /\ op'.di = merged /\ ~ op'.new
        /\ op'.del = FileOf(op.di, t) /\ op'.ret = op.ret /\ op'.i = op.i
    BY <2>3 DEF Operation
  <2>7. Locals(op')
    BY <2>2, <2>6 DEF Locals
  <2>8. ASSUME FilesInv PROVE FilesInv'
    <3>1. op.di = dd /\ UniqueFiles(dd) /\ FilesOf(dd) \subseteq link
      BY <2>8 DEF FilesInv, MntnMerge, WorkingCopy, ReadPcs, FilesExist
    <3>2. /\ FilesOf(merged) \subseteq FilesOf(dd)
          /\ op'.del \notin FilesOf(merged)
          /\ UniqueFiles(merged)
      BY <1>1, <2>1, <2>6, <3>1, MergeImageFiles DEF merged
    <3>3. NoNewDelta' /\ WorkingCopy' /\ ListedFiles'
      BY <1>2, <2>3, <2>6, <3>1, <3>2 DEF NoNewDelta, WorkingCopy, ListedFiles,
             ReadPcs, UnlinkPcs, NewDeltaPcs, MergePcs
    <3> QED
      BY <1>2, <3>1, <3>3 DEF FilesInv, FilesExist
  <2> QED
    BY <1>2, <1>3, <2>4, <2>5, <2>7, <2>8
<1>5. CASE ~ ok
  <2>1. op' = NoOp /\ tmp' = tmp
    BY <1>5 DEF MntnMerge
  <2>2. StorageOK'
    BY <1>2, <2>1 DEF StorageOK
  <2>3. ASSUME FilesInv PROVE FilesInv'
    BY <1>2, <2>1, <2>3, EndedFiles DEF FilesInv, FilesExist
  <2> QED
    BY <1>2, <1>3, <2>1, <2>2, <2>3, Ended
<1> QED
  BY <1>4, <1>5

\* merge_temporary_snapshots looks at one entry: the invariant is preserved.
LEMMA MergeTemporaryInv == SnapshotInv /\ MergeTemporary => SnapshotInv'
<1> SUFFICES ASSUME SnapshotInv, MergeTemporary PROVE SnapshotInv'
  OBVIOUS
<1> USE DEF SnapshotInv, TypeOK, At, files, world, ghosts
<1> DEFINE here == op.di.ent[op.i]
           done == [op EXCEPT !.pc = "cr", !.i = 0]
           take == [op EXCEPT !.pc = "del", !.victim = here.guid,
                              !.n = Len(op.di.ent)]
           skip == [op EXCEPT !.i = op.i + 1]
<1>1. UNCHANGED <<dd, tmp, link, data, dev, ro, writes, faults>>
  BY DEF MergeTemporary
<1>2. StorageOK' /\ DevicesOK'
  BY <1>1 DEF StorageOK, DevicesOK
<1>3. op.pc = "mtmp" /\ op.i \in Nat /\ op.i > 0 /\ op.ret = "none"
  BY DEF MergeTemporary, Operation, Locals
<1>4. op.di.ent \in Seq(Entry) /\ Len(op.di.ent) \in Nat
  BY DEF Operation, Descriptor
<1>5. \/ op' = NoOp
      \/ op' = done
      \/ op' = skip
      \/ op.i <= Len(op.di.ent) /\ op' = take
  BY <1>3, <1>4 DEF MergeTemporary
<1>6. op.i <= Len(op.di.ent) => here.guid \in AnyGuid
  <2>1. op.i <= Len(op.di.ent) => here \in Entry
    BY <1>3, <1>4
  <2> QED
    BY <2>1 DEF Entry
<1>7. op.i + 1 \in Nat /\ op.i + 1 > 0 /\ 0 \in Nat
  BY <1>3
<1>8. op' \in Operation
  <2>1. done \in Operation /\ skip \in Operation
    BY <1>7, SetOp, Zenon DEF Pcs
  <2>2. op.i <= Len(op.di.ent) => take \in Operation
    BY <1>4, <1>6, SetOp, Zenon DEF Pcs
  <2> HIDE DEF done, skip, take
  <2> QED
    BY <1>5, <2>1, <2>2, Ended
<1>9. \/ op' = NoOp
      \/ /\ op'.pc \in {"cr", "mtmp", "del"} /\ op'.ret = "none"
         /\ op'.pc = "mtmp" => op'.i > 0
         /\ op'.di = op.di /\ op'.new = op.new
  BY <1>3, <1>5, <1>7 DEF Operation
<1>10. Locals(op')
  BY <1>9, Ended DEF Locals
<1>11. ASSUME FilesInv PROVE FilesInv'
  <2>1. op.di = dd /\ ~ op.new
    BY <1>3, <1>11 DEF FilesInv, WorkingCopy, ReadPcs, NoNewDelta
  <2>2. CASE op' = NoOp
    BY <1>1, <1>11, <2>2, EndedFiles DEF FilesInv, FilesExist
  <2>3. CASE op' # NoOp
    BY <1>1, <1>9, <1>11, <2>1, <2>3, ReadingFiles DEF FilesInv, FilesExist, ReadPcs
  <2> QED
    BY <2>2, <2>3
<1> QED
  BY <1>1, <1>2, <1>8, <1>10, <1>11

\* Whether a device runs is a truth value.
LEMMA RunningType == Running \in BOOLEAN
  BY DEF Running

\* Returning with the descriptor as stored, whose files exist, preserves the
\* order of file operations.
LEMMA ReturnedFiles ==
  ASSUME op \in Operation, Locals(op), FilesInv, NEW ok \in BOOLEAN,
         op' = Return(op, ok), ok => op.di = dd', UniqueFiles(dd)', FilesExist',
         dd' = dd \/ ok
  PROVE  FilesInv'
<1>1. ~ op.new
  BY DEF FilesInv, NoNewDelta
<1>2. CASE op' = NoOp
  <2>1. op'.pc = "idle" /\ ~ op'.new
    BY <1>2 DEF NoOp
  <2>2. NoNewDelta' /\ WorkingCopy' /\ ListedFiles'
    BY <2>1 DEF NoNewDelta, WorkingCopy, ListedFiles, ReadPcs, UnlinkPcs,
           NewDeltaPcs, MergePcs
  <2> QED
    BY <2>2 DEF FilesInv
<1>3. CASE op' # NoOp
  <2>1. /\ op'.pc \in {"mtmp", "mg", "mg2", "um_stop"}
        /\ op'.di = dd' /\ ~ op'.new
    BY <1>1, <1>3, ReturnIs
  <2> QED
    BY <2>1, ReadingFiles DEF ReadPcs
<1> QED
  BY <1>2, <1>3

\* do_delete_snapshot returns early: the invariant is preserved.
LEMMA DeleteRefusedInv == SnapshotInv /\ DeleteRefused => SnapshotInv'
<1> SUFFICES ASSUME SnapshotInv, DeleteRefused PROVE SnapshotInv'
  OBVIOUS
<1> USE DEF SnapshotInv, TypeOK, At, files, world, ghosts
<1>1. UNCHANGED <<dd, tmp, link, data, dev, writes, faults>> /\ ro' \subseteq ro
  BY DEF DeleteRefused
<1>2. StorageOK' /\ DevicesOK'
  BY <1>1 DEF StorageOK, DevicesOK
<1>3. op' = Return(op, FALSE) /\ op.pc \in ReadPcs
  BY DEF DeleteRefused, ReadPcs, MergeAt
<1>4. op' \in Operation /\ Locals(op')
  BY <1>3, ReturnIs
<1>5. ASSUME FilesInv PROVE FilesInv'
  BY <1>1, <1>3, <1>5, ReturnedFiles DEF FilesInv, FilesExist, WorkingCopy
<1> QED
  BY <1>1, <1>2, <1>4, <1>5

\* do_delete_snapshot takes a leaf out of the descriptor in memory: the
\* invariant is preserved.
LEMMA DeleteLeafInv == SnapshotInv /\ DeleteLeaf => SnapshotInv'
<1> SUFFICES ASSUME SnapshotInv, DeleteLeaf PROVE SnapshotInv'
  OBVIOUS
<1> USE DEF SnapshotInv, TypeOK, At, files, world
<1> DEFINE g == op.victim
           rest == RemoveImage(op.di, g, TRUE)
<1>1. /\ UNCHANGED <<dd, tmp, link, data, dev, writes, faults>>
      /\ ro' \subseteq ro
      /\ op.pc = "del"
      /\ Has(op.di, g)
      /\ op' = [op EXCEPT !.pc = "dl_store", !.del = FileOf(op.di, g), !.di = rest]
  BY DEF DeleteLeaf
<1>2. StorageOK' /\ DevicesOK'
  BY <1>1 DEF StorageOK, DevicesOK
<1>3. op.di \in Descriptor
  BY DEF Operation
<1>4. rest \in Descriptor /\ FileOf(op.di, g) \in File
  BY <1>1, <1>3, RemoveImageType, LookupType
<1> HIDE DEF g, rest
<1>5. op' \in Operation
  BY <1>1, <1>4, SetOp, Zenon DEF Pcs
<1>6. /\ op'.pc = "dl_store" /\ op'.del = FileOf(op.di, g) /\ op'.di = rest
      /\ op'.new = op.new /\ op'.ret = op.ret /\ op'.i = op.i
  BY <1>1 DEF Operation
<1>7. Locals(op')
  BY <1>6 DEF Locals
<1>8. ASSUME FilesInv PROVE FilesInv'
  <2>1. op.di = dd /\ UniqueFiles(dd) /\ FilesOf(dd) \subseteq link /\ ~ op.new
    BY <1>1, <1>8 DEF FilesInv, WorkingCopy, ReadPcs, FilesExist, NoNewDelta
  <2>2. /\ FilesOf(rest) \subseteq FilesOf(op.di)
        /\ FileOf(op.di, g) \notin FilesOf(rest)
        /\ UniqueFiles(rest)
    <3>1. UniqueFiles(op.di) /\ Has(op.di, g)
      BY <1>1, <2>1
    <3> QED
      BY <1>3, <3>1, RemoveImageFiles DEF rest
  <2>3. NoNewDelta' /\ WorkingCopy' /\ ListedFiles'
    BY <1>1, <1>6, <2>1, <2>2 DEF NoNewDelta, WorkingCopy, ListedFiles,
           ReadPcs, UnlinkPcs, NewDeltaPcs, MergePcs
  <2> QED
    BY <1>1, <2>1, <2>3 DEF FilesInv, FilesExist
<1> QED
  BY <1>1, <1>2, <1>5, <1>7, <1>8

\* The descriptor without the leaf is stored while the leaf's file still
\* exists: the invariant is preserved.
LEMMA DeleteStoreInv == SnapshotInv /\ DeleteStore => SnapshotInv'
<1> SUFFICES ASSUME SnapshotInv, DeleteStore PROVE SnapshotInv'
  OBVIOUS
<1> USE DEF SnapshotInv, TypeOK, At, files, world
<1>1. /\ UNCHANGED <<tmp, link, data, dev, ro, writes, faults>>
      /\ op.pc = "dl_store"
      /\ dd' = op.di
      /\ op' = [op EXCEPT !.pc = "dl_unlink"]
  BY DEF DeleteStore
<1>2. StorageOK' /\ DevicesOK'
  BY <1>1 DEF StorageOK, DevicesOK, Operation
<1>3. op' \in Operation
  BY <1>1, SetOp, Zenon DEF Pcs
<1>4. /\ op'.pc = "dl_unlink" /\ op'.del = op.del /\ op'.di = op.di
      /\ op'.new = op.new /\ op'.ret = op.ret /\ op'.i = op.i
  BY <1>1 DEF Operation
<1>5. Locals(op')
  BY <1>4 DEF Locals
<1>6. ASSUME FilesInv PROVE FilesInv'
  <2>1. /\ UniqueFiles(op.di) /\ FilesOf(op.di) \subseteq link
        /\ op.del \notin FilesOf(op.di) /\ ~ op.new
    BY <1>1, <1>6 DEF FilesInv, WorkingCopy, ListedFiles, NoNewDelta
  <2>2. NoNewDelta' /\ WorkingCopy' /\ ListedFiles'
    BY <1>1, <1>4, <2>1 DEF NoNewDelta, WorkingCopy, ListedFiles,
           ReadPcs, UnlinkPcs, NewDeltaPcs, MergePcs
  <2> QED
    BY <1>1, <2>1, <2>2 DEF FilesInv, FilesExist
<1> QED
  BY <1>1, <1>2, <1>3, <1>5, <1>6

\* The leaf's file goes, which no descriptor names: the invariant is
\* preserved.
LEMMA DeleteUnlinkInv == SnapshotInv /\ DeleteUnlink => SnapshotInv'
<1> SUFFICES ASSUME SnapshotInv, DeleteUnlink PROVE SnapshotInv'
  OBVIOUS
<1> USE DEF SnapshotInv, TypeOK, At, files, world, ghosts
<1>1. /\ UNCHANGED <<dd, tmp, data, dev, ro, writes, faults>>
      /\ op.pc = "dl_unlink"
      /\ link' = link \ {op.del}
      /\ op' = Return(op, TRUE)
  BY DEF DeleteUnlink
<1>2. StorageOK' /\ DevicesOK'
  BY <1>1 DEF StorageOK, DevicesOK
<1>3. TRUE \in BOOLEAN
  OBVIOUS
<1>4. op' \in Operation /\ Locals(op')
  BY <1>1, <1>3, ReturnIs
<1>5. ASSUME FilesInv PROVE FilesInv'
  <2>1. op.di = dd /\ op.del \notin FilesOf(dd) /\ UniqueFiles(dd)
    BY <1>1, <1>5 DEF FilesInv, WorkingCopy, ListedFiles, UnlinkPcs
  <2>2. FilesExist' /\ UniqueFiles(dd)'
    BY <1>1, <1>5, <2>1 DEF FilesInv, FilesExist
  <2> QED
    BY <1>1, <1>3, <1>5, <2>1, <2>2, ReturnedFiles
<1> QED
  BY <1>1, <1>2, <1>4, <1>5

\* do_delete_snapshot turns into a merge of the only child: the invariant
\* is preserved.
LEMMA DeleteByMergeInv == SnapshotInv /\ DeleteByMerge => SnapshotInv'
<1> SUFFICES ASSUME SnapshotInv, DeleteByMerge PROVE SnapshotInv'
  OBVIOUS
<1> USE DEF SnapshotInv, TypeOK, At, files, world, ghosts
<1>1. /\ UNCHANGED <<dd, tmp, link, data, dev, ro, writes, faults>>
      /\ op.pc = "del"
      /\ op' = [op EXCEPT !.pc = "mg", !.child = ChildOf(op.di, op.victim)]
  BY DEF DeleteByMerge
<1>2. StorageOK' /\ DevicesOK'
  BY <1>1 DEF StorageOK, DevicesOK
<1>3. ChildOf(op.di, op.victim) \in AnyGuid
  <2>1. ChildCount(op.di, op.victim) # 0 /\ op.di \in Descriptor
    BY DEF DeleteByMerge, Operation
  <2> QED
    BY <2>1, ChildType
<1>4. op' \in Operation
  BY <1>1, <1>3, SetOp, Zenon DEF Pcs, Rets
<1>5. op'.pc = "mg" /\ op'.di = op.di /\ op'.new = op.new /\ op'.i = op.i
  BY <1>1 DEF Operation
<1>6. op'.ret = op.ret
  BY <1>1 DEF Operation
<1>7. Locals(op')
  BY <1>5, <1>6 DEF Locals
<1>8. ASSUME FilesInv PROVE FilesInv'
  <2>1. op'.di = dd' /\ ~ op'.new
    BY <1>1, <1>5, <1>8 DEF FilesInv, WorkingCopy, ReadPcs, NoNewDelta
  <2> QED
    BY <1>1, <1>5, <1>8, <2>1, ReadingFiles DEF FilesInv, FilesExist, ReadPcs
<1> QED
  BY <1>1, <1>2, <1>4, <1>7, <1>8

\* do_delete_snapshot marks the snapshot temporary and stores that at once:
\* the invariant is preserved.
LEMMA DeleteMarkInv == SnapshotInv /\ DeleteMark => SnapshotInv'
<1> SUFFICES ASSUME SnapshotInv, DeleteMark PROVE SnapshotInv'
  OBVIOUS
<1> USE DEF SnapshotInv, TypeOK, At, files, world
<1> DEFINE marked == SetTemporary(op.di, op.victim)
           o == [op EXCEPT !.di = marked]
<1>1. /\ UNCHANGED <<tmp, link, data, dev, ro, writes, faults>>
      /\ op.pc = "del"
      /\ dd' = marked
      /\ op' = Return(o, TRUE)
  BY DEF DeleteMark
<1>2. op.di \in Descriptor
  BY DEF Operation
<1>3. marked \in Descriptor /\ SameFiles(marked, op.di)
  BY <1>2, SetTemporaryType, SetTemporaryFiles
<1> HIDE DEF marked
<1>4. StorageOK' /\ DevicesOK'
  BY <1>1, <1>3 DEF StorageOK, DevicesOK
<1>5. o \in Operation
  BY <1>3, SetOp, Zenon
<1>6. /\ o.pc = "del" /\ o.new = op.new /\ o.ret = op.ret /\ o.i = op.i
      /\ o.di = marked
  BY <1>1 DEF Operation
<1> HIDE DEF o
<1>7. Locals(o)
  BY <1>6 DEF Locals
<1>8. op' \in Operation /\ Locals(op')
  BY <1>1, <1>5, <1>7, ReturnIs
<1>9. ASSUME FilesInv PROVE FilesInv'
  <2>1. op.di = dd /\ UniqueFiles(dd) /\ FilesOf(dd) \subseteq link /\ ~ op.new
    BY <1>1, <1>9 DEF FilesInv, WorkingCopy, ReadPcs, FilesExist, NoNewDelta
  <2>2. UniqueFiles(dd)' /\ FilesExist'
    BY <1>1, <1>3, <2>1, SameFilesFacts DEF FilesExist
  <2>3. CASE op' = NoOp
    <3>1. op'.pc = "idle" /\ ~ op'.new
      BY <2>3 DEF NoOp
    <3>2. NoNewDelta' /\ WorkingCopy' /\ ListedFiles'
      BY <3>1 DEF NoNewDelta, WorkingCopy, ListedFiles, ReadPcs, UnlinkPcs,
             NewDeltaPcs, MergePcs
    <3> QED
      BY <2>2, <3>2 DEF FilesInv
  <2>4. CASE op' # NoOp
    <3>1. /\ op'.pc \in {"mtmp", "mg", "mg2", "um_stop"}
          /\ op'.di = dd' /\ ~ op'.new
      BY <1>1, <1>5, <1>6, <1>7, <2>1, <2>4, ReturnIs
    <3> QED
      BY <2>2, <3>1, ReadingFiles DEF ReadPcs
  <2> QED
    BY <2>3, <2>4
<1> QED
  BY <1>1, <1>4, <1>8, <1>9

\* do_delete_snapshot finds the mark already there: the invariant is
\* preserved.
LEMMA DeleteMarkedInv == SnapshotInv /\ DeleteMarked => SnapshotInv'
<1> SUFFICES ASSUME SnapshotInv, DeleteMarked PROVE SnapshotInv'
  OBVIOUS
<1> USE DEF SnapshotInv, TypeOK, At, files, world, ghosts
<1>1. UNCHANGED <<dd, tmp, link, data, dev, writes, faults>> /\ ro' \subseteq ro
  BY DEF DeleteMarked
<1>2. StorageOK' /\ DevicesOK'
  BY <1>1 DEF StorageOK, DevicesOK
<1>3. op' = Return(op, Running) /\ op.pc \in ReadPcs
  BY DEF DeleteMarked, ReadPcs, MergeAt
<1>4. op' \in Operation /\ Locals(op')
  BY <1>3, ReturnIs, RunningType
<1>5. ASSUME FilesInv PROVE FilesInv'
  BY <1>1, <1>3, <1>5, ReturnedFiles, RunningType DEF FilesInv, FilesExist, WorkingCopy
<1> QED
  BY <1>1, <1>2, <1>4, <1>5

\* ploop_merge_snapshot_by_guid returns early, after devices without a
\* holder were stopped: the invariant is preserved.
LEMMA MergeRefusedInv == SnapshotInv /\ MergeRefused => SnapshotInv'
<1> SUFFICES ASSUME SnapshotInv, MergeRefused PROVE SnapshotInv'
  OBVIOUS
<1> USE DEF SnapshotInv, TypeOK, At, files, world, ghosts
<1>1. UNCHANGED <<dd, tmp, link, data, dev, writes, faults>> /\ ro' \subseteq ro
  BY DEF MergeRefused
<1>2. StorageOK' /\ DevicesOK'
  BY <1>1 DEF StorageOK, DevicesOK
<1>3. op' = Return(op, FALSE) /\ op.pc \in ReadPcs
  BY DEF MergeRefused, ReadPcs, MergeAt
<1>4. op' \in Operation /\ Locals(op')
  BY <1>3, ReturnIs
<1>5. ASSUME FilesInv PROVE FilesInv'
  BY <1>1, <1>3, <1>5, ReturnedFiles DEF FilesInv, FilesExist, WorkingCopy
<1> QED
  BY <1>1, <1>2, <1>4, <1>5

\* The merge first completes what an earlier process left: the invariant is
\* preserved.
LEMMA MergeCompleteInv == SnapshotInv /\ MergeComplete => SnapshotInv'
<1> SUFFICES ASSUME SnapshotInv, MergeComplete PROVE SnapshotInv'
  OBVIOUS
<1> USE DEF SnapshotInv, TypeOK, At, files, world, ghosts
<1>1. /\ UNCHANGED <<dd, tmp, link, data, dev, ro, writes, faults>>
      /\ op.pc = "mg"
      /\ op' = [op EXCEPT !.pc = "complete", !.ret = "mg2"]
  BY DEF MergeComplete
<1>2. StorageOK' /\ DevicesOK'
  BY <1>1 DEF StorageOK, DevicesOK
<1>3. "mg2" \in Rets /\ "complete" \in Pcs
  BY DEF Rets, Pcs
<1>4. op' \in Operation
  BY <1>1, <1>3, SetOp, Zenon DEF Pcs, Rets
<1>5. op'.pc = "complete" /\ op'.di = op.di /\ op'.new = op.new /\ op'.i = op.i
  BY <1>1 DEF Operation
<1>6. op'.ret = "mg2"
  BY <1>1 DEF Operation
<1>7. Locals(op')
  BY <1>5, <1>6 DEF Locals
<1>8. ASSUME FilesInv PROVE FilesInv'
  <2>1. op'.di = dd' /\ ~ op'.new
    BY <1>1, <1>5, <1>8 DEF FilesInv, WorkingCopy, ReadPcs, NoNewDelta
  <2> QED
    BY <1>1, <1>5, <1>8, <2>1, ReadingFiles DEF FilesInv, FilesExist, ReadPcs
<1> QED
  BY <1>1, <1>2, <1>4, <1>7, <1>8

\* merge_image starts: the merged descriptor goes to conf.tmp, which lists
\* existing files but not the child's: the invariant is preserved.
LEMMA MergeBeginInv == SnapshotInv /\ MergeBegin => SnapshotInv'
<1> SUFFICES ASSUME SnapshotInv, MergeBegin PROVE SnapshotInv'
  OBVIOUS
<1> USE DEF SnapshotInv, TypeOK, world
<1> DEFINE c == op.child
           p == ParentOf(op.di, c)
           merged == MergeImage(op.di, c)
           kern == Level(FileOf(op.di, c)) > 0
           top == kern /\ FileOf(op.di, c) = Top(dev.stack)
           target == IF op.new THEN NewFile ELSE FileOf(op.di, p)
           work == IF top /\ ~ op.new THEN {} ELSE Block
<1>1. /\ UNCHANGED <<dd, dev, writes, faults>>
      /\ ro' \subseteq ro
      /\ op.pc \in {"mg", "mg2"}
      /\ op.new => NameLeft
      /\ tmp' = merged
      /\ link' = IF op.new THEN link \cup {target} ELSE link
      /\ data' = IF op.new THEN [data EXCEPT ![target] = EmptyDelta] ELSE data
      /\ op' = [op EXCEPT !.pc = "mg_copy", !.di = merged, !.kern = kern,
                          !.top = top, !.file = target,
                          !.old = FileOf(op.di, p),
                          !.del = FileOf(op.di, c),
                          !.todo = work]
  BY DEF MergeBegin, MergeAt, At
<1>2. Has(op.di, c) /\ Has(op.di, p) /\ op.di \in Descriptor /\ c \in AnyGuid
  BY DEF MergeBegin, MergeChecked, CanMerge, Operation
<1>3. /\ merged \in Descriptor
      /\ FileOf(op.di, c) \in File
      /\ FileOf(op.di, p) \in File
  BY <1>2, MergeImageType, LookupType
<1>4. target \in File
  BY <1>1, <1>3, NewFileIs
<1>5. kern \in BOOLEAN /\ top \in BOOLEAN /\ work \in SUBSET Block
  OBVIOUS
<1> HIDE DEF c, p, merged, kern, top, target, work
<1>6. StorageOK'
  <2>1. EmptyDelta \in Delta
    BY DEF EmptyDelta, Delta
  <2> QED
    BY <1>1, <1>3, <1>4, <2>1 DEF StorageOK
<1>7. DevicesOK'
  BY <1>1 DEF DevicesOK
<1>8. op' \in Operation
  <2> DEFINE o == [op EXCEPT !.pc = "mg_copy", !.di = merged, !.kern = kern,
                             !.top = top]
             q == [o EXCEPT !.file = target, !.old = FileOf(op.di, p)]
  <2>1. o \in Operation
    BY <1>3, <1>5, SetOp, Zenon DEF Pcs
  <2>2. op' = [q EXCEPT !.del = FileOf(op.di, c), !.todo = work]
    BY <1>1, Zenon
  <2> HIDE DEF o
  <2>3. q \in Operation
    BY <1>3, <1>4, <2>1, SetOp, Zenon
  <2> HIDE DEF q
  <2> QED
    BY <1>3, <1>5, <2>2, <2>3, SetOp, Zenon
<1>9. /\ op'.pc = "mg_copy" /\ op'.di = merged /\ op'.file = target
      /\ op'.old = FileOf(op.di, p) /\ op'.del = FileOf(op.di, c)
      /\ op'.new = op.new /\ op'.ret = op.ret /\ op'.i = op.i
  BY <1>1 DEF Operation
<1>10. Locals(op')
  BY <1>3, <1>4, <1>9 DEF Locals
<1>11. ASSUME FilesInv PROVE FilesInv'
  <2>1. op.di = dd /\ UniqueFiles(dd) /\ FilesOf(dd) \subseteq link /\ ~ op.new
    BY <1>1, <1>11 DEF FilesInv, WorkingCopy, ReadPcs, FilesExist, NoNewDelta
  <2>2. /\ FilesOf(merged) \subseteq FilesOf(op.di)
        /\ FileOf(op.di, c) \notin FilesOf(merged)
        /\ UniqueFiles(merged)
    <3>1. UniqueFiles(op.di)
      BY <2>1
    <3> QED
      BY <1>2, <3>1, MergeImageFiles DEF merged
  <2>3. NoNewDelta' /\ WorkingCopy' /\ ListedFiles'
    BY <1>1, <1>9, <2>1, <2>2 DEF NoNewDelta, WorkingCopy, ListedFiles,
           ReadPcs, UnlinkPcs, NewDeltaPcs, MergePcs
  <2> QED
    BY <1>1, <2>1, <2>3 DEF FilesInv, FilesExist
<1> QED
  BY <1>1, <1>6, <1>7, <1>8, <1>10, <1>11

\* What a read through one or two deltas gives is a block.
LEMMA SeenType == ASSUME NEW d \in [File -> Delta], NEW s, NEW b \in Block,
                         NEW n \in Nat, DOMAIN s = 1 .. n,
                         \A i \in 1 .. n : s[i] \in File
                  PROVE  Seen(d, s, b) \in Nat \cup {Hole}
<1> DEFINE hit == {i \in DOMAIN s : d[s[i]][b] # Hole}
<1>1. CASE hit = {}
  BY <1>1 DEF Seen
<1>2. CASE hit # {}
  <2> DEFINE gap0 == {n - i : i \in hit}
  <2>1. gap0 \in SUBSET Nat /\ gap0 # {}
    BY <1>2
  <2>2. PICK m \in gap0 : \A k \in gap0 : m <= k
    BY <2>1, Least
  <2>3. \E i \in hit : \A j \in hit : j <= i
    <3>1. PICK i \in hit : m = n - i
      BY <2>2
    <3>2. \A j \in hit : n - i <= n - j
      BY <2>2, <3>1
    <3>3. \A j \in hit : j \in Nat /\ i \in Nat
      OBVIOUS
    <3> QED
      BY <3>2, <3>3
  <2> DEFINE t == CHOOSE i \in hit : \A j \in hit : j <= i
  <2>4. t \in hit
    BY <2>3
  <2>5. Seen(d, s, b) = d[s[t]][b]
    BY <1>2 DEF Seen
  <2> HIDE DEF t
  <2>6. s[t] \in File
    BY <2>4
  <2>7. d[s[t]] \in Delta
    BY <2>6
  <2> QED
    BY <2>5, <2>7 DEF Delta
<1> QED
  BY <1>1, <1>2

\* merge_image copies a cluster: the invariant is preserved.
LEMMA MergeCopyInv == ASSUME NEW b \in Block
                      PROVE  SnapshotInv /\ MergeCopy(b) => SnapshotInv'
<1> SUFFICES ASSUME SnapshotInv, MergeCopy(b) PROVE SnapshotInv'
  OBVIOUS
<1> USE DEF SnapshotInv, TypeOK, At, world
<1> DEFINE src == CASE op.new /\ op.top -> <<op.old>>
                    [] op.new /\ ~ op.top -> <<op.old, op.del>>
                    [] OTHER -> <<op.del>>
           left == op.todo \ {b}
<1>1. /\ UNCHANGED <<dd, tmp, link, dev, ro, writes, faults>>
      /\ op.pc = "mg_copy"
      /\ \/ data' = data
         \/ data' = [data EXCEPT ![op.file][b] = Seen(data, src, b)]
      /\ op' = [op EXCEPT !.todo = left]
  BY DEF MergeCopy, ghosts
<1>2. op.file \in File /\ op.old \in File /\ op.del \in File
  BY <1>1 DEF Locals
<1>3. left \in SUBSET Block
  BY DEF Operation
<1>4. Seen(data, src, b) \in Nat \cup {Hole}
  <2>1. data \in [File -> Delta]
    BY DEF StorageOK
  <2>2. \/ src = <<op.old>>
        \/ src = <<op.old, op.del>>
        \/ src = <<op.del>>
    OBVIOUS
  <2> HIDE DEF src
  <2>3. \E n \in Nat : DOMAIN src = 1 .. n /\ \A i \in 1 .. n : src[i] \in File
    <3>1. CASE src = <<op.old>>
      BY <1>2, <3>1
    <3>2. CASE src = <<op.del>>
      BY <1>2, <3>2
    <3>3. CASE src = <<op.old, op.del>>
      <4>1. DOMAIN src = 1 .. 2 /\ \A i \in 1 .. 2 : src[i] \in File
        BY <1>2, <3>3
      <4> QED
        BY <4>1
    <3> QED
      BY <2>2, <3>1, <3>2, <3>3
  <2> QED
    BY <2>1, <2>3, SeenType
<1> HIDE DEF src, left
<1>5. StorageOK'
  BY <1>1, <1>2, <1>4 DEF StorageOK, Delta
<1>6. DevicesOK'
  BY <1>1 DEF DevicesOK
<1>7. op' \in Operation
  BY <1>1, <1>3, SetOp, Zenon
<1>8. /\ op'.pc = op.pc /\ op'.di = op.di /\ op'.file = op.file
      /\ op'.old = op.old /\ op'.del = op.del
      /\ op'.new = op.new /\ op'.ret = op.ret /\ op'.i = op.i
  BY <1>1 DEF Operation
<1>9. Locals(op')
  BY <1>8 DEF Locals
<1>10. ASSUME FilesInv PROVE FilesInv'
  BY <1>1, <1>8, <1>10 DEF FilesInv, FilesExist, NoNewDelta, WorkingCopy, ListedFiles
<1> QED
  BY <1>1, <1>5, <1>6, <1>7, <1>9, <1>10

\* The copy is done: what follows depends on who has the delta, and the
\* invariant is preserved.
LEMMA MergeCopiedInv == SnapshotInv /\ MergeCopied => SnapshotInv'
<1> SUFFICES ASSUME SnapshotInv, MergeCopied PROVE SnapshotInv'
  OBVIOUS
<1> USE DEF SnapshotInv, TypeOK, At, files, world, ghosts
<1>1. /\ UNCHANGED <<dd, tmp, link, data, dev, ro, writes, faults>>
      /\ op.pc = "mg_copy"
      /\ \E v \in {"mg_replace", "mg_ioctl", "mg_swap", "mg_rename"} :
            /\ op' = [op EXCEPT !.pc = v]
            /\ v \in {"mg_replace", "mg_swap"} => op.new
  BY DEF MergeCopied, Merged
<1>2. PICK v \in {"mg_replace", "mg_ioctl", "mg_swap", "mg_rename"} :
            /\ op' = [op EXCEPT !.pc = v]
            /\ v \in {"mg_replace", "mg_swap"} => op.new
  BY <1>1
<1>3. StorageOK' /\ DevicesOK'
  BY <1>1 DEF StorageOK, DevicesOK
<1>4. op' \in Operation
  BY <1>2, SetOp, Zenon DEF Pcs
<1>5. /\ op'.pc = v /\ op'.di = op.di /\ op'.file = op.file /\ op'.del = op.del
      /\ op'.new = op.new /\ op'.ret = op.ret /\ op'.i = op.i
  BY <1>2 DEF Operation
<1>6. Locals(op')
  BY <1>1, <1>2, <1>5 DEF Locals
<1>7. ASSUME FilesInv PROVE FilesInv'
  BY <1>1, <1>2, <1>5, <1>7 DEF FilesInv, FilesExist, NoNewDelta, WorkingCopy,
         ListedFiles, ReadPcs, UnlinkPcs, NewDeltaPcs, MergePcs
<1> QED
  BY <1>1, <1>3, <1>4, <1>6, <1>7

\* The device takes the new delta in the parent's place: the invariant is
\* preserved.
LEMMA MergeReplaceInv == SnapshotInv /\ MergeReplace => SnapshotInv'
<1> SUFFICES ASSUME SnapshotInv, MergeReplace PROVE SnapshotInv'
  OBVIOUS
<1> USE DEF SnapshotInv, TypeOK, At, files, world, ghosts
<1>1. /\ UNCHANGED <<dd, tmp, link, data, ro, writes, faults>>
      /\ op.pc = "mg_replace"
      /\ dev' = [dev EXCEPT !.stack[Level(op.old)] = op.file]
      /\ op' = [op EXCEPT !.pc = "mg_ioctl"]
  BY DEF MergeReplace
<1>2. StorageOK'
  BY <1>1 DEF StorageOK
<1>3. op.new /\ op.file \in File /\ op.del \in File
  BY <1>1 DEF Locals
<1>4. DevicesOK'
  <2> DEFINE k == Level(op.old)
  <2>1. dev.stack \in Seq(File) /\ dev.mntn \in {"off", "merge"}
    BY DEF DevicesOK, Device, Stack
  <2> HIDE DEF k
  <2>2. [dev.stack EXCEPT ![k] = op.file] \in Seq(File)
    <3>1. CASE k \in DOMAIN dev.stack
      BY <1>3, <2>1, <3>1
    <3>2. CASE k \notin DOMAIN dev.stack
      <4>1. [dev.stack EXCEPT ![k] = op.file] = dev.stack
        BY <2>1, <3>2
      <4> QED
        BY <2>1, <4>1
    <3> QED
      BY <3>1, <3>2
  <2>3. dev' \in Device
    BY <1>1, <2>1, <2>2 DEF DevicesOK, Device, Stack, k
  <2> QED
    BY <1>1, <2>3 DEF DevicesOK
<1>5. op' \in Operation
  BY <1>1, SetOp, Zenon DEF Pcs
<1>6. /\ op'.pc = "mg_ioctl" /\ op'.file = op.file /\ op'.del = op.del
      /\ op'.new = op.new /\ op'.ret = op.ret /\ op'.i = op.i
  BY <1>1 DEF Operation
<1>7. Locals(op')
  BY <1>3, <1>6 DEF Locals
<1>8. ~ FilesInv
  BY <1>3 DEF FilesInv, NoNewDelta
<1> QED
  BY <1>1, <1>2, <1>4, <1>5, <1>7, <1>8

\* The kernel drops the child from its stack, moving the blocks of the top
\* delta down first: the invariant is preserved.
LEMMA MergeIoctlInv == SnapshotInv /\ MergeIoctl => SnapshotInv'
<1> SUFFICES ASSUME SnapshotInv, MergeIoctl PROVE SnapshotInv'
  OBVIOUS
<1> USE DEF SnapshotInv, TypeOK, At, world, ghosts
<1> DEFINE k == Level(op.del)
           low == dev.stack[k - 1]
           moved == [b \in Block |-> IF data[op.del][b] # Hole
                                     THEN data[op.del][b] ELSE data[low][b]]
<1>1. /\ UNCHANGED <<dd, tmp, link, ro, writes, faults>>
      /\ op.pc = "mg_ioctl"
      /\ dev' = [stack |-> RemoveAt(dev.stack, k), mntn |-> "off"]
      /\ data' = IF op.top THEN [data EXCEPT ![low] = moved] ELSE data
  BY DEF MergeIoctl, Merged
<1>2. op.del \in File
  BY <1>1 DEF Locals
<1>3. StorageOK'
  <2>1. data \in [File -> Delta]
    BY DEF StorageOK
  <2> HIDE DEF low
  <2>2. low \in File => moved \in Delta
    BY <1>2, <2>1 DEF Delta
  <2> HIDE DEF moved
  <2>3. data' \in [File -> Delta]
    BY <1>1, <2>1, <2>2
  <2> QED
    BY <1>1, <2>3 DEF StorageOK
<1> HIDE DEF k, low, moved
<1>4. DevicesOK'
  <2>1. RemoveAt(dev.stack, k) \in Seq(File)
    BY RemoveAtType DEF DevicesOK, Device, Stack
  <2> QED
    BY <1>1, <2>1 DEF DevicesOK, Device, Stack
<1>5. PICK v \in {"mg_swap", "mg_rename"} : /\ op' = [op EXCEPT !.pc = v]
                                            /\ v = "mg_swap" => op.new
  BY DEF MergeIoctl, Merged
<1>6. op' \in Operation
  BY <1>5, SetOp, Zenon DEF Pcs
<1>7. /\ op'.pc = v /\ op'.di = op.di /\ op'.file = op.file /\ op'.del = op.del
      /\ op'.new = op.new /\ op'.ret = op.ret /\ op'.i = op.i
  BY <1>5 DEF Operation
<1>8. Locals(op')
  BY <1>1, <1>5, <1>7 DEF Locals
<1>9. ASSUME FilesInv PROVE FilesInv'
  BY <1>1, <1>5, <1>7, <1>9 DEF FilesInv, FilesExist, NoNewDelta, WorkingCopy,
         ListedFiles, ReadPcs, UnlinkPcs, NewDeltaPcs, MergePcs
<1> QED
  BY <1>1, <1>3, <1>4, <1>6, <1>8, <1>9

\* The name of the new delta goes to conf.tmp: the invariant is preserved.
LEMMA MergeSwapInv == SnapshotInv /\ MergeSwap => SnapshotInv'
<1> SUFFICES ASSUME SnapshotInv, MergeSwap PROVE SnapshotInv'
  OBVIOUS
<1> USE DEF SnapshotInv, TypeOK, At, world, ghosts
<1> DEFINE swapped == SetFile(op.di, op.child, op.file)
<1>1. /\ UNCHANGED <<dd, link, data, dev, ro, writes, faults>>
      /\ op.pc = "mg_swap"
      /\ tmp' = swapped
      /\ op' = [op EXCEPT !.pc = "mg_unlinkold", !.di = swapped]
  BY DEF MergeSwap
<1>2. op.new /\ op.file \in File /\ op.di \in Descriptor
  BY <1>1 DEF Locals, Operation
<1>3. swapped \in Descriptor
  BY <1>2, SetFileType
<1> HIDE DEF swapped
<1>4. StorageOK' /\ DevicesOK'
  BY <1>1, <1>3 DEF StorageOK, DevicesOK
<1>5. op' \in Operation
  BY <1>1, <1>3, SetOp, Zenon DEF Pcs
<1>6. op'.pc = "mg_unlinkold" /\ op'.ret = op.ret /\ op'.i = op.i
  BY <1>1 DEF Operation
<1>7. Locals(op')
  BY <1>6 DEF Locals
<1>8. ~ FilesInv
  BY <1>2 DEF FilesInv, NoNewDelta
<1> QED
  BY <1>1, <1>4, <1>5, <1>7, <1>8

\* The replaced delta is removed: the invariant is preserved.
LEMMA MergeUnlinkOldInv == SnapshotInv /\ MergeUnlinkOld => SnapshotInv'
<1> SUFFICES ASSUME SnapshotInv, MergeUnlinkOld PROVE SnapshotInv'
  OBVIOUS
<1> USE DEF SnapshotInv, TypeOK, At, world, ghosts
<1>1. /\ UNCHANGED <<dd, tmp, data, dev, ro, writes, faults>>
      /\ op.pc = "mg_unlinkold"
      /\ link' \subseteq link
      /\ op' = [op EXCEPT !.pc = "mg_rename"]
  BY DEF MergeUnlinkOld
<1>2. StorageOK' /\ DevicesOK'
  BY <1>1 DEF StorageOK, DevicesOK
<1>3. op' \in Operation
  BY <1>1, SetOp, Zenon DEF Pcs
<1>4. op'.pc = "mg_rename" /\ op'.ret = op.ret /\ op'.i = op.i
  BY <1>1 DEF Operation
<1>5. Locals(op')
  BY <1>4 DEF Locals
<1>6. ~ FilesInv
  BY <1>1 DEF FilesInv, NoNewDelta
<1> QED
  BY <1>1, <1>2, <1>3, <1>5, <1>6

\* conf.tmp becomes DiskDescriptor.xml: the invariant is preserved.
LEMMA MergeRenameInv == SnapshotInv /\ MergeRename => SnapshotInv'
<1> SUFFICES ASSUME SnapshotInv, MergeRename PROVE SnapshotInv'
  OBVIOUS
<1> USE DEF SnapshotInv, TypeOK, At, world, ghosts
<1>1. /\ UNCHANGED <<link, data, dev, ro, writes, faults>>
      /\ op.pc = "mg_rename"
      /\ dd' = tmp
      /\ tmp' = NoDi
      /\ op' = [op EXCEPT !.pc = "mg_unlink"]
  BY DEF MergeRename
<1>2. StorageOK' /\ DevicesOK'
  BY <1>1, NoOpType DEF StorageOK, DevicesOK
<1>3. op' \in Operation
  BY <1>1, SetOp, Zenon DEF Pcs
<1>4. /\ op'.pc = "mg_unlink" /\ op'.di = op.di /\ op'.del = op.del
      /\ op'.new = op.new /\ op'.ret = op.ret /\ op'.i = op.i
  BY <1>1 DEF Operation
<1>5. Locals(op')
  BY <1>4 DEF Locals
<1>6. ASSUME FilesInv PROVE FilesInv'
  <2>1. /\ op.di = tmp /\ UniqueFiles(tmp) /\ FilesOf(tmp) \subseteq link
        /\ op.del \notin FilesOf(tmp) /\ ~ op.new
    BY <1>1, <1>6 DEF FilesInv, WorkingCopy, ListedFiles, NoNewDelta, MergePcs
  <2>2. NoNewDelta' /\ WorkingCopy' /\ ListedFiles'
    BY <1>1, <1>4, <2>1 DEF NoNewDelta, WorkingCopy, ListedFiles,
           ReadPcs, UnlinkPcs, NewDeltaPcs, MergePcs
  <2> QED
    BY <1>1, <2>1, <2>2 DEF FilesInv, FilesExist
<1> QED
  BY <1>1, <1>2, <1>3, <1>5, <1>6

\* The child's delta is removed, which no descriptor names any more: the
\* invariant is preserved.
LEMMA MergeUnlinkInv == SnapshotInv /\ MergeUnlink => SnapshotInv'
<1> SUFFICES ASSUME SnapshotInv, MergeUnlink PROVE SnapshotInv'
  OBVIOUS
<1> USE DEF SnapshotInv, TypeOK, At, files, world, ghosts
<1> DEFINE ok == ~ op.err
<1>1. /\ UNCHANGED <<dd, tmp, data, dev, ro, writes, faults>>
      /\ op.pc = "mg_unlink"
      /\ link' = link \ {op.del}
      /\ op' = Return(op, ok)
  BY DEF MergeUnlink
<1>2. StorageOK' /\ DevicesOK'
  BY <1>1 DEF StorageOK, DevicesOK
<1>3. ok \in BOOLEAN
  OBVIOUS
<1> HIDE DEF ok
<1>4. op' \in Operation /\ Locals(op')
  BY <1>1, <1>3, ReturnIs
<1>5. ASSUME FilesInv PROVE FilesInv'
  <2>1. op.di = dd /\ op.del \notin FilesOf(dd) /\ UniqueFiles(dd)
    BY <1>1, <1>5 DEF FilesInv, WorkingCopy, ListedFiles, UnlinkPcs
  <2>2. FilesExist' /\ UniqueFiles(dd)'
    BY <1>1, <1>5, <2>1 DEF FilesInv, FilesExist
  <2> QED
    BY <1>1, <1>3, <1>5, <2>1, <2>2, ReturnedFiles
<1> QED
  BY <1>1, <1>2, <1>4, <1>5

\* do_create_snapshot stores to conf.tmp the descriptor with the new delta,
\* whose file does not exist yet: the invariant is preserved.
LEMMA CreateStoreInv == SnapshotInv /\ CreateStore => SnapshotInv'
<1> SUFFICES ASSUME SnapshotInv, CreateStore PROVE SnapshotInv'
  OBVIOUS
<1> USE DEF SnapshotInv, TypeOK, At, world, ghosts
<1> DEFINE named == ChangeGuid(op.di, op.di.top, op.guid)
           flagged == IF op.cmd = "tsnap" THEN SetTemporary(named, op.guid)
                                          ELSE named
           added == AddImage(flagged, NewFile, TopDelta, op.guid)
<1>1. /\ UNCHANGED <<dd, link, data, dev, ro, writes, faults>>
      /\ op.pc = "cr"
      /\ tmp' = added
      /\ op' = [op EXCEPT !.pc = "cr_delta", !.di = added, !.file = NewFile]
  BY DEF CreateStore
<1>2. NewFile \in File /\ NewFile \notin link /\ NewFile \notin FilesOf(dd)
  BY NewFileIs DEF CreateStore, Taken
<1>3. op.di \in Descriptor /\ op.guid \in AnyGuid /\ TopDelta \in AnyGuid
  BY DEF Operation, AnyGuid
<1>4. named \in Descriptor /\ SameFiles(named, op.di)
  BY <1>3, ChangeGuidType, ChangeGuidFiles
<1> HIDE DEF named
<1>5. flagged \in Descriptor /\ SameFiles(flagged, named)
  <2>1. SameFiles(named, named)
    BY DEF SameFiles
  <2> QED
    BY <1>4, <2>1, SetTemporaryType, SetTemporaryFiles
<1> HIDE DEF flagged
<1>6. added \in Descriptor
  BY <1>2, <1>3, <1>5, AddImageType
<1>7. FilesOf(added) = FilesOf(op.di) \cup {NewFile}
  BY <1>4, <1>5, SameFilesFacts, AddImageFiles
<1>8. UniqueFiles(op.di) /\ NewFile \notin FilesOf(op.di) => UniqueFiles(added)
  BY <1>4, <1>5, SameFilesFacts, AddImageFiles
<1> HIDE DEF added
<1>9. StorageOK' /\ DevicesOK'
  BY <1>1, <1>6 DEF StorageOK, DevicesOK
<1>10. op' \in Operation
  BY <1>1, <1>2, <1>6, SetOp, Zenon DEF Pcs
<1>11. /\ op'.pc = "cr_delta" /\ op'.di = added /\ op'.file = NewFile
       /\ op'.new = op.new /\ op'.ret = op.ret /\ op'.i = op.i
  BY <1>1 DEF Operation
<1>12. Locals(op')
  <2>1. op.ret # "mtmp" \/ op.i > 0
    BY DEF Locals
  <2> QED
    BY <1>2, <1>11, <2>1 DEF Locals
<1>13. ASSUME FilesInv PROVE FilesInv'
  <2>1. op.di = dd /\ UniqueFiles(dd) /\ FilesOf(dd) \subseteq link /\ ~ op.new
    BY <1>1, <1>13 DEF FilesInv, WorkingCopy, ReadPcs, FilesExist, NoNewDelta
  <2>2. UniqueFiles(added) /\ FilesOf(added) \subseteq link \cup {NewFile}
    BY <1>2, <1>7, <1>8, <2>1
  <2>3. NoNewDelta' /\ WorkingCopy' /\ ListedFiles'
    BY <1>1, <1>2, <1>11, <2>1, <2>2 DEF NoNewDelta, WorkingCopy, ListedFiles,
           ReadPcs, UnlinkPcs, NewDeltaPcs, MergePcs
  <2> QED
    BY <1>1, <2>1, <2>3 DEF FilesInv, FilesExist
<1> QED
  BY <1>1, <1>9, <1>10, <1>12, <1>13

\* create_snapshot_delta makes the file conf.tmp lists: the invariant is
\* preserved.
LEMMA CreateDeltaInv == SnapshotInv /\ CreateDelta => SnapshotInv'
<1> SUFFICES ASSUME SnapshotInv, CreateDelta PROVE SnapshotInv'
  OBVIOUS
<1> USE DEF SnapshotInv, TypeOK, At, world, ghosts
<1> DEFINE v == IF op.online THEN "cr_ioctl" ELSE "cr_rename"
<1>1. /\ UNCHANGED <<dd, tmp, dev, ro, writes, faults>>
      /\ op.pc = "cr_delta"
      /\ link' = link \cup {op.file}
      /\ data' = [data EXCEPT ![op.file] = EmptyDelta]
      /\ op' = [op EXCEPT !.pc = v]
  BY DEF CreateDelta
<1>2. op.file \in File
  BY <1>1 DEF Locals
<1>3. StorageOK'
  BY <1>1, <1>2 DEF StorageOK, EmptyDelta, Delta
<1>4. DevicesOK'
  BY <1>1 DEF DevicesOK
<1>5. v \in {"cr_ioctl", "cr_rename"}
  OBVIOUS
<1> HIDE DEF v
<1>6. op' \in Operation
  BY <1>1, <1>5, SetOp, Zenon DEF Pcs
<1>7. /\ op'.pc = v /\ op'.di = op.di /\ op'.file = op.file /\ op'.del = op.del
      /\ op'.new = op.new /\ op'.ret = op.ret /\ op'.i = op.i
  BY <1>1 DEF Operation
<1>8. Locals(op')
  BY <1>2, <1>5, <1>7 DEF Locals
<1>9. ASSUME FilesInv PROVE FilesInv'
  BY <1>1, <1>5, <1>7, <1>9 DEF FilesInv, FilesExist, NoNewDelta, WorkingCopy,
         ListedFiles, ReadPcs, UnlinkPcs, NewDeltaPcs, MergePcs
<1> QED
  BY <1>1, <1>3, <1>4, <1>6, <1>8, <1>9

\* The device takes the new delta on top: the invariant is preserved.
LEMMA CreateIoctlInv == SnapshotInv /\ CreateIoctl => SnapshotInv'
<1> SUFFICES ASSUME SnapshotInv, CreateIoctl PROVE SnapshotInv'
  OBVIOUS
<1> USE DEF SnapshotInv, TypeOK, At, world, files
<1>1. /\ UNCHANGED <<dd, tmp, link, data, ro, writes, faults>>
      /\ op.pc = "cr_ioctl"
      /\ dev' = [dev EXCEPT !.stack = Append(@, op.file)]
      /\ op' = [op EXCEPT !.pc = "cr_rename"]
  BY DEF CreateIoctl
<1>2. op.file \in File
  BY <1>1 DEF Locals
<1>3. StorageOK'
  BY <1>1 DEF StorageOK
<1>4. DevicesOK'
  <2>1. dev.stack \in Seq(File) /\ dev.mntn \in {"off", "merge"}
    BY DEF DevicesOK, Device, Stack
  <2>2. Append(dev.stack, op.file) \in Seq(File)
    BY <1>2, <2>1
  <2>3. dev' \in Device
    BY <1>1, <2>1, <2>2 DEF DevicesOK, Device, Stack
  <2> QED
    BY <1>1, <2>3 DEF DevicesOK
<1>5. op' \in Operation
  BY <1>1, SetOp, Zenon DEF Pcs
<1>6. /\ op'.pc = "cr_rename" /\ op'.di = op.di /\ op'.file = op.file
      /\ op'.del = op.del /\ op'.new = op.new /\ op'.ret = op.ret /\ op'.i = op.i
  BY <1>1 DEF Operation
<1>7. Locals(op')
  BY <1>6 DEF Locals
<1>8. ASSUME FilesInv PROVE FilesInv'
  BY <1>1, <1>6, <1>8 DEF FilesInv, FilesExist, NoNewDelta, WorkingCopy,
         ListedFiles, ReadPcs, UnlinkPcs, NewDeltaPcs, MergePcs
<1> QED
  BY <1>1, <1>3, <1>4, <1>5, <1>7, <1>8

\* conf.tmp, all of whose files exist by now, becomes DiskDescriptor.xml: the
\* invariant is preserved.
LEMMA CreateRenameInv == SnapshotInv /\ CreateRename => SnapshotInv'
<1> SUFFICES ASSUME SnapshotInv, CreateRename PROVE SnapshotInv'
  OBVIOUS
<1> USE DEF SnapshotInv, TypeOK, At, world
<1>1. /\ UNCHANGED <<link, data, dev, ro, writes, faults>>
      /\ op.pc = "cr_rename"
      /\ dd' = tmp
      /\ tmp' = NoDi
      /\ op' = NoOp \/ op' = [op EXCEPT !.pc = "ts_mount"]
  BY DEF CreateRename
<1>2. StorageOK' /\ DevicesOK'
  BY <1>1, NoOpType DEF StorageOK, DevicesOK
<1>3. op' \in Operation
  BY <1>1, Ended, SetOp, Zenon DEF Pcs
<1>4. \/ op' = NoOp
      \/ /\ op'.pc = "ts_mount" /\ op'.di = op.di /\ op'.del = op.del
         /\ op'.new = op.new /\ op'.ret = op.ret /\ op'.i = op.i
  BY <1>1 DEF Operation
<1>5. Locals(op')
  BY <1>4, Ended DEF Locals
<1>6. ASSUME FilesInv PROVE FilesInv'
  <2>1. /\ op.di = tmp /\ UniqueFiles(tmp) /\ FilesOf(tmp) \subseteq link /\ ~ op.new
    BY <1>1, <1>6 DEF FilesInv, WorkingCopy, ListedFiles, NoNewDelta, NewDeltaPcs
  <2>2. NoNewDelta' /\ WorkingCopy' /\ ListedFiles'
    <3>1. CASE op' = NoOp
      <4>1. op'.pc = "idle" /\ ~ op'.new
        BY <3>1 DEF NoOp
      <4> QED
        BY <4>1 DEF NoNewDelta, WorkingCopy, ListedFiles, ReadPcs, UnlinkPcs,
               NewDeltaPcs, MergePcs
    <3>2. CASE op' # NoOp
      BY <1>1, <1>4, <1>6, <2>1, <3>2 DEF FilesInv, NoNewDelta, WorkingCopy,
             ListedFiles, ReadPcs, UnlinkPcs, NewDeltaPcs, MergePcs
    <3> QED
      BY <3>1, <3>2
  <2> QED
    BY <1>1, <2>1, <2>2 DEF FilesInv, FilesExist
<1> QED
  BY <1>1, <1>2, <1>3, <1>5, <1>6

\* A read-only device is started over the snapshot: the invariant is
\* preserved.
LEMMA TempMountInv == ASSUME NEW kind \in {"mark", "held"}
                      PROVE  SnapshotInv /\ TempMount(kind) => SnapshotInv'
<1> SUFFICES ASSUME SnapshotInv, TempMount(kind) PROVE SnapshotInv'
  OBVIOUS
<1> USE DEF SnapshotInv, TypeOK, files, world, ghosts
<1> DEFINE s == ImagesList(op.di, op.guid)
           r == [stack |-> s, kind |-> kind, val |-> View(data, s)]
<1>1. /\ UNCHANGED <<dd, tmp, link, data, dev, writes, faults>>
      /\ InStack(s) \subseteq link
      /\ ro' = ro \cup {r}
      /\ op' = NoOp
  BY DEF TempMount
<1>2. StorageOK' /\ link \subseteq File
  BY <1>1 DEF StorageOK
<1>3. s \in Stack
  <2>1. op.di \in Descriptor
    BY DEF Operation
  <2>2. {s[i] : i \in DOMAIN s} \subseteq File
    BY <1>1, <1>2 DEF InStack
  <2> QED
    BY <2>1, <2>2, ImagesListSeq DEF Stack
<1> HIDE DEF s
<1>4. r.stack \in Stack /\ r.kind \in {"mark", "held", "mounted"}
  BY <1>3
<1> HIDE DEF r
<1>5. DevicesOK'
  BY <1>1, <1>4 DEF DevicesOK
<1>6. ASSUME FilesInv PROVE FilesInv'
  BY <1>1, <1>6, EndedFiles DEF FilesInv, FilesExist
<1> QED
  BY <1>1, <1>2, <1>5, <1>6, Ended

\* ploop_switch_snapshot_ex makes the new top delta: the invariant is
\* preserved.
LEMMA SwitchDeltaInv == SnapshotInv /\ SwitchDelta => SnapshotInv'
<1> SUFFICES ASSUME SnapshotInv, SwitchDelta PROVE SnapshotInv'
  OBVIOUS
<1> USE DEF SnapshotInv, TypeOK, At, world, ghosts
<1> DEFINE v == "sw_rename"
<1>1. /\ UNCHANGED <<dd, tmp, dev, ro, writes, faults>>
      /\ op.pc = "sw_delta"
      /\ link' = link \cup {op.file}
      /\ data' = [data EXCEPT ![op.file] = EmptyDelta]
      /\ op' = [op EXCEPT !.pc = v]
  BY DEF SwitchDelta
<1>2. op.file \in File
  BY <1>1 DEF Locals
<1>3. StorageOK'
  BY <1>1, <1>2 DEF StorageOK, EmptyDelta, Delta
<1>4. DevicesOK'
  BY <1>1 DEF DevicesOK
<1>5. v \in {"sw_rename"}
  OBVIOUS
<1> HIDE DEF v
<1>6. op' \in Operation
  BY <1>1, <1>5, SetOp, Zenon DEF Pcs
<1>7. /\ op'.pc = v /\ op'.di = op.di /\ op'.file = op.file /\ op'.del = op.del
      /\ op'.new = op.new /\ op'.ret = op.ret /\ op'.i = op.i
  BY <1>1 DEF Operation
<1>8. Locals(op')
  BY <1>2, <1>5, <1>7 DEF Locals
<1>9. ASSUME FilesInv PROVE FilesInv'
  BY <1>1, <1>5, <1>7, <1>9 DEF FilesInv, FilesExist, NoNewDelta, WorkingCopy,
         ListedFiles, ReadPcs, UnlinkPcs, NewDeltaPcs, MergePcs
<1> QED
  BY <1>1, <1>3, <1>4, <1>6, <1>8, <1>9

\* The descriptor with the other top delta is stored: the invariant is
\* preserved.
LEMMA SwitchRenameInv == SnapshotInv /\ SwitchRename => SnapshotInv'
<1> SUFFICES ASSUME SnapshotInv, SwitchRename PROVE SnapshotInv'
  OBVIOUS
<1> USE DEF SnapshotInv, TypeOK, At, world
<1>1. /\ UNCHANGED <<link, data, dev, ro, writes, faults>>
      /\ op.pc = "sw_rename"
      /\ dd' = tmp
      /\ tmp' = NoDi
      /\ op' = NoOp \/ op' = [op EXCEPT !.pc = "sw_unlink"]
  BY DEF SwitchRename
<1>2. StorageOK' /\ DevicesOK'
  BY <1>1, NoOpType DEF StorageOK, DevicesOK
<1>3. op' \in Operation
  BY <1>1, Ended, SetOp, Zenon DEF Pcs
<1>4. \/ op' = NoOp
      \/ /\ op'.pc = "sw_unlink" /\ op'.di = op.di /\ op'.del = op.del
         /\ op'.new = op.new /\ op'.ret = op.ret /\ op'.i = op.i
  BY <1>1 DEF Operation
<1>5. Locals(op')
  BY <1>4, Ended DEF Locals
<1>6. ASSUME FilesInv PROVE FilesInv'
  <2>1. /\ op.di = tmp /\ UniqueFiles(tmp) /\ FilesOf(tmp) \subseteq link /\ ~ op.new
    BY <1>1, <1>6 DEF FilesInv, WorkingCopy, ListedFiles, NoNewDelta, NewDeltaPcs
  <2>2. NoNewDelta' /\ WorkingCopy' /\ ListedFiles'
    <3>1. CASE op' = NoOp
      <4>1. op'.pc = "idle" /\ ~ op'.new
        BY <3>1 DEF NoOp
      <4> QED
        BY <4>1 DEF NoNewDelta, WorkingCopy, ListedFiles, ReadPcs, UnlinkPcs,
               NewDeltaPcs, MergePcs
    <3>2. CASE op' # NoOp
      BY <1>1, <1>4, <1>6, <2>1, <3>2 DEF FilesInv, NoNewDelta, WorkingCopy,
             ListedFiles, ReadPcs, UnlinkPcs, NewDeltaPcs, MergePcs
    <3> QED
      BY <3>1, <3>2
  <2> QED
    BY <1>1, <2>1, <2>2 DEF FilesInv, FilesExist
<1> QED
  BY <1>1, <1>2, <1>3, <1>5, <1>6

\* The old top delta is removed, which no descriptor names: the invariant is
\* preserved.
LEMMA SwitchUnlinkInv == SnapshotInv /\ SwitchUnlink => SnapshotInv'
<1> SUFFICES ASSUME SnapshotInv, SwitchUnlink PROVE SnapshotInv'
  OBVIOUS
<1> USE DEF SnapshotInv, TypeOK, At, world, ghosts
<1>1. /\ UNCHANGED <<dd, tmp, data, dev, ro, writes, faults>>
      /\ op.pc = "sw_unlink"
      /\ link' = link \ {op.del}
      /\ op' = NoOp
  BY DEF SwitchUnlink
<1>2. StorageOK' /\ DevicesOK'
  BY <1>1 DEF StorageOK, DevicesOK
<1>3. ASSUME FilesInv PROVE FilesInv'
  <2>1. op.del \notin FilesOf(dd) /\ FilesOf(dd) \subseteq link
    BY <1>1, <1>3 DEF FilesInv, FilesExist, WorkingCopy, ListedFiles, UnlinkPcs
  <2> QED
    BY <1>1, <1>3, <2>1, EndedFiles
<1> QED
  BY <1>1, <1>2, <1>3, Ended

\* The device is stopped at the end of ploop_umount_image: the invariant is
\* preserved.
LEMMA UmountStopInv == SnapshotInv /\ UmountStop => SnapshotInv'
<1> SUFFICES ASSUME SnapshotInv, UmountStop PROVE SnapshotInv'
  OBVIOUS
<1> USE DEF SnapshotInv, TypeOK, world, files, ghosts
<1>1. /\ UNCHANGED <<dd, tmp, link, data, ro, writes, faults>>
      /\ dev' = NoDev
      /\ op' = NoOp
  BY DEF UmountStop
<1>2. StorageOK' /\ DevicesOK'
  BY <1>1 DEF StorageOK, DevicesOK, NoDev, Device, Stack
<1>3. ASSUME FilesInv PROVE FilesInv'
  BY <1>1, <1>3, EndedFiles DEF FilesInv, FilesExist
<1> QED
  BY <1>1, <1>2, <1>3, Ended

-----------------------------------------------------------------------------
(* Calls, the guest, the holders and the faults.                           *)

\* ploop_create_snapshot and ploop_create_temporary_snapshot begin: the
\* invariant is preserved.
LEMMA CreateSnapshotInv ==
  ASSUME NEW cmd \in {"create", "create_offline", "tsnap"}, NEW g \in Guid
  PROVE  SnapshotInv /\ CreateSnapshot(cmd, g) => SnapshotInv'
<1> SUFFICES ASSUME SnapshotInv, CreateSnapshot(cmd, g) PROVE SnapshotInv'
  OBVIOUS
<1> USE DEF SnapshotInv, TypeOK, files, world, ghosts
<1> DEFINE online == Running /\ cmd # "create_offline"
           v == IF online THEN "complete" ELSE "mtmp"
           r == IF online THEN "mtmp" ELSE "none"
<1>1. /\ UNCHANGED <<dd, tmp, link, data, dev, ro, writes, faults>>
      /\ op' = [NoOp EXCEPT !.cmd = cmd, !.di = dd, !.guid = g, !.i = 1,
                            !.online = online, !.pc = v, !.ret = r]
  BY DEF CreateSnapshot
<1>2. StorageOK' /\ DevicesOK' /\ dd \in Descriptor
  BY <1>1 DEF StorageOK, DevicesOK
<1> HIDE DEF online
<1>b. online \in BOOLEAN
  BY Zenon DEF online
<1>v. v \in Pcs /\ r \in Rets
  BY DEF Pcs, Rets
<1>w. (v = "complete" /\ r = "mtmp") \/ (v = "mtmp" /\ r = "none")
  <2>1. CASE online
    BY <2>1
  <2>2. CASE ~ online
    BY <2>2
  <2> QED
    BY <2>1, <2>2
<1>g. 1 \in Nat /\ g \in AnyGuid
  BY DEF AnyGuid
<1>3. /\ v \in Pcs /\ r \in Rets /\ 1 \in Nat /\ g \in AnyGuid
      /\ online \in BOOLEAN
      /\ (v = "complete" /\ r = "mtmp") \/ (v = "mtmp" /\ r = "none")
  BY <1>b, <1>v, <1>w, <1>g, Zenon
<1> HIDE DEF online, v, r
<1>4. op' \in Operation
  <2>1. cmd \in Commands
    BY DEF Commands
  <2> QED
    BY <1>1, <1>2, <1>3, <2>1, NoOpType, SetOp, Zenon
<1>5. op'.pc = v /\ op'.ret = r /\ op'.i = 1 /\ op'.di = dd /\ ~ op'.new
  BY <1>1 DEF NoOp
<1>6. Locals(op')
  BY <1>3, <1>5 DEF Locals
<1>7. ASSUME FilesInv PROVE FilesInv'
  BY <1>1, <1>3, <1>5, <1>7, ReadingFiles DEF FilesInv, FilesExist, ReadPcs
<1> QED
  BY <1>1, <1>2, <1>4, <1>6, <1>7

\* ploop_delete_snapshot begins: the invariant is preserved.
LEMMA DeleteSnapshotInv == ASSUME NEW g \in AnyGuid
                           PROVE  SnapshotInv /\ DeleteSnapshot(g) => SnapshotInv'
<1> SUFFICES ASSUME SnapshotInv, DeleteSnapshot(g) PROVE SnapshotInv'
  OBVIOUS
<1> USE DEF SnapshotInv, TypeOK, files, world, ghosts
<1>1. /\ UNCHANGED <<dd, tmp, link, data, dev, ro, writes, faults>>
      /\ op' = [NoOp EXCEPT !.cmd = "delete", !.pc = "del", !.di = dd, !.victim = g]
  BY DEF DeleteSnapshot
<1>2. StorageOK' /\ dd \in Descriptor
  BY <1>1 DEF StorageOK
<1>3. DevicesOK'
  BY <1>1 DEF DevicesOK
<1>4. g \in AnyGuid
  OBVIOUS
<1>5. op' \in Operation
  BY <1>1, <1>2, <1>4, NoOpType, SetOp, Zenon DEF Pcs, Rets, Commands
<1>6. op'.pc = "del" /\ op'.ret = "none" /\ op'.di = dd /\ ~ op'.new
  BY <1>1, <1>4 DEF NoOp
<1>7. Locals(op')
  BY <1>6 DEF Locals
<1>8. ASSUME FilesInv, "merge_new" \notin Ops PROVE FilesInv'
  BY <1>1, <1>6, <1>8, ReadingFiles DEF FilesInv, FilesExist, ReadPcs
<1> QED
  BY <1>1, <1>2, <1>3, <1>5, <1>7, <1>8

\* ploop_merge_snapshot begins; the new delta is asked for by merge_new
\* only: the invariant is preserved.
LEMMA MergeSnapshotInv ==
  ASSUME NEW cmd \in {"merge", "merge_new", "merge_all"}, NEW g \in AnyGuid
  PROVE  SnapshotInv /\ MergeSnapshot(cmd, g) => SnapshotInv'
<1> SUFFICES ASSUME SnapshotInv, MergeSnapshot(cmd, g) PROVE SnapshotInv'
  OBVIOUS
<1> USE DEF SnapshotInv, TypeOK, files, world, ghosts
<1> DEFINE new == (cmd = "merge_new")
<1>1. /\ UNCHANGED <<dd, tmp, link, data, dev, ro, writes, faults>>
      /\ op' = [NoOp EXCEPT !.cmd = cmd, !.pc = "mg", !.di = dd, !.child = g,
                            !.new = new]
      /\ cmd \in Ops
  BY DEF MergeSnapshot, Locked
<1>2. StorageOK' /\ DevicesOK' /\ dd \in Descriptor
  BY <1>1 DEF StorageOK, DevicesOK
<1>3. new \in BOOLEAN /\ (new => "merge_new" \in Ops)
  BY <1>1
<1> HIDE DEF new
<1>4. op' \in Operation
  <2>1. cmd \in Commands
    BY DEF Commands
  <2> QED
    BY <1>1, <1>2, <1>3, <2>1, NoOpType, SetOp, Zenon DEF Pcs
<1>5. op'.pc = "mg" /\ op'.ret = "none" /\ op'.di = dd /\ op'.new = new
  BY <1>1 DEF NoOp
<1>6. Locals(op')
  BY <1>5 DEF Locals
<1>7. ASSUME FilesInv, "merge_new" \notin Ops PROVE FilesInv'
  BY <1>1, <1>3, <1>5, <1>7, ReadingFiles DEF FilesInv, FilesExist, ReadPcs
<1> QED
  BY <1>1, <1>2, <1>4, <1>6, <1>7

\* ploop_mount_image starts the device: the invariant is preserved.
LEMMA MountInv == SnapshotInv /\ Mount => SnapshotInv'
<1> SUFFICES ASSUME SnapshotInv, Mount PROVE SnapshotInv'
  OBVIOUS
<1> USE DEF SnapshotInv, TypeOK, files, world, ghosts
<1>1. /\ UNCHANGED <<dd, tmp, link, data, ro, writes, faults>>
      /\ op' = [NoOp EXCEPT !.cmd = "mount", !.pc = "mtmp", !.di = dd, !.i = 1]
  BY DEF Mount
<1>2. StorageOK' /\ dd \in Descriptor
  BY <1>1 DEF StorageOK
<1>3. DevicesOK'
  <2> DEFINE s == ImagesList(dd, dd.top)
  <2>1. InStack(s) \subseteq link /\ dev' = [stack |-> s, mntn |-> "off"]
    BY DEF Mount
  <2>2. {s[i] : i \in DOMAIN s} \subseteq File
    BY <2>1 DEF InStack, StorageOK
  <2>3. s \in Seq(File)
    BY <1>2, <2>2, ImagesListSeq
  <2> HIDE DEF s
  <2>4. dev' \in Device
    BY <2>1, <2>3 DEF Device, Stack
  <2> QED
    BY <1>1, <2>4 DEF DevicesOK
<1>4. 1 \in Nat
  OBVIOUS
<1>5. op' \in Operation
  BY <1>1, <1>2, <1>4, NoOpType, SetOp, Zenon DEF Pcs, Rets, Commands
<1>6. /\ op'.pc = "mtmp" /\ op'.ret = "none" /\ op'.di = dd /\ ~ op'.new
      /\ op'.i = 1
  BY <1>1, <1>4 DEF NoOp
<1>7. Locals(op')
  BY <1>6 DEF Locals
<1>8. ASSUME FilesInv, "merge_new" \notin Ops PROVE FilesInv'
  BY <1>1, <1>6, <1>8, ReadingFiles DEF FilesInv, FilesExist, ReadPcs
<1> QED
  BY <1>1, <1>2, <1>3, <1>5, <1>7, <1>8

\* ploop_umount_image begins: the invariant is preserved.
LEMMA UmountInv == SnapshotInv /\ Umount => SnapshotInv'
<1> SUFFICES ASSUME SnapshotInv, Umount PROVE SnapshotInv'
  OBVIOUS
<1> USE DEF SnapshotInv, TypeOK, files, world, ghosts
<1>1. /\ UNCHANGED <<dd, tmp, link, data, dev, ro, writes, faults>>
      /\ op' = [NoOp EXCEPT !.cmd = "umount", !.pc = "complete", !.di = dd, !.ret = "um_stop"]
  BY DEF Umount
<1>2. StorageOK' /\ dd \in Descriptor
  BY <1>1 DEF StorageOK
<1>3. DevicesOK'
  BY <1>1 DEF DevicesOK
<1>4. "um_stop" \in Rets
  BY DEF Rets
<1>5. op' \in Operation
  BY <1>1, <1>2, <1>4, NoOpType, SetOp, Zenon DEF Pcs, Rets, Commands
<1>6. op'.pc = "complete" /\ op'.ret = "um_stop" /\ op'.di = dd /\ ~ op'.new
  BY <1>1, <1>4 DEF NoOp
<1>7. Locals(op')
  BY <1>6 DEF Locals
<1>8. ASSUME FilesInv, "merge_new" \notin Ops PROVE FilesInv'
  BY <1>1, <1>6, <1>8, ReadingFiles DEF FilesInv, FilesExist, ReadPcs
<1> QED
  BY <1>1, <1>2, <1>3, <1>5, <1>7, <1>8

\* A read-only device is started under a component name: the invariant is
\* preserved.
LEMMA MountRoInv == ASSUME NEW g \in Guid
                    PROVE  SnapshotInv /\ MountRo(g) => SnapshotInv'
<1> SUFFICES ASSUME SnapshotInv, MountRo(g) PROVE SnapshotInv'
  OBVIOUS
<1> USE DEF SnapshotInv, TypeOK, files, world, ghosts
<1> DEFINE s == ImagesList(dd, g)
           r == [stack |-> s, kind |-> "mounted", val |-> View(data, s)]
<1>1. /\ UNCHANGED <<dd, tmp, link, data, dev, op, writes, faults>>
      /\ InStack(s) \subseteq link
      /\ ro' = ro \cup {r}
  BY DEF MountRo
<1>2. StorageOK' /\ link \subseteq File /\ dd \in Descriptor
  BY <1>1 DEF StorageOK
<1>3. s \in Stack
  <2>1. {s[i] : i \in DOMAIN s} \subseteq File
    BY <1>1, <1>2 DEF InStack
  <2> QED
    BY <1>2, <2>1, ImagesListSeq DEF Stack
<1> HIDE DEF s
<1>4. r.stack \in Stack /\ r.kind \in {"mark", "held", "mounted"}
  BY <1>3
<1> HIDE DEF r
<1>5. DevicesOK'
  BY <1>1, <1>4 DEF DevicesOK
<1>6. ASSUME FilesInv PROVE FilesInv'
  BY <1>1, <1>6, KeepingFiles
<1> QED
  BY <1>1, <1>2, <1>5, <1>6

\* What ploop_switch_snapshot_ex stores: a descriptor over the files that
\* were there and the new delta, without the file that is to be removed.
LEMMA SwitchedIs ==
  ASSUME NEW cmd \in {"switch", "switch_keep", "switch_dup", "reset"},
         NEW g \in Guid, NEW old \in AnyGuid, dd \in Descriptor,
         Has(dd, dd.top), cmd # "reset" => NameLeft
  PROVE  /\ Switched(cmd, g, old) \in Descriptor
         /\ UniqueFiles(dd) =>
              /\ UniqueFiles(Switched(cmd, g, old))
              /\ FilesOf(Switched(cmd, g, old))
                    = (IF cmd \in {"switch", "reset"}
                       THEN FilesOf(dd) \ {FileOf(dd, dd.top)} ELSE FilesOf(dd))
                      \cup (IF cmd = "reset" THEN {} ELSE {NewFile})
              /\ cmd \in {"switch", "reset"} =>
                    FileOf(dd, dd.top) \notin FilesOf(Switched(cmd, g, old))
<1> DEFINE cut == RemoveImage(dd, dd.top, FALSE)
           kept == ChangeGuid(dd, dd.top, old)
<1>1. g \in AnyGuid /\ TopDelta \in AnyGuid
  BY DEF AnyGuid
<1>2. cmd # "reset" => NewFile \in File /\ NewFile \notin FilesOf(dd)
  BY NewFileIs DEF Taken
<1>3. /\ cut \in Descriptor
      /\ UniqueFiles(dd) => /\ FilesOf(cut) = FilesOf(dd) \ {FileOf(dd, dd.top)}
                            /\ UniqueFiles(cut)
  BY RemoveImageType, RemoveImageFiles
<1>4. kept \in Descriptor /\ SameFiles(kept, dd)
  BY ChangeGuidType, ChangeGuidFiles
<1>5. FileOf(dd, dd.top) \in FilesOf(dd)
  BY LookupType
<1> HIDE DEF cut, kept
<1>6. CASE cmd = "switch"
  <2>1. Switched(cmd, g, old) = AddImage(cut, NewFile, TopDelta, g)
    BY <1>6 DEF Switched, cut
  <2>2. AddImage(cut, NewFile, TopDelta, g) \in Descriptor
    BY <1>1, <1>2, <1>3, <1>6, AddImageType
  <2>3. /\ FilesOf(AddImage(cut, NewFile, TopDelta, g)) = FilesOf(cut) \cup {NewFile}
        /\ UniqueFiles(cut) /\ NewFile \notin FilesOf(cut)
              => UniqueFiles(AddImage(cut, NewFile, TopDelta, g))
    BY <1>3, AddImageFiles
  <2> QED
    BY <1>2, <1>3, <1>5, <1>6, <2>1, <2>2, <2>3
<1>7. CASE cmd = "switch_keep"
  <2>1. Switched(cmd, g, old) = AddImage(kept, NewFile, TopDelta, g)
    BY <1>7 DEF Switched, kept
  <2>2. AddImage(kept, NewFile, TopDelta, g) \in Descriptor
    BY <1>1, <1>2, <1>4, <1>7, AddImageType
  <2>3. /\ FilesOf(AddImage(kept, NewFile, TopDelta, g)) = FilesOf(kept) \cup {NewFile}
        /\ UniqueFiles(kept) /\ NewFile \notin FilesOf(kept)
              => UniqueFiles(AddImage(kept, NewFile, TopDelta, g))
    BY <1>4, AddImageFiles
  <2>4. FilesOf(kept) = FilesOf(dd) /\ (UniqueFiles(kept) <=> UniqueFiles(dd))
    BY <1>4, SameFilesFacts
  <2> QED
    BY <1>2, <1>7, <2>1, <2>2, <2>3, <2>4
<1>8. CASE cmd = "switch_dup"
  <2>1. Switched(cmd, g, old) = AddImage(dd, NewFile, TopDelta, g)
    BY <1>8 DEF Switched
  <2>2. AddImage(dd, NewFile, TopDelta, g) \in Descriptor
    BY <1>1, <1>2, <1>8, AddImageType
  <2>3. /\ FilesOf(AddImage(dd, NewFile, TopDelta, g)) = FilesOf(dd) \cup {NewFile}
        /\ UniqueFiles(dd) /\ NewFile \notin FilesOf(dd)
              => UniqueFiles(AddImage(dd, NewFile, TopDelta, g))
    BY AddImageFiles
  <2> QED
    BY <1>2, <1>8, <2>1, <2>2, <2>3
<1>9. CASE cmd = "reset"
  <2>1. Switched(cmd, g, old) = ChangeGuid(cut, g, TopDelta)
    BY <1>9 DEF Switched, cut
  <2>2. ChangeGuid(cut, g, TopDelta) \in Descriptor /\ SameFiles(ChangeGuid(cut, g, TopDelta), cut)
    BY <1>1, <1>3, ChangeGuidType, ChangeGuidFiles
  <2>3. /\ FilesOf(ChangeGuid(cut, g, TopDelta)) = FilesOf(cut)
        /\ UniqueFiles(ChangeGuid(cut, g, TopDelta)) <=> UniqueFiles(cut)
    BY <2>2, SameFilesFacts
  <2> QED
    BY <1>3, <1>9, <2>1, <2>2, <2>3
<1> QED
  BY <1>6, <1>7, <1>8, <1>9

\* ploop_switch_snapshot_ex begins by storing the descriptor to conf.tmp: the
\* invariant is preserved.
LEMMA SwitchSnapshotInv ==
  ASSUME NEW cmd \in {"switch", "switch_keep", "switch_dup", "reset"},
         NEW g \in Guid, NEW old \in AnyGuid
  PROVE  SnapshotInv /\ SwitchSnapshot(cmd, g, old) => SnapshotInv'
<1> SUFFICES ASSUME SnapshotInv, SwitchSnapshot(cmd, g, old) PROVE SnapshotInv'
  OBVIOUS
<1> USE DEF SnapshotInv, TypeOK, world, ghosts
<1> DEFINE sw == Switched(cmd, g, old)
           v == IF cmd = "reset" THEN "sw_rename" ELSE "sw_delta"
           f == IF cmd = "reset" THEN NoFile ELSE NewFile
           del == IF cmd \in {"switch", "reset"} THEN FileOf(dd, dd.top) ELSE NoFile
<1>1. /\ UNCHANGED <<dd, link, data, dev, ro, writes, faults>>
      /\ tmp' = sw
      /\ op' = [NoOp EXCEPT !.cmd = cmd, !.guid = old, !.di = tmp', !.pc = v,
                            !.file = f, !.del = del]
      /\ Has(dd, dd.top)
      /\ cmd # "reset" => NameLeft
  BY DEF SwitchSnapshot, Locked, Valid
<1>2. dd \in Descriptor
  BY DEF StorageOK
<1>3. /\ sw \in Descriptor
      /\ UniqueFiles(dd) =>
           /\ UniqueFiles(sw)
           /\ FilesOf(sw) \subseteq FilesOf(dd) \cup IF cmd = "reset" THEN {} ELSE {NewFile}
           /\ cmd \in {"switch", "reset"} => FileOf(dd, dd.top) \notin FilesOf(sw)
  BY <1>1, <1>2, SwitchedIs
<1>4. /\ v \in {"sw_rename", "sw_delta"}
      /\ v = "sw_rename" <=> cmd = "reset"
      /\ f \in File \cup {NoFile} /\ del \in File \cup {NoFile}
      /\ f = NoFile \/ f = NewFile
      /\ cmd # "reset" => /\ f \in File /\ f = NewFile
                         /\ NewFile \notin FilesOf(dd)
      /\ cmd = "reset" => f = NoFile
  BY <1>1, <1>2, LookupType, NewFileIs DEF Taken
<1>5. \A d \in Descriptor : NoFile \notin FilesOf(d)
  <2> SUFFICES ASSUME NEW d \in Descriptor, NEW i \in DOMAIN d.ent
               PROVE  d.ent[i].file # NoFile
    BY DEF FilesOf
  <2>1. d.ent \in Seq(Entry)
    BY DEF Descriptor
  <2>2. d.ent[i] \in Entry
    BY <2>1
  <2> QED
    BY <2>2, SnapshotAssumption DEF Entry
<1>6. UniqueFiles(dd) => del \notin FilesOf(sw)
  BY <1>3, <1>5
<1> HIDE DEF sw, v, f, del
<1>7. StorageOK' /\ DevicesOK'
  BY <1>1, <1>3 DEF StorageOK, DevicesOK
<1>8. op' \in Operation
  <2> DEFINE o == [NoOp EXCEPT !.cmd = cmd, !.guid = old, !.di = tmp']
  <2>1. cmd \in Commands /\ v \in Pcs
    BY <1>4 DEF Commands, Pcs
  <2>2. o \in Operation
    BY <1>1, <1>3, <2>1, NoOpType, SetOp, Zenon
  <2>3. op' = [o EXCEPT !.pc = v, !.file = f, !.del = del]
    BY <1>1, Zenon
  <2> HIDE DEF o
  <2> QED
    BY <1>4, <2>1, <2>2, <2>3, SetOp, Zenon
<1>9. /\ op'.pc = v /\ op'.di = sw /\ op'.file = f /\ op'.del = del
      /\ ~ op'.new /\ op'.ret = "none"
  BY <1>1 DEF NoOp
<1>10. Locals(op')
  BY <1>4, <1>9 DEF Locals
<1>11. ASSUME FilesInv PROVE FilesInv'
  <2>1. UniqueFiles(dd) /\ FilesOf(dd) \subseteq link
    BY <1>11 DEF FilesInv, FilesExist
  <2>2. /\ v = "sw_delta" => FilesOf(sw) \subseteq link \cup {f}
        /\ v = "sw_rename" => FilesOf(sw) \subseteq link
        /\ f \notin FilesOf(dd)
    BY <1>2, <1>3, <1>4, <1>5, <2>1
  <2>3. NoNewDelta' /\ WorkingCopy' /\ ListedFiles'
    BY <1>1, <1>3, <1>4, <1>6, <1>9, <2>1, <2>2 DEF NoNewDelta, WorkingCopy,
           ListedFiles, ReadPcs, UnlinkPcs, NewDeltaPcs, MergePcs
  <2> QED
    BY <1>1, <2>1, <2>3 DEF FilesInv, FilesExist
<1> QED
  BY <1>1, <1>7, <1>8, <1>10, <1>11

\* The guest writes to the top delta: the invariant is preserved.
LEMMA GuestWriteInv == ASSUME NEW b \in Block
                       PROVE  SnapshotInv /\ GuestWrite(b) => SnapshotInv'
<1> SUFFICES ASSUME SnapshotInv, GuestWrite(b) PROVE SnapshotInv'
  OBVIOUS
<1> USE DEF SnapshotInv, TypeOK
<1> DEFINE f == Top(dev.stack)
<1>1. /\ UNCHANGED <<dd, tmp, link, dev, ro, op, faults>>
      /\ dev.stack # << >>
      /\ writes' = writes + 1
      /\ data' = [data EXCEPT ![f][b] = writes + 1]
  BY DEF GuestWrite, Running
<1>2. f \in File
  BY <1>1 DEF Top, DevicesOK, Device, Stack
<1> HIDE DEF f
<1>3. StorageOK'
  BY <1>1, <1>2 DEF StorageOK, Delta
<1>4. DevicesOK'
  BY <1>1 DEF DevicesOK
<1>5. ASSUME FilesInv PROVE FilesInv'
  BY <1>1, <1>5, KeepingFiles
<1> QED
  BY <1>1, <1>3, <1>4, <1>5

\* The holder of a read-only device goes away: the invariant is preserved.
LEMMA HolderExitInv == SnapshotInv /\ HolderExit => SnapshotInv'
<1> SUFFICES ASSUME SnapshotInv, HolderExit PROVE SnapshotInv'
  OBVIOUS
<1> USE DEF SnapshotInv, TypeOK, files, world, ghosts
<1>1. UNCHANGED <<dd, tmp, link, data, dev, op, writes, faults>>
  BY DEF HolderExit
<1>2. StorageOK'
  BY <1>1 DEF StorageOK
<1>3. DevicesOK'
  <2>1. PICK r \in ro : ro' = (ro \ {r}) \cup {[r EXCEPT !.kind = "mounted"]}
    BY DEF HolderExit
  <2>2. /\ [r EXCEPT !.kind = "mounted"].stack = r.stack
        /\ [r EXCEPT !.kind = "mounted"].kind \in {"mounted", r.kind}
    OBVIOUS
  <2>3. r.stack \in Stack /\ r.kind \in {"mark", "held", "mounted"}
    BY DEF DevicesOK
  <2> DEFINE q == [r EXCEPT !.kind = "mounted"]
  <2> HIDE DEF q
  <2>4. q.stack \in Stack /\ q.kind \in {"mark", "held", "mounted"}
    BY <2>2, <2>3 DEF q
  <2>5. ro' = (ro \ {r}) \cup {q}
    BY <2>1 DEF q
  <2> QED
    BY <1>1, <2>4, <2>5 DEF DevicesOK
<1>4. ASSUME FilesInv PROVE FilesInv'
  BY <1>1, <1>4, KeepingFiles
<1> QED
  BY <1>1, <1>2, <1>3, <1>4

\* A read-only device is unmounted: the invariant is preserved.
LEMMA RoUmountInv == SnapshotInv /\ RoUmount => SnapshotInv'
<1> SUFFICES ASSUME SnapshotInv, RoUmount PROVE SnapshotInv'
  OBVIOUS
<1> USE DEF SnapshotInv, TypeOK, files, world, ghosts
<1>1. UNCHANGED <<dd, tmp, link, data, dev, op, writes, faults>>
  BY DEF RoUmount
<1>2. StorageOK'
  BY <1>1 DEF StorageOK
<1>3. DevicesOK'
  BY <1>1 DEF DevicesOK, RoUmount
<1>4. ASSUME FilesInv PROVE FilesInv'
  BY <1>1, <1>4, KeepingFiles
<1> QED
  BY <1>1, <1>2, <1>3, <1>4

\* Creating the delta or taking it on the device fails; the new file goes,
\* which DiskDescriptor.xml does not name: the invariant is preserved.
LEMMA FailCreateInv == SnapshotInv /\ FailCreate => SnapshotInv'
<1> SUFFICES ASSUME SnapshotInv, FailCreate PROVE SnapshotInv'
  OBVIOUS
<1> USE DEF SnapshotInv, TypeOK, At, files, ghosts
<1>1. /\ UNCHANGED <<dd, data, writes>>
      /\ UNCHANGED <<dev, ro>>
      /\ tmp' = NoDi
      /\ link' = link \/ link' = link \ {op.file}
      /\ op' = NoOp
      /\ faults' = faults + 1
      /\ op.pc \in NewDeltaPcs
  BY DEF FailCreate, Fault, NewDeltaPcs
<1>2. StorageOK' /\ DevicesOK'
  BY <1>1, NoOpType DEF StorageOK, DevicesOK
<1>3. ASSUME FilesInv PROVE FilesInv'
  <2>1. op.file \notin FilesOf(dd) /\ FilesOf(dd) \subseteq link
    BY <1>1, <1>3 DEF FilesInv, FilesExist, ListedFiles, NewDeltaPcs
  <2> QED
    BY <1>1, <1>3, <2>1, EndedFiles
<1> QED
  BY <1>1, <1>2, <1>3, Ended

\* The bitmap cannot be moved, the new file may go: the invariant is
\* preserved.
LEMMA FailCbtInv == SnapshotInv /\ FailCbt => SnapshotInv'
<1> SUFFICES ASSUME SnapshotInv, FailCbt PROVE SnapshotInv'
  OBVIOUS
<1> USE DEF SnapshotInv, TypeOK, At, files, ghosts
<1>1. /\ UNCHANGED <<dd, data, writes>>
      /\ UNCHANGED <<dev, ro>>
      /\ tmp' = NoDi
      /\ link' = link \/ link' = link \ {op.file}
      /\ op' = NoOp
      /\ faults' = faults + 1
      /\ op.pc \in NewDeltaPcs
  BY DEF FailCbt, Fault, NewDeltaPcs
<1>2. StorageOK' /\ DevicesOK'
  BY <1>1, NoOpType DEF StorageOK, DevicesOK
<1>3. ASSUME FilesInv PROVE FilesInv'
  <2>1. op.file \notin FilesOf(dd) /\ FilesOf(dd) \subseteq link
    BY <1>1, <1>3 DEF FilesInv, FilesExist, ListedFiles, NewDeltaPcs
  <2> QED
    BY <1>1, <1>3, <2>1, EndedFiles
<1> QED
  BY <1>1, <1>2, <1>3, Ended

\* conf.tmp cannot be renamed, the new file may go: the invariant is
\* preserved.
LEMMA FailCreateRenameInv == SnapshotInv /\ FailCreateRename => SnapshotInv'
<1> SUFFICES ASSUME SnapshotInv, FailCreateRename PROVE SnapshotInv'
  OBVIOUS
<1> USE DEF SnapshotInv, TypeOK, At, files, ghosts
<1>1. /\ UNCHANGED <<dd, data, writes>>
      /\ UNCHANGED <<dev, ro>>
      /\ tmp' = NoDi
      /\ link' = link \/ link' = link \ {op.file}
      /\ op' = NoOp
      /\ faults' = faults + 1
      /\ op.pc \in NewDeltaPcs
  BY DEF FailCreateRename, Fault, NewDeltaPcs
<1>2. StorageOK' /\ DevicesOK'
  BY <1>1, NoOpType DEF StorageOK, DevicesOK
<1>3. ASSUME FilesInv PROVE FilesInv'
  <2>1. op.file \notin FilesOf(dd) /\ FilesOf(dd) \subseteq link
    BY <1>1, <1>3 DEF FilesInv, FilesExist, ListedFiles, NewDeltaPcs
  <2> QED
    BY <1>1, <1>3, <2>1, EndedFiles
<1> QED
  BY <1>1, <1>2, <1>3, Ended

\* A call fails inside a merge or a deletion; only a delta that a merge made
\* is unlinked: the invariant is preserved.
LEMMA FailMergeInv == SnapshotInv /\ FailMerge => SnapshotInv'
<1> SUFFICES ASSUME SnapshotInv, FailMerge PROVE SnapshotInv'
  OBVIOUS
<1> USE DEF SnapshotInv, TypeOK
<1>1. /\ UNCHANGED <<dd, tmp, data, dev, ro, writes>>
      /\ op' = Return(op, FALSE)
      /\ faults' = faults + 1
  BY DEF FailMerge, Fault
<1>l. link' = link \/ (op.new /\ link' = link \ {op.file})
  <2> DEFINE undo == op.new /\ op.top /\ op.pc \in {"mg_copy", "mg_replace", "mg_ioctl"}
  <2>1. link' = IF undo THEN link \ {op.file} ELSE link
    BY Zenon DEF FailMerge
  <2>2. undo => op.new
    OBVIOUS
  <2> HIDE DEF undo
  <2>3. CASE undo
    BY <2>1, <2>2, <2>3
  <2>4. CASE ~ undo
    BY <2>1, <2>4
  <2> QED
    BY <2>3, <2>4
<1>2. StorageOK' /\ DevicesOK'
  BY <1>1, <1>l DEF StorageOK, DevicesOK
<1>3. op' \in Operation /\ Locals(op')
  BY <1>1, ReturnIs
<1>4. ASSUME FilesInv PROVE FilesInv'
  <2>1. UniqueFiles(dd)' /\ FilesExist'
    BY <1>1, <1>l, <1>4 DEF FilesInv, FilesExist, NoNewDelta
  <2> QED
    BY <1>1, <1>4, <2>1, ReturnedFiles
<1>5. writes' \in Nat /\ faults' \in Nat
  BY <1>1
<1> QED
  BY <1>2, <1>3, <1>4, <1>5

\* unlink fails at the end of an operation: the invariant is preserved.
LEMMA FailUnlinkInv == SnapshotInv /\ FailUnlink => SnapshotInv'
<1> SUFFICES ASSUME SnapshotInv, FailUnlink PROVE SnapshotInv'
  OBVIOUS
<1> USE DEF SnapshotInv, TypeOK, At, files, ghosts
<1> DEFINE more == (op.ret # "none")
           q == [op EXCEPT !.pc = "mg_rename", !.err = TRUE]
<1>1. /\ UNCHANGED <<dd, tmp, link, data, dev, ro, writes>>
      /\ \/ op.pc = "mg_unlinkold" /\ op' = q
         \/ op.pc = "mg_unlink" /\ op' = Return(op, more)
         \/ op' = NoOp
      /\ faults' = faults + 1
  BY DEF FailUnlink, Fault
<1>2. StorageOK' /\ DevicesOK'
  BY <1>1 DEF StorageOK, DevicesOK
<1>3. more \in BOOLEAN
  OBVIOUS
<1> HIDE DEF more
<1>4. CASE op.pc = "mg_unlinkold" /\ op' = q
  <2>1. op' \in Operation
    BY <1>4, SetOp, Zenon DEF Pcs
  <2>2. op'.pc = "mg_rename" /\ op'.ret = op.ret /\ op'.i = op.i
    BY <1>4 DEF Operation
  <2>3. Locals(op')
    BY <2>2 DEF Locals
  <2>4. ~ FilesInv
    BY <1>4 DEF FilesInv, NoNewDelta
  <2> QED
    BY <1>1, <1>2, <2>1, <2>3, <2>4
<1>5. CASE op.pc = "mg_unlink" /\ op' = Return(op, more)
  <2>1. op' \in Operation /\ Locals(op')
    BY <1>3, <1>5, ReturnIs
  <2>2. ASSUME FilesInv PROVE FilesInv'
    <3>1. op.di = dd /\ UniqueFiles(dd)' /\ FilesExist'
      BY <1>1, <1>5, <2>2 DEF FilesInv, FilesExist, WorkingCopy, UnlinkPcs
    <3> QED
      BY <1>1, <1>3, <1>5, <2>2, <3>1, ReturnedFiles
  <2> QED
    BY <1>1, <1>2, <2>1, <2>2
<1>6. CASE op' = NoOp
  <2>1. ASSUME FilesInv PROVE FilesInv'
    BY <1>1, <1>6, <2>1, EndedFiles DEF FilesInv, FilesExist
  <2> QED
    BY <1>1, <1>2, <1>6, <2>1, Ended
<1> QED
  BY <1>1, <1>4, <1>5, <1>6

\* The read-only device of a temporary snapshot does not start, and the top
\* delta is to be merged back: the invariant is preserved.
LEMMA FailTempMountInv == SnapshotInv /\ FailTempMount => SnapshotInv'
<1> SUFFICES ASSUME SnapshotInv, FailTempMount PROVE SnapshotInv'
  OBVIOUS
<1> USE DEF SnapshotInv, TypeOK, At, files, ghosts
<1>1. /\ UNCHANGED <<dd, tmp, link, data, dev, ro, writes>>
      /\ op.pc = "ts_mount"
      /\ op' = [op EXCEPT !.pc = "mg", !.child = op.di.top]
      /\ faults' = faults + 1
  BY DEF FailTempMount, Fault
<1>2. StorageOK' /\ DevicesOK'
  BY <1>1 DEF StorageOK, DevicesOK
<1>3. op.di.top \in AnyGuid
  BY DEF Operation, Descriptor
<1>4. op' \in Operation
  BY <1>1, <1>3, SetOp, Zenon DEF Pcs
<1>5. /\ op'.pc = "mg" /\ op'.di = op.di /\ op'.new = op.new
      /\ op'.ret = op.ret /\ op'.i = op.i
  BY <1>1 DEF Operation
<1>6. Locals(op')
  BY <1>5 DEF Locals
<1>7. ASSUME FilesInv PROVE FilesInv'
  <2>1. op'.di = dd' /\ ~ op'.new
    BY <1>1, <1>5, <1>7 DEF FilesInv, WorkingCopy, ReadPcs, NoNewDelta
  <2> QED
    BY <1>1, <1>5, <1>7, <2>1, ReadingFiles DEF FilesInv, FilesExist, ReadPcs
<1> QED
  BY <1>1, <1>2, <1>4, <1>6, <1>7

\* The process is killed anywhere: the invariant is preserved.
LEMMA KillInv == SnapshotInv /\ Kill => SnapshotInv'
<1> SUFFICES ASSUME SnapshotInv, Kill PROVE SnapshotInv'
  OBVIOUS
<1> USE DEF SnapshotInv, TypeOK, files
<1>1. /\ UNCHANGED <<dd, tmp, link, data, ro, writes>>
      /\ dev' = dev \/ dev' = [dev EXCEPT !.mntn = "merge"]
      /\ op' = NoOp
      /\ faults' = faults + 1
  BY DEF Kill, Fault
<1>2. StorageOK' /\ DevicesOK'
  BY <1>1 DEF StorageOK, DevicesOK, Device
<1>3. ASSUME FilesInv PROVE FilesInv'
  BY <1>1, <1>3, EndedFiles DEF FilesInv, FilesExist
<1> QED
  BY <1>1, <1>2, <1>3, Ended

\* The host loses power anywhere: the invariant is preserved.
LEMMA PowerLossInv == SnapshotInv /\ PowerLoss => SnapshotInv'
<1> SUFFICES ASSUME SnapshotInv, PowerLoss PROVE SnapshotInv'
  OBVIOUS
<1> USE DEF SnapshotInv, TypeOK, At, files, ghosts
<1>1. /\ UNCHANGED <<dd, data, writes>>
      /\ dev' = NoDev /\ ro' = {}
      /\ tmp' = tmp
      /\ link' = link
      /\ op' = NoOp
      /\ faults' = faults + 1
  BY DEF PowerLoss, Fault
<1>2. StorageOK' /\ DevicesOK'
  BY <1>1, NoOpType DEF StorageOK, DevicesOK, NoDev, Device, Stack
<1>3. ASSUME FilesInv PROVE FilesInv'
  BY <1>1, <1>3, EndedFiles DEF FilesInv, FilesExist
<1> QED
  BY <1>1, <1>2, <1>3, Ended

-----------------------------------------------------------------------------
(* The theorems.                                                           *)

\* The initial state, one stopped base image, satisfies the invariant.
LEMMA InitInv == Init => SnapshotInv
<1> SUFFICES ASSUME Init PROVE SnapshotInv
  OBVIOUS
<1> USE DEF Init
<1>1. PICK f \in File :
        /\ dd = [ent |-> <<[guid |-> TopDelta, parent |-> NoneUuid,
                            temp |-> FALSE, file |-> f]>>,
                 top |-> TopDelta]
        /\ link = {f}
        /\ data = [x \in File |-> IF x = f THEN [b \in Block |-> 0]
                                            ELSE EmptyDelta]
  OBVIOUS
<1>2. /\ tmp = NoDi /\ dev = NoDev /\ ro = {} /\ op = NoOp
      /\ writes = 0 /\ faults = 0
  OBVIOUS
<1> DEFINE e == [guid |-> TopDelta, parent |-> NoneUuid, temp |-> FALSE, file |-> f]
<1>3. e \in Entry /\ e.file = f
  BY DEF Entry, AnyGuid
<1>4. dd.ent = <<e>> /\ dd.top = TopDelta
  BY <1>1
<1>5. dd \in Descriptor
  <2>1. <<e>> \in Seq(Entry) /\ TopDelta \in AnyGuid
    BY <1>3 DEF AnyGuid
  <2> QED
    BY <1>1, <2>1 DEF Descriptor
<1>6. StorageOK
  BY <1>1, <1>2, <1>5, NoOpType DEF StorageOK, EmptyDelta, Delta
<1>7. DevicesOK
  BY <1>2 DEF DevicesOK, NoDev, Device, Stack
<1>8. TypeOK /\ Locals(op)
  BY <1>2, <1>6, <1>7, NoOpType DEF TypeOK
<1> HIDE DEF e
<1>9. FilesInv
  <2>1. DOMAIN dd.ent = {1} /\ dd.ent[1] = e
    BY <1>4
  <2>2. FilesExist /\ UniqueFiles(dd)
    BY <1>1, <1>3, <2>1 DEF FilesExist, FilesOf, UniqueFiles
  <2>3. op.pc = "idle" /\ ~ op.new
    BY <1>2 DEF NoOp
  <2> QED
    BY <2>2, <2>3 DEF FilesInv, NoNewDelta, WorkingCopy, ListedFiles, ReadPcs,
           UnlinkPcs, NewDeltaPcs, MergePcs
<1> QED
  BY <1>8, <1>9 DEF SnapshotInv

\* Every step, of an operation, a client, the guest or a fault, preserves the
\* invariant.
LEMMA NextInv == SnapshotInv /\ [Next]_vars => SnapshotInv'
<1> SUFFICES ASSUME SnapshotInv, [Next]_vars PROVE SnapshotInv'
  OBVIOUS
<1>1. CASE Step
  BY <1>1, CompleteNothingInv, MntnMergeInv, MergeTemporaryInv,
     DeleteRefusedInv, DeleteLeafInv, DeleteStoreInv, DeleteUnlinkInv,
     DeleteByMergeInv, DeleteMarkInv, DeleteMarkedInv, MergeRefusedInv,
     MergeCompleteInv, MergeBeginInv, MergeCopyInv, MergeCopiedInv,
     MergeReplaceInv, MergeIoctlInv, MergeSwapInv, MergeUnlinkOldInv,
     MergeRenameInv, MergeUnlinkInv, CreateStoreInv, CreateDeltaInv,
     CreateIoctlInv, CreateRenameInv, TempMountInv, SwitchDeltaInv,
     SwitchRenameInv, SwitchUnlinkInv, UmountStopInv, Zenon DEF Step
<1>2. CASE Call
  <2>1. \A g \in Guid : g \in AnyGuid /\ TopDelta \in AnyGuid
    BY DEF AnyGuid
  <2>2. TopDelta \in AnyGuid
    BY DEF AnyGuid
  <2> QED
    BY <1>2, <2>1, <2>2, CreateSnapshotInv, DeleteSnapshotInv, MergeSnapshotInv,
       SwitchSnapshotInv, MountRoInv, MountInv, UmountInv, Zenon DEF Call
<1>3. CASE Environment
  BY <1>3, GuestWriteInv, HolderExitInv, RoUmountInv DEF Environment
<1>4. CASE Failure
  BY <1>4, FailCreateInv, FailCbtInv, FailCreateRenameInv, FailMergeInv,
     FailUnlinkInv, FailTempMountInv, KillInv, PowerLossInv DEF Failure
<1>5. CASE UNCHANGED vars
  <2>1. UNCHANGED <<dd, tmp, link, data, dev, ro, op, writes, faults>>
    BY <1>5 DEF vars
  <2>2. StorageOK' /\ DevicesOK'
    BY <2>1 DEF SnapshotInv, TypeOK, StorageOK, DevicesOK
  <2>3. ASSUME FilesInv PROVE FilesInv'
    BY <2>1, <2>3, KeepingFiles
  <2> QED
    BY <2>1, <2>2, <2>3 DEF SnapshotInv, TypeOK
<1> QED
  BY <1>1, <1>2, <1>3, <1>4, <1>5 DEF Next

\* SnapshotInv holds in every reachable state.
THEOREM Invariance == Spec => []SnapshotInv
<1>1. Init => SnapshotInv
  BY InitInv
<1>2. SnapshotInv /\ [Next]_vars => SnapshotInv'
  BY NextInv
<1> QED
  BY <1>1, <1>2, PTL DEF Spec

\* Every descriptor, on disk and in memory, and every stack of deltas keeps
\* its shape, whatever the clients call and whatever fails.
THEOREM TypeCorrect == Spec => []TypeOK
<1>1. SnapshotInv => TypeOK
  BY DEF SnapshotInv
<1> QED
  BY <1>1, Invariance, PTL

\* When no client merges into a new delta, DiskDescriptor.xml names existing
\* image files only, at every step of every operation and after any number
\* of failed calls, kills and power losses.
THEOREM CrashSafety == ASSUME "merge_new" \notin Ops
                       PROVE  Spec => []FilesExist
<1>1. SnapshotInv => FilesExist
  BY DEF SnapshotInv, FilesInv
<1> QED
  BY <1>1, Invariance, PTL

-----------------------------------------------------------------------------
(* The snapshot tree.                                                      *)

CreateCmds == {"create", "create_offline", "tsnap"}

\* the steps of a merge between the store to conf.tmp and the rename at
\* which the name of a new delta is not stored yet
UnnamedPcs == {"mg_copy", "mg_replace", "mg_ioctl", "mg_swap"}

\* the steps between a store to conf.tmp and its rename
StoredPcs == NewDeltaPcs \cup UnnamedPcs \cup {"mg_unlinkold", "mg_rename"}

\* The uuid of the snapshot to be created is still unused: looked up before
\* temporary snapshots are merged, used after it.
Fresh(o) ==
  /\ o.pc = "cr" => o.i = 0 /\ o.cmd \in CreateCmds
  /\ o.cmd \in CreateCmds /\ (o.i > 0 \/ o.pc = "cr")
       => o.guid \in Guid /\ ~ Has(o.di, o.guid)

\* The snapshot to be deleted is not the top delta.
NotTop(o) == o.pc = "del" => o.victim # TopDelta

TreeInv ==
  /\ Tree(dd)
  /\ op.pc \in ReadPcs \cup UnlinkPcs => op.di = dd
  /\ op.pc = "dl_store" => Tree(op.di)
  /\ op.pc \in StoredPcs => op.di = tmp /\ Tree(tmp)
  /\ op.new /\ op.pc \in UnnamedPcs => op.file \notin FilesOf(op.di)
  /\ NotTop(op)
  /\ Fresh(op)

\* The operations that keep the tree.  Deleting or resetting the top delta
\* makes a snapshot that may have other children the top one, so that a
\* merge of such a child gives the top entry another uuid; switching without
\* destroying the top delta or naming it leaves two entries with its uuid.
TreeOnly == Ops \cap {"delete_top", "reset", "switch_dup"} = {}

-----------------------------------------------------------------------------
(* Facts about the helpers.                                                *)

\* What returning keeps of the operation.
LEMMA ReturnKeeps ==
  ASSUME NEW o \in Operation, NEW ok \in BOOLEAN
  PROVE  \/ Return(o, ok) = NoOp
         \/ /\ Return(o, ok).cmd = o.cmd
            /\ Return(o, ok).guid = o.guid
            /\ Return(o, ok).i > 0 => o.i > 0 \/ o.cmd = "delete"
<1>0. o.i \in Nat
  BY DEF Operation
<1>1. CASE o.ret # "none" /\ ok
  <2> DEFINE r == [o EXCEPT !.pc = o.ret, !.ret = "none", !.kern = FALSE,
                   !.top = FALSE, !.del = NoFile, !.err = FALSE]
  <2>1. Return(o, ok) = r
    BY <1>1 DEF Return
  <2>2. r.cmd = o.cmd /\ r.guid = o.guid /\ r.i = o.i
    BY DEF Operation
  <2> HIDE DEF r
  <2> QED
    BY <2>1, <2>2
<1>2. CASE o.ret = "none" /\ o.i > 0 /\ ok
  <2> DEFINE j == IF Len(o.di.ent) # o.n THEN 1 ELSE o.i + 1
             r == [o EXCEPT !.pc = "mtmp", !.kern = FALSE, !.top = FALSE,
                   !.del = NoFile, !.err = FALSE, !.i = j]
  <2>1. Return(o, ok) = r
    BY <1>0, <1>2 DEF Return
  <2> HIDE DEF j
  <2>2. r.cmd = o.cmd /\ r.guid = o.guid
    BY DEF Operation
  <2> HIDE DEF r
  <2> QED
    BY <1>2, <2>1, <2>2
<1>3. CASE o.ret = "none" /\ o.i = 0 /\ o.cmd = "delete" /\ ok
  <2> DEFINE r == [o EXCEPT !.pc = "mtmp", !.kern = FALSE, !.top = FALSE,
                   !.del = NoFile, !.err = FALSE, !.i = 1]
  <2>1. Return(o, ok) = r
    BY <1>3 DEF Return
  <2>2. r.cmd = o.cmd /\ r.guid = o.guid
    BY DEF Operation
  <2> HIDE DEF r
  <2> QED
    BY <1>3, <2>1, <2>2
<1>4. CASE /\ o.ret = "none" /\ o.i = 0 /\ o.cmd = "merge_all" /\ ok
           /\ Len(o.di.ent) # 1
  <2> DEFINE r == [o EXCEPT !.pc = "mg", !.kern = FALSE, !.top = FALSE,
                   !.del = NoFile, !.err = FALSE, !.child = o.di.top]
  <2>1. Return(o, ok) = r
    BY <1>4 DEF Return
  <2>2. r.cmd = o.cmd /\ r.guid = o.guid /\ r.i = o.i
    BY DEF Operation
  <2> HIDE DEF r
  <2> QED
    BY <2>1, <2>2
<1>5. CASE \/ ~ ok
           \/ o.ret = "none" /\ o.i = 0 /\ o.cmd \notin {"delete", "merge_all"}
           \/ o.ret = "none" /\ o.i = 0 /\ o.cmd = "merge_all" /\ Len(o.di.ent) = 1
  BY <1>5 DEF Return
<1> QED
  BY <1>0, <1>1, <1>2, <1>3, <1>4, <1>5

\* A process without an operation makes no claim.
LEMMA NoOpFresh == Fresh(NoOp) /\ NotTop(NoOp)
  BY DEF Fresh, NotTop, NoOp, CreateCmds

\* An unused uuid stays unused while the descriptor gains none.
LEMMA FreshKept ==
  ASSUME NEW o, NEW n, Fresh(o), n.cmd = o.cmd, n.guid = o.guid,
         n.i > 0 => o.i > 0, n.pc # "cr",
         Has(n.di, o.guid) => Has(o.di, o.guid)
  PROVE  Fresh(n)
  BY DEF Fresh

\* An unused uuid stays unused when a deletion or a merge returns.
LEMMA FreshReturn ==
  ASSUME NEW o \in Operation, Locals(o), NEW ok \in BOOLEAN, Fresh(o)
  PROVE  Fresh(Return(o, ok))
<1>1. CASE Return(o, ok) = NoOp
  BY <1>1, NoOpFresh
<1>2. CASE Return(o, ok) # NoOp
  <2> DEFINE r == Return(o, ok)
  <2>1. /\ r.pc \in {"mtmp", "mg", "mg2", "um_stop"} /\ r.di = o.di
        /\ r.cmd = o.cmd /\ r.guid = o.guid
        /\ r.i > 0 => o.i > 0 \/ o.cmd = "delete"
    BY <1>2, ReturnIs, ReturnKeeps
  <2> HIDE DEF r
  <2>2. Fresh(r)
    BY <2>1 DEF Fresh, CreateCmds
  <2> QED
    BY <2>2 DEF r
<1> QED
  BY <1>1, <1>2

\* The end of an operation leaves the stored tree.
LEMMA TreeEnded == ASSUME Tree(dd)', op' = NoOp PROVE TreeInv'
<1>1. op'.pc = "idle" /\ ~ op'.new
  BY DEF NoOp
<1>2. Fresh(op') /\ NotTop(op')
  BY NoOpFresh
<1> QED
  BY <1>1, <1>2 DEF TreeInv, ReadPcs, UnlinkPcs, StoredPcs, NewDeltaPcs, UnnamedPcs

\* A step that leaves the descriptors and the operation alone.
LEMMA TreeKept == ASSUME TreeInv, UNCHANGED <<dd, tmp, op>> PROVE TreeInv'
  BY DEF TreeInv

\* An operation that works on the stored descriptor.
LEMMA TreeReading ==
  ASSUME Tree(dd)', op'.pc \in ReadPcs \cup UnlinkPcs \cup {"um_stop"},
         op'.di = dd', NotTop(op'), Fresh(op')
  PROVE  TreeInv'
<1>1. op'.pc # "dl_store" /\ op'.pc \notin StoredPcs /\ op'.pc \notin UnnamedPcs
  BY DEF ReadPcs, UnlinkPcs, StoredPcs, NewDeltaPcs, UnnamedPcs
<1> QED
  BY <1>1 DEF TreeInv

\* An operation that works on what it stored in conf.tmp.
LEMMA TreeStored ==
  ASSUME Tree(dd)', op'.pc \in StoredPcs, op'.di = tmp', Tree(tmp)',
         op'.new /\ op'.pc \in UnnamedPcs => op'.file \notin FilesOf(op'.di),
         Fresh(op')
  PROVE  TreeInv'
<1>1. /\ op'.pc # "dl_store" /\ op'.pc # "del"
      /\ op'.pc \notin ReadPcs \cup UnlinkPcs
  BY DEF ReadPcs, UnlinkPcs, StoredPcs, NewDeltaPcs, UnnamedPcs
<1> QED
  BY <1>1 DEF TreeInv, NotTop

\* One step further on the way from conf.tmp to the rename.
LEMMA TreeOnward ==
  ASSUME TreeInv, UNCHANGED <<dd, tmp>>, op.pc \in StoredPcs, op'.pc \in StoredPcs,
         op'.pc \in UnnamedPcs => op.pc \in UnnamedPcs,
         op'.di = op.di, op'.cmd = op.cmd, op'.guid = op.guid, op'.i = op.i,
         op'.file = op.file, op'.new = op.new
  PROVE  TreeInv'
<1>1. Tree(dd)' /\ Tree(tmp)' /\ op'.di = tmp'
  BY DEF TreeInv
<1>2. op'.pc # "cr"
  BY DEF StoredPcs, NewDeltaPcs, UnnamedPcs
<1>3. Fresh(op')
  BY <1>2, FreshKept DEF TreeInv
<1>4. op'.new /\ op'.pc \in UnnamedPcs => op'.file \notin FilesOf(op'.di)
  BY DEF TreeInv
<1> QED
  BY <1>1, <1>3, <1>4, TreeStored

\* A deletion or a merge returns to its caller.
LEMMA TreeReturned ==
  ASSUME NEW o \in Operation, Locals(o), Fresh(o), NEW ok \in BOOLEAN,
         op' = Return(o, ok), Tree(dd)', ok => o.di = dd'
  PROVE  TreeInv'
<1>1. CASE op' = NoOp
  BY <1>1, TreeEnded
<1>2. CASE op' # NoOp
  <2>1. op'.pc \in {"mtmp", "mg", "mg2", "um_stop"} /\ op'.di = dd'
    BY <1>2, ReturnIs
  <2>2. NotTop(op') /\ Fresh(op')
    BY <2>1, FreshReturn DEF NotTop
  <2> QED
    BY <2>1, <2>2, TreeReading DEF ReadPcs
<1> QED
  BY <1>1, <1>2

-----------------------------------------------------------------------------
(* Actions.                                                                *)

\* complete_running_operation with nothing to complete.
LEMMA CompleteNothingTree ==
  ASSUME SnapshotInv, TreeInv, CompleteNothing PROVE TreeInv'
<1> USE DEF SnapshotInv, TypeOK, CompleteNothing, At, files, world, ghosts
<1>1. op.pc = "complete" /\ op.ret \in {"mtmp", "mg2", "um_stop"} /\ op.di = dd
  BY DEF Operation, Locals, Rets, TreeInv, ReadPcs
<1>2. /\ op'.pc = op.ret /\ op'.di = op.di /\ op'.cmd = op.cmd
      /\ op'.guid = op.guid /\ op'.i = op.i
  BY DEF Operation
<1>3. Fresh(op')
  BY <1>1, <1>2, FreshKept DEF TreeInv
<1>4. Tree(dd)' /\ op'.di = dd'
  BY <1>1, <1>2 DEF TreeInv
<1> QED
  BY <1>1, <1>2, <1>3, <1>4, TreeReading DEF ReadPcs, NotTop

\* do_mntn_merge stores the merged descriptor in conf.tmp.
LEMMA MntnMergeTree ==
  ASSUME SnapshotInv, TreeInv, MntnMerge PROVE TreeInv'
<1> USE DEF SnapshotInv, TypeOK, At
<1> DEFINE t == op.di.top
           ok == /\ CanMerge(op.di, t)
                 /\ FileOf(op.di, t) \in link
                 /\ FileOf(op.di, t) = Top(dev.stack)
           merged == MergeImage(op.di, t)
<1>1. op.pc = "complete" /\ op.di = dd /\ Tree(dd) /\ dd' = dd /\ Fresh(op)
  BY DEF MntnMerge, TreeInv, ReadPcs
<1>2. op.di \in Descriptor /\ t \in AnyGuid
  BY DEF Operation, Descriptor
<1>3. CASE ok
  <2>1. CanMerge(op.di, t)
    BY <1>3
  <2>2. /\ op' = [op EXCEPT !.pc = "mg_ioctl", !.di = merged,
                            !.kern = TRUE, !.top = TRUE, !.new = FALSE,
                            !.del = FileOf(op.di, t)]
        /\ tmp' = merged
    BY <1>3 DEF MntnMerge
  <2> HIDE DEF t, ok
  <2>3. Tree(merged) /\ \A h : Has(merged, h) => Has(op.di, h)
    BY <1>1, <1>2, <2>1, MergeImageTree
  <2> HIDE DEF merged
  <2>4. /\ op'.pc = "mg_ioctl" /\ op'.di = merged /\ ~ op'.new
        /\ op'.cmd = op.cmd /\ op'.guid = op.guid /\ op'.i = op.i
    BY <2>2 DEF Operation
  <2>5. Fresh(op')
    BY <1>1, <2>3, <2>4, FreshKept
  <2>6. Tree(dd)' /\ Tree(tmp)' /\ op'.di = tmp'
    BY <1>1, <2>2, <2>3, <2>4
  <2> QED
    BY <2>4, <2>5, <2>6, TreeStored DEF StoredPcs, UnnamedPcs
<1>4. CASE ~ ok
  <2>1. op' = NoOp
    BY <1>4 DEF MntnMerge
  <2> QED
    BY <1>1, <2>1, TreeEnded
<1> QED
  BY <1>3, <1>4

\* merge_temporary_snapshots takes up temporary snapshots only, and the top
\* delta is none.
LEMMA MergeTemporaryTree ==
  ASSUME SnapshotInv, TreeInv, MergeTemporary PROVE TreeInv'
<1> USE DEF SnapshotInv, TypeOK, At, files, world, ghosts
<1> DEFINE here == op.di.ent[op.i]
           done == [op EXCEPT !.pc = "cr", !.i = 0]
           take == [op EXCEPT !.pc = "del", !.victim = here.guid,
                              !.n = Len(op.di.ent)]
           skip == [op EXCEPT !.i = op.i + 1]
<1>1. op.pc = "mtmp" /\ op.di = dd /\ Tree(dd) /\ Fresh(op) /\ dd' = dd
  BY DEF MergeTemporary, TreeInv, ReadPcs
<1>2. op.i \in Nat /\ op.i > 0 /\ op.di \in Descriptor
  BY <1>1 DEF Operation, Locals
<1>3. Len(op.di.ent) \in Nat /\ DOMAIN op.di.ent = 1 .. Len(op.di.ent)
  BY <1>2, EntriesType
<1>4. \/ op' = NoOp
      \/ op.cmd \in CreateCmds /\ op' = done
      \/ op' = skip
      \/ op.i <= Len(op.di.ent) /\ here.temp /\ op' = take
  BY <1>2, <1>3 DEF MergeTemporary, CreateCmds
<1>5. CASE op' = NoOp
  BY <1>1, <1>5, TreeEnded
<1>6. CASE op.cmd \in CreateCmds /\ op' = done
  <2>1. /\ op'.pc = "cr" /\ op'.i = 0 /\ op'.di = op.di
        /\ op'.cmd = op.cmd /\ op'.guid = op.guid
    BY <1>6 DEF Operation
  <2>2. Fresh(op') /\ NotTop(op')
    BY <1>1, <1>2, <1>6, <2>1 DEF Fresh, NotTop
  <2> QED
    BY <1>1, <2>1, <2>2, TreeReading DEF ReadPcs
<1>7. CASE op' = skip
  <2>1. /\ op'.pc = "mtmp" /\ op'.di = op.di
        /\ op'.cmd = op.cmd /\ op'.guid = op.guid
    BY <1>1, <1>7 DEF Operation
  <2>2. Fresh(op') /\ NotTop(op')
    BY <1>1, <1>2, <2>1 DEF Fresh, NotTop
  <2> QED
    BY <1>1, <2>1, <2>2, TreeReading DEF ReadPcs
<1>8. CASE op.i <= Len(op.di.ent) /\ here.temp /\ op' = take
  <2>1. /\ op'.pc = "del" /\ op'.di = op.di /\ op'.victim = here.guid
        /\ op'.cmd = op.cmd /\ op'.guid = op.guid /\ op'.i = op.i
    BY <1>8 DEF Operation
  <2>2. op.i \in DOMAIN op.di.ent
    BY <1>2, <1>3, <1>8
  <2>3. here.guid # TopDelta
    BY <1>1, <1>8, <2>2 DEF Tree, Base, UniqueGuids
  <2>4. Fresh(op') /\ NotTop(op')
    BY <1>1, <2>1, <2>3, FreshKept DEF NotTop
  <2> QED
    BY <1>1, <2>1, <2>4, TreeReading DEF ReadPcs
<1> QED
  BY <1>4, <1>5, <1>6, <1>7, <1>8

\* do_delete_snapshot returns early.
LEMMA DeleteRefusedTree ==
  ASSUME SnapshotInv, TreeInv, DeleteRefused PROVE TreeInv'
<1>1. op \in Operation /\ Locals(op) /\ Fresh(op)
  BY DEF SnapshotInv, TypeOK, TreeInv
<1>2. op' = Return(op, FALSE) /\ Tree(dd)'
  BY DEF DeleteRefused, TreeInv, files
<1> QED
  BY <1>1, <1>2, TreeReturned

\* do_delete_snapshot takes a leaf below the top out.
LEMMA DeleteLeafTree ==
  ASSUME SnapshotInv, TreeInv, DeleteLeaf PROVE TreeInv'
<1> USE DEF SnapshotInv, TypeOK, At, files
<1> DEFINE g == op.victim
           q == RemoveImage(op.di, g, TRUE)
<1>1. /\ op.pc = "del" /\ CanRemove(op.di, g) /\ dd' = dd
      /\ op' = [op EXCEPT !.pc = "dl_store", !.del = FileOf(op.di, g), !.di = q]
  BY DEF DeleteLeaf
<1>2. Tree(dd) /\ op.di = dd /\ g # TopDelta /\ Fresh(op)
  BY <1>1 DEF TreeInv, ReadPcs, NotTop
<1>3. op.di \in Descriptor
  BY DEF Operation
<1> HIDE DEF g
<1>4. Tree(q) /\ GuidsOf(q) \subseteq GuidsOf(op.di)
  BY <1>1, <1>2, <1>3, RemoveImageTree
<1> HIDE DEF q
<1>5. /\ op'.pc = "dl_store" /\ op'.di = q /\ op'.cmd = op.cmd
      /\ op'.guid = op.guid /\ op'.i = op.i
  BY <1>1 DEF Operation
<1>6. Has(q, op.guid) => Has(op.di, op.guid)
  BY <1>4 DEF Has, GuidsOf
<1>7. Fresh(op') /\ NotTop(op')
  BY <1>2, <1>5, <1>6, FreshKept DEF NotTop
<1>8. Tree(dd)' /\ Tree(op'.di)
  BY <1>1, <1>2, <1>4, <1>5
<1> QED
  BY <1>5, <1>7, <1>8 DEF TreeInv, ReadPcs, UnlinkPcs, StoredPcs, NewDeltaPcs, UnnamedPcs

\* The descriptor without the leaf is stored.
LEMMA DeleteStoreTree ==
  ASSUME SnapshotInv, TreeInv, DeleteStore PROVE TreeInv'
<1>1. /\ op.pc = "dl_store" /\ dd' = op.di /\ op' = [op EXCEPT !.pc = "dl_unlink"]
  BY DEF DeleteStore, At
<1>2. Tree(op.di) /\ Fresh(op) /\ op \in Operation
  BY <1>1 DEF TreeInv, SnapshotInv, TypeOK
<1>3. /\ op'.pc = "dl_unlink" /\ op'.di = op.di /\ op'.cmd = op.cmd
      /\ op'.guid = op.guid /\ op'.i = op.i
  BY <1>1, <1>2 DEF Operation
<1>4. Fresh(op') /\ NotTop(op')
  BY <1>2, <1>3, FreshKept DEF NotTop
<1>5. Tree(dd)' /\ op'.di = dd'
  BY <1>1, <1>2, <1>3
<1> QED
  BY <1>3, <1>4, <1>5, TreeReading DEF UnlinkPcs

\* The leaf's file is removed.
LEMMA DeleteUnlinkTree ==
  ASSUME SnapshotInv, TreeInv, DeleteUnlink PROVE TreeInv'
<1>1. op \in Operation /\ Locals(op) /\ Fresh(op)
  BY DEF SnapshotInv, TypeOK, TreeInv
<1>2. op' = Return(op, TRUE) /\ Tree(dd)' /\ op.di = dd'
  BY DEF DeleteUnlink, TreeInv, At, UnlinkPcs
<1> QED
  BY <1>1, <1>2, TreeReturned

\* A snapshot with one child is deleted by merging the child.
LEMMA DeleteByMergeTree ==
  ASSUME SnapshotInv, TreeInv, DeleteByMerge PROVE TreeInv'
<1>1. /\ op.pc = "del" /\ dd' = dd
      /\ op' = [op EXCEPT !.pc = "mg", !.child = ChildOf(op.di, op.victim)]
  BY DEF DeleteByMerge, At, files
<1>2. Tree(dd) /\ op.di = dd /\ Fresh(op) /\ op \in Operation
  BY <1>1 DEF TreeInv, ReadPcs, SnapshotInv, TypeOK
<1> DEFINE c == ChildOf(op.di, op.victim)
<1> HIDE DEF c
<1>3. op' = [op EXCEPT !.pc = "mg", !.child = c]
  BY <1>1 DEF c
<1>4. /\ op'.pc = "mg" /\ op'.di = op.di /\ op'.cmd = op.cmd
      /\ op'.guid = op.guid /\ op'.i = op.i
  BY <1>2, <1>3 DEF Operation
<1>5. Fresh(op') /\ NotTop(op')
  BY <1>2, <1>4, FreshKept DEF NotTop
<1> QED
  BY <1>1, <1>2, <1>4, <1>5, TreeReading DEF ReadPcs

\* A snapshot with several children is marked and stored.
LEMMA DeleteMarkTree ==
  ASSUME SnapshotInv, TreeInv, DeleteMark PROVE TreeInv'
<1> DEFINE marked == SetTemporary(op.di, op.victim)
           o == [op EXCEPT !.di = marked]
<1>1. op.pc = "del" /\ dd' = marked /\ op' = Return(o, TRUE)
  BY DEF DeleteMark, At
<1>2. /\ Tree(dd) /\ op.di = dd /\ Fresh(op) /\ op \in Operation
      /\ Locals(op) /\ op.victim # TopDelta /\ op.di \in Descriptor
  BY <1>1 DEF TreeInv, ReadPcs, SnapshotInv, TypeOK, NotTop, Operation
<1>3. /\ Tree(marked) /\ marked \in Descriptor
      /\ \A h : Has(marked, h) <=> Has(op.di, h)
  BY <1>2, SetTemporaryTree, SetTemporaryType DEF Tree
<1> HIDE DEF marked
<1>4. o \in Operation
  BY <1>2, <1>3, SetOp, Zenon
<1>5. /\ o.pc = "del" /\ o.di = marked /\ o.cmd = op.cmd /\ o.guid = op.guid
      /\ o.i = op.i /\ o.new = op.new /\ o.ret = op.ret
  BY <1>1, <1>2 DEF Operation
<1> HIDE DEF o
<1>6. Locals(o)
  BY <1>2, <1>5 DEF Locals
<1>7. Fresh(o)
  BY <1>2, <1>3, <1>5, FreshKept
<1> QED
  BY <1>1, <1>3, <1>4, <1>5, <1>6, <1>7, TreeReturned

\* A snapshot that is marked already.
LEMMA DeleteMarkedTree ==
  ASSUME SnapshotInv, TreeInv, DeleteMarked PROVE TreeInv'
<1>1. op \in Operation /\ Locals(op) /\ Fresh(op)
  BY DEF SnapshotInv, TypeOK, TreeInv
<1>2. op' = Return(op, Running) /\ Tree(dd)' /\ op.di = dd'
  BY DEF DeleteMarked, TreeInv, At, ReadPcs, files
<1> QED
  BY <1>1, <1>2, TreeReturned, RunningType

\* ploop_merge_snapshot_by_guid returns early.
LEMMA MergeRefusedTree ==
  ASSUME SnapshotInv, TreeInv, MergeRefused PROVE TreeInv'
<1>1. op \in Operation /\ Locals(op) /\ Fresh(op)
  BY DEF SnapshotInv, TypeOK, TreeInv
<1>2. op' = Return(op, FALSE) /\ Tree(dd)'
  BY DEF MergeRefused, TreeInv, files
<1> QED
  BY <1>1, <1>2, TreeReturned

\* An interrupted merge of the top delta is completed first.
LEMMA MergeCompleteTree ==
  ASSUME SnapshotInv, TreeInv, MergeComplete PROVE TreeInv'
<1>1. /\ op.pc = "mg" /\ dd' = dd
      /\ op' = [op EXCEPT !.pc = "complete", !.ret = "mg2"]
  BY DEF MergeComplete, At, files
<1>2. Tree(dd) /\ op.di = dd /\ Fresh(op) /\ op \in Operation
  BY <1>1 DEF TreeInv, ReadPcs, SnapshotInv, TypeOK
<1>3. /\ op'.pc = "complete" /\ op'.di = op.di /\ op'.cmd = op.cmd
      /\ op'.guid = op.guid /\ op'.i = op.i
  BY <1>1, <1>2 DEF Operation
<1>4. Fresh(op') /\ NotTop(op')
  BY <1>2, <1>3, FreshKept DEF NotTop
<1> QED
  BY <1>1, <1>2, <1>3, <1>4, TreeReading DEF ReadPcs

\* The merged descriptor is a tree, and the file of a new delta is in no
\* descriptor.
LEMMA MergeBeginTree ==
  ASSUME SnapshotInv, TreeInv, MergeBegin PROVE TreeInv'
<1> DEFINE c == op.child
           p == ParentOf(op.di, c)
           merged == MergeImage(op.di, c)
           kern == Level(FileOf(op.di, c)) > 0
           top == kern /\ FileOf(op.di, c) = Top(dev.stack)
           target == IF op.new THEN NewFile ELSE FileOf(op.di, p)
           fo == FileOf(op.di, p)
           fd == FileOf(op.di, c)
           todo == IF top /\ ~ op.new THEN {} ELSE Block
<1>1. /\ op.pc \in {"mg", "mg2"} /\ CanMerge(op.di, c) /\ dd' = dd /\ tmp' = merged
      /\ op.new => NameLeft
      /\ op' = [op EXCEPT !.pc = "mg_copy", !.di = merged, !.kern = kern,
                          !.top = top, !.file = target, !.old = fo,
                          !.del = fd, !.todo = todo]
  BY DEF MergeBegin, MergeAt, At, MergeChecked
<1>2. /\ Tree(dd) /\ op.di = dd /\ Fresh(op) /\ op \in Operation
      /\ op.di \in Descriptor /\ c \in AnyGuid
  BY <1>1 DEF TreeInv, ReadPcs, SnapshotInv, TypeOK, Operation
<1>3. op.new => target = NewFile
  OBVIOUS
<1> HIDE DEF c, kern, top, target, fo, fd, todo
<1>4. /\ Tree(merged) /\ \A h : Has(merged, h) => Has(op.di, h)
      /\ FilesOf(merged) \subseteq FilesOf(op.di)
  <2>1. Has(op.di, c) /\ UniqueFiles(op.di)
    BY <1>1, <1>2 DEF CanMerge, Tree, Base
  <2> QED
    BY <1>1, <1>2, <2>1, MergeImageTree, MergeImageFiles
<1> HIDE DEF merged
<1>5. /\ op'.pc = "mg_copy" /\ op'.di = merged /\ op'.cmd = op.cmd
      /\ op'.guid = op.guid /\ op'.i = op.i /\ op'.file = target
      /\ op'.new = op.new
  BY <1>1, <1>2 DEF Operation
<1>6. Fresh(op')
  BY <1>2, <1>4, <1>5, FreshKept
<1>7. op.new => NewFile \notin FilesOf(dd)
  BY <1>1, NewFileIs DEF Taken
<1>8. op'.new => op'.file \notin FilesOf(op'.di)
  BY <1>2, <1>3, <1>4, <1>5, <1>7
<1>9. Tree(dd)' /\ Tree(tmp)' /\ op'.di = tmp'
  BY <1>1, <1>2, <1>4, <1>5
<1> QED
  BY <1>5, <1>6, <1>8, <1>9, TreeStored DEF StoredPcs, UnnamedPcs

\* Copying a cluster changes no descriptor.
LEMMA MergeCopyTree ==
  ASSUME SnapshotInv, TreeInv, NEW b \in Block, MergeCopy(b) PROVE TreeInv'
<1>1. /\ op.pc = "mg_copy" /\ UNCHANGED <<dd, tmp>>
      /\ op' = [op EXCEPT !.todo = @ \ {b}] /\ op \in Operation
  BY DEF MergeCopy, At, SnapshotInv, TypeOK
<1>2. /\ op'.pc = op.pc /\ op'.di = op.di /\ op'.cmd = op.cmd /\ op'.guid = op.guid
      /\ op'.i = op.i /\ op'.file = op.file /\ op'.new = op.new
  BY <1>1 DEF Operation
<1> QED
  BY <1>1, <1>2, TreeOnward DEF StoredPcs, UnnamedPcs

\* What follows the copy depends on the device and on the new delta.
LEMMA MergeCopiedTree ==
  ASSUME SnapshotInv, TreeInv, MergeCopied PROVE TreeInv'
<1>1. op.pc = "mg_copy" /\ UNCHANGED <<dd, tmp>> /\ op \in Operation
  BY DEF MergeCopied, At, files, SnapshotInv, TypeOK
<1>2. PICK pc \in {"mg_replace", "mg_ioctl", "mg_swap", "mg_rename"} :
         op' = [op EXCEPT !.pc = pc]
  BY DEF MergeCopied, Merged
<1>3. /\ op'.pc = pc /\ op'.di = op.di /\ op'.cmd = op.cmd /\ op'.guid = op.guid
      /\ op'.i = op.i /\ op'.file = op.file /\ op'.new = op.new
  BY <1>1, <1>2 DEF Operation
<1> QED
  BY <1>1, <1>3, TreeOnward DEF StoredPcs, UnnamedPcs

\* The new delta takes the parent's place on the device.
LEMMA MergeReplaceTree ==
  ASSUME SnapshotInv, TreeInv, MergeReplace PROVE TreeInv'
<1>1. /\ op.pc = "mg_replace" /\ UNCHANGED <<dd, tmp>> /\ op \in Operation
      /\ op' = [op EXCEPT !.pc = "mg_ioctl"]
  BY DEF MergeReplace, At, files, SnapshotInv, TypeOK
<1>2. /\ op'.pc = "mg_ioctl" /\ op'.di = op.di /\ op'.cmd = op.cmd
      /\ op'.guid = op.guid /\ op'.i = op.i /\ op'.file = op.file
      /\ op'.new = op.new
  BY <1>1 DEF Operation
<1> QED
  BY <1>1, <1>2, TreeOnward DEF StoredPcs, UnnamedPcs

\* The kernel drops the merged delta from its stack.
LEMMA MergeIoctlTree ==
  ASSUME SnapshotInv, TreeInv, MergeIoctl PROVE TreeInv'
<1>1. op.pc = "mg_ioctl" /\ UNCHANGED <<dd, tmp>> /\ op \in Operation
  BY DEF MergeIoctl, At, SnapshotInv, TypeOK
<1>2. PICK pc \in {"mg_swap", "mg_rename"} : op' = [op EXCEPT !.pc = pc]
  BY DEF MergeIoctl, Merged
<1>3. /\ op'.pc = pc /\ op'.di = op.di /\ op'.cmd = op.cmd /\ op'.guid = op.guid
      /\ op'.i = op.i /\ op'.file = op.file /\ op'.new = op.new
  BY <1>1, <1>2 DEF Operation
<1> QED
  BY <1>1, <1>3, TreeOnward DEF StoredPcs, UnnamedPcs

\* The new delta's name goes into the merged descriptor.
LEMMA MergeSwapTree ==
  ASSUME SnapshotInv, TreeInv, MergeSwap PROVE TreeInv'
<1> DEFINE swapped == SetFile(op.di, op.child, op.file)
<1>1. /\ op.pc = "mg_swap" /\ dd' = dd /\ tmp' = swapped
      /\ op' = [op EXCEPT !.pc = "mg_unlinkold", !.di = swapped]
  BY DEF MergeSwap, At
<1>2. /\ Tree(dd) /\ op.di = tmp /\ Tree(tmp) /\ Fresh(op) /\ op \in Operation
      /\ op.di \in Descriptor /\ op.new
      /\ op.file \in File
  BY <1>1 DEF TreeInv, StoredPcs, UnnamedPcs, SnapshotInv, TypeOK, Operation, Locals
<1>3. op.file \notin FilesOf(op.di)
  BY <1>1, <1>2 DEF TreeInv, UnnamedPcs
<1>4. Tree(swapped) /\ \A h : Has(swapped, h) <=> Has(op.di, h)
  BY <1>2, <1>3, SetFileTree
<1> HIDE DEF swapped
<1>5. /\ op'.pc = "mg_unlinkold" /\ op'.di = swapped /\ op'.cmd = op.cmd
      /\ op'.guid = op.guid /\ op'.i = op.i
  BY <1>1, <1>2 DEF Operation
<1>6. Fresh(op')
  BY <1>2, <1>4, <1>5, FreshKept
<1>7. Tree(dd)' /\ Tree(tmp)' /\ op'.di = tmp'
  BY <1>1, <1>2, <1>4, <1>5
<1> QED
  BY <1>5, <1>6, <1>7, TreeStored DEF StoredPcs, UnnamedPcs

\* The old parent delta is removed.
LEMMA MergeUnlinkOldTree ==
  ASSUME SnapshotInv, TreeInv, MergeUnlinkOld PROVE TreeInv'
<1>1. /\ op.pc = "mg_unlinkold" /\ UNCHANGED <<dd, tmp>> /\ op \in Operation
      /\ op' = [op EXCEPT !.pc = "mg_rename"]
  BY DEF MergeUnlinkOld, At, SnapshotInv, TypeOK
<1>2. /\ op'.pc = "mg_rename" /\ op'.di = op.di /\ op'.cmd = op.cmd
      /\ op'.guid = op.guid /\ op'.i = op.i /\ op'.file = op.file
      /\ op'.new = op.new
  BY <1>1 DEF Operation
<1> QED
  BY <1>1, <1>2, TreeOnward DEF StoredPcs, UnnamedPcs

\* conf.tmp becomes DiskDescriptor.xml.
LEMMA MergeRenameTree ==
  ASSUME SnapshotInv, TreeInv, MergeRename PROVE TreeInv'
<1>1. /\ op.pc = "mg_rename" /\ dd' = tmp /\ op' = [op EXCEPT !.pc = "mg_unlink"]
  BY DEF MergeRename, At
<1>2. op.di = tmp /\ Tree(tmp) /\ Fresh(op) /\ op \in Operation
  BY <1>1 DEF TreeInv, StoredPcs, SnapshotInv, TypeOK
<1>3. /\ op'.pc = "mg_unlink" /\ op'.di = op.di /\ op'.cmd = op.cmd
      /\ op'.guid = op.guid /\ op'.i = op.i
  BY <1>1, <1>2 DEF Operation
<1>4. Fresh(op') /\ NotTop(op')
  BY <1>2, <1>3, FreshKept DEF NotTop
<1>5. Tree(dd)' /\ op'.di = dd'
  BY <1>1, <1>2, <1>3
<1> QED
  BY <1>3, <1>4, <1>5, TreeReading DEF UnlinkPcs

\* The merged delta is removed, and the merge returns.
LEMMA MergeUnlinkTree ==
  ASSUME SnapshotInv, TreeInv, MergeUnlink PROVE TreeInv'
<1>1. op \in Operation /\ Locals(op) /\ Fresh(op) /\ (~ op.err) \in BOOLEAN
  BY DEF SnapshotInv, TypeOK, TreeInv, Operation
<1>2. op' = Return(op, ~ op.err) /\ Tree(dd)' /\ op.di = dd'
  BY DEF MergeUnlink, TreeInv, At, UnlinkPcs
<1> QED
  BY <1>1, <1>2, TreeReturned

-----------------------------------------------------------------------------
(* Creating a snapshot and switching to one.                               *)

\* do_create_snapshot: the top delta takes the unused uuid and a new top
\* delta goes above it.
LEMMA CreateStoreTree ==
  ASSUME SnapshotInv, TreeInv, CreateStore PROVE TreeInv'
<1> DEFINE named == ChangeGuid(op.di, op.di.top, op.guid)
           flagged == IF op.cmd = "tsnap" THEN SetTemporary(named, op.guid)
                                          ELSE named
           added == AddImage(flagged, NewFile, TopDelta, op.guid)
<1>1. /\ op.pc = "cr" /\ NameLeft /\ dd' = dd /\ tmp' = added
      /\ op' = [op EXCEPT !.pc = "cr_delta", !.di = added, !.file = NewFile]
  BY DEF CreateStore, At
<1>2. /\ Tree(dd) /\ op.di = dd /\ Fresh(op) /\ op \in Operation
      /\ op.di \in Descriptor
  BY <1>1 DEF TreeInv, ReadPcs, SnapshotInv, TypeOK, Operation
<1>3. op.i = 0 /\ op.guid \in Guid /\ ~ Has(op.di, op.guid)
  BY <1>1, <1>2 DEF Fresh
<1>4. named = ChangeGuid(op.di, TopDelta, op.guid)
  BY <1>2 DEF Tree
<1>5. /\ Base(named) /\ ~ Has(named, TopDelta) /\ Has(named, op.guid)
      /\ named \in Descriptor /\ FilesOf(named) = FilesOf(op.di)
  BY <1>2, <1>3, <1>4, RenameTopBase, ChangeGuidType, ChangeGuidFiles, SameFilesFacts
     DEF AnyGuid
<1> HIDE DEF named
<1>6. /\ Base(flagged) /\ ~ Has(flagged, TopDelta) /\ Has(flagged, op.guid)
      /\ flagged \in Descriptor /\ FilesOf(flagged) = FilesOf(op.di)
  BY <1>5, SetTemporaryTree, SetTemporaryType, SetTemporaryFiles, SameFilesFacts
<1> HIDE DEF flagged
<1>7. NewFile \in File /\ NewFile \notin FilesOf(op.di)
  BY <1>1, <1>2, NewFileIs DEF Taken
<1>8. Tree(added)
  BY <1>3, <1>6, <1>7, AddTopTree
<1> HIDE DEF added
<1>9. /\ op'.pc = "cr_delta" /\ op'.di = added /\ op'.i = op.i
  BY <1>1, <1>2 DEF Operation
<1>10. Fresh(op')
  BY <1>3, <1>9 DEF Fresh
<1>11. Tree(dd)' /\ Tree(tmp)' /\ op'.di = tmp'
  BY <1>1, <1>2, <1>8, <1>9
<1> QED
  BY <1>9, <1>10, <1>11, TreeStored DEF StoredPcs, NewDeltaPcs, UnnamedPcs

\* The new delta is made.
LEMMA CreateDeltaTree ==
  ASSUME SnapshotInv, TreeInv, CreateDelta PROVE TreeInv'
<1>1. op.pc = "cr_delta" /\ UNCHANGED <<dd, tmp>> /\ op \in Operation
  BY DEF CreateDelta, At, SnapshotInv, TypeOK
<1>2. PICK pc \in {"cr_ioctl", "cr_rename"} : op' = [op EXCEPT !.pc = pc]
  BY DEF CreateDelta
<1>3. /\ op'.pc = pc /\ op'.di = op.di /\ op'.cmd = op.cmd /\ op'.guid = op.guid
      /\ op'.i = op.i /\ op'.file = op.file /\ op'.new = op.new
  BY <1>1, <1>2 DEF Operation
<1> QED
  BY <1>1, <1>3, TreeOnward DEF StoredPcs, UnnamedPcs, NewDeltaPcs

\* The device goes over to the new delta.
LEMMA CreateIoctlTree ==
  ASSUME SnapshotInv, TreeInv, CreateIoctl PROVE TreeInv'
<1>1. /\ op.pc = "cr_ioctl" /\ UNCHANGED <<dd, tmp>> /\ op \in Operation
      /\ op' = [op EXCEPT !.pc = "cr_rename"]
  BY DEF CreateIoctl, At, files, SnapshotInv, TypeOK
<1>2. /\ op'.pc = "cr_rename" /\ op'.di = op.di /\ op'.cmd = op.cmd
      /\ op'.guid = op.guid /\ op'.i = op.i /\ op'.file = op.file
      /\ op'.new = op.new
  BY <1>1 DEF Operation
<1> QED
  BY <1>1, <1>2, TreeOnward DEF StoredPcs, UnnamedPcs, NewDeltaPcs

\* conf.tmp with the new top delta becomes DiskDescriptor.xml.
LEMMA CreateRenameTree ==
  ASSUME SnapshotInv, TreeInv, CreateRename PROVE TreeInv'
<1>1. /\ op.pc = "cr_rename" /\ dd' = tmp
      /\ op' = IF op.cmd = "tsnap" THEN [op EXCEPT !.pc = "ts_mount"] ELSE NoOp
  BY DEF CreateRename, At
<1>2. op.di = tmp /\ Tree(tmp) /\ Fresh(op) /\ op \in Operation
  BY <1>1 DEF TreeInv, StoredPcs, NewDeltaPcs, SnapshotInv, TypeOK
<1>3. Tree(dd)'
  BY <1>1, <1>2
<1>4. CASE op.cmd = "tsnap"
  <2>1. /\ op'.pc = "ts_mount" /\ op'.di = op.di /\ op'.cmd = op.cmd
        /\ op'.guid = op.guid /\ op'.i = op.i
    BY <1>1, <1>2, <1>4 DEF Operation
  <2>2. Fresh(op') /\ NotTop(op')
    BY <1>2, <2>1, FreshKept DEF NotTop
  <2> QED
    BY <1>1, <1>2, <1>3, <2>1, <2>2, TreeReading DEF ReadPcs
<1>5. CASE op.cmd # "tsnap"
  BY <1>1, <1>3, <1>5, TreeEnded
<1> QED
  BY <1>4, <1>5

\* The new top delta of a switch is made.
LEMMA SwitchDeltaTree ==
  ASSUME SnapshotInv, TreeInv, SwitchDelta PROVE TreeInv'
<1>1. /\ op.pc = "sw_delta" /\ UNCHANGED <<dd, tmp>> /\ op \in Operation
      /\ op' = [op EXCEPT !.pc = "sw_rename"]
  BY DEF SwitchDelta, At, SnapshotInv, TypeOK
<1>2. /\ op'.pc = "sw_rename" /\ op'.di = op.di /\ op'.cmd = op.cmd
      /\ op'.guid = op.guid /\ op'.i = op.i /\ op'.file = op.file
      /\ op'.new = op.new
  BY <1>1 DEF Operation
<1> QED
  BY <1>1, <1>2, TreeOnward DEF StoredPcs, UnnamedPcs, NewDeltaPcs

\* conf.tmp with the switched top delta becomes DiskDescriptor.xml.
LEMMA SwitchRenameTree ==
  ASSUME SnapshotInv, TreeInv, SwitchRename PROVE TreeInv'
<1>1. /\ op.pc = "sw_rename" /\ dd' = tmp
      /\ op' = IF op.del = NoFile THEN NoOp ELSE [op EXCEPT !.pc = "sw_unlink"]
  BY DEF SwitchRename, At
<1>2. op.di = tmp /\ Tree(tmp) /\ Fresh(op) /\ op \in Operation
  BY <1>1 DEF TreeInv, StoredPcs, NewDeltaPcs, SnapshotInv, TypeOK
<1>3. Tree(dd)'
  BY <1>1, <1>2
<1>4. CASE op.del # NoFile
  <2>1. /\ op'.pc = "sw_unlink" /\ op'.di = op.di /\ op'.cmd = op.cmd
        /\ op'.guid = op.guid /\ op'.i = op.i
    BY <1>1, <1>2, <1>4 DEF Operation
  <2>2. Fresh(op') /\ NotTop(op')
    BY <1>2, <2>1, FreshKept DEF NotTop
  <2> QED
    BY <1>1, <1>2, <1>3, <2>1, <2>2, TreeReading DEF UnlinkPcs
<1>5. CASE op.del = NoFile
  BY <1>1, <1>3, <1>5, TreeEnded
<1> QED
  BY <1>4, <1>5

\* The read-only device of a temporary snapshot, the last unlink of a switch
\* and the stop of the device end the operation.
LEMMA EndingTree ==
  ASSUME TreeInv, \/ \E kind \in {"mark", "held"} : TempMount(kind)
                  \/ SwitchUnlink \/ UmountStop
  PROVE  TreeInv'
<1>1. op' = NoOp /\ dd' = dd
  BY DEF TempMount, SwitchUnlink, UmountStop, files
<1>2. Tree(dd)'
  BY <1>1 DEF TreeInv
<1> QED
  BY <1>1, <1>2, TreeEnded

-----------------------------------------------------------------------------
(* Calls.                                                                  *)

\* ploop_create_snapshot and ploop_create_temporary_snapshot look the uuid
\* up before they begin.
LEMMA CreateSnapshotTree ==
  ASSUME TreeInv, NEW cmd \in CreateCmds, NEW g \in Guid, CreateSnapshot(cmd, g)
  PROVE  TreeInv'
<1> DEFINE online == Running /\ cmd # "create_offline"
           v == IF online THEN "complete" ELSE "mtmp"
           r == IF online THEN "mtmp" ELSE "none"
<1>1. /\ dd' = dd /\ ~ Has(dd, g)
      /\ op' = [NoOp EXCEPT !.cmd = cmd, !.di = dd, !.guid = g, !.i = 1,
                            !.online = online, !.pc = v, !.ret = r]
  BY DEF CreateSnapshot, files
<1>2. v \in {"complete", "mtmp"}
  OBVIOUS
<1> HIDE DEF online, v, r
<1>3. op'.pc = v /\ op'.di = dd /\ op'.guid = g
  BY <1>1 DEF NoOp
<1>4. Fresh(op') /\ NotTop(op')
  BY <1>1, <1>2, <1>3 DEF Fresh, NotTop
<1>5. Tree(dd)'
  BY <1>1 DEF TreeInv
<1> QED
  BY <1>1, <1>2, <1>3, <1>4, <1>5, TreeReading DEF ReadPcs

\* ploop_delete_snapshot is not called for the top delta.
LEMMA DeleteSnapshotTree ==
  ASSUME TreeOnly, TreeInv, NEW g \in AnyGuid, DeleteSnapshot(g)
  PROVE  TreeInv'
<1>1. /\ dd' = dd /\ Tree(dd)
      /\ op' = [NoOp EXCEPT !.cmd = "delete", !.pc = "del", !.di = dd, !.victim = g]
      /\ (IF g = dd.top THEN "delete_top" ELSE "delete") \in Ops
  BY DEF DeleteSnapshot, files, Locked, TreeInv
<1>2. g # TopDelta
  BY <1>1 DEF TreeOnly, Tree
<1>3. op'.pc = "del" /\ op'.di = dd /\ op'.victim = g /\ op'.cmd = "delete"
  BY <1>1 DEF NoOp
<1>4. Fresh(op') /\ NotTop(op')
  BY <1>2, <1>3 DEF Fresh, NotTop, CreateCmds
<1>5. Tree(dd)'
  BY <1>1
<1> QED
  BY <1>1, <1>3, <1>4, <1>5, TreeReading DEF ReadPcs

\* ploop_merge_snapshot begins with the stored descriptor.
LEMMA MergeSnapshotTree ==
  ASSUME TreeInv, NEW cmd \in {"merge", "merge_new", "merge_all"}, NEW g \in AnyGuid,
         MergeSnapshot(cmd, g)
  PROVE  TreeInv'
<1> DEFINE new == cmd = "merge_new"
<1>1. /\ dd' = dd /\ Tree(dd)
      /\ op' = [NoOp EXCEPT !.cmd = cmd, !.pc = "mg", !.di = dd, !.child = g,
                            !.new = new]
  BY DEF MergeSnapshot, files, TreeInv
<1> HIDE DEF new
<1>2. op'.pc = "mg" /\ op'.di = dd /\ op'.cmd = cmd
  BY <1>1 DEF NoOp
<1>3. Fresh(op') /\ NotTop(op')
  BY <1>2 DEF Fresh, NotTop, CreateCmds
<1>4. Tree(dd)'
  BY <1>1
<1> QED
  BY <1>1, <1>2, <1>3, <1>4, TreeReading DEF ReadPcs

\* ploop_switch_snapshot_ex, by default or with guid_old, puts a new top
\* delta above an existing snapshot.
LEMMA SwitchSnapshotTree ==
  ASSUME TreeOnly, SnapshotInv, TreeInv,
         NEW cmd \in {"switch", "switch_keep", "switch_dup", "reset"},
         NEW g \in Guid, NEW old \in AnyGuid, cmd = "switch_keep" => old \in Guid,
         SwitchSnapshot(cmd, g, old)
  PROVE  TreeInv'
<1> DEFINE sw == Switched(cmd, g, old)
           cut == RemoveImage(dd, TopDelta, FALSE)
           kept == ChangeGuid(dd, TopDelta, old)
           f == IF cmd = "reset" THEN NoFile ELSE NewFile
           del == IF cmd \in {"switch", "reset"} THEN FileOf(dd, dd.top) ELSE NoFile
           v == IF cmd = "reset" THEN "sw_rename" ELSE "sw_delta"
<1>1. /\ dd' = dd /\ tmp' = sw /\ cmd \in Ops /\ Has(dd, g)
      /\ cmd = "switch" => CanRemove(dd, dd.top)
      /\ cmd = "switch_keep" => ~ Has(dd, old)
      /\ cmd # "reset" => NameLeft
      /\ op' = [NoOp EXCEPT !.cmd = cmd, !.guid = old, !.di = tmp', !.pc = v,
                            !.file = f, !.del = del]
  BY DEF SwitchSnapshot, Locked
<1>2. cmd \in {"switch", "switch_keep"}
  BY <1>1 DEF TreeOnly
<1>3. Tree(dd) /\ dd \in Descriptor /\ dd.top = TopDelta /\ g # TopDelta
  BY GuidAssumption DEF TreeInv, SnapshotInv, TypeOK, StorageOK, Tree
<1>4. NewFile \in File /\ NewFile \notin FilesOf(dd)
  BY <1>1, <1>2, NewFileIs DEF Taken
<1>v. v = "sw_delta"
  BY <1>2
<1> HIDE DEF sw, f, del, v, cut, kept
<1>5. Tree(sw)
  <2>1. CASE cmd = "switch"
    <3>1. CanRemove(dd, TopDelta) /\ Has(dd, TopDelta) /\ UniqueFiles(dd)
      BY <1>1, <1>3, <2>1 DEF CanRemove, Tree, Base
    <3>2. Base(cut) /\ ~ Has(cut, TopDelta) /\ Has(cut, g)
      BY <1>1, <1>3, <3>1, RemoveTopBase DEF cut
    <3>3. cut \in Descriptor /\ FilesOf(cut) \subseteq FilesOf(dd)
      BY <1>3, <3>1, RemoveImageType, RemoveImageFiles DEF cut
    <3>4. sw = AddImage(cut, NewFile, TopDelta, g)
      BY <1>3, <2>1 DEF Switched, sw, cut
    <3> QED
      BY <1>4, <3>2, <3>3, <3>4, AddTopTree
  <2>2. CASE cmd = "switch_keep"
    <3>1. Base(kept) /\ ~ Has(kept, TopDelta) /\ Has(kept, g)
      BY <1>1, <1>3, <2>2, RenameTopBase DEF kept
    <3>2. kept \in Descriptor /\ FilesOf(kept) = FilesOf(dd)
      BY <1>3, ChangeGuidType, ChangeGuidFiles, SameFilesFacts DEF kept
    <3>3. sw = AddImage(kept, NewFile, TopDelta, g)
      BY <1>3, <2>2 DEF Switched, sw, kept
    <3> QED
      BY <1>4, <3>1, <3>2, <3>3, AddTopTree
  <2> QED
    BY <1>2, <2>1, <2>2
<1>6. op'.pc = v /\ op'.di = tmp' /\ op'.cmd = cmd /\ ~ op'.new
  BY <1>1 DEF NoOp
<1>7. Fresh(op')
  BY <1>v, <1>6 DEF Fresh, CreateCmds
<1>8. Tree(dd)' /\ Tree(tmp)'
  BY <1>1, <1>3, <1>5
<1> QED
  BY <1>v, <1>6, <1>7, <1>8, TreeStored DEF StoredPcs, NewDeltaPcs

\* ploop_mount_image goes on to merge temporary snapshots.
LEMMA MountTree == ASSUME TreeInv, Mount PROVE TreeInv'
<1>1. /\ dd' = dd /\ Tree(dd)
      /\ op' = [NoOp EXCEPT !.cmd = "mount", !.pc = "mtmp", !.di = dd, !.i = 1]
  BY DEF Mount, files, TreeInv
<1>2. op'.pc = "mtmp" /\ op'.di = dd /\ op'.cmd = "mount"
  BY <1>1 DEF NoOp
<1>3. Fresh(op') /\ NotTop(op')
  BY <1>2 DEF Fresh, NotTop, CreateCmds
<1>4. Tree(dd)'
  BY <1>1
<1> QED
  BY <1>1, <1>2, <1>3, <1>4, TreeReading DEF ReadPcs

\* ploop_umount_image first completes a running operation.
LEMMA UmountTree == ASSUME TreeInv, Umount PROVE TreeInv'
<1>1. /\ dd' = dd /\ Tree(dd)
      /\ op' = [NoOp EXCEPT !.cmd = "umount", !.pc = "complete", !.di = dd,
                            !.ret = "um_stop"]
  BY DEF Umount, files, TreeInv
<1>2. op'.pc = "complete" /\ op'.di = dd /\ op'.cmd = "umount"
  BY <1>1 DEF NoOp
<1>3. Fresh(op') /\ NotTop(op')
  BY <1>2 DEF Fresh, NotTop, CreateCmds
<1>4. Tree(dd)'
  BY <1>1
<1> QED
  BY <1>1, <1>2, <1>3, <1>4, TreeReading DEF ReadPcs

-----------------------------------------------------------------------------
(* The guest, the holders and the faults.                                  *)

\* The guest's writes and read-only devices touch no descriptor.
LEMMA OutsideTree ==
  ASSUME TreeInv, \/ \E b \in Block : GuestWrite(b)
                  \/ HolderExit \/ RoUmount
                  \/ \E g \in Guid : MountRo(g)
  PROVE  TreeInv'
<1>1. UNCHANGED <<dd, tmp, op>>
  BY DEF GuestWrite, HolderExit, RoUmount, MountRo, files
<1> QED
  BY <1>1, TreeKept

\* A failed creation, a kill and a power loss leave the stored tree.
LEMMA StoppedTree ==
  ASSUME TreeInv, FailCreate \/ FailCbt \/ FailCreateRename \/ Kill \/ PowerLoss
  PROVE  TreeInv'
<1>1. op' = NoOp /\ dd' = dd
  BY DEF FailCreate, FailCbt, FailCreateRename, Kill, PowerLoss, files
<1>2. Tree(dd)'
  BY <1>1 DEF TreeInv
<1> QED
  BY <1>1, <1>2, TreeEnded

\* A failed step of a merge or a deletion returns with an error.
LEMMA FailMergeTree == ASSUME SnapshotInv, TreeInv, FailMerge PROVE TreeInv'
<1>1. op \in Operation /\ Locals(op) /\ Fresh(op)
  BY DEF SnapshotInv, TypeOK, TreeInv
<1>2. op' = Return(op, FALSE) /\ Tree(dd)'
  BY DEF FailMerge, TreeInv
<1> QED
  BY <1>1, <1>2, TreeReturned

\* A failed unlink is noted, and the operation goes on or returns.
LEMMA FailUnlinkTree == ASSUME SnapshotInv, TreeInv, FailUnlink PROVE TreeInv'
<1>1. /\ op \in Operation /\ Locals(op) /\ Fresh(op) /\ (op.ret # "none") \in BOOLEAN
      /\ op.pc \in {"mg_unlinkold", "mg_unlink", "sw_unlink"}
      /\ UNCHANGED <<dd, tmp>> /\ Tree(dd)'
  BY DEF SnapshotInv, TypeOK, TreeInv, FailUnlink, files
<1>2. CASE op.pc = "mg_unlinkold"
  <2>1. op' = [op EXCEPT !.pc = "mg_rename", !.err = TRUE]
    BY <1>2 DEF FailUnlink, At
  <2>2. /\ op'.pc = "mg_rename" /\ op'.di = op.di /\ op'.cmd = op.cmd
        /\ op'.guid = op.guid /\ op'.i = op.i /\ op'.file = op.file
        /\ op'.new = op.new
    BY <1>1, <2>1 DEF Operation
  <2> QED
    BY <1>1, <1>2, <2>2, TreeOnward DEF StoredPcs, UnnamedPcs
<1>3. CASE op.pc = "mg_unlink"
  <2>1. op' = Return(op, op.ret # "none")
    BY <1>3 DEF FailUnlink, At
  <2>2. op.di = dd'
    BY <1>1, <1>3 DEF TreeInv, UnlinkPcs
  <2> QED
    BY <1>1, <2>1, <2>2, TreeReturned
<1>4. CASE op.pc = "sw_unlink"
  <2>1. op' = NoOp
    BY <1>4 DEF FailUnlink, At
  <2> QED
    BY <1>1, <2>1, TreeEnded
<1> QED
  BY <1>1, <1>2, <1>3, <1>4

\* The top delta of a temporary snapshot that cannot be mounted is merged
\* back.
LEMMA FailTempMountTree == ASSUME SnapshotInv, TreeInv, FailTempMount PROVE TreeInv'
<1> DEFINE c == op.di.top
<1>1. /\ op.pc = "ts_mount" /\ dd' = dd /\ op' = [op EXCEPT !.pc = "mg", !.child = c]
  BY DEF FailTempMount, At, files
<1>2. Tree(dd) /\ op.di = dd /\ Fresh(op) /\ op \in Operation
  BY <1>1 DEF TreeInv, ReadPcs, SnapshotInv, TypeOK
<1> HIDE DEF c
<1>3. /\ op'.pc = "mg" /\ op'.di = op.di /\ op'.cmd = op.cmd
      /\ op'.guid = op.guid /\ op'.i = op.i
  BY <1>1, <1>2 DEF Operation
<1>4. Fresh(op') /\ NotTop(op')
  BY <1>2, <1>3, FreshKept DEF NotTop
<1> QED
  BY <1>1, <1>2, <1>3, <1>4, TreeReading DEF ReadPcs

-----------------------------------------------------------------------------
(* The theorems.                                                           *)

\* The base image alone is a tree.
LEMMA InitTree == Init => TreeInv
<1> SUFFICES ASSUME Init PROVE TreeInv
  OBVIOUS
<1> DEFINE e(f) == [guid |-> TopDelta, parent |-> NoneUuid, temp |-> FALSE, file |-> f]
<1>1. PICK f \in File : dd = [ent |-> <<e(f)>>, top |-> TopDelta]
  BY DEF Init
<1>2. op = NoOp
  BY DEF Init
<1>4. e(f).guid = TopDelta /\ e(f).parent = NoneUuid /\ ~ e(f).temp
  OBVIOUS
<1> HIDE DEF e
<1>a. dd.top = TopDelta /\ dd.ent = <<e(f)>>
  BY <1>1
<1>3. /\ dd.top = TopDelta /\ dd.ent # << >>
      /\ DOMAIN dd.ent = {1} /\ dd.ent[1] = e(f)
  BY <1>a
<1>5. Base(dd)
  BY <1>3, <1>4, GuidAssumption DEF Base, UniqueGuids, UniqueFiles, BaseFirst, ParentsBefore
<1>6. Tree(dd)
  BY <1>3, <1>4, <1>5 DEF Tree
<1>7. op.pc = "idle" /\ ~ op.new
  BY <1>2 DEF NoOp
<1>8. Fresh(op) /\ NotTop(op)
  BY <1>2, NoOpFresh
<1> QED
  BY <1>6, <1>7, <1>8 DEF TreeInv, ReadPcs, UnlinkPcs, StoredPcs, NewDeltaPcs, UnnamedPcs

\* Every step preserves TreeInv when the clients keep to the operations that
\* keep the tree.
LEMMA NextTree ==
  ASSUME TreeOnly, SnapshotInv, TreeInv, [Next]_vars PROVE TreeInv'
<1>1. CASE Step
  BY <1>1, CompleteNothingTree, MntnMergeTree, MergeTemporaryTree,
     DeleteRefusedTree, DeleteLeafTree, DeleteStoreTree, DeleteUnlinkTree,
     DeleteByMergeTree, DeleteMarkTree, DeleteMarkedTree, MergeRefusedTree,
     MergeCompleteTree, MergeBeginTree, MergeCopyTree, MergeCopiedTree,
     MergeReplaceTree, MergeIoctlTree, MergeSwapTree, MergeUnlinkOldTree,
     MergeRenameTree, MergeUnlinkTree, CreateStoreTree, CreateDeltaTree,
     CreateIoctlTree, CreateRenameTree, SwitchDeltaTree, SwitchRenameTree,
     EndingTree, Zenon DEF Step
<1>2. CASE Call
  <2>1. TopDelta \in AnyGuid /\ \A g \in Guid : g \in AnyGuid
    BY DEF AnyGuid
  <2>2. ASSUME NEW g \in Guid, NEW cmd \in {"create", "create_offline", "tsnap"},
               CreateSnapshot(cmd, g)
        PROVE  TreeInv'
    BY <2>2, CreateSnapshotTree DEF CreateCmds
  <2>3. ASSUME NEW g \in Guid, NEW old \in Guid, SwitchSnapshot("switch_keep", g, old)
        PROVE  TreeInv'
    BY <2>1, <2>3, SwitchSnapshotTree
  <2>4. ASSUME NEW g \in Guid, NEW cmd \in {"switch", "switch_dup", "reset"},
               SwitchSnapshot(cmd, g, TopDelta)
        PROVE  TreeInv'
    BY <2>1, <2>4, SwitchSnapshotTree
  <2> QED
    BY <1>2, <2>2, <2>3, <2>4, DeleteSnapshotTree, MergeSnapshotTree, MountTree,
       UmountTree, OutsideTree, Zenon DEF Call
<1>3. CASE Environment
  BY <1>3, OutsideTree DEF Environment
<1>4. CASE Failure
  BY <1>4, StoppedTree, FailMergeTree, FailUnlinkTree, FailTempMountTree DEF Failure
<1>5. CASE UNCHANGED vars
  BY <1>5, TreeKept DEF vars
<1> QED
  BY <1>1, <1>2, <1>3, <1>4, <1>5 DEF Next

\* TreeInv holds in every reachable state, whatever fails.
THEOREM TreeInvariance == ASSUME TreeOnly PROVE Spec => []TreeInv
<1>1. Init => TreeInv
  BY InitTree
<1>2. SnapshotInv /\ TreeInv /\ [Next]_vars => TreeInv'
  BY NextTree
<1> QED
  BY <1>1, <1>2, Invariance, PTL DEF Spec

\* DiskDescriptor.xml is a well-formed snapshot tree at every step of every
\* creation, deletion, merge, switch and mount, and after every fault, as
\* long as no client deletes or resets the top delta or adds a second one.
THEOREM TreeStays == ASSUME TreeOnly PROVE Spec => []TreeOK
<1>1. SnapshotInv /\ TreeInv => TreeOK
  BY TreeWellFormed DEF SnapshotInv, TypeOK, StorageOK, TreeInv, TreeOK
<1> QED
  BY <1>1, Invariance, TreeInvariance, PTL

-----------------------------------------------------------------------------
(* No file is left behind.                                                 *)

\* the steps at which the image files are the ones DiskDescriptor.xml lists
ListedPcs == ReadPcs \cup {"idle", "um_stop", "dl_store", "cr_delta", "sw_delta"}

\* the image files there are, at every step of an operation
Linked ==
  /\ op.pc \in ListedPcs => link = FilesOf(dd)
  /\ op.pc \in {"cr_ioctl", "cr_rename", "sw_rename"}
       => link = FilesOf(dd) \cup ({op.file} \ {NoFile})
  /\ op.pc \in UnnamedPcs \cup {"mg_unlinkold"}
       => link = FilesOf(dd) \cup (IF op.new THEN {op.file} ELSE {})
  /\ op.pc = "mg_rename" => link = FilesOf(op.di) \cup {op.del}
  /\ op.pc \in UnlinkPcs => link = FilesOf(dd) \cup {op.del}

\* the files the descriptor of the operation lists, next to the stored one's
Lists ==
  /\ op.pc \in {"cr_delta", "cr_ioctl", "cr_rename"}
       => FilesOf(op.di) = FilesOf(dd) \cup ({op.file} \ {NoFile})
  /\ op.pc \in {"sw_delta", "sw_rename"}
       => /\ FilesOf(op.di) = (FilesOf(dd) \ {op.del}) \cup ({op.file} \ {NoFile})
          /\ op.del \in FilesOf(dd) \cup {NoFile}
  /\ op.pc \in UnnamedPcs \cup {"dl_store"}
       => op.del \in FilesOf(dd) /\ FilesOf(op.di) = FilesOf(dd) \ {op.del}
  /\ op.pc \in UnnamedPcs /\ op.new
       => /\ op.file \notin FilesOf(dd)
          /\ Has(op.di, op.child)
          /\ FileOf(op.di, op.child) = op.old
  /\ op.pc = "mg_unlinkold"
       => /\ op.new
          /\ op.file \notin FilesOf(dd)
          /\ op.del \in FilesOf(dd)
          /\ op.old \in FilesOf(dd) \ {op.del}
          /\ FilesOf(op.di) = (FilesOf(dd) \ {op.del, op.old}) \cup {op.file}
  /\ op.pc \in {"sw_delta", "sw_rename", "mg_rename"} \cup UnlinkPcs
       => op.del \notin FilesOf(op.di)

\* the descriptors: the one in memory, the stored one and conf.tmp
Copies ==
  /\ UniqueFiles(dd)
  /\ op.pc \in ReadPcs \cup UnlinkPcs => op.di = dd
  /\ op.pc = "dl_store" => UniqueFiles(op.di)
  /\ op.pc \in StoredPcs => op.di = tmp /\ UniqueFiles(tmp)
  /\ op.pc \notin StoredPcs => tmp = NoDi

\* What holds as long as nothing has failed.
Clean ==
  /\ Linked
  /\ Lists
  /\ Copies
  /\ dev.mntn = "off"
  /\ op.new => "merge_new" \in Ops

\* A merge into a new delta renames an entry, which the tree makes the only one
\* of its uuid.
NewDeltaInTree == "merge_new" \in Ops => TreeOnly

-----------------------------------------------------------------------------
(* Facts about the helpers.                                                *)

\* No descriptor lists a file without a name.
LEMMA FilesNamed == ASSUME NEW di \in Descriptor
                    PROVE  FilesOf(di) \subseteq File /\ NoFile \notin FilesOf(di)
<1>1. \A i \in DOMAIN di.ent : di.ent[i].file \in File
  BY EntriesType DEF Entry
<1> QED
  BY <1>1, SnapshotAssumption DEF FilesOf

\* At the end of an operation only the stored descriptor counts.
LEMMA CleanEnded ==
  ASSUME op' = NoOp, tmp' = NoDi, link' = FilesOf(dd'), UniqueFiles(dd'), dev'.mntn = "off"
  PROVE  Clean'
<1>1. op'.pc = "idle" /\ ~ op'.new
  BY DEF NoOp
<1> QED
  BY <1>1 DEF Clean, Linked, Lists, Copies, ListedPcs, ReadPcs, UnlinkPcs, StoredPcs,
         NewDeltaPcs, UnnamedPcs

\* The same while an operation reads the stored descriptor.
LEMMA CleanReading ==
  ASSUME op'.pc \in ReadPcs \cup {"um_stop"}, op'.di = dd', tmp' = NoDi,
         link' = FilesOf(dd'), UniqueFiles(dd'), dev'.mntn = "off",
         op'.new => "merge_new" \in Ops
  PROVE  Clean'
<1>1. op'.pc \notin UnlinkPcs \cup StoredPcs \cup {"dl_store"} /\ op'.pc \in ListedPcs
  BY DEF ListedPcs, ReadPcs, UnlinkPcs, StoredPcs, NewDeltaPcs, UnnamedPcs
<1> QED
  BY <1>1 DEF Clean, Linked, Lists, Copies, StoredPcs, NewDeltaPcs, UnnamedPcs, UnlinkPcs

\* The same when a deletion or a merge returns to its caller.
LEMMA CleanReturned ==
  ASSUME NEW o \in Operation, Locals(o), NEW ok \in BOOLEAN, op' = Return(o, ok),
         ok => o.di = dd', o.new => "merge_new" \in Ops, tmp' = NoDi,
         link' = FilesOf(dd'), UniqueFiles(dd'), dev'.mntn = "off"
  PROVE  Clean'
<1>1. CASE op' = NoOp
  BY <1>1, CleanEnded
<1>2. CASE op' # NoOp
  <2>1. /\ op'.pc \in {"mtmp", "mg", "mg2", "um_stop"} /\ op'.di = dd'
        /\ op'.new => o.new
    BY <1>2, ReturnIs
  <2> QED
    BY <2>1, CleanReading DEF ReadPcs
<1> QED
  BY <1>1, <1>2

\* A step that leaves the directory, the descriptors and the operation alone.
LEMMA CleanKept ==
  ASSUME Clean, UNCHANGED <<dd, tmp, link, op>>, dev'.mntn = dev.mntn
  PROVE  Clean'
  BY DEF Clean, Linked, Lists, Copies

\* What holds where an operation reads the stored descriptor.
LEMMA CleanHere ==
  ASSUME Clean, op.pc \in ReadPcs \cup {"idle", "um_stop"}
  PROVE  /\ link = FilesOf(dd) /\ tmp = NoDi /\ UniqueFiles(dd) /\ dev.mntn = "off"
         /\ op.pc \in ReadPcs => op.di = dd
         /\ op.new => "merge_new" \in Ops
<1>1. op.pc \notin StoredPcs
  BY DEF ReadPcs, StoredPcs, NewDeltaPcs, UnnamedPcs
<1> QED
  BY <1>1 DEF Clean, Linked, Copies, ListedPcs

-----------------------------------------------------------------------------
(* Actions.                                                                *)

\* complete_running_operation finds nothing to complete, a deletion or a merge
\* is refused: no file is touched.
LEMMA CompleteNothingClean ==
  ASSUME SnapshotInv, Clean, CompleteNothing PROVE Clean'
<1> USE DEF SnapshotInv, TypeOK, CompleteNothing, At, files, world, ghosts
<1>1. op.pc = "complete" /\ op.ret \in {"mtmp", "mg2", "um_stop"}
  BY DEF Operation, Locals, Rets
<1>2. op'.pc = op.ret /\ op'.di = op.di /\ op'.new = op.new
  BY DEF Operation
<1>3. /\ link = FilesOf(dd) /\ tmp = NoDi /\ UniqueFiles(dd) /\ dev.mntn = "off"
      /\ op.di = dd /\ (op.new => "merge_new" \in Ops)
  BY <1>1, CleanHere DEF ReadPcs
<1>4. UNCHANGED <<dd, tmp, link, dev>>
  OBVIOUS
<1>5. op'.pc \in ReadPcs \cup {"um_stop"}
  BY <1>1, <1>2 DEF ReadPcs
<1> QED
  BY <1>2, <1>3, <1>4, <1>5, CleanReading

\* Only a kill leaves a merge of the top delta behind.
LEMMA MntnMergeClean == ASSUME Clean, MntnMerge PROVE FALSE
  BY DEF Clean, MntnMerge

LEMMA MergeTemporaryClean ==
  ASSUME SnapshotInv, Clean, MergeTemporary PROVE Clean'
<1> DEFINE o(pc, i) == [op EXCEPT !.pc = pc, !.i = i]
           v(g, n) == [op EXCEPT !.pc = "del", !.victim = g, !.n = n]
<1>1. /\ op.pc = "mtmp" /\ op \in Operation /\ UNCHANGED <<dd, tmp, link, dev>>
      /\ \/ op' = [op EXCEPT !.pc = "cr", !.i = 0]
         \/ op' = NoOp
         \/ \E g, n : op' = [op EXCEPT !.pc = "del", !.victim = g, !.n = n]
         \/ op' = [op EXCEPT !.i = @ + 1]
  BY DEF MergeTemporary, At, files, SnapshotInv, TypeOK
<1>2. /\ link = FilesOf(dd) /\ tmp = NoDi /\ UniqueFiles(dd) /\ dev.mntn = "off"
      /\ op.di = dd /\ (op.new => "merge_new" \in Ops)
  BY <1>1, CleanHere DEF ReadPcs
<1>3. CASE op' = NoOp
  BY <1>1, <1>2, <1>3, CleanEnded
<1>4. CASE op' # NoOp
  <2>1. op'.pc \in {"cr", "del", "mtmp"} /\ op'.di = op.di /\ op'.new = op.new
    BY <1>1, <1>4 DEF Operation
  <2> QED
    BY <1>1, <1>2, <2>1, CleanReading DEF ReadPcs
<1> QED
  BY <1>3, <1>4

\* A refused deletion or merge, and the deletion of a marked snapshot.
LEMMA RefusedClean ==
  ASSUME SnapshotInv, Clean, DeleteRefused \/ DeleteMarked \/ MergeRefused PROVE Clean'
<1>1. PICK ok \in BOOLEAN : op' = Return(op, ok)
  BY DEF DeleteRefused, DeleteMarked, MergeRefused, Running
<1>2. /\ op.pc \in {"del", "mg", "mg2"} /\ UNCHANGED <<dd, tmp, link, dev>>
      /\ op \in Operation /\ Locals(op)
  BY DEF DeleteRefused, DeleteMarked, MergeRefused, MergeAt, At, files, SnapshotInv, TypeOK
<1>3. /\ link = FilesOf(dd) /\ tmp = NoDi /\ UniqueFiles(dd) /\ dev.mntn = "off"
      /\ op.di = dd /\ (op.new => "merge_new" \in Ops)
  BY <1>2, CleanHere DEF ReadPcs
<1> QED
  BY <1>1, <1>2, <1>3, CleanReturned

\* A leaf is taken out of the descriptor in memory.
LEMMA DeleteLeafClean == ASSUME SnapshotInv, Clean, DeleteLeaf PROVE Clean'
<1> DEFINE g == op.victim
           rest == RemoveImage(op.di, g, TRUE)
           f == FileOf(op.di, g)
<1>1. /\ UNCHANGED <<dd, tmp, link, dev>> /\ op.pc = "del" /\ Has(op.di, g)
      /\ op' = [op EXCEPT !.pc = "dl_store", !.del = f, !.di = rest]
      /\ op \in Operation /\ op.di \in Descriptor
  BY DEF DeleteLeaf, At, files, SnapshotInv, TypeOK, Operation
<1>2. /\ link = FilesOf(dd) /\ tmp = NoDi /\ UniqueFiles(dd) /\ dev.mntn = "off"
      /\ op.di = dd /\ (op.new => "merge_new" \in Ops)
  BY <1>1, CleanHere DEF ReadPcs
<1>3. /\ FilesOf(rest) = FilesOf(dd) \ {f} /\ f \in FilesOf(dd)
      /\ UniqueFiles(rest)
  <2>1. UniqueFiles(op.di) /\ Has(op.di, g)
    BY <1>1, <1>2
  <2> QED
    BY <1>1, <1>2, <2>1, RemoveImageFiles
<1> HIDE DEF g, rest, f
<1>4. /\ op'.pc = "dl_store" /\ op'.del = f /\ op'.di = rest /\ op'.new = op.new
  BY <1>1 DEF Operation
<1> QED
  BY <1>1, <1>2, <1>3, <1>4 DEF Clean, Linked, Lists, Copies, ListedPcs, ReadPcs,
     UnlinkPcs, StoredPcs, NewDeltaPcs, UnnamedPcs

\* The descriptor without the leaf is stored; the leaf's file is the only one
\* that it does not list.
LEMMA DeleteStoreClean == ASSUME SnapshotInv, Clean, DeleteStore PROVE Clean'
<1>1. /\ UNCHANGED <<tmp, link, dev>> /\ op.pc = "dl_store" /\ dd' = op.di
      /\ op' = [op EXCEPT !.pc = "dl_unlink"] /\ op \in Operation
  BY DEF DeleteStore, At, SnapshotInv, TypeOK
<1>2. /\ op'.pc = "dl_unlink" /\ op'.del = op.del /\ op'.di = op.di /\ op'.new = op.new
  BY <1>1 DEF Operation
<1>3. /\ link = FilesOf(dd) /\ tmp = NoDi /\ UniqueFiles(op.di) /\ dev.mntn = "off"
      /\ op.del \in FilesOf(dd) /\ FilesOf(op.di) = FilesOf(dd) \ {op.del}
      /\ op.new => "merge_new" \in Ops
  BY <1>1 DEF Clean, Linked, Lists, Copies, ListedPcs, StoredPcs, NewDeltaPcs, UnnamedPcs
<1>4. link' = FilesOf(dd') \cup {op'.del} /\ op'.del \notin FilesOf(dd')
  BY <1>1, <1>2, <1>3
<1> QED
  BY <1>1, <1>2, <1>3, <1>4 DEF Clean, Linked, Lists, Copies, ListedPcs, ReadPcs,
     UnlinkPcs, StoredPcs, NewDeltaPcs, UnnamedPcs

\* The file that is no longer listed goes.
LEMMA UnlinkClean ==
  ASSUME SnapshotInv, Clean, DeleteUnlink \/ MergeUnlink \/ SwitchUnlink PROVE Clean'
<1>1. /\ op.pc \in UnlinkPcs /\ link' = link \ {op.del} /\ UNCHANGED <<dd, tmp, dev>>
      /\ op \in Operation /\ Locals(op)
  BY DEF DeleteUnlink, MergeUnlink, SwitchUnlink, At, UnlinkPcs, SnapshotInv, TypeOK
<1>2. \/ op' = NoOp
      \/ \E ok \in BOOLEAN : op' = Return(op, ok)
  BY DEF DeleteUnlink, MergeUnlink, SwitchUnlink
<1>3. op.pc \notin StoredPcs
  BY <1>1 DEF UnlinkPcs, StoredPcs, NewDeltaPcs, UnnamedPcs
<1>4. /\ link = FilesOf(dd) \cup {op.del} /\ tmp = NoDi /\ UniqueFiles(dd)
      /\ dev.mntn = "off" /\ op.di = dd /\ op.del \notin FilesOf(dd)
      /\ op.new => "merge_new" \in Ops
  BY <1>1, <1>3 DEF Clean, Linked, Lists, Copies
<1>5. link' = FilesOf(dd') /\ tmp' = NoDi /\ UniqueFiles(dd') /\ dev'.mntn = "off"
  BY <1>1, <1>4
<1>6. CASE op' = NoOp
  BY <1>5, <1>6, CleanEnded
<1>7. ASSUME NEW ok \in BOOLEAN, op' = Return(op, ok) PROVE Clean'
  BY <1>1, <1>4, <1>5, <1>7, CleanReturned
<1> QED
  BY <1>2, <1>6, <1>7

\* A deletion by merge begins with the merge's checks.
LEMMA DeleteByMergeClean == ASSUME SnapshotInv, Clean, DeleteByMerge PROVE Clean'
<1>1. /\ op.pc = "del" /\ UNCHANGED <<dd, tmp, link, dev>> /\ op \in Operation
      /\ op' = [op EXCEPT !.pc = "mg", !.child = ChildOf(op.di, op.victim)]
  BY DEF DeleteByMerge, At, files, SnapshotInv, TypeOK
<1>2. op'.pc = "mg" /\ op'.di = op.di /\ op'.new = op.new
  BY <1>1 DEF Operation
<1>3. /\ link = FilesOf(dd) /\ tmp = NoDi /\ UniqueFiles(dd) /\ dev.mntn = "off"
      /\ op.di = dd /\ (op.new => "merge_new" \in Ops)
  BY <1>1, CleanHere DEF ReadPcs
<1> QED
  BY <1>1, <1>2, <1>3, CleanReading DEF ReadPcs

\* A snapshot with several children is marked.
LEMMA DeleteMarkClean == ASSUME SnapshotInv, Clean, DeleteMark PROVE Clean'
<1> DEFINE m == SetTemporary(op.di, op.victim)
           o == [op EXCEPT !.di = m]
<1>1. /\ op.pc = "del" /\ UNCHANGED <<tmp, link, dev>> /\ op \in Operation /\ Locals(op)
      /\ dd' = m /\ op' = Return(o, TRUE) /\ op.di \in Descriptor
  BY DEF DeleteMark, At, SnapshotInv, TypeOK, Operation
<1>2. /\ link = FilesOf(dd) /\ tmp = NoDi /\ UniqueFiles(dd) /\ dev.mntn = "off"
      /\ op.di = dd /\ (op.new => "merge_new" \in Ops)
  BY <1>1, CleanHere DEF ReadPcs
<1>3. m \in Descriptor /\ FilesOf(m) = FilesOf(dd) /\ UniqueFiles(m)
  BY <1>1, <1>2, SetTemporaryType, SetTemporaryFiles, SameFilesFacts
<1> HIDE DEF m
<1>4. o \in Operation /\ o.di = m /\ o.new = op.new /\ Locals(o)
  <2>1. o \in Operation
    BY <1>1, <1>3, SetOp
  <2>2. /\ o.di = m /\ o.new = op.new /\ o.pc = op.pc /\ o.ret = op.ret /\ o.i = op.i
        /\ o.file = op.file /\ o.del = op.del /\ o.old = op.old
    BY <1>1 DEF Operation
  <2> HIDE DEF o
  <2> QED
    BY <1>1, <2>1, <2>2 DEF Locals
<1> HIDE DEF o
<1> QED
  BY <1>1, <1>2, <1>3, <1>4, CleanReturned

\* A merge that has to complete another one first has nothing to complete.
LEMMA MergeCompleteClean == ASSUME Clean, MergeComplete PROVE FALSE
  BY DEF Clean, MergeComplete, MustComplete

\* The merged descriptor goes to conf.tmp: it lists all files but the child's;
\* a new delta is a file more.
LEMMA MergeBeginClean ==
  ASSUME SnapshotInv, NewDeltaInTree, TreeOnly => TreeInv, Clean, MergeBegin
  PROVE  Clean'
<1> DEFINE c == op.child
           p == ParentOf(op.di, c)
           merged == MergeImage(op.di, c)
           kern == Level(FileOf(op.di, c)) > 0
           top == kern /\ FileOf(op.di, c) = Top(dev.stack)
           target == IF op.new THEN NewFile ELSE FileOf(op.di, p)
           fo == FileOf(op.di, p)
           fd == FileOf(op.di, c)
           todo == IF top /\ ~ op.new THEN {} ELSE Block
<1>1. /\ op.pc \in {"mg", "mg2"} /\ CanMerge(op.di, c) /\ Has(op.di, p)
      /\ dd' = dd /\ dev' = dev /\ tmp' = merged
      /\ op.new => NameLeft
      /\ link' = IF op.new THEN link \cup {target} ELSE link
      /\ op' = [op EXCEPT !.pc = "mg_copy", !.di = merged, !.kern = kern,
                          !.top = top, !.file = target, !.old = fo,
                          !.del = fd, !.todo = todo]
  BY DEF MergeBegin, MergeAt, At, MergeChecked
<1>2. op \in Operation /\ op.di \in Descriptor /\ c \in AnyGuid
  BY DEF SnapshotInv, TypeOK, Operation
<1>3. /\ link = FilesOf(dd) /\ tmp = NoDi /\ UniqueFiles(dd) /\ dev.mntn = "off"
      /\ op.di = dd /\ (op.new => "merge_new" \in Ops)
  BY <1>1, CleanHere DEF ReadPcs
<1>4. /\ FilesOf(merged) = FilesOf(dd) \ {fd} /\ fd \in FilesOf(dd)
      /\ UniqueFiles(merged)
  <2>1. UniqueFiles(op.di) /\ Has(op.di, c)
    BY <1>1, <1>3 DEF CanMerge
  <2> QED
    BY <1>2, <1>3, <2>1, MergeImageFiles
<1>5. op.new => Has(merged, c) /\ FileOf(merged, c) = fo
  <2> SUFFICES ASSUME op.new PROVE Has(merged, c) /\ FileOf(merged, c) = fo
    OBVIOUS
  <2>1. Tree(op.di)
    BY <1>3 DEF NewDeltaInTree, TreeInv
  <2> QED
    BY <1>1, <1>2, <2>1, MergedChild
<1>6. op.new => target = NewFile /\ NewFile \notin FilesOf(dd)
  BY <1>1, NewFileIs DEF Taken
<1> HIDE DEF c, p, merged, kern, top, target, fo, fd, todo
<1>7. /\ op'.pc = "mg_copy" /\ op'.di = merged /\ op'.file = target
      /\ op'.old = fo /\ op'.del = fd /\ op'.new = op.new /\ op'.child = op.child
  BY <1>1, <1>2 DEF Operation
<1>8. Linked'
  BY <1>1, <1>3, <1>7 DEF Linked, ListedPcs, ReadPcs, UnnamedPcs, UnlinkPcs
<1>9. Lists'
  BY <1>1, <1>4, <1>5, <1>6, <1>7 DEF Lists, NewDeltaPcs, UnnamedPcs, UnlinkPcs, c
<1>10. Copies'
  BY <1>1, <1>3, <1>4, <1>7 DEF Copies, ReadPcs, UnlinkPcs, StoredPcs, NewDeltaPcs, UnnamedPcs
<1> QED
  BY <1>1, <1>3, <1>7, <1>8, <1>9, <1>10 DEF Clean

\* Between the store to conf.tmp and the naming of a new delta: a step that
\* changes neither the files nor the descriptors.
LEMMA CleanOnward ==
  ASSUME Clean, UNCHANGED <<dd, tmp, link>>, op.pc \in UnnamedPcs,
         op'.pc \in UnnamedPcs \cup {"mg_rename"}, op'.pc = "mg_rename" => ~ op.new,
         op'.di = op.di, op'.file = op.file, op'.del = op.del, op'.old = op.old,
         op'.new = op.new, op'.child = op.child, dev'.mntn = "off"
  PROVE  Clean'
<1>1. /\ link = FilesOf(dd) \cup (IF op.new THEN {op.file} ELSE {})
      /\ op.del \in FilesOf(dd) /\ FilesOf(op.di) = FilesOf(dd) \ {op.del}
      /\ op.di = tmp /\ UniqueFiles(tmp) /\ UniqueFiles(dd)
      /\ op.new => "merge_new" \in Ops
      /\ op.new => /\ op.file \notin FilesOf(dd)
                   /\ Has(op.di, op.child)
                   /\ FileOf(op.di, op.child) = op.old
  BY DEF Clean, Linked, Lists, Copies, StoredPcs
<1>2. Linked'
  BY <1>1 DEF Linked, ListedPcs, ReadPcs, UnnamedPcs, UnlinkPcs
<1>3. Lists'
  BY <1>1 DEF Lists, NewDeltaPcs, UnnamedPcs, UnlinkPcs
<1>4. Copies'
  BY <1>1 DEF Copies, ReadPcs, UnlinkPcs, StoredPcs, NewDeltaPcs, UnnamedPcs
<1> QED
  BY <1>1, <1>2, <1>3, <1>4 DEF Clean

\* Copying, and replacing a delta of the device: no file comes or goes.
LEMMA MergeCopyClean ==
  ASSUME SnapshotInv, Clean, NEW b \in Block, MergeCopy(b) PROVE Clean'
<1>1. /\ op.pc = "mg_copy" /\ UNCHANGED <<dd, tmp, link, dev>>
      /\ op' = [op EXCEPT !.todo = @ \ {b}] /\ op \in Operation /\ dev.mntn = "off"
  BY DEF MergeCopy, At, SnapshotInv, TypeOK, Clean
<1>2. /\ op'.pc = op.pc /\ op'.di = op.di /\ op'.file = op.file /\ op'.del = op.del
      /\ op'.old = op.old /\ op'.new = op.new /\ op'.child = op.child
  BY <1>1 DEF Operation
<1> QED
  BY <1>1, <1>2, CleanOnward DEF UnnamedPcs

\* Where a merge goes on after its copy or the device's part.
LEMMA MergedIs ==
  ASSUME NEW o \in Operation
  PROVE  /\ Merged(o).pc = IF o.new THEN "mg_swap" ELSE "mg_rename"
         /\ Merged(o).di = o.di /\ Merged(o).file = o.file /\ Merged(o).del = o.del
         /\ Merged(o).old = o.old /\ Merged(o).new = o.new /\ Merged(o).child = o.child
<1> DEFINE v == IF o.new THEN "mg_swap" ELSE "mg_rename"
<1>1. Merged(o) = [o EXCEPT !.pc = v]
  BY DEF Merged
<1> HIDE DEF v
<1>2. /\ [o EXCEPT !.pc = v].pc = v /\ [o EXCEPT !.pc = v].di = o.di
      /\ [o EXCEPT !.pc = v].file = o.file /\ [o EXCEPT !.pc = v].del = o.del
      /\ [o EXCEPT !.pc = v].old = o.old /\ [o EXCEPT !.pc = v].new = o.new
      /\ [o EXCEPT !.pc = v].child = o.child
  BY DEF Operation
<1> QED
  BY <1>1, <1>2 DEF v

LEMMA MergeCopiedClean == ASSUME SnapshotInv, Clean, MergeCopied PROVE Clean'
<1>1. /\ op.pc = "mg_copy" /\ UNCHANGED <<dd, tmp, link, dev>> /\ op \in Operation
      /\ dev.mntn = "off" /\ op.new \in BOOLEAN /\ op.kern \in BOOLEAN
  BY DEF MergeCopied, At, files, SnapshotInv, TypeOK, Operation, Clean
<1>2. \/ op.new /\ op' = [op EXCEPT !.pc = "mg_replace"]
      \/ ~ op.new /\ op' = [op EXCEPT !.pc = "mg_ioctl"]
      \/ op' = Merged(op)
  BY <1>1 DEF MergeCopied
<1>3. /\ op'.pc \in UnnamedPcs \cup {"mg_rename"} /\ (op'.pc = "mg_rename" => ~ op.new)
      /\ op'.di = op.di /\ op'.file = op.file /\ op'.del = op.del
      /\ op'.old = op.old /\ op'.new = op.new /\ op'.child = op.child
  <2>1. CASE op' = Merged(op)
    BY <1>1, <2>1, MergedIs DEF UnnamedPcs
  <2>2. CASE op' = [op EXCEPT !.pc = "mg_replace"] \/ op' = [op EXCEPT !.pc = "mg_ioctl"]
    BY <1>1, <2>2 DEF UnnamedPcs, Operation
  <2> QED
    BY <1>2, <2>1, <2>2
<1> QED
  BY <1>1, <1>3, CleanOnward DEF UnnamedPcs

LEMMA MergeReplaceClean == ASSUME SnapshotInv, Clean, MergeReplace PROVE Clean'
<1>1. /\ op.pc = "mg_replace" /\ UNCHANGED <<dd, tmp, link>> /\ op \in Operation
      /\ op' = [op EXCEPT !.pc = "mg_ioctl"]
      /\ dev' = [dev EXCEPT !.stack[Level(op.old)] = op.file] /\ dev \in Device
      /\ dev.mntn = "off"
  BY DEF MergeReplace, At, files, SnapshotInv, TypeOK, DevicesOK, Clean
<1>2. dev'.mntn = "off"
  BY <1>1 DEF Device
<1>3. /\ op'.pc = "mg_ioctl" /\ op'.di = op.di /\ op'.file = op.file /\ op'.del = op.del
      /\ op'.old = op.old /\ op'.new = op.new /\ op'.child = op.child
  BY <1>1 DEF Operation
<1> QED
  BY <1>1, <1>2, <1>3, CleanOnward DEF UnnamedPcs

LEMMA MergeIoctlClean == ASSUME SnapshotInv, Clean, MergeIoctl PROVE Clean'
<1>1. /\ op.pc = "mg_ioctl" /\ UNCHANGED <<dd, tmp, link>> /\ op \in Operation
      /\ op' = Merged(op) /\ dev'.mntn = "off" /\ op.new \in BOOLEAN
  BY DEF MergeIoctl, At, SnapshotInv, TypeOK, Operation
<1>2. /\ op'.pc \in UnnamedPcs \cup {"mg_rename"} /\ (op'.pc = "mg_rename" => ~ op.new)
      /\ op'.di = op.di /\ op'.file = op.file /\ op'.del = op.del
      /\ op'.old = op.old /\ op'.new = op.new /\ op'.child = op.child
  BY <1>1, MergedIs DEF UnnamedPcs
<1> QED
  BY <1>1, <1>2, CleanOnward DEF UnnamedPcs

\* The new delta is named in conf.tmp instead of the parent's.
LEMMA MergeSwapClean == ASSUME SnapshotInv, Clean, MergeSwap PROVE Clean'
<1> DEFINE sw == SetFile(op.di, op.child, op.file)
<1>1. /\ op.pc = "mg_swap" /\ UNCHANGED <<dd, link, dev>> /\ op \in Operation
      /\ tmp' = sw /\ op' = [op EXCEPT !.pc = "mg_unlinkold", !.di = sw]
      /\ op.di \in Descriptor
  BY DEF MergeSwap, At, SnapshotInv, TypeOK, Operation
<1>2. op.new /\ op.file \in File
  BY <1>1 DEF SnapshotInv, Locals
<1>3. /\ link = FilesOf(dd) \cup {op.file} /\ dev.mntn = "off" /\ "merge_new" \in Ops
      /\ op.del \in FilesOf(dd) /\ FilesOf(op.di) = FilesOf(dd) \ {op.del}
      /\ UniqueFiles(op.di) /\ UniqueFiles(dd)
      /\ op.file \notin FilesOf(dd)
      /\ Has(op.di, op.child) /\ FileOf(op.di, op.child) = op.old
  BY <1>1, <1>2 DEF Clean, Linked, Lists, Copies, UnnamedPcs, StoredPcs
<1>4. op.file \notin FilesOf(op.di)
  BY <1>3
<1>5. /\ FilesOf(sw) = (FilesOf(op.di) \ {op.old}) \cup {op.file}
      /\ op.old \in FilesOf(op.di)
      /\ UniqueFiles(sw)
  BY <1>1, <1>2, <1>3, <1>4, SetFileFiles
<1> HIDE DEF sw
<1>6. /\ op'.pc = "mg_unlinkold" /\ op'.di = sw /\ op'.file = op.file
      /\ op'.del = op.del /\ op'.old = op.old /\ op'.new = op.new
  BY <1>1 DEF Operation
<1>7. Linked'
  BY <1>1, <1>2, <1>3, <1>6 DEF Linked, ListedPcs, ReadPcs, UnnamedPcs, UnlinkPcs
<1>8. FilesOf(sw) = (FilesOf(dd) \ {op.del, op.old}) \cup {op.file}
  BY <1>3, <1>5
<1>9. Lists'
  BY <1>1, <1>2, <1>3, <1>5, <1>6, <1>8 DEF Lists, NewDeltaPcs, UnnamedPcs, UnlinkPcs
<1>10. Copies'
  BY <1>1, <1>3, <1>5, <1>6 DEF Copies, ReadPcs, UnlinkPcs, StoredPcs, NewDeltaPcs, UnnamedPcs
<1> QED
  BY <1>1, <1>3, <1>6, <1>7, <1>9, <1>10 DEF Clean

\* The old delta goes: what is left is listed in conf.tmp, but for the child's.
LEMMA MergeUnlinkOldClean == ASSUME SnapshotInv, Clean, MergeUnlinkOld PROVE Clean'
<1>1. /\ op.pc = "mg_unlinkold" /\ UNCHANGED <<dd, tmp, dev>> /\ op \in Operation
      /\ link' = link \ {op.old} /\ op' = [op EXCEPT !.pc = "mg_rename"]
  BY DEF MergeUnlinkOld, At, SnapshotInv, TypeOK
<1>2. /\ link = FilesOf(dd) \cup {op.file} /\ dev.mntn = "off" /\ "merge_new" \in Ops
      /\ op.del \in FilesOf(dd) /\ op.old \in FilesOf(dd) \ {op.del}
      /\ op.file \notin FilesOf(dd)
      /\ FilesOf(op.di) = (FilesOf(dd) \ {op.del, op.old}) \cup {op.file}
      /\ op.di = tmp /\ UniqueFiles(tmp) /\ UniqueFiles(dd)
  BY <1>1 DEF Clean, Linked, Lists, Copies, StoredPcs
<1>3. /\ op'.pc = "mg_rename" /\ op'.di = op.di /\ op'.del = op.del
  BY <1>1 DEF Operation
<1>4. link' = FilesOf(op.di) \cup {op.del} /\ op.del \notin FilesOf(op.di)
  BY <1>1, <1>2
<1> QED
  BY <1>1, <1>2, <1>3, <1>4 DEF Clean, Linked, Lists, Copies, ListedPcs, ReadPcs,
     UnlinkPcs, StoredPcs, NewDeltaPcs, UnnamedPcs

\* conf.tmp becomes DiskDescriptor.xml; the child's file is left to unlink.
LEMMA MergeRenameClean == ASSUME SnapshotInv, Clean, MergeRename PROVE Clean'
<1>1. /\ op.pc = "mg_rename" /\ UNCHANGED <<link, dev>> /\ op \in Operation
      /\ dd' = tmp /\ tmp' = NoDi /\ op' = [op EXCEPT !.pc = "mg_unlink"]
  BY DEF MergeRename, At, SnapshotInv, TypeOK
<1>2. /\ link = FilesOf(op.di) \cup {op.del} /\ dev.mntn = "off"
      /\ op.del \notin FilesOf(op.di) /\ op.di = tmp /\ UniqueFiles(tmp)
      /\ op.new => "merge_new" \in Ops
  BY <1>1 DEF Clean, Linked, Lists, Copies, StoredPcs
<1>3. /\ op'.pc = "mg_unlink" /\ op'.di = op.di /\ op'.del = op.del /\ op'.new = op.new
  BY <1>1 DEF Operation
<1> QED
  BY <1>1, <1>2, <1>3 DEF Clean, Linked, Lists, Copies, ListedPcs, ReadPcs,
     UnlinkPcs, StoredPcs, NewDeltaPcs, UnnamedPcs

\* The descriptor with the new top delta goes to conf.tmp: it lists one file
\* more than there are.
LEMMA CreateStoreClean == ASSUME SnapshotInv, Clean, CreateStore PROVE Clean'
<1> DEFINE named == ChangeGuid(op.di, op.di.top, op.guid)
           flagged == IF op.cmd = "tsnap" THEN SetTemporary(named, op.guid)
                                          ELSE named
           added == AddImage(flagged, NewFile, TopDelta, op.guid)
<1>1. /\ op.pc = "cr" /\ NameLeft /\ UNCHANGED <<dd, link, dev>> /\ tmp' = added
      /\ op' = [op EXCEPT !.pc = "cr_delta", !.di = added, !.file = NewFile]
      /\ op \in Operation /\ op.di \in Descriptor /\ op.guid \in AnyGuid
  BY DEF CreateStore, At, SnapshotInv, TypeOK, Operation
<1>2. /\ link = FilesOf(dd) /\ tmp = NoDi /\ UniqueFiles(dd) /\ dev.mntn = "off"
      /\ op.di = dd /\ (op.new => "merge_new" \in Ops)
  BY <1>1, CleanHere DEF ReadPcs
<1>3. named \in Descriptor /\ FilesOf(named) = FilesOf(dd) /\ UniqueFiles(named)
  BY <1>1, <1>2, ChangeGuidType, ChangeGuidFiles, SameFilesFacts
<1> HIDE DEF named
<1>4. flagged \in Descriptor /\ FilesOf(flagged) = FilesOf(dd) /\ UniqueFiles(flagged)
  BY <1>3, SetTemporaryType, SetTemporaryFiles, SameFilesFacts
<1> HIDE DEF flagged
<1>5. NewFile \in File /\ NewFile \notin FilesOf(dd) /\ NewFile # NoFile
  BY <1>1, NewFileIs, SnapshotAssumption DEF Taken
<1>6. FilesOf(added) = FilesOf(dd) \cup {NewFile} /\ UniqueFiles(added)
  BY <1>4, <1>5, AddImageFiles
<1> HIDE DEF added
<1>7. /\ op'.pc = "cr_delta" /\ op'.di = added /\ op'.file = NewFile /\ op'.new = op.new
  BY <1>1 DEF Operation
<1>8. Lists'
  BY <1>1, <1>5, <1>6, <1>7 DEF Lists, UnnamedPcs, UnlinkPcs
<1> QED
  BY <1>1, <1>2, <1>6, <1>7, <1>8 DEF Clean, Linked, Copies, ListedPcs, ReadPcs,
     UnlinkPcs, StoredPcs, NewDeltaPcs, UnnamedPcs

\* On the way from a store to conf.tmp with a new delta to its rename.
LEMMA CleanCreating ==
  ASSUME Clean, UNCHANGED <<dd, tmp>>, op.pc \in NewDeltaPcs, op'.pc \in NewDeltaPcs,
         op.pc \in {"sw_delta", "sw_rename"} <=> op'.pc \in {"sw_delta", "sw_rename"},
         link' = FilesOf(dd) \cup ({op.file} \ {NoFile}),
         op'.pc \notin {"cr_delta", "sw_delta"},
         op'.di = op.di, op'.file = op.file, op'.del = op.del, op'.new = op.new,
         dev'.mntn = "off"
  PROVE  Clean'
<1>1. Linked'
  BY DEF Linked, ListedPcs, ReadPcs, UnnamedPcs, UnlinkPcs, NewDeltaPcs
<1>2. Lists'
  BY DEF Clean, Lists, UnnamedPcs, UnlinkPcs, NewDeltaPcs
<1>3. Copies'
  BY DEF Clean, Copies, ReadPcs, UnlinkPcs, StoredPcs, NewDeltaPcs, UnnamedPcs
<1> QED
  BY <1>1, <1>2, <1>3 DEF Clean

\* The new delta of a snapshot or of a switch is made.
LEMMA NewDeltaClean ==
  ASSUME SnapshotInv, Clean, CreateDelta \/ SwitchDelta PROVE Clean'
<1>1. /\ op.pc \in {"cr_delta", "sw_delta"} /\ UNCHANGED <<dd, tmp, dev>>
      /\ op \in Operation /\ link' = link \cup {op.file}
      /\ op.file \in File
  BY DEF CreateDelta, SwitchDelta, At, SnapshotInv, TypeOK, Locals
<1>2. \/ op.pc = "cr_delta" /\ op' = [op EXCEPT !.pc = "cr_ioctl"]
      \/ op.pc = "cr_delta" /\ op' = [op EXCEPT !.pc = "cr_rename"]
      \/ op.pc = "sw_delta" /\ op' = [op EXCEPT !.pc = "sw_rename"]
  BY DEF CreateDelta, SwitchDelta, At
<1>3. link = FilesOf(dd) /\ dev.mntn = "off"
  BY <1>1 DEF Clean, Linked, ListedPcs
<1>4. link' = FilesOf(dd) \cup ({op.file} \ {NoFile})
  BY <1>1, <1>3, SnapshotAssumption
<1>5. /\ op.pc \in NewDeltaPcs /\ op'.pc \in NewDeltaPcs
      /\ op.pc \in {"sw_delta", "sw_rename"} <=> op'.pc \in {"sw_delta", "sw_rename"}
      /\ op'.pc \notin {"cr_delta", "sw_delta"}
      /\ op'.di = op.di /\ op'.file = op.file /\ op'.del = op.del /\ op'.new = op.new
  BY <1>1, <1>2 DEF Operation, NewDeltaPcs
<1> QED
  BY <1>1, <1>3, <1>4, <1>5, CleanCreating

\* The device goes over to the new delta.
LEMMA CreateIoctlClean == ASSUME SnapshotInv, Clean, CreateIoctl PROVE Clean'
<1>1. /\ op.pc = "cr_ioctl" /\ UNCHANGED <<dd, tmp, link>> /\ op \in Operation
      /\ op' = [op EXCEPT !.pc = "cr_rename"]
      /\ dev' = [dev EXCEPT !.stack = Append(@, op.file)] /\ dev \in Device
      /\ dev.mntn = "off" /\ link = FilesOf(dd) \cup ({op.file} \ {NoFile})
  BY DEF CreateIoctl, At, files, SnapshotInv, TypeOK, DevicesOK, Clean, Linked
<1>2. dev'.mntn = "off"
  BY <1>1 DEF Device
<1>3. /\ op.pc \in NewDeltaPcs /\ op'.pc = "cr_rename"
      /\ op'.di = op.di /\ op'.file = op.file /\ op'.del = op.del /\ op'.new = op.new
  BY <1>1 DEF Operation, NewDeltaPcs
<1> QED
  BY <1>1, <1>2, <1>3, CleanCreating DEF NewDeltaPcs

\* conf.tmp becomes DiskDescriptor.xml: with the new delta every file is listed.
LEMMA CreateRenameClean == ASSUME SnapshotInv, Clean, CreateRename PROVE Clean'
<1>1. /\ op.pc = "cr_rename" /\ UNCHANGED <<link, dev>> /\ op \in Operation
      /\ dd' = tmp /\ tmp' = NoDi
      /\ op' = IF op.cmd = "tsnap" THEN [op EXCEPT !.pc = "ts_mount"] ELSE NoOp
  BY DEF CreateRename, At, SnapshotInv, TypeOK
<1>2. /\ link = FilesOf(tmp) /\ op.di = tmp /\ UniqueFiles(tmp) /\ dev.mntn = "off"
      /\ op.new => "merge_new" \in Ops
  BY <1>1 DEF Clean, Linked, Lists, Copies, StoredPcs, NewDeltaPcs
<1>3. CASE op.cmd = "tsnap"
  <2>1. op'.pc = "ts_mount" /\ op'.di = op.di /\ op'.new = op.new
    BY <1>1, <1>3 DEF Operation
  <2> QED
    BY <1>1, <1>2, <2>1, CleanReading DEF ReadPcs
<1>4. CASE op.cmd # "tsnap"
  BY <1>1, <1>2, <1>4, CleanEnded
<1> QED
  BY <1>3, <1>4

\* The same for a switch, where the old top delta may be left to unlink.
LEMMA SwitchRenameClean == ASSUME SnapshotInv, Clean, SwitchRename PROVE Clean'
<1>1. /\ op.pc = "sw_rename" /\ UNCHANGED <<link, dev>> /\ op \in Operation
      /\ dd' = tmp /\ tmp' = NoDi /\ dd \in Descriptor
      /\ op' = IF op.del = NoFile THEN NoOp ELSE [op EXCEPT !.pc = "sw_unlink"]
  BY DEF SwitchRename, At, SnapshotInv, TypeOK, StorageOK
<1>2. /\ link = FilesOf(dd) \cup ({op.file} \ {NoFile})
      /\ FilesOf(tmp) = (FilesOf(dd) \ {op.del}) \cup ({op.file} \ {NoFile})
      /\ op.del \in FilesOf(dd) \cup {NoFile} /\ op.del \notin FilesOf(tmp)
      /\ op.di = tmp /\ UniqueFiles(tmp) /\ dev.mntn = "off"
      /\ op.new => "merge_new" \in Ops
  BY <1>1 DEF Clean, Linked, Lists, Copies, StoredPcs, NewDeltaPcs
<1>3. NoFile \notin FilesOf(dd)
  BY <1>1, FilesNamed
<1>4. CASE op.del = NoFile
  <2>1. link = FilesOf(tmp)
    BY <1>2, <1>3, <1>4
  <2> QED
    BY <1>1, <1>2, <1>4, <2>1, CleanEnded
<1>5. CASE op.del # NoFile
  <2>1. link = FilesOf(tmp) \cup {op.del}
    BY <1>2, <1>5
  <2>2. op'.pc = "sw_unlink" /\ op'.di = op.di /\ op'.del = op.del /\ op'.new = op.new
    BY <1>1, <1>5 DEF Operation
  <2> QED
    BY <1>1, <1>2, <2>1, <2>2 DEF Clean, Linked, Lists, Copies, ListedPcs, ReadPcs,
       UnlinkPcs, StoredPcs, NewDeltaPcs, UnnamedPcs
<1> QED
  BY <1>4, <1>5

\* The last step of mounting a temporary snapshot, and of an unmount.
LEMMA EndingClean ==
  ASSUME Clean, (\E kind \in {"mark", "held"} : TempMount(kind)) \/ UmountStop
  PROVE  Clean'
<1>1. /\ op.pc \in {"ts_mount", "um_stop"} /\ op' = NoOp /\ UNCHANGED <<dd, tmp, link>>
      /\ dev' = dev \/ dev' = NoDev
  BY DEF TempMount, UmountStop, At, files
<1>2. link = FilesOf(dd) /\ tmp = NoDi /\ UniqueFiles(dd) /\ dev.mntn = "off"
  BY <1>1, CleanHere DEF ReadPcs
<1>3. dev'.mntn = "off"
  BY <1>1, <1>2 DEF NoDev
<1> QED
  BY <1>1, <1>2, <1>3, CleanEnded

\* A call that reads the stored descriptor begins.
LEMMA CallsClean ==
  ASSUME Clean,
         \/ \E g, cmd : CreateSnapshot(cmd, g)
         \/ \E g : DeleteSnapshot(g)
         \/ \E g, cmd : MergeSnapshot(cmd, g)
         \/ Mount \/ Umount
  PROVE  Clean'
<1>1. UNCHANGED <<dd, tmp, link>> /\ op.pc = "idle"
  BY DEF CreateSnapshot, DeleteSnapshot, MergeSnapshot, Mount, Umount, Locked, files
<1>2. link = FilesOf(dd) /\ tmp = NoDi /\ UniqueFiles(dd) /\ dev.mntn = "off"
  BY <1>1, CleanHere
<1> DEFINE begun == /\ dev'.mntn = "off" /\ op'.pc \in {"complete", "mtmp", "del", "mg"}
                    /\ op'.di = dd /\ (op'.new => "merge_new" \in Ops)
<1>3. begun
  <2>1. ASSUME NEW g, NEW cmd, CreateSnapshot(cmd, g) PROVE begun
    <3>1. /\ op' = [NoOp EXCEPT !.cmd = cmd, !.di = dd, !.guid = g, !.i = 1,
                 !.online = Running /\ cmd # "create_offline",
                 !.pc = IF Running /\ cmd # "create_offline" THEN "complete" ELSE "mtmp",
                 !.ret = IF Running /\ cmd # "create_offline" THEN "mtmp" ELSE "none"]
          /\ dev' = dev
      BY <2>1 DEF CreateSnapshot
    <3>2. op'.pc \in {"complete", "mtmp"} /\ op'.di = dd /\ ~ op'.new
      BY <3>1 DEF NoOp
    <3> QED
      BY <1>2, <3>1, <3>2
  <2>2. ASSUME NEW g, DeleteSnapshot(g) PROVE begun
    <3>1. /\ op' = [NoOp EXCEPT !.cmd = "delete", !.pc = "del", !.di = dd, !.victim = g]
          /\ dev' = dev
      BY <2>2 DEF DeleteSnapshot
    <3>2. op'.pc = "del" /\ op'.di = dd /\ ~ op'.new
      BY <3>1 DEF NoOp
    <3> QED
      BY <1>2, <3>1, <3>2
  <2>3. ASSUME NEW g, NEW cmd, MergeSnapshot(cmd, g) PROVE begun
    <3>1. /\ op' = [NoOp EXCEPT !.cmd = cmd, !.pc = "mg", !.di = dd, !.child = g,
                                !.new = (cmd = "merge_new")]
          /\ dev' = dev /\ cmd \in Ops
      BY <2>3 DEF MergeSnapshot, Locked
    <3>2. op'.pc = "mg" /\ op'.di = dd /\ op'.new = (cmd = "merge_new")
      BY <3>1 DEF NoOp
    <3> QED
      BY <1>2, <3>1, <3>2
  <2>4. CASE Mount
    <3>1. /\ op' = [NoOp EXCEPT !.cmd = "mount", !.pc = "mtmp", !.di = dd, !.i = 1]
          /\ dev'.mntn = "off"
      BY <2>4 DEF Mount
    <3>2. op'.pc = "mtmp" /\ op'.di = dd /\ ~ op'.new
      BY <3>1 DEF NoOp
    <3> QED
      BY <3>1, <3>2
  <2>5. CASE Umount
    <3>1. /\ op' = [NoOp EXCEPT !.cmd = "umount", !.pc = "complete", !.di = dd,
                                !.ret = "um_stop"]
          /\ dev' = dev
      BY <2>5 DEF Umount
    <3>2. op'.pc = "complete" /\ op'.di = dd /\ ~ op'.new
      BY <3>1 DEF NoOp
    <3> QED
      BY <1>2, <3>1, <3>2
  <2> QED
    BY <2>1, <2>2, <2>3, <2>4, <2>5
<1>4. op'.pc \in ReadPcs \cup {"um_stop"} /\ op'.di = dd'
  BY <1>1, <1>3 DEF ReadPcs
<1> QED
  BY <1>1, <1>2, <1>3, <1>4, CleanReading

\* ploop_switch_snapshot_ex stores to conf.tmp what the files will be.
LEMMA SwitchSnapshotClean ==
  ASSUME SnapshotInv, Clean,
         NEW cmd \in {"switch", "switch_keep", "switch_dup", "reset"},
         NEW g \in Guid, NEW old \in AnyGuid, SwitchSnapshot(cmd, g, old)
  PROVE  Clean'
<1> DEFINE sw == Switched(cmd, g, old)
           v == IF cmd = "reset" THEN "sw_rename" ELSE "sw_delta"
           f == IF cmd = "reset" THEN NoFile ELSE NewFile
           del == IF cmd \in {"switch", "reset"} THEN FileOf(dd, dd.top) ELSE NoFile
<1>1. /\ UNCHANGED <<dd, link, dev>> /\ tmp' = sw /\ op.pc = "idle"
      /\ op' = [NoOp EXCEPT !.cmd = cmd, !.guid = old, !.di = tmp', !.pc = v,
                            !.file = f, !.del = del]
      /\ Has(dd, dd.top)
      /\ cmd # "reset" => NameLeft
      /\ dd \in Descriptor
  BY DEF SwitchSnapshot, Locked, Valid, SnapshotInv, TypeOK, StorageOK
<1>2. link = FilesOf(dd) /\ tmp = NoDi /\ UniqueFiles(dd) /\ dev.mntn = "off"
  BY <1>1, CleanHere
<1>3. /\ sw \in Descriptor /\ UniqueFiles(sw)
      /\ FilesOf(sw) = (IF cmd \in {"switch", "reset"}
                        THEN FilesOf(dd) \ {FileOf(dd, dd.top)} ELSE FilesOf(dd))
                       \cup (IF cmd = "reset" THEN {} ELSE {NewFile})
      /\ cmd \in {"switch", "reset"} => FileOf(dd, dd.top) \notin FilesOf(sw)
  BY <1>1, <1>2, SwitchedIs
<1>4. /\ NoFile \notin FilesOf(dd) /\ NoFile \notin FilesOf(sw)
      /\ cmd # "reset" => NewFile \in File /\ NewFile # NoFile
  BY <1>1, <1>3, FilesNamed, NewFileIs, SnapshotAssumption
<1>5. FileOf(dd, dd.top) \in FilesOf(dd)
  BY <1>1, LookupType
<1>6. /\ FilesOf(sw) = (FilesOf(dd) \ {del}) \cup ({f} \ {NoFile})
      /\ del \in FilesOf(dd) \cup {NoFile} /\ del \notin FilesOf(sw)
      /\ v \in {"sw_rename", "sw_delta"} /\ (v = "sw_rename" => f = NoFile)
  BY <1>3, <1>4, <1>5
<1> HIDE DEF sw, v, f, del
<1>7. /\ op'.pc = v /\ op'.di = sw /\ op'.file = f /\ op'.del = del /\ ~ op'.new
  BY <1>1 DEF NoOp
<1>8. Linked'
  BY <1>1, <1>2, <1>6, <1>7 DEF Linked, ListedPcs, ReadPcs, UnnamedPcs, UnlinkPcs
<1>9. Lists'
  BY <1>1, <1>6, <1>7 DEF Lists, UnnamedPcs, UnlinkPcs
<1>10. Copies'
  BY <1>1, <1>2, <1>3, <1>6, <1>7 DEF Copies, ReadPcs, UnlinkPcs, StoredPcs, NewDeltaPcs,
     UnnamedPcs
<1> QED
  BY <1>1, <1>2, <1>7, <1>8, <1>9, <1>10 DEF Clean

\* The guest and the holders of read-only devices touch no file name.
LEMMA OutsideClean ==
  ASSUME Clean, \/ \E b \in Block : GuestWrite(b)
                \/ HolderExit \/ RoUmount
                \/ \E g \in Guid : MountRo(g)
  PROVE  Clean'
<1>1. UNCHANGED <<dd, tmp, link, op, dev>>
  BY DEF GuestWrite, HolderExit, RoUmount, MountRo, files
<1> QED
  BY <1>1, CleanKept

-----------------------------------------------------------------------------
(* The theorem.                                                            *)

\* At first there is the base image, and it is listed.
LEMMA InitClean == Init => Clean
<1> SUFFICES ASSUME Init PROVE Clean
  OBVIOUS
<1> DEFINE e(f) == [guid |-> TopDelta, parent |-> NoneUuid, temp |-> FALSE, file |-> f]
<1>1. PICK f \in File : /\ dd = [ent |-> <<e(f)>>, top |-> TopDelta]
                        /\ link = {f}
  BY DEF Init
<1>2. op = NoOp /\ tmp = NoDi /\ dev = NoDev
  BY DEF Init
<1>3. e(f).file = f
  OBVIOUS
<1> HIDE DEF e
<1>4. dd.ent = <<e(f)>>
  BY <1>1
<1>5. DOMAIN dd.ent = {1} /\ dd.ent[1] = e(f)
  BY <1>4
<1>6. FilesOf(dd) = link /\ UniqueFiles(dd)
  BY <1>1, <1>3, <1>5 DEF FilesOf, UniqueFiles
<1>7. op.pc = "idle" /\ ~ op.new /\ dev.mntn = "off"
  BY <1>2 DEF NoOp, NoDev
<1> QED
  BY <1>2, <1>6, <1>7 DEF Clean, Linked, Lists, Copies, ListedPcs, ReadPcs, UnlinkPcs,
         StoredPcs, NewDeltaPcs, UnnamedPcs

\* Every step but a fault preserves Clean.
LEMMA NextClean ==
  ASSUME NewDeltaInTree, SnapshotInv, TreeOnly => TreeInv, faults = 0 => Clean, [Next]_vars
  PROVE  faults' = 0 => Clean'
<1> SUFFICES ASSUME faults' = 0 PROVE Clean'
  OBVIOUS
<1>1. CASE Failure
  <2>1. faults' = faults + 1 /\ faults \in Nat
    BY <1>1 DEF Failure, FailCreate, FailCbt, FailCreateRename, FailMerge, FailUnlink,
       FailTempMount, Kill, PowerLoss, Fault, SnapshotInv, TypeOK
  <2> QED
    BY <2>1
<1>2. CASE ~ Failure
  <2>1. faults' = faults
    <3>1. CASE Step
      BY <3>1 DEF Step, CompleteNothing, MntnMerge, MergeTemporary, DeleteRefused, DeleteLeaf,
         DeleteStore, DeleteUnlink, DeleteByMerge, DeleteMark, DeleteMarked, MergeRefused,
         MergeComplete, MergeBegin, MergeCopy, MergeCopied, MergeReplace, MergeIoctl,
         MergeSwap, MergeUnlinkOld, MergeRename, MergeUnlink, CreateStore, CreateDelta,
         CreateIoctl, CreateRename, TempMount, SwitchDelta, SwitchRename, SwitchUnlink,
         UmountStop, world
    <3>2. CASE Call
      BY <3>2 DEF Call, CreateSnapshot, DeleteSnapshot, MergeSnapshot, SwitchSnapshot,
         MountRo, Mount, Umount, world
    <3>3. CASE Environment
      BY <3>3 DEF Environment, GuestWrite, HolderExit, RoUmount, world
    <3>4. CASE UNCHANGED vars
      BY <3>4 DEF vars
    <3> QED
      BY <1>2, <3>1, <3>2, <3>3, <3>4 DEF Next
  <2>2. Clean
    BY <2>1
  <2>3. CASE Step
    BY <2>2, <2>3, CompleteNothingClean, MntnMergeClean, MergeTemporaryClean, RefusedClean,
       DeleteLeafClean, DeleteStoreClean, UnlinkClean, DeleteByMergeClean, DeleteMarkClean,
       MergeCompleteClean, MergeBeginClean, MergeCopyClean, MergeCopiedClean,
       MergeReplaceClean, MergeIoctlClean, MergeSwapClean, MergeUnlinkOldClean,
       MergeRenameClean, CreateStoreClean, NewDeltaClean, CreateIoctlClean,
       CreateRenameClean, SwitchRenameClean, EndingClean, Zenon DEF Step
  <2>4. CASE Call
    <3>1. TopDelta \in AnyGuid /\ \A g \in Guid : g \in AnyGuid
      BY DEF AnyGuid
    <3>2. ASSUME NEW g \in Guid, NEW old \in Guid, SwitchSnapshot("switch_keep", g, old)
          PROVE  Clean'
      BY <2>2, <3>1, <3>2, SwitchSnapshotClean
    <3>3. ASSUME NEW g \in Guid, NEW cmd \in {"switch", "switch_dup", "reset"},
                 SwitchSnapshot(cmd, g, TopDelta)
          PROVE  Clean'
      BY <2>2, <3>1, <3>3, SwitchSnapshotClean
    <3> QED
      BY <2>2, <2>4, <3>2, <3>3, CallsClean, OutsideClean, Zenon DEF Call
  <2>5. CASE Environment
    BY <2>2, <2>5, OutsideClean DEF Environment
  <2>6. CASE UNCHANGED vars
    BY <2>2, <2>6, CleanKept DEF vars
  <2> QED
    BY <1>2, <2>3, <2>4, <2>5, <2>6 DEF Next
<1> QED
  BY <1>1, <1>2

\* Without faults no creation, deletion, merge or switch leaves an image file
\* that DiskDescriptor.xml does not list, or a conf.tmp, with any number of
\* snapshots and files.  A client that merges into a new delta must keep to
\* the operations that keep the tree.
THEOREM NothingOrphaned == ASSUME NewDeltaInTree PROVE Spec => []NoOrphans
<1> DEFINE I == faults = 0 => Clean
<1>1. Init => I
  BY InitClean
<1>2. SnapshotInv /\ (TreeOnly => TreeInv) /\ I /\ [Next]_vars => I'
  BY NextClean
<1>3. I => NoOrphans
  <2>1. Clean /\ op.pc = "idle" => link = FilesOf(dd) /\ tmp = NoDi
    BY CleanHere
  <2> QED
    BY <2>1 DEF NoOrphans
<1>4. Spec => [](TreeOnly => TreeInv)
  <2>1. CASE TreeOnly
    <3>1. TreeInv => (TreeOnly => TreeInv)
      OBVIOUS
    <3> QED
      BY <2>1, <3>1, TreeInvariance, PTL
  <2>2. CASE ~ TreeOnly
    <3>1. TreeOnly => TreeInv
      BY <2>2
    <3> QED
      BY <3>1, PTL
  <2> QED
    BY <2>1, <2>2
<1> HIDE DEF I
<1> QED
  BY <1>1, <1>2, <1>3, <1>4, Invariance, PTL DEF Spec
=============================================================================
