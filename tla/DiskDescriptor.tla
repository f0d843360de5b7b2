--------------------------- MODULE DiskDescriptor ---------------------------
(***************************************************************************)
(* The in-memory disk descriptor of libploop (struct                       *)
(* ploop_disk_images_data, lib/di.c) and what DiskDescriptor.xml stores of *)
(* it.  The library keeps two parallel arrays, images[] (guid, file) and   *)
(* snapshots[] (guid, parent_guid, temporary); entries are always added    *)
(* and removed in both at the same index, so one sequence of entries       *)
(* stands for the two.  Lookups are by the first match, as in the code.    *)
(***************************************************************************)
EXTENDS Integers, Sequences, FiniteSets

CONSTANTS Guid,      \* uuids a caller may give to a snapshot
          TopDelta,  \* TOPDELTA_UUID, the uuid of the writable top delta
          NoneUuid,  \* NONE_UUID, the parent of the base image
          File       \* names of image files

ASSUME GuidAssumption == /\ TopDelta \notin Guid
                         /\ NoneUuid \notin Guid
                         /\ TopDelta # NoneUuid

AnyGuid == Guid \cup {TopDelta}

Entry == [guid : AnyGuid, parent : AnyGuid \cup {NoneUuid},
          temp : BOOLEAN, file : File]

Descriptor == [ent : Seq(Entry), top : AnyGuid]

-----------------------------------------------------------------------------
(* Lookups.                                                                *)

FilesOf(di) == {di.ent[i].file : i \in DOMAIN di.ent}

GuidsOf(di) == {di.ent[i].guid : i \in DOMAIN di.ent}

\* find_snapshot_by_guid / find_image_idx_by_guid: index of the first match
Find(di, g) == CHOOSE i \in DOMAIN di.ent :
                  /\ di.ent[i].guid = g
                  /\ \A j \in DOMAIN di.ent : di.ent[j].guid = g => i <= j

Has(di, g) == \E i \in DOMAIN di.ent : di.ent[i].guid = g

FileOf(di, g) == di.ent[Find(di, g)].file

ParentOf(di, g) == di.ent[Find(di, g)].parent

IsTemp(di, g) == di.ent[Find(di, g)].temp

\* ploop_get_child_count_by_uuid
Children(di, g) == {i \in DOMAIN di.ent : di.ent[i].parent = g}

ChildCount(di, g) == Cardinality(Children(di, g))

\* ploop_get_child_by_uuid: the first child in the array
ChildOf(di, g) == LET i == CHOOSE i \in Children(di, g) :
                              \A j \in Children(di, g) : i <= j
                  IN  di.ent[i].guid

\* the walk of make_images_list: the uuid met after n steps to the parent
Walk(di, g) ==
  LET up[n \in 0 .. Len(di.ent)] ==
        IF n = 0 THEN g
        ELSE IF Has(di, up[n-1]) THEN ParentOf(di, up[n-1]) ELSE up[n-1]
  IN  up

\* make_images_list: files from the base up to g, <<>> when a parent is
\* missing or the walk meets no base within nsnapshots steps
ImagesList(di, g) ==
  LET walk == Walk(di, g)
      roots == {n \in 0 .. Len(di.ent) : walk[n] = NoneUuid}
  IN  IF roots = {} THEN << >>
      ELSE LET d == CHOOSE n \in roots : \A m \in roots : n <= m
           IN  [i \in 1 .. d |-> FileOf(di, walk[d - i])]

\* validate_disk_descriptor: what ploop_lock_dd accepts
Valid(di) == di.ent # << >> /\ Has(di, di.top) /\ ~ IsTemp(di, di.top)

-----------------------------------------------------------------------------
(* Updates.                                                                *)

\* ploop_di_add_image: appended, and the new image becomes the top one
AddImage(di, f, g, p) ==
  [ent |-> Append(di.ent, [guid |-> g, parent |-> p, temp |-> FALSE,
                           file |-> f]),
   top |-> g]

Renamed(x, g, new) == IF x = g THEN new ELSE x

\* the body of the loop of ploop_di_change_guid
RenamedIn(e, g, new) == [e EXCEPT !.guid = Renamed(@, g, new),
                                  !.parent = Renamed(@, g, new)]

\* ploop_di_change_guid, its loop stopped from matching after entry last
ChangeGuidUpTo(di, g, new, last) ==
  [ent |-> [i \in DOMAIN di.ent |->
              IF i <= last THEN RenamedIn(di.ent[i], g, new)
                           ELSE di.ent[i]],
   top |-> di.top]

\* ploop_di_change_guid
ChangeGuid(di, g, new) ==
  [ChangeGuidUpTo(di, g, new, Len(di.ent)) EXCEPT !.top = Renamed(@, g, new)]

\* ploop_di_set_temporary
SetTemporary(di, g) ==
  IF Has(di, g) THEN [di EXCEPT !.ent[Find(di, g)].temp = TRUE] ELSE di

\* remove_data_from_array, on both arrays
RemoveAt(s, k) == [i \in 1 .. Len(s) - 1 |-> IF i < k THEN s[i] ELSE s[i+1]]

RemoveEntry(di, k) == [di EXCEPT !.ent = RemoveAt(@, k)]

\* the checks of ploop_di_remove_image
CanRemove(di, g) ==
  Has(di, g) /\ ChildCount(di, g) = 0 /\ ParentOf(di, g) # NoneUuid

(***************************************************************************)
(* ploop_di_remove_image.  When the top delta goes, its parent is renamed  *)
(* to TOPDELTA_UUID by ploop_di_change_guid(di, snapshot->parent_guid,     *)
(* TOPDELTA_UUID).  The old uuid is passed as a pointer to the parent_guid *)
(* of the entry that is going away, which the loop itself overwrites when  *)
(* it reaches that entry: entries behind it are no longer matched.         *)
(***************************************************************************)
RemoveImage(di, g, renewTop) ==
  LET k == Find(di, g)
      renamed == IF renewTop /\ g = di.top
                 THEN ChangeGuidUpTo(di, di.ent[k].parent, TopDelta, k)
                 ELSE di
  IN  RemoveEntry(renamed, k)

\* mutant: other children of the parent are not looked for
CanMergeShared(di, g) == Has(di, g) /\ ParentOf(di, g) # NoneUuid

\* the checks of ploop_di_merge_image
CanMerge(di, g) ==
  /\ Has(di, g)
  /\ ParentOf(di, g) # NoneUuid
  /\ ChildCount(di, ParentOf(di, g)) <= 1

\* mutant: the parent's entry takes its own parent's uuid
MergeImageSwapped(di, g) ==
  LET k == Find(di, g)
      p == di.ent[k].parent
  IN  RemoveEntry([di EXCEPT !.ent = [i \in DOMAIN di.ent |->
                     IF di.ent[i].guid = p
                     THEN [di.ent[i] EXCEPT !.guid = di.ent[i].parent]
                     ELSE di.ent[i]]], k)

\* an entry takes over another one's uuid and temporary flag
TakenOver(e, g, temp) == [e EXCEPT !.guid = g, !.temp = temp]

(***************************************************************************)
(* ploop_di_merge_image: the parent's entry takes the child's uuid and     *)
(* temporary flag, and the child's entry is removed.                       *)
(***************************************************************************)
MergeImage(di, g) ==
  LET k == Find(di, g)
      p == di.ent[k].parent
      taken == [di EXCEPT !.ent = [i \in DOMAIN di.ent |->
                  IF di.ent[i].guid = p
                  THEN TakenOver(di.ent[i], g, di.ent[k].temp)
                  ELSE di.ent[i]]]
      removed == RemoveEntry(taken, k)
  IN  IF g = TopDelta THEN ChangeGuid(removed, p, TopDelta) ELSE removed

\* the file name of g's image replaced (ploop_merge_snapshot_by_guid with
\* new_delta)
SetFile(di, g, f) == [di EXCEPT !.ent[Find(di, g)].file = f]

-----------------------------------------------------------------------------
(***************************************************************************)
(* What a well-formed snapshot tree is: uuids and files are not shared,    *)
(* the base image is the first entry and the only one without a parent,    *)
(* every other entry stands behind its parent (so that every image is      *)
(* reached from the base), and the top delta exists and is not temporary.  *)
(***************************************************************************)
UniqueGuids(di) == \A i, j \in DOMAIN di.ent :
                      di.ent[i].guid = di.ent[j].guid => i = j

UniqueFiles(di) == \A i, j \in DOMAIN di.ent :
                      di.ent[i].file = di.ent[j].file => i = j

BaseFirst(di) == \A i \in DOMAIN di.ent :
                      di.ent[i].parent = NoneUuid <=> i = 1

ParentsBefore(di) == \A i \in DOMAIN di.ent :
                      \/ di.ent[i].parent = NoneUuid
                      \/ \E j \in 1 .. i - 1 :
                            di.ent[j].guid = di.ent[i].parent

WellFormed(di) == /\ Valid(di)
                  /\ UniqueGuids(di)
                  /\ UniqueFiles(di)
                  /\ BaseFirst(di)
                  /\ ParentsBefore(di)
=============================================================================
