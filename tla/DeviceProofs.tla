---------------------------- MODULE DeviceProofs ----------------------------
(***************************************************************************)
(* Proofs about Device, for any processes, sizes, block size and bounds:   *)
(* the steps of resize, conversion, replace and of lifting the limit       *)
(* preserve the invariant of DeviceStepProofs, which implies the           *)
(* properties of Device.                                                   *)
(***************************************************************************)
EXTENDS DeviceStepProofs

USE DEF MountPc, AddedPc, UmountPc, MakePc, InitPc, GrowPc, EnlargePc, KeepPc, CutPc, ResizePc,
        ConvertPc, ReplacePc, InnerPc, EndPc, Pcs, Locking

-----------------------------------------------------------------------------
(* ploop_resize_image.                                                     *)

\* A step of a resize that fails without effect.
LEMMA GivesUp ==
  ASSUME Inv, NEW p \in Proc, NEW c \in Calls, c = call[p], Steps(c) /\ Holds(c),
         Disk(c) /\ Types /\ Shapes /\ Listed, c.pc \in {"g_umount", "s_umount", "g_gpt", "s_gpt", "g_fs", "s_fs",
                                                   "s_online", "d_gpt", "d_stop"},
         Still, windows' = windows, Go(p, "r_fail")
  PROVE  Inv'
<1>1. PICK c2 \in Calls : Becomes(p, c2) /\ Goes(c2, c, "r_fail") /\ UNCHANGED <<lock, wanted>>
  BY GoIs
<1>2. Steps(c2) /\ Holds(c2)
  BY <1>1 DEF Steps, Holds, Goes, Same, Like
<1>3. Working(c2)
  BY <1>1, <1>2 DEF Disk, Working, Steps, Goes, Same, Like, Still
<1>4. Read(c2)
  BY <1>1, <1>2 DEF Disk, Read, Holds, Steps, Goes, Same, Like, Still
<1>5. Placed' => Match(c2)
  BY <1>1, <1>2 DEF Disk, Match, Matched, Apart, Swapping, Steps, Goes, Same, Like, Still,
     Placed, When
<1>6. Whole' => Lies(c2)
  BY <1>1, <1>2 DEF Disk, Lies, Steps, Goes, Same, Like, Still, Whole, Placed, When
<1>7. Stored' => Fitting(c2)
  BY <1>1, <1>2 DEF Disk, Fitting, Steps, Goes, Same, Like, Still, Stored, Placed, When
<1>8. Followed' => Running(c2)
  BY <1>1, <1>2 DEF Disk, Running, Swapping, Steps, Goes, Same, Like, Still, Followed,
     Placed, When
<1>9. Returned' => Tidy(c2)
  BY <1>1, <1>2 DEF Disk, Tidy, Owns, Working, Steps, Goes, Same, Like, Still, Returned,
     When
<1>10. Finds(IF Holds(c2) THEN c2 ELSE Idle)
  BY <1>2, <1>3, <1>4, <1>5, <1>6, <1>7, <1>8, <1>9 DEF Finds
<1>11. Moved(p, c2)
  BY <1>1 DEF Moved, Still, store, kernel, layout
<1> QED
  BY <1>1, <1>2, <1>10, <1>11, Move DEF NoFs, Steps, Holds, Goes, Same, Like

\* A device that runs is used, or one is made; its file system is mounted.
LEMMA ResizeBeginInv ==
  ASSUME Inv, NEW p \in Proc, ResizeBegin(p), "dropped" \notin windows'
  PROVE  Inv'
<1> PICK c \in Calls : c = call[p]
  BY DEF Inv, Types
<1>1. Steps(c) /\ Holds(c) /\ c.pc = "locked" /\ c.op = "resize"
  BY DEF Inv, Control, ResizeBegin, Holds, Entry, At
<1>2. Disk(c) /\ Types /\ Shapes /\ Listed
  BY <1>1, NowIs DEF Inv, Types
<1>3. c.di = dd
  BY <1>1, <1>2 DEF Disk, Read, Holds
<1>4. \/ /\ ~Found(dd) /\ Still /\ windows' = windows
         /\ DoMount(p, "temp", "r_size", "fail")
      \/ /\ Still /\ windows' = windows
         /\ Go(p, "fail")
      \/ /\ Found(dd) /\ mnt # "none"
         /\ Still /\ windows' = windows
         /\ Go(p, "r_size")
      \/ /\ Found(dd) /\ fs # 0
         /\ mnt' = "temp"
         /\ call' = [call EXCEPT ![p].pc = "r_size", ![p].umfs = TRUE]
         /\ UNCHANGED <<dd, tmp, names, nodes, dev, part, fs, lock, wanted, windows>>
  BY <1>1, <1>2, <1>3 DEF ResizeBegin, NoFault, Go, Still, store, kernel, layout
<1>5. CASE /\ ~Found(dd) /\ Still /\ windows' = windows
           /\ DoMount(p, "temp", "r_size", "fail")
  <2>1. PICK c2 \in Calls : Becomes(p, c2) /\ Mounts(c2, c, "temp", "r_size", "fail") /\ UNCHANGED <<lock, wanted>>
    BY <1>1, <1>2, <1>5, DoMountIs DEF Thens, Elses, Targets
  <2>2. Steps(c2) /\ Holds(c2)
    BY <1>1, <1>5, <2>1 DEF Steps, Holds, Mounts, Same, Like
  <2>3. Working(c2)
    BY <1>1, <1>2, <1>5, <1>3, <2>1, <2>2 DEF Disk, Working, Steps, Mounts, Same, Like,
       Still
  <2>4. Read(c2)
    BY <1>1, <1>2, <1>5, <1>3, <2>1, <2>2 DEF Disk, Read, Holds, Steps, Mounts, Same, Like,
       Still
  <2>5. Placed' => Match(c2)
    BY <1>1, <1>2, <1>5, <1>3, <2>1, <2>2 DEF Disk, Match, Matched, Apart, Swapping, Steps,
       Mounts, Same, Like, Still, Placed, When
  <2>6. Whole' => Lies(c2)
    BY <1>1, <1>2, <1>5, <1>3, <2>1, <2>2 DEF Disk, Lies, Steps, Mounts, Same, Like, Still,
       Whole, Placed, When
  <2>7. Stored' => Fitting(c2)
    BY <1>1, <1>2, <1>5, <1>3, <2>1, <2>2 DEF Disk, Fitting, Steps, Mounts, Same, Like,
       Still, Stored, Placed, When
  <2>8. Followed' => Running(c2)
    BY <1>1, <1>2, <1>5, <1>3, <2>1, <2>2 DEF Disk, Running, Swapping, Steps, Mounts, Same,
       Like, Still, Followed, Placed, When
  <2>9. Returned' => Tidy(c2)
    BY <1>1, <1>2, <1>5, <1>3, <2>1, <2>2 DEF Disk, Tidy, Owns, Working, Steps, Mounts,
       Same, Like, Still, Returned, When
  <2>10. Finds(IF Holds(c2) THEN c2 ELSE Idle)
    BY <2>2, <2>3, <2>4, <2>5, <2>6, <2>7, <2>8, <2>9 DEF Finds
  <2>11. Moved(p, c2)
    BY <1>5, <2>1 DEF Moved, Still, store, kernel, layout
  <2> QED
    BY <1>1, <1>5, <2>1, <2>2, <2>10, <2>11, Move DEF NoFs, Steps, Holds, Mounts, Same, Like
<1>6. CASE /\ Still /\ windows' = windows
           /\ Go(p, "fail")
  BY <1>1, <1>2, <1>6, Declines
<1>7. CASE /\ Found(dd) /\ mnt # "none"
           /\ Still /\ windows' = windows
           /\ Go(p, "r_size")
  <2>1. PICK c2 \in Calls : Becomes(p, c2) /\ Goes(c2, c, "r_size") /\ UNCHANGED <<lock, wanted>>
    BY <1>1, <1>2, <1>7, GoIs
  <2>2. Steps(c2) /\ Holds(c2)
    BY <1>1, <1>7, <2>1 DEF Steps, Holds, Goes, Same, Like
  <2>3. Working(c2)
    BY <1>1, <1>2, <1>7, <1>3, <2>1, <2>2 DEF Disk, Working, Steps, Goes, Same, Like, Still,
       Found
  <2>4. Read(c2)
    BY <1>1, <1>2, <1>7, <1>3, <2>1, <2>2 DEF Disk, Read, Holds, Steps, Goes, Same, Like,
       Still
  <2>5. Placed' => Match(c2)
    BY <1>1, <1>2, <1>7, <1>3, <2>1, <2>2 DEF Disk, Match, Matched, Apart, Swapping, Steps,
       Goes, Same, Like, Still, Placed, When
  <2>6. Whole' => Lies(c2)
    BY <1>1, <1>2, <1>7, <1>3, <2>1, <2>2 DEF Disk, Lies, Steps, Goes, Same, Like, Still,
       Whole, Placed, When
  <2>7. Stored' => Fitting(c2)
    BY <1>1, <1>2, <1>7, <1>3, <2>1, <2>2 DEF Disk, Fitting, Steps, Goes, Same, Like, Still,
       Stored, Placed, When
  <2>8. Followed' => Running(c2)
    BY <1>1, <1>2, <1>7, <1>3, <2>1, <2>2 DEF Disk, Running, Swapping, Steps, Goes, Same,
       Like, Still, Followed, Placed, When
  <2>9. Returned' => Tidy(c2)
    BY <1>1, <1>2, <1>7, <1>3, <2>1, <2>2 DEF Disk, Tidy, Owns, Working, Steps, Goes, Same,
       Like, Still, Returned, When
  <2>10. Finds(IF Holds(c2) THEN c2 ELSE Idle)
    BY <2>2, <2>3, <2>4, <2>5, <2>6, <2>7, <2>8, <2>9 DEF Finds
  <2>11. Moved(p, c2)
    BY <1>7, <2>1 DEF Moved, Still, store, kernel, layout
  <2> QED
    BY <1>1, <1>7, <2>1, <2>2, <2>10, <2>11, Move DEF NoFs, Steps, Holds, Goes, Same, Like
<1>8. CASE /\ Found(dd) /\ fs # 0
           /\ mnt' = "temp"
           /\ call' = [call EXCEPT ![p].pc = "r_size", ![p].umfs = TRUE]
           /\ UNCHANGED <<dd, tmp, names, nodes, dev, part, fs, lock, wanted, windows>>
  <2>1. PICK c2 \in Calls : Becomes(p, c2) /\ Lays(c2, c, "r_size", TRUE)
    BY <1>1, <1>2, <1>8, LaysIs
  <2>2. Steps(c2) /\ Holds(c2)
    BY <1>1, <1>8, <2>1 DEF Steps, Holds, Lays, Keeps, Same, Like
  <2>3. /\ TopNode(dd)' = TopNode(dd) /\ Deltas(dd)' = Deltas(dd) /\ Size(dd)' = Size(dd)
        /\ Found(dd)' = Found(dd)
    BY <1>8 DEF TopNode, Top, Size, Deltas, Files, Found
  <2>4. Shapes'
    BY <1>1, <1>2, <1>8, <1>3, <2>1, <2>2, <2>3 DEF Shapes, Targets
  <2>5. Listed' /\ dd' # None
    BY <1>1, <1>2, <1>8, <1>3, <2>1, <2>2, <2>3 DEF Disk, Read, Listed, Distinct, Holds
  <2>6. Working(c2)'
    BY <1>1, <1>2, <1>8, <1>3, <2>1, <2>2, <2>3 DEF Disk, Working, Steps, Lays, Keeps, Same,
       Like, Found
  <2>7. Read(c2)'
    BY <1>1, <1>2, <1>8, <1>3, <2>1, <2>2, <2>3 DEF Disk, Read, Holds, Steps, Lays, Keeps,
       Same, Like
  <2>8. Placed' => Match(c2)'
    <3>1. Placed => Match(c)
      BY <1>2 DEF Disk
    <3>2. Placed' => Matched'
      BY <1>1, <1>2, <1>8, <1>3, <2>1, <2>2, <2>3, <3>1 DEF Match, Matched, Placed
    <3>3. Placed' => Apart(c2)'
      BY <1>1, <1>2, <1>8, <1>3, <2>1, <2>2, <2>3, <3>1 DEF Match, Apart, Swapping, Placed,
         Lays, Keeps, Same, Like
    <3> QED
      BY <1>1, <1>2, <1>8, <1>3, <2>1, <2>2, <2>3, <3>1, <3>2, <3>3 DEF Match, Swapping,
         Steps, Placed, Lays, Keeps, Same, Like
  <2>9. Whole' => Lies(c2)'
    BY <1>1, <1>2, <1>8, <1>3, <2>1, <2>2, <2>3 DEF Disk, Lies, Steps, Lays, Keeps, Same,
       Like, Whole, Placed, When, Room, Size, TopNode, Top
  <2>10. Stored' => Fitting(c2)'
    BY <1>1, <1>2, <1>8, <1>3, <2>1, <2>2, <2>3 DEF Disk, Fitting, Steps, Lays, Keeps, Same,
       Like, Stored, Placed, When, Fits, Formats, Size, TopNode, Top
  <2>11. Followed' => Running(c2)'
    BY <1>1, <1>2, <1>8, <1>3, <2>1, <2>2, <2>3 DEF Disk, Running, Swapping, Steps, Lays,
       Keeps, Same, Like, Followed, Placed, When, Found
  <2>12. Returned' => Tidy(c2)'
    BY <1>1, <1>2, <1>8, <1>3, <2>1, <2>2, <2>3 DEF Disk, Tidy, Owns, Working, Steps, Lays,
       Keeps, Same, Like, Returned, When
  <2>13. Disk(IF Holds(c2) THEN c2 ELSE Idle)'
    BY <2>2, <2>4, <2>5, <2>6, <2>7, <2>8, <2>9, <2>10, <2>11, <2>12 DEF Disk
  <2> QED
    BY <1>1, <1>8, <2>1, <2>2, <2>4, <2>5, <2>13, Change DEF NoFs, Steps, Holds, Lays,
       Keeps, Same, Like
<1> QED
  BY <1>4, <1>5, <1>6, <1>7, <1>8

\* Which of the three ways.
LEMMA ResizeSizeInv ==
  ASSUME Inv, NEW p \in Proc, ResizeSize(p), "dropped" \notin windows'
  PROVE  Inv'
<1> PICK c \in Calls : c = call[p]
  BY DEF Inv, Types
<1>1. Steps(c) /\ Holds(c) /\ c.pc = "r_size"
  BY DEF Inv, Control, ResizeSize, Holds, At
<1>2. Disk(c) /\ Types /\ Shapes /\ Listed
  BY <1>1, NowIs DEF Inv, Types
<1>3. dev \in Kernel /\ dev.size \in Int /\ c.size \in Int /\ round_bdsize(c.size) \in Int
  BY <1>1, <1>2, AlignedUp DEF Disk, Working, Shapes, Kernel, Calls, Steps
<1>4. \/ /\ Still /\ windows' = windows
         /\ Go(p, "r_ok") \/ Go(p, "r_fail")
      \/ /\ c.own /\ round_bdsize(c.size) > 4 * B /\ dev.size < round_bdsize(c.size)
         /\ Still /\ windows' = windows
         /\ Go(p, "g_umount")
      \/ /\ round_bdsize(c.size) > 4 * B /\ dev.size < round_bdsize(c.size)
         /\ Still /\ windows' = windows
         /\ Go(p, "g_store")
      \/ /\ round_bdsize(c.size) > 4 * B /\ round_bdsize(c.size) <= dev.size
         /\ Still /\ windows' = windows
         /\ Go(p, "s_gpt")
  BY <1>1, <1>2, <1>3 DEF ResizeSize, NoFault, Go, Still, store, kernel, layout, NewSize,
     Offline
<1>5. CASE /\ Still /\ windows' = windows
           /\ Go(p, "r_ok") \/ Go(p, "r_fail")
  <2>1. PICK pc \in {"r_ok", "r_fail"} : Go(p, pc)
    BY <1>5
  <2>2. PICK c2 \in Calls : Becomes(p, c2) /\ Goes(c2, c, pc) /\ UNCHANGED <<lock, wanted>>
    BY <1>1, <1>2, <1>5, <2>1, GoIs
  <2>3. Steps(c2) /\ Holds(c2)
    BY <1>1, <1>5, <2>1, <2>2 DEF Steps, Holds, Goes, Same, Like
  <2>4. Working(c2)
    BY <1>1, <1>2, <1>5, <1>3, <2>1, <2>2, <2>3 DEF Disk, Working, Steps, Goes, Same, Like,
       Still
  <2>5. Read(c2)
    BY <1>1, <1>2, <1>5, <1>3, <2>1, <2>2, <2>3 DEF Disk, Read, Holds, Steps, Goes, Same,
       Like, Still
  <2>6. Placed' => Match(c2)
    BY <1>1, <1>2, <1>5, <1>3, <2>1, <2>2, <2>3 DEF Disk, Match, Matched, Apart, Swapping,
       Steps, Goes, Same, Like, Still, Placed, When
  <2>7. Whole' => Lies(c2)
    BY <1>1, <1>2, <1>5, <1>3, <2>1, <2>2, <2>3 DEF Disk, Lies, Steps, Goes, Same, Like,
       Still, Whole, Placed, When
  <2>8. Stored' => Fitting(c2)
    BY <1>1, <1>2, <1>5, <1>3, <2>1, <2>2, <2>3 DEF Disk, Fitting, Steps, Goes, Same, Like,
       Still, Stored, Placed, When
  <2>9. Followed' => Running(c2)
    BY <1>1, <1>2, <1>5, <1>3, <2>1, <2>2, <2>3 DEF Disk, Running, Swapping, Steps, Goes,
       Same, Like, Still, Followed, Placed, When
  <2>10. Returned' => Tidy(c2)
    BY <1>1, <1>2, <1>5, <1>3, <2>1, <2>2, <2>3 DEF Disk, Tidy, Owns, Working, Steps, Goes,
       Same, Like, Still, Returned, When
  <2>11. Finds(IF Holds(c2) THEN c2 ELSE Idle)
    BY <2>3, <2>4, <2>5, <2>6, <2>7, <2>8, <2>9, <2>10 DEF Finds
  <2>12. Moved(p, c2)
    BY <1>5, <2>2 DEF Moved, Still, store, kernel, layout
  <2> QED
    BY <1>1, <1>5, <2>1, <2>2, <2>3, <2>11, <2>12, Move DEF NoFs, Steps, Holds, Goes, Same,
       Like
<1>6. CASE /\ c.own /\ round_bdsize(c.size) > 4 * B /\ dev.size < round_bdsize(c.size)
           /\ Still /\ windows' = windows
           /\ Go(p, "g_umount")
  <2>1. PICK c2 \in Calls : Becomes(p, c2) /\ Goes(c2, c, "g_umount") /\ UNCHANGED <<lock, wanted>>
    BY <1>1, <1>2, <1>6, GoIs
  <2>2. Steps(c2) /\ Holds(c2)
    BY <1>1, <1>6, <2>1 DEF Steps, Holds, Goes, Same, Like
  <2>3. Working(c2)
    BY <1>1, <1>2, <1>6, <1>3, <2>1, <2>2 DEF Disk, Working, Steps, Goes, Same, Like, Still
  <2>4. Read(c2)
    BY <1>1, <1>2, <1>6, <1>3, <2>1, <2>2 DEF Disk, Read, Holds, Steps, Goes, Same, Like,
       Still
  <2>5. Placed' => Match(c2)
    BY <1>1, <1>2, <1>6, <1>3, <2>1, <2>2 DEF Disk, Match, Matched, Apart, Swapping, Steps,
       Goes, Same, Like, Still, Placed, When
  <2>6. Whole' => Lies(c2)
    BY <1>1, <1>2, <1>6, <1>3, <2>1, <2>2 DEF Disk, Lies, Steps, Goes, Same, Like, Still,
       Whole, Placed, When
  <2>7. Stored' => Fitting(c2)
    BY <1>1, <1>2, <1>6, <1>3, <2>1, <2>2 DEF Disk, Fitting, Steps, Goes, Same, Like, Still,
       Stored, Placed, When
  <2>8. Followed' => Running(c2)
    BY <1>1, <1>2, <1>6, <1>3, <2>1, <2>2 DEF Disk, Running, Swapping, Steps, Goes, Same,
       Like, Still, Followed, Placed, When
  <2>9. Returned' => Tidy(c2)
    BY <1>1, <1>2, <1>6, <1>3, <2>1, <2>2 DEF Disk, Tidy, Owns, Working, Steps, Goes, Same,
       Like, Still, Returned, When
  <2>10. Finds(IF Holds(c2) THEN c2 ELSE Idle)
    BY <2>2, <2>3, <2>4, <2>5, <2>6, <2>7, <2>8, <2>9 DEF Finds
  <2>11. Moved(p, c2)
    BY <1>6, <2>1 DEF Moved, Still, store, kernel, layout
  <2> QED
    BY <1>1, <1>6, <2>1, <2>2, <2>10, <2>11, Move DEF NoFs, Steps, Holds, Goes, Same, Like
<1>7. CASE /\ round_bdsize(c.size) > 4 * B /\ dev.size < round_bdsize(c.size)
           /\ Still /\ windows' = windows
           /\ Go(p, "g_store")
  <2>1. PICK c2 \in Calls : Becomes(p, c2) /\ Goes(c2, c, "g_store") /\ UNCHANGED <<lock, wanted>>
    BY <1>1, <1>2, <1>7, GoIs
  <2>2. Steps(c2) /\ Holds(c2)
    BY <1>1, <1>7, <2>1 DEF Steps, Holds, Goes, Same, Like
  <2>3. Working(c2)
    BY <1>1, <1>2, <1>7, <1>3, <2>1, <2>2 DEF Disk, Working, Steps, Goes, Same, Like, Still
  <2>4. Read(c2)
    BY <1>1, <1>2, <1>7, <1>3, <2>1, <2>2 DEF Disk, Read, Holds, Steps, Goes, Same, Like,
       Still
  <2>5. Placed' => Match(c2)
    BY <1>1, <1>2, <1>7, <1>3, <2>1, <2>2 DEF Disk, Match, Matched, Apart, Swapping, Steps,
       Goes, Same, Like, Still, Placed, When
  <2>6. Whole' => Lies(c2)
    BY <1>1, <1>2, <1>7, <1>3, <2>1, <2>2 DEF Disk, Lies, Steps, Goes, Same, Like, Still,
       Whole, Placed, When
  <2>7. Stored' => Fitting(c2)
    BY <1>1, <1>2, <1>7, <1>3, <2>1, <2>2 DEF Disk, Fitting, Steps, Goes, Same, Like, Still,
       Stored, Placed, When
  <2>8. Followed' => Running(c2)
    BY <1>1, <1>2, <1>7, <1>3, <2>1, <2>2 DEF Disk, Running, Swapping, Steps, Goes, Same,
       Like, Still, Followed, Placed, When
  <2>9. Returned' => Tidy(c2)
    BY <1>1, <1>2, <1>7, <1>3, <2>1, <2>2 DEF Disk, Tidy, Owns, Working, Steps, Goes, Same,
       Like, Still, Returned, When
  <2>10. Finds(IF Holds(c2) THEN c2 ELSE Idle)
    BY <2>2, <2>3, <2>4, <2>5, <2>6, <2>7, <2>8, <2>9 DEF Finds
  <2>11. Moved(p, c2)
    BY <1>7, <2>1 DEF Moved, Still, store, kernel, layout
  <2> QED
    BY <1>1, <1>7, <2>1, <2>2, <2>10, <2>11, Move DEF NoFs, Steps, Holds, Goes, Same, Like
<1>8. CASE /\ round_bdsize(c.size) > 4 * B /\ round_bdsize(c.size) <= dev.size
           /\ Still /\ windows' = windows
           /\ Go(p, "s_gpt")
  <2>1. PICK c2 \in Calls : Becomes(p, c2) /\ Goes(c2, c, "s_gpt") /\ UNCHANGED <<lock, wanted>>
    BY <1>1, <1>2, <1>8, GoIs
  <2>2. Steps(c2) /\ Holds(c2)
    BY <1>1, <1>8, <2>1 DEF Steps, Holds, Goes, Same, Like
  <2>3. Working(c2)
    BY <1>1, <1>2, <1>8, <1>3, <2>1, <2>2 DEF Disk, Working, Steps, Goes, Same, Like, Still
  <2>4. Read(c2)
    BY <1>1, <1>2, <1>8, <1>3, <2>1, <2>2 DEF Disk, Read, Holds, Steps, Goes, Same, Like,
       Still
  <2>5. Placed' => Match(c2)
    BY <1>1, <1>2, <1>8, <1>3, <2>1, <2>2 DEF Disk, Match, Matched, Apart, Swapping, Steps,
       Goes, Same, Like, Still, Placed, When
  <2>6. Whole' => Lies(c2)
    BY <1>1, <1>2, <1>8, <1>3, <2>1, <2>2 DEF Disk, Lies, Steps, Goes, Same, Like, Still,
       Whole, Placed, When
  <2>7. Stored' => Fitting(c2)
    BY <1>1, <1>2, <1>8, <1>3, <2>1, <2>2 DEF Disk, Fitting, Steps, Goes, Same, Like, Still,
       Stored, Placed, When
  <2>8. Followed' => Running(c2)
    BY <1>1, <1>2, <1>8, <1>3, <2>1, <2>2 DEF Disk, Running, Swapping, Steps, Goes, Same,
       Like, Still, Followed, Placed, When
  <2>9. Returned' => Tidy(c2)
    BY <1>1, <1>2, <1>8, <1>3, <2>1, <2>2 DEF Disk, Tidy, Owns, Working, Steps, Goes, Same,
       Like, Still, Returned, When
  <2>10. Finds(IF Holds(c2) THEN c2 ELSE Idle)
    BY <2>2, <2>3, <2>4, <2>5, <2>6, <2>7, <2>8, <2>9 DEF Finds
  <2>11. Moved(p, c2)
    BY <1>8, <2>1 DEF Moved, Still, store, kernel, layout
  <2> QED
    BY <1>1, <1>8, <2>1, <2>2, <2>10, <2>11, Move DEF NoFs, Steps, Holds, Goes, Same, Like
<1> QED
  BY <1>4, <1>5, <1>6, <1>7, <1>8

\* Off line the file system is unmounted first.
LEMMA ResizeUmountInv ==
  ASSUME Inv, NEW p \in Proc, ResizeUmount(p), "dropped" \notin windows'
  PROVE  Inv'
<1> PICK c \in Calls : c = call[p]
  BY DEF Inv, Types
<1>1. Steps(c) /\ Holds(c) /\ c.pc \in {"g_umount", "s_umount"}
  BY DEF Inv, Control, ResizeUmount, Holds
<1>2. Disk(c) /\ Types /\ Shapes /\ Listed
  BY <1>1, NowIs DEF Inv, Types
<1>3. \/ /\ Still /\ windows' = windows
         /\ Go(p, "r_fail")
      \/ /\ mnt' = "none"
         /\ Go(p, "r_fail")
         /\ UNCHANGED <<dd, tmp, names, nodes, dev, part, fs, windows>>
      \/ /\ mnt' = "none" /\ c.pc = "g_umount"
         /\ Go(p, "g_store")
         /\ UNCHANGED <<dd, tmp, names, nodes, dev, part, fs, windows>>
      \/ /\ mnt' = "none" /\ c.pc = "s_umount"
         /\ Go(p, "s_fs")
         /\ UNCHANGED <<dd, tmp, names, nodes, dev, part, fs, windows>>
  BY <1>1, <1>2 DEF ResizeUmount, NoFault, Go, Still, store, kernel, layout, At
<1>4. CASE /\ Still /\ windows' = windows
           /\ Go(p, "r_fail")
  BY <1>1, <1>2, <1>4, GivesUp
<1>5. CASE /\ mnt' = "none"
           /\ Go(p, "r_fail")
           /\ UNCHANGED <<dd, tmp, names, nodes, dev, part, fs, windows>>
  <2>1. PICK c2 \in Calls : Becomes(p, c2) /\ Goes(c2, c, "r_fail") /\ UNCHANGED <<lock, wanted>>
    BY <1>1, <1>2, <1>5, GoIs
  <2>2. Steps(c2) /\ Holds(c2)
    BY <1>1, <1>5, <2>1 DEF Steps, Holds, Goes, Same, Like
  <2>3. /\ TopNode(dd)' = TopNode(dd) /\ Deltas(dd)' = Deltas(dd) /\ Size(dd)' = Size(dd)
        /\ Found(dd)' = Found(dd)
    BY <1>5 DEF TopNode, Top, Size, Deltas, Files, Found
  <2>4. Shapes'
    BY <1>1, <1>2, <1>5, <2>1, <2>2, <2>3 DEF Shapes, Targets
  <2>5. Listed' /\ dd' # None
    BY <1>1, <1>2, <1>5, <2>1, <2>2, <2>3 DEF Disk, Read, Listed, Distinct, Holds
  <2>6. Working(c2)'
    BY <1>1, <1>2, <1>5, <2>1, <2>2, <2>3 DEF Disk, Working, Steps, Goes, Same, Like
  <2>7. Read(c2)'
    BY <1>1, <1>2, <1>5, <2>1, <2>2, <2>3 DEF Disk, Read, Holds, Steps, Goes, Same, Like
  <2>8. Placed' => Match(c2)'
    <3>1. Placed => Match(c)
      BY <1>2 DEF Disk
    <3>2. Placed' => Matched'
      BY <1>1, <1>2, <1>5, <2>1, <2>2, <2>3, <3>1 DEF Match, Matched, Placed
    <3>3. Placed' => Apart(c2)'
      BY <1>1, <1>2, <1>5, <2>1, <2>2, <2>3, <3>1 DEF Match, Apart, Swapping, Placed, Goes,
         Same, Like
    <3> QED
      BY <1>1, <1>2, <1>5, <2>1, <2>2, <2>3, <3>1, <3>2, <3>3 DEF Match, Swapping, Steps,
         Placed, Goes, Same, Like
  <2>9. Whole' => Lies(c2)'
    BY <1>1, <1>2, <1>5, <2>1, <2>2, <2>3 DEF Disk, Lies, Steps, Goes, Same, Like, Whole,
       Placed, When, Room, Size, TopNode, Top
  <2>10. Stored' => Fitting(c2)'
    BY <1>1, <1>2, <1>5, <2>1, <2>2, <2>3 DEF Disk, Fitting, Steps, Goes, Same, Like,
       Stored, Placed, When, Fits, Formats, Size, TopNode, Top
  <2>11. Followed' => Running(c2)'
    BY <1>1, <1>2, <1>5, <2>1, <2>2, <2>3 DEF Disk, Running, Swapping, Steps, Goes, Same,
       Like, Followed, Placed, When, Found
  <2>12. Returned' => Tidy(c2)'
    BY <1>1, <1>2, <1>5, <2>1, <2>2, <2>3 DEF Disk, Tidy, Owns, Working, Steps, Goes, Same,
       Like, Returned, When
  <2>13. Disk(IF Holds(c2) THEN c2 ELSE Idle)'
    BY <2>2, <2>4, <2>5, <2>6, <2>7, <2>8, <2>9, <2>10, <2>11, <2>12 DEF Disk
  <2> QED
    BY <1>1, <1>5, <2>1, <2>2, <2>4, <2>5, <2>13, Change DEF NoFs, Steps, Holds, Goes, Same,
       Like
<1>6. CASE /\ mnt' = "none" /\ c.pc = "g_umount"
           /\ Go(p, "g_store")
           /\ UNCHANGED <<dd, tmp, names, nodes, dev, part, fs, windows>>
  <2>1. PICK c2 \in Calls : Becomes(p, c2) /\ Goes(c2, c, "g_store") /\ UNCHANGED <<lock, wanted>>
    BY <1>1, <1>2, <1>6, GoIs
  <2>2. Steps(c2) /\ Holds(c2)
    BY <1>1, <1>6, <2>1 DEF Steps, Holds, Goes, Same, Like
  <2>3. /\ TopNode(dd)' = TopNode(dd) /\ Deltas(dd)' = Deltas(dd) /\ Size(dd)' = Size(dd)
        /\ Found(dd)' = Found(dd)
    BY <1>6 DEF TopNode, Top, Size, Deltas, Files, Found
  <2>4. Shapes'
    BY <1>1, <1>2, <1>6, <2>1, <2>2, <2>3 DEF Shapes, Targets
  <2>5. Listed' /\ dd' # None
    BY <1>1, <1>2, <1>6, <2>1, <2>2, <2>3 DEF Disk, Read, Listed, Distinct, Holds
  <2>6. Working(c2)'
    BY <1>1, <1>2, <1>6, <2>1, <2>2, <2>3 DEF Disk, Working, Steps, Goes, Same, Like
  <2>7. Read(c2)'
    BY <1>1, <1>2, <1>6, <2>1, <2>2, <2>3 DEF Disk, Read, Holds, Steps, Goes, Same, Like
  <2>8. Placed' => Match(c2)'
    <3>1. Placed => Match(c)
      BY <1>2 DEF Disk
    <3>2. Placed' => Matched'
      BY <1>1, <1>2, <1>6, <2>1, <2>2, <2>3, <3>1 DEF Match, Matched, Placed
    <3>3. Placed' => Apart(c2)'
      BY <1>1, <1>2, <1>6, <2>1, <2>2, <2>3, <3>1 DEF Match, Apart, Swapping, Placed, Goes,
         Same, Like
    <3> QED
      BY <1>1, <1>2, <1>6, <2>1, <2>2, <2>3, <3>1, <3>2, <3>3 DEF Match, Swapping, Steps,
         Placed, Goes, Same, Like
  <2>9. Whole' => Lies(c2)'
    BY <1>1, <1>2, <1>6, <2>1, <2>2, <2>3 DEF Disk, Lies, Steps, Goes, Same, Like, Whole,
       Placed, When, Room, Size, TopNode, Top
  <2>10. Stored' => Fitting(c2)'
    BY <1>1, <1>2, <1>6, <2>1, <2>2, <2>3 DEF Disk, Fitting, Steps, Goes, Same, Like,
       Stored, Placed, When, Fits, Formats, Size, TopNode, Top
  <2>11. Followed' => Running(c2)'
    BY <1>1, <1>2, <1>6, <2>1, <2>2, <2>3 DEF Disk, Running, Swapping, Steps, Goes, Same,
       Like, Followed, Placed, When, Found
  <2>12. Returned' => Tidy(c2)'
    BY <1>1, <1>2, <1>6, <2>1, <2>2, <2>3 DEF Disk, Tidy, Owns, Working, Steps, Goes, Same,
       Like, Returned, When
  <2>13. Disk(IF Holds(c2) THEN c2 ELSE Idle)'
    BY <2>2, <2>4, <2>5, <2>6, <2>7, <2>8, <2>9, <2>10, <2>11, <2>12 DEF Disk
  <2> QED
    BY <1>1, <1>6, <2>1, <2>2, <2>4, <2>5, <2>13, Change DEF NoFs, Steps, Holds, Goes, Same,
       Like
<1>7. CASE /\ mnt' = "none" /\ c.pc = "s_umount"
           /\ Go(p, "s_fs")
           /\ UNCHANGED <<dd, tmp, names, nodes, dev, part, fs, windows>>
  <2>1. PICK c2 \in Calls : Becomes(p, c2) /\ Goes(c2, c, "s_fs") /\ UNCHANGED <<lock, wanted>>
    BY <1>1, <1>2, <1>7, GoIs
  <2>2. Steps(c2) /\ Holds(c2)
    BY <1>1, <1>7, <2>1 DEF Steps, Holds, Goes, Same, Like
  <2>3. /\ TopNode(dd)' = TopNode(dd) /\ Deltas(dd)' = Deltas(dd) /\ Size(dd)' = Size(dd)
        /\ Found(dd)' = Found(dd)
    BY <1>7 DEF TopNode, Top, Size, Deltas, Files, Found
  <2>4. Shapes'
    BY <1>1, <1>2, <1>7, <2>1, <2>2, <2>3 DEF Shapes, Targets
  <2>5. Listed' /\ dd' # None
    BY <1>1, <1>2, <1>7, <2>1, <2>2, <2>3 DEF Disk, Read, Listed, Distinct, Holds
  <2>6. Working(c2)'
    BY <1>1, <1>2, <1>7, <2>1, <2>2, <2>3 DEF Disk, Working, Steps, Goes, Same, Like
  <2>7. Read(c2)'
    BY <1>1, <1>2, <1>7, <2>1, <2>2, <2>3 DEF Disk, Read, Holds, Steps, Goes, Same, Like
  <2>8. Placed' => Match(c2)'
    <3>1. Placed => Match(c)
      BY <1>2 DEF Disk
    <3>2. Placed' => Matched'
      BY <1>1, <1>2, <1>7, <2>1, <2>2, <2>3, <3>1 DEF Match, Matched, Placed
    <3>3. Placed' => Apart(c2)'
      BY <1>1, <1>2, <1>7, <2>1, <2>2, <2>3, <3>1 DEF Match, Apart, Swapping, Placed, Goes,
         Same, Like
    <3> QED
      BY <1>1, <1>2, <1>7, <2>1, <2>2, <2>3, <3>1, <3>2, <3>3 DEF Match, Swapping, Steps,
         Placed, Goes, Same, Like
  <2>9. Whole' => Lies(c2)'
    BY <1>1, <1>2, <1>7, <2>1, <2>2, <2>3 DEF Disk, Lies, Steps, Goes, Same, Like, Whole,
       Placed, When, Room, Size, TopNode, Top
  <2>10. Stored' => Fitting(c2)'
    BY <1>1, <1>2, <1>7, <2>1, <2>2, <2>3 DEF Disk, Fitting, Steps, Goes, Same, Like,
       Stored, Placed, When, Fits, Formats, Size, TopNode, Top
  <2>11. Followed' => Running(c2)'
    BY <1>1, <1>2, <1>7, <2>1, <2>2, <2>3 DEF Disk, Running, Swapping, Steps, Goes, Same,
       Like, Followed, Placed, When, Found
  <2>12. Returned' => Tidy(c2)'
    BY <1>1, <1>2, <1>7, <2>1, <2>2, <2>3 DEF Disk, Tidy, Owns, Working, Steps, Goes, Same,
       Like, Returned, When
  <2>13. Disk(IF Holds(c2) THEN c2 ELSE Idle)'
    BY <2>2, <2>4, <2>5, <2>6, <2>7, <2>8, <2>9, <2>10, <2>11, <2>12 DEF Disk
  <2> QED
    BY <1>1, <1>7, <2>1, <2>2, <2>4, <2>5, <2>13, Change DEF NoFs, Steps, Holds, Goes, Same,
       Like
<1> QED
  BY <1>3, <1>4, <1>5, <1>6, <1>7

\* The descriptor with the new size is written beside the stored one.
LEMMA ResizeStoreInv ==
  ASSUME Inv, NEW p \in Proc, ResizeStore(p), "dropped" \notin windows'
  PROVE  Inv'
<1> PICK c \in Calls : c = call[p]
  BY DEF Inv, Types
<1>1. Steps(c) /\ Holds(c) /\ c.pc = "g_store"
  BY DEF Inv, Control, ResizeStore, Holds, At
<1>2. Disk(c) /\ Types /\ Shapes /\ Listed
  BY <1>1, NowIs DEF Inv, Types
<1>3. \/ /\ tmp' = [c.di EXCEPT !.size = round_bdsize(c.size)]
         /\ Go(p, "g_grow")
         /\ UNCHANGED <<dd, names, nodes, dev, mnt, part, fs, windows>>
      \/ /\ tmp' = None
         /\ Go(p, "r_fail")
         /\ UNCHANGED <<dd, names, nodes, dev, mnt, part, fs, windows>>
  BY <1>1, <1>2 DEF ResizeStore, NoFault, Go, Still, store, kernel, layout, NewSize
<1>4. CASE /\ tmp' = [c.di EXCEPT !.size = round_bdsize(c.size)]
           /\ Go(p, "g_grow")
           /\ UNCHANGED <<dd, names, nodes, dev, mnt, part, fs, windows>>
  <2>1. PICK c2 \in Calls : Becomes(p, c2) /\ Goes(c2, c, "g_grow") /\ UNCHANGED <<lock, wanted>>
    BY <1>1, <1>2, <1>4, GoIs
  <2>2. Steps(c2) /\ Holds(c2)
    BY <1>1, <1>4, <2>1 DEF Steps, Holds, Goes, Same, Like
  <2>3. /\ TopNode(dd)' = TopNode(dd) /\ Deltas(dd)' = Deltas(dd) /\ Size(dd)' = Size(dd)
        /\ Found(dd)' = Found(dd)
    BY <1>4 DEF TopNode, Top, Size, Deltas, Files, Found
  <2>4. c.di = dd /\ dd \in Descriptor /\ c.size \in Int /\ round_bdsize(c.size) \in Int
    BY <1>1, <1>2, DiskIs, AlignedUp DEF Disk, Read, Holds, Steps, Calls
  <2>5. tmp' \in Descriptor /\ tmp' = [c2.di EXCEPT !.size = round_bdsize(c2.size)]
    BY <1>4, <2>1, <2>4 DEF Descriptor, Goes, Same, Like
  <2>6. Shapes'
    BY <1>1, <1>2, <1>4, <2>1, <2>2, <2>3, <2>4, <2>5 DEF Shapes
  <2>7. Listed' /\ dd' # None
    BY <1>1, <1>2, <1>4, <2>1, <2>2, <2>3, <2>4, <2>5 DEF Disk, Read, Listed, Distinct,
       Holds
  <2>8. Working(c2)'
    BY <1>1, <1>2, <1>4, <2>1, <2>2, <2>3, <2>4, <2>5 DEF Disk, Working, Steps, Goes, Same,
       Like
  <2>9. Read(c2)'
    BY <1>1, <1>2, <1>4, <2>1, <2>2, <2>3, <2>4, <2>5 DEF Disk, Read, Holds, Steps, Goes,
       Same, Like
  <2>10. Placed' => Match(c2)'
    <3>1. Placed => Match(c)
      BY <1>2 DEF Disk
    <3>2. Placed' => Matched'
      BY <1>1, <1>2, <1>4, <2>1, <2>2, <2>3, <2>4, <2>5, <3>1 DEF Match, Matched, Placed
    <3>3. Placed' => Apart(c2)'
      BY <1>1, <1>2, <1>4, <2>1, <2>2, <2>3, <2>4, <2>5, <3>1 DEF Match, Apart, Swapping,
         Placed, Goes, Same, Like
    <3> QED
      BY <1>1, <1>2, <1>4, <2>1, <2>2, <2>3, <2>4, <2>5, <3>1, <3>2, <3>3 DEF Match,
         Swapping, Steps, Placed, Goes, Same, Like
  <2>11. Whole' => Lies(c2)'
    BY <1>1, <1>2, <1>4, <2>1, <2>2, <2>3, <2>4, <2>5 DEF Disk, Lies, Steps, Goes, Same,
       Like, Whole, Placed, When, Room, Size, TopNode, Top
  <2>12. Stored' => Fitting(c2)'
    BY <1>1, <1>2, <1>4, <2>1, <2>2, <2>3, <2>4, <2>5 DEF Disk, Fitting, Steps, Goes, Same,
       Like, Stored, Placed, When, Fits, Formats, Size, TopNode, Top
  <2>13. Followed' => Running(c2)'
    BY <1>1, <1>2, <1>4, <2>1, <2>2, <2>3, <2>4, <2>5 DEF Disk, Running, Swapping, Steps,
       Goes, Same, Like, Followed, Placed, When, Found
  <2>14. Returned' => Tidy(c2)'
    BY <1>1, <1>2, <1>4, <2>1, <2>2, <2>3, <2>4, <2>5 DEF Disk, Tidy, Owns, Working, Steps,
       Goes, Same, Like, Returned, When
  <2>15. Disk(IF Holds(c2) THEN c2 ELSE Idle)'
    BY <2>2, <2>6, <2>7, <2>8, <2>9, <2>10, <2>11, <2>12, <2>13, <2>14 DEF Disk
  <2> QED
    BY <1>1, <1>4, <2>1, <2>2, <2>6, <2>7, <2>15, Change DEF NoFs, Steps, Holds, Goes, Same,
       Like
<1>5. CASE /\ tmp' = None
           /\ Go(p, "r_fail")
           /\ UNCHANGED <<dd, names, nodes, dev, mnt, part, fs, windows>>
  <2>1. PICK c2 \in Calls : Becomes(p, c2) /\ Goes(c2, c, "r_fail") /\ UNCHANGED <<lock, wanted>>
    BY <1>1, <1>2, <1>5, GoIs
  <2>2. Steps(c2) /\ Holds(c2)
    BY <1>1, <1>5, <2>1 DEF Steps, Holds, Goes, Same, Like
  <2>3. /\ TopNode(dd)' = TopNode(dd) /\ Deltas(dd)' = Deltas(dd) /\ Size(dd)' = Size(dd)
        /\ Found(dd)' = Found(dd)
    BY <1>5 DEF TopNode, Top, Size, Deltas, Files, Found
  <2>4. Shapes'
    BY <1>1, <1>2, <1>5, <2>1, <2>2, <2>3 DEF Shapes
  <2>5. Listed' /\ dd' # None
    BY <1>1, <1>2, <1>5, <2>1, <2>2, <2>3 DEF Disk, Read, Listed, Distinct, Holds
  <2>6. Working(c2)'
    BY <1>1, <1>2, <1>5, <2>1, <2>2, <2>3 DEF Disk, Working, Steps, Goes, Same, Like
  <2>7. Read(c2)'
    BY <1>1, <1>2, <1>5, <2>1, <2>2, <2>3 DEF Disk, Read, Holds, Steps, Goes, Same, Like
  <2>8. Placed' => Match(c2)'
    <3>1. Placed => Match(c)
      BY <1>2 DEF Disk
    <3>2. Placed' => Matched'
      BY <1>1, <1>2, <1>5, <2>1, <2>2, <2>3, <3>1 DEF Match, Matched, Placed
    <3>3. Placed' => Apart(c2)'
      BY <1>1, <1>2, <1>5, <2>1, <2>2, <2>3, <3>1 DEF Match, Apart, Swapping, Placed, Goes,
         Same, Like
    <3> QED
      BY <1>1, <1>2, <1>5, <2>1, <2>2, <2>3, <3>1, <3>2, <3>3 DEF Match, Swapping, Steps,
         Placed, Goes, Same, Like
  <2>9. Whole' => Lies(c2)'
    BY <1>1, <1>2, <1>5, <2>1, <2>2, <2>3 DEF Disk, Lies, Steps, Goes, Same, Like, Whole,
       Placed, When, Room, Size, TopNode, Top
  <2>10. Stored' => Fitting(c2)'
    BY <1>1, <1>2, <1>5, <2>1, <2>2, <2>3 DEF Disk, Fitting, Steps, Goes, Same, Like,
       Stored, Placed, When, Fits, Formats, Size, TopNode, Top
  <2>11. Followed' => Running(c2)'
    BY <1>1, <1>2, <1>5, <2>1, <2>2, <2>3 DEF Disk, Running, Swapping, Steps, Goes, Same,
       Like, Followed, Placed, When, Found
  <2>12. Returned' => Tidy(c2)'
    BY <1>1, <1>2, <1>5, <2>1, <2>2, <2>3 DEF Disk, Tidy, Owns, Working, Steps, Goes, Same,
       Like, Returned, When
  <2>13. Disk(IF Holds(c2) THEN c2 ELSE Idle)'
    BY <2>2, <2>4, <2>5, <2>6, <2>7, <2>8, <2>9, <2>10, <2>11, <2>12 DEF Disk
  <2> QED
    BY <1>1, <1>5, <2>1, <2>2, <2>4, <2>5, <2>13, Change DEF NoFs, Steps, Holds, Goes, Same,
       Like
<1> QED
  BY <1>3, <1>4, <1>5

\* The device grows.
LEMMA ResizeGrowInv ==
  ASSUME Inv, NEW p \in Proc, ResizeGrow(p), "dropped" \notin windows'
  PROVE  Inv'
<1> PICK c \in Calls : c = call[p]
  BY DEF Inv, Types
<1>1. Steps(c) /\ Holds(c) /\ c.pc = "g_grow"
  BY DEF Inv, Control, ResizeGrow, Holds, At
<1>2. Disk(c) /\ Types /\ Shapes /\ Listed
  BY <1>1, NowIs DEF Inv, Types
<1>3. /\ c.di = dd /\ dd \in Descriptor /\ dd # None /\ c.size \in Int /\ round_bdsize(c.size) \in Int /\ Aligned(round_bdsize(c.size))
     /\ dev \in Kernel /\ dev # None /\ dev.size \in Int
  BY <1>1, <1>2, DiskIs, AlignedUp DEF Disk, Read, Holds, Steps, Calls, Working, Shapes,
     Kernel
<1>4. \/ /\ Grown(round_bdsize(c.size))
         /\ Go(p, "g_rename")
         /\ UNCHANGED <<dd, tmp, names, mnt, part, fs, lock, wanted, windows>>
      \/ /\ tmp' = None
         /\ Go(p, "r_fail")
         /\ UNCHANGED <<dd, names, nodes, dev, mnt, part, fs, windows>>
  BY <1>1, <1>2, <1>3 DEF ResizeGrow, NoFault, Go, Still, store, kernel, layout, NewSize
<1>5. CASE /\ Grown(round_bdsize(c.size))
           /\ Go(p, "g_rename")
           /\ UNCHANGED <<dd, tmp, names, mnt, part, fs, lock, wanted, windows>>
  <2>1. PICK c2 \in Calls : Becomes(p, c2) /\ Goes(c2, c, "g_rename") /\ UNCHANGED <<lock, wanted>>
    BY <1>1, <1>2, <1>5, GoIs
  <2>2. Steps(c2) /\ Holds(c2)
    BY <1>1, <1>5, <2>1 DEF Steps, Holds, Goes, Same, Like
  <2>3. /\ tmp = [c.di EXCEPT !.size = round_bdsize(c.size)] /\ tmp # None
        /\ tmp \in Descriptor /\ tmp.base = dd.base /\ tmp.top = dd.top /\ tmp.max = dd.max /\ tmp.mode = dd.mode /\ tmp.size = round_bdsize(c.size)
    BY <1>1, <1>2, <1>3, NoneAssumption DEF Disk, Working, Descriptor
  <2>4. Stored => Formats(dd)
    BY <1>1, <1>2, <1>3 DEF Disk, Fitting, Fits
  <2>5. Placed => Found(dd) /\ dev.deltas = Deltas(dd) /\ dev.size = Size(dd) /\ dev.size < round_bdsize(c.size)
    BY <1>1, <1>2, <1>3 DEF Disk, Match, Matched
  <2>6. (round_bdsize(c.size) \div B) * B = round_bdsize(c.size)
    BY <1>3, AlignedFloor
  <2>7. /\ dev' \in Kernel /\ dev' # None
        /\ dev'.deltas = dev.deltas /\ dev'.running = dev.running /\ dev'.max = dev.max
        /\ dev'.size = round_bdsize(c.size)
        /\ DOMAIN nodes' = DOMAIN nodes
        /\ \A m \in DOMAIN nodes :
             /\ nodes'[m] \in Node
             /\ nodes'[m].fmt = nodes[m].fmt /\ nodes'[m].whole = nodes[m].whole
             /\ nodes'[m].size = IF m = dev.deltas[Len(dev.deltas)] THEN round_bdsize(c.size)
                                 ELSE nodes[m].size
    BY <1>2, <1>3, <1>5, <2>6, GrownIs
  <2>8. TopNode(dd)' = TopNode(dd) /\ Deltas(dd)' = Deltas(dd) /\ Found(dd)' = Found(dd) /\ TopNode(tmp)' = TopNode(dd)
    BY <1>5, <1>3, <2>3, <2>7 DEF TopNode, Top, Deltas, Files, Found
  <2>9. /\ TopNode(dd) \in DOMAIN nodes /\ Size(dd) \in Int
        /\ Size(dd)' = nodes'[TopNode(dd)].size /\ Size(tmp)' = nodes'[TopNode(dd)].size
    BY <1>2, <1>3, <1>5, <2>8, DiskIs DEF Size
  <2>10. Placed => Size(dd)' = round_bdsize(c.size)
    BY <1>2, <1>3, <2>5, <2>7, <2>9, TopIs
  <2>11. Placed /\ Room => Room'
    BY <1>2, <1>3, <1>5, <2>5, <2>10, BlockAligned DEF Room, Shapes
  <2>12. Stored => Formats(tmp)' /\ Size(tmp)' = tmp.size /\ tmp' = tmp
    BY <1>2, <1>3, <1>5, <2>3, <2>4, <2>7, <2>9, <2>10, DiskIs DEF Fits, Formats, Stored
  <2>13. Shapes'
    BY <1>1, <1>2, <1>5, <1>3, <2>1, <2>2, <2>3, <2>4, <2>5, <2>6, <2>7, <2>8, <2>9, <2>10,
       <2>11, <2>12 DEF Shapes
  <2>14. Listed' /\ dd' # None
    BY <1>1, <1>2, <1>5, <1>3, <2>1, <2>2, <2>3, <2>4, <2>5, <2>6, <2>7, <2>8, <2>9, <2>10,
       <2>11, <2>12 DEF Disk, Read, Listed, Distinct, Holds
  <2>15. Working(c2)'
    BY <1>1, <1>2, <1>5, <1>3, <2>1, <2>2, <2>3, <2>4, <2>5, <2>6, <2>7, <2>8, <2>9, <2>10,
       <2>11, <2>12 DEF Disk, Working, Steps, Goes, Same, Like
  <2>16. Read(c2)'
    BY <1>1, <1>2, <1>5, <1>3, <2>1, <2>2, <2>3, <2>4, <2>5, <2>6, <2>7, <2>8, <2>9, <2>10,
       <2>11, <2>12 DEF Disk, Read, Holds, Steps, Goes, Same, Like
  <2>17. Placed' => Match(c2)'
    <3>1. Placed => Match(c)
      BY <1>2 DEF Disk
    <3>2. Placed' => Matched'
      BY <1>1, <1>2, <1>5, <1>3, <2>1, <2>2, <2>3, <2>4, <2>5, <2>6, <2>7, <2>8, <2>9,
         <2>10, <2>11, <2>12, <3>1 DEF Match, Matched, Placed
    <3>3. Placed' => Apart(c2)'
      BY <1>1, <1>2, <1>5, <1>3, <2>1, <2>2, <2>3, <2>4, <2>5, <2>6, <2>7, <2>8, <2>9,
         <2>10, <2>11, <2>12, <3>1 DEF Match, Apart, Swapping, Placed, Goes, Same, Like
    <3> QED
      BY <1>1, <1>2, <1>5, <1>3, <2>1, <2>2, <2>3, <2>4, <2>5, <2>6, <2>7, <2>8, <2>9,
         <2>10, <2>11, <2>12, <3>1, <3>2, <3>3 DEF Match, Swapping, Steps, Placed, Goes,
         Same, Like, Placed
  <2>18. Whole' => Lies(c2)'
    BY <1>1, <1>2, <1>5, <1>3, <2>1, <2>2, <2>3, <2>4, <2>5, <2>6, <2>7, <2>8, <2>9, <2>10,
       <2>11, <2>12 DEF Disk, Lies, Steps, Goes, Same, Like, Whole, Placed, When, Room,
       Size, TopNode, Top
  <2>19. Stored' => Fitting(c2)'
      <3>1. Stored' => Stored
        BY <1>5 DEF Stored, Placed
      <3>2. c2.pc = "g_rename"
        BY <2>1 DEF Goes, Same, Like
      <3>3. Stored' => Fits(tmp)'
        BY <3>1, <2>12 DEF Fits
      <3> QED
        BY <3>2, <3>3 DEF Fitting
  <2>20. Followed' => Running(c2)'
    BY <1>1, <1>2, <1>5, <1>3, <2>1, <2>2, <2>3, <2>4, <2>5, <2>6, <2>7, <2>8, <2>9, <2>10,
       <2>11, <2>12 DEF Disk, Running, Swapping, Steps, Goes, Same, Like, Followed, Placed,
       When, Found
  <2>21. Returned' => Tidy(c2)'
      <3>1. dev # None /\ dev' # None
        BY <1>3, <2>7
      <3>2. Owns(c2) <=> Owns(c)
        BY <1>1, <2>1 DEF Owns, Goes, Same, Like
      <3>3. c.op = "resize"
        BY <1>1 DEF Steps
      <3>4. Returned' => Tidy(c)
        BY <1>2, <1>5 DEF Disk, Returned
      <3>5. c2.pc = "g_rename" /\ c2.op = "resize" /\ c2.own = c.own /\ c2.umfs = c.umfs
        BY <3>3, <2>1 DEF Goes, Same, Like
      <3>6. mnt' = mnt /\ tmp' = tmp /\ names' = names /\ wanted' = wanted
        BY <1>5
      <3> QED
        BY <1>1, <3>1, <3>2, <3>3, <3>4, <3>5, <3>6 DEF Tidy
  <2>22. Disk(IF Holds(c2) THEN c2 ELSE Idle)'
    BY <2>2, <2>13, <2>14, <2>15, <2>16, <2>17, <2>18, <2>19, <2>20, <2>21 DEF Disk
  <2> QED
    BY <1>1, <1>5, <2>1, <2>2, <2>13, <2>14, <2>22, Change DEF NoFs, Steps, Holds, Goes,
       Same, Like
<1>6. CASE /\ tmp' = None
           /\ Go(p, "r_fail")
           /\ UNCHANGED <<dd, names, nodes, dev, mnt, part, fs, windows>>
  <2>1. PICK c2 \in Calls : Becomes(p, c2) /\ Goes(c2, c, "r_fail") /\ UNCHANGED <<lock, wanted>>
    BY <1>1, <1>2, <1>6, GoIs
  <2>2. Steps(c2) /\ Holds(c2)
    BY <1>1, <1>6, <2>1 DEF Steps, Holds, Goes, Same, Like
  <2>3. /\ TopNode(dd)' = TopNode(dd) /\ Deltas(dd)' = Deltas(dd) /\ Size(dd)' = Size(dd)
        /\ Found(dd)' = Found(dd)
    BY <1>6 DEF TopNode, Top, Size, Deltas, Files, Found
  <2>4. Shapes'
    BY <1>1, <1>2, <1>6, <1>3, <2>1, <2>2, <2>3 DEF Shapes
  <2>5. Listed' /\ dd' # None
    BY <1>1, <1>2, <1>6, <1>3, <2>1, <2>2, <2>3 DEF Disk, Read, Listed, Distinct, Holds
  <2>6. Working(c2)'
    BY <1>1, <1>2, <1>6, <1>3, <2>1, <2>2, <2>3 DEF Disk, Working, Steps, Goes, Same, Like
  <2>7. Read(c2)'
    BY <1>1, <1>2, <1>6, <1>3, <2>1, <2>2, <2>3 DEF Disk, Read, Holds, Steps, Goes, Same,
       Like
  <2>8. Placed' => Match(c2)'
    <3>1. Placed => Match(c)
      BY <1>2 DEF Disk
    <3>2. Placed' => Matched'
      BY <1>1, <1>2, <1>6, <1>3, <2>1, <2>2, <2>3, <3>1 DEF Match, Matched, Placed
    <3>3. Placed' => Apart(c2)'
      BY <1>1, <1>2, <1>6, <1>3, <2>1, <2>2, <2>3, <3>1 DEF Match, Apart, Swapping, Placed,
         Goes, Same, Like
    <3> QED
      BY <1>1, <1>2, <1>6, <1>3, <2>1, <2>2, <2>3, <3>1, <3>2, <3>3 DEF Match, Swapping,
         Steps, Placed, Goes, Same, Like
  <2>9. Whole' => Lies(c2)'
    BY <1>1, <1>2, <1>6, <1>3, <2>1, <2>2, <2>3 DEF Disk, Lies, Steps, Goes, Same, Like,
       Whole, Placed, When, Room, Size, TopNode, Top
  <2>10. Stored' => Fitting(c2)'
    BY <1>1, <1>2, <1>6, <1>3, <2>1, <2>2, <2>3 DEF Disk, Fitting, Steps, Goes, Same, Like,
       Stored, Placed, When, Fits, Formats, Size, TopNode, Top
  <2>11. Followed' => Running(c2)'
    BY <1>1, <1>2, <1>6, <1>3, <2>1, <2>2, <2>3 DEF Disk, Running, Swapping, Steps, Goes,
       Same, Like, Followed, Placed, When, Found
  <2>12. Returned' => Tidy(c2)'
    BY <1>1, <1>2, <1>6, <1>3, <2>1, <2>2, <2>3 DEF Disk, Tidy, Owns, Working, Steps, Goes,
       Same, Like, Returned, When
  <2>13. Disk(IF Holds(c2) THEN c2 ELSE Idle)'
    BY <2>2, <2>4, <2>5, <2>6, <2>7, <2>8, <2>9, <2>10, <2>11, <2>12 DEF Disk
  <2> QED
    BY <1>1, <1>6, <2>1, <2>2, <2>4, <2>5, <2>13, Change DEF NoFs, Steps, Holds, Goes, Same,
       Like
<1> QED
  BY <1>4, <1>5, <1>6

\* The descriptor with the new size takes the place of the old one.
LEMMA ResizeRenameInv ==
  ASSUME Inv, NEW p \in Proc, ResizeRename(p), "dropped" \notin windows'
  PROVE  Inv'
<1> PICK c \in Calls : c = call[p]
  BY DEF Inv, Types
<1>1. Steps(c) /\ Holds(c) /\ c.pc = "g_rename"
  BY DEF Inv, Control, ResizeRename, Holds, At
<1>2. Disk(c) /\ Types /\ Shapes /\ Listed
  BY <1>1, NowIs DEF Inv, Types
<1>3. /\ c.di = dd /\ dd \in Descriptor /\ dd # None /\ c.size \in Int /\ round_bdsize(c.size) \in Int /\ Aligned(round_bdsize(c.size))
     /\ dev \in Kernel /\ dev # None /\ dev.size \in Int
  BY <1>1, <1>2, DiskIs, AlignedUp DEF Disk, Read, Holds, Steps, Calls, Working, Shapes,
     Kernel
<1>4. \/ /\ dd' = tmp /\ tmp' = None
         /\ Go(p, "g_gpt")
         /\ UNCHANGED <<names, nodes, dev, mnt, part, fs, lock, wanted, windows>>
      \/ /\ Still /\ windows' = windows \cup {"grown"}
         /\ Go(p, "r_fail")
  BY <1>1, <1>2, <1>3, HalfIs DEF ResizeRename, NoFault, Go, Still, store, kernel, layout,
     Steps
<1>5. CASE /\ dd' = tmp /\ tmp' = None
           /\ Go(p, "g_gpt")
           /\ UNCHANGED <<names, nodes, dev, mnt, part, fs, lock, wanted, windows>>
  <2>1. PICK c2 \in Calls : Becomes(p, c2) /\ Goes(c2, c, "g_gpt") /\ UNCHANGED <<lock, wanted>>
    BY <1>1, <1>2, <1>5, GoIs
  <2>2. Steps(c2) /\ Holds(c2)
    BY <1>1, <1>5, <2>1 DEF Steps, Holds, Goes, Same, Like
  <2>3. /\ tmp = [c.di EXCEPT !.size = round_bdsize(c.size)] /\ tmp # None
        /\ tmp \in Descriptor /\ tmp.base = dd.base /\ tmp.top = dd.top /\ tmp.max = dd.max /\ tmp.mode = dd.mode /\ tmp.size = round_bdsize(c.size)
    BY <1>1, <1>2, <1>3, NoneAssumption DEF Disk, Working, Descriptor
  <2>4. /\ dd' = tmp /\ names' = names /\ nodes' = nodes /\ TopNode(dd)' = TopNode(dd) /\ Deltas(dd)' = Deltas(dd) /\ Size(dd)' = Size(dd)
        /\ Found(dd)' = Found(dd)
    BY <1>5, <2>3 DEF TopNode, Top, Size, Deltas, Files, Found
  <2>5. Stored => Fits(dd)'
    BY <1>1, <1>2, <1>5, <2>3, <2>4 DEF Disk, Fitting, Fits, Formats, Size, TopNode, Top
  <2>6. Shapes'
    BY <1>1, <1>2, <1>5, <1>3, <2>1, <2>2, <2>3, <2>4, <2>5 DEF Shapes
  <2>7. Listed' /\ dd' # None
    BY <1>1, <1>2, <1>5, <1>3, <2>1, <2>2, <2>3, <2>4, <2>5 DEF Disk, Read, Listed,
       Distinct, Holds
  <2>8. Working(c2)'
    BY <1>1, <1>2, <1>5, <1>3, <2>1, <2>2, <2>3, <2>4, <2>5 DEF Disk, Working, Steps, Goes,
       Same, Like
  <2>9. Read(c2)'
    BY <1>1, <1>2, <1>5, <1>3, <2>1, <2>2, <2>3, <2>4, <2>5 DEF Disk, Read, Holds, Steps,
       Goes, Same, Like
  <2>10. Placed' => Match(c2)'
    <3>1. Placed => Match(c)
      BY <1>2 DEF Disk
    <3>2. Placed' => Matched'
      BY <1>1, <1>2, <1>5, <1>3, <2>1, <2>2, <2>3, <2>4, <2>5, <3>1 DEF Match, Matched,
         Placed
    <3>3. Placed' => Apart(c2)'
      BY <1>1, <1>2, <1>5, <1>3, <2>1, <2>2, <2>3, <2>4, <2>5, <3>1 DEF Match, Apart,
         Swapping, Placed, Goes, Same, Like
    <3> QED
      BY <1>1, <1>2, <1>5, <1>3, <2>1, <2>2, <2>3, <2>4, <2>5, <3>1, <3>2, <3>3 DEF Match,
         Swapping, Steps, Placed, Goes, Same, Like
  <2>11. Whole' => Lies(c2)'
    BY <1>1, <1>2, <1>5, <1>3, <2>1, <2>2, <2>3, <2>4, <2>5 DEF Disk, Lies, Steps, Goes,
       Same, Like, Whole, Placed, When, Room, Size, TopNode, Top
  <2>12. Stored' => Fitting(c2)'
    BY <1>1, <1>2, <1>5, <1>3, <2>1, <2>2, <2>3, <2>4, <2>5 DEF Disk, Fitting, Steps, Goes,
       Same, Like, Stored, Placed, When, Fits, Formats, Size, TopNode, Top
  <2>13. Followed' => Running(c2)'
    BY <1>1, <1>2, <1>5, <1>3, <2>1, <2>2, <2>3, <2>4, <2>5 DEF Disk, Running, Swapping,
       Steps, Goes, Same, Like, Followed, Placed, When, Found
  <2>14. Returned' => Tidy(c2)'
      <3>1. c.op = "resize"
        BY <1>1 DEF Steps
      <3>2. (Owns(c2) <=> Owns(c)) /\ c2.op = c.op /\ c2.own = c.own /\ c2.umfs = c.umfs /\ c2.pc = "g_gpt"
        BY <1>1, <1>5, <2>1 DEF Owns, Steps, Goes, Same, Like
      <3>3. UNCHANGED <<mnt, names, wanted>> /\ tmp' = None
        BY <1>5
      <3>4. UNCHANGED dev
        BY <1>5
      <3>5. Returned' => Tidy(c)
        BY <1>2, <1>5 DEF Disk, Returned
      <3> QED
        BY <1>1, <3>1, <3>2, <3>3, <3>4, <3>5 DEF Tidy
  <2>15. Disk(IF Holds(c2) THEN c2 ELSE Idle)'
    BY <2>2, <2>6, <2>7, <2>8, <2>9, <2>10, <2>11, <2>12, <2>13, <2>14 DEF Disk
  <2> QED
    BY <1>1, <1>5, <2>1, <2>2, <2>6, <2>7, <2>15, Change DEF NoFs, Steps, Holds, Goes, Same,
       Like
<1>6. CASE /\ Still /\ windows' = windows \cup {"grown"}
           /\ Go(p, "r_fail")
  <2>1. PICK c2 \in Calls : Becomes(p, c2) /\ Goes(c2, c, "r_fail") /\ UNCHANGED <<lock, wanted>>
    BY <1>1, <1>2, <1>6, GoIs
  <2>2. Steps(c2) /\ Holds(c2)
    BY <1>1, <1>6, <2>1 DEF Steps, Holds, Goes, Same, Like
  <2>3. Working(c2)
    BY <1>1, <1>2, <1>6, <1>3, <2>1, <2>2 DEF Disk, Working, Steps, Goes, Same, Like, Still
  <2>4. Read(c2)
    BY <1>1, <1>2, <1>6, <1>3, <2>1, <2>2 DEF Disk, Read, Holds, Steps, Goes, Same, Like,
       Still
  <2>5. Placed' => Match(c2)
    BY <1>1, <1>2, <1>6, <1>3, <2>1, <2>2 DEF Disk, Match, Matched, Apart, Swapping, Steps,
       Goes, Same, Like, Still, Placed, When
  <2>6. Whole' => Lies(c2)
    BY <1>1, <1>2, <1>6, <1>3, <2>1, <2>2 DEF Disk, Lies, Steps, Goes, Same, Like, Still,
       Whole, Placed, When
  <2>7. Stored' => Fitting(c2)
    BY <1>1, <1>2, <1>6, <1>3, <2>1, <2>2 DEF Disk, Fitting, Steps, Goes, Same, Like, Still,
       Stored, Placed, When
  <2>8. Followed' => Running(c2)
    BY <1>1, <1>2, <1>6, <1>3, <2>1, <2>2 DEF Disk, Running, Swapping, Steps, Goes, Same,
       Like, Still, Followed, Placed, When
  <2>9. Returned' => Tidy(c2)
    BY <1>1, <1>2, <1>6, <1>3, <2>1, <2>2 DEF Disk, Tidy, Owns, Working, Steps, Goes, Same,
       Like, Still, Returned, When
  <2>10. Finds(IF Holds(c2) THEN c2 ELSE Idle)
    BY <2>2, <2>3, <2>4, <2>5, <2>6, <2>7, <2>8, <2>9 DEF Finds
  <2>11. Moved(p, c2)
    BY <1>6, <2>1 DEF Moved, Still, store, kernel, layout
  <2> QED
    BY <1>1, <1>6, <2>1, <2>2, <2>10, <2>11, Move DEF NoFs, Steps, Holds, Goes, Same, Like
<1> QED
  BY <1>4, <1>5, <1>6

\* The partition gets the size of the device, or the size asked for.
LEMMA ResizeGptInv ==
  ASSUME Inv, NEW p \in Proc, ResizeGpt(p), "dropped" \notin windows'
  PROVE  Inv'
<1> PICK c \in Calls : c = call[p]
  BY DEF Inv, Types
<1>1. Steps(c) /\ Holds(c) /\ c.pc \in {"g_gpt", "s_gpt"}
  BY DEF Inv, Control, ResizeGpt, Holds
<1>2. Disk(c) /\ Types /\ Shapes /\ Listed
  BY <1>1, NowIs DEF Inv, Types
<1>3. /\ dd # None /\ c.size \in Int /\ round_bdsize(c.size) \in Int /\ Aligned(round_bdsize(c.size)) /\ round_bdsize(c.size) > 4 * B
     /\ dev \in Kernel /\ dev # None /\ dev.size \in Int /\ part \in Int /\ fs \in Int /\ B \in Int /\ B > 34
  BY <1>1, <1>2, AlignedUp, BlockIs DEF Disk, Read, Holds, Steps, Calls, Working, Shapes,
     Kernel
<1>4. Whole => /\ fs # 0 /\ Room /\ B + fs <= part /\ part + B <= dev.size /\ dev.size = Size(dd)
              /\ (c.pc = "g_gpt" => dev.size = round_bdsize(c.size)) /\ (c.pc = "s_gpt" => round_bdsize(c.size) <= dev.size)
              /\ (c.pc = "g_fs" => part > B) /\ (c.pc \in {"s_fs", "s_online"} => round_bdsize(c.size) - 4 * B <= part - B)
  BY <1>1, <1>2, <1>3 DEF Disk, Lies, Room, Whole, Match, Matched
<1>5. \/ /\ Still /\ windows' = windows
         /\ Go(p, "r_fail")
      \/ /\ part' = PartEnd(dev.size) /\ c.pc = "g_gpt"
         /\ Go(p, "g_fs")
         /\ UNCHANGED <<dd, tmp, names, nodes, dev, mnt, fs, windows>>
      \/ /\ part' = part /\ c.pc = "s_gpt" /\ round_bdsize(c.size) - 4 * B <= part - B /\ c.own
         /\ Go(p, "s_umount")
         /\ UNCHANGED <<dd, tmp, names, nodes, dev, mnt, fs, windows>>
      \/ /\ part' = part /\ c.pc = "s_gpt" /\ round_bdsize(c.size) - 4 * B <= part - B
         /\ Go(p, "s_online")
         /\ UNCHANGED <<dd, tmp, names, nodes, dev, mnt, fs, windows>>
      \/ /\ part' = PartEnd(round_bdsize(c.size)) /\ c.pc = "s_gpt" /\ part - B < round_bdsize(c.size) - 4 * B /\ c.own
         /\ Go(p, "s_umount")
         /\ UNCHANGED <<dd, tmp, names, nodes, dev, mnt, fs, windows>>
      \/ /\ part' = PartEnd(round_bdsize(c.size)) /\ c.pc = "s_gpt" /\ part - B < round_bdsize(c.size) - 4 * B
         /\ Go(p, "s_online")
         /\ UNCHANGED <<dd, tmp, names, nodes, dev, mnt, fs, windows>>
  BY <1>1, <1>2, <1>3, <1>4 DEF ResizeGpt, NoFault, Go, Still, store, kernel, layout,
     NewSize, NewFsSize, Offline, At
<1>6. CASE /\ Still /\ windows' = windows
           /\ Go(p, "r_fail")
  BY <1>1, <1>2, <1>6, GivesUp
<1>7. CASE /\ part' = PartEnd(dev.size) /\ c.pc = "g_gpt"
           /\ Go(p, "g_fs")
           /\ UNCHANGED <<dd, tmp, names, nodes, dev, mnt, fs, windows>>
  <2>1. PICK c2 \in Calls : Becomes(p, c2) /\ Goes(c2, c, "g_fs") /\ UNCHANGED <<lock, wanted>>
    BY <1>1, <1>2, <1>7, GoIs
  <2>2. Steps(c2) /\ Holds(c2)
    BY <1>1, <1>7, <2>1 DEF Steps, Holds, Goes, Same, Like
  <2>3. /\ TopNode(dd)' = TopNode(dd) /\ Deltas(dd)' = Deltas(dd) /\ Size(dd)' = Size(dd)
        /\ Found(dd)' = Found(dd)
    BY <1>7 DEF TopNode, Top, Size, Deltas, Files, Found
  <2>4. Whole => part' = dev.size - B /\ Aligned(dev.size - B)
    BY <1>1, <1>3, <1>4, <1>7, PartEndIs
  <2>5. Whole => Room' /\ B + fs <= part' /\ part' > B
    BY <1>1, <1>3, <1>4, <1>7, <2>3, <2>4 DEF Room
  <2>6. part' \in Int
    BY <1>3, <1>7, PartEndInt
  <2>7. Shapes'
    BY <1>1, <1>2, <1>7, <1>3, <1>4, <2>1, <2>2, <2>3, <2>4, <2>5, <2>6 DEF Shapes
  <2>8. Listed' /\ dd' # None
    BY <1>1, <1>2, <1>7, <1>3, <1>4, <2>1, <2>2, <2>3, <2>4, <2>5, <2>6 DEF Disk, Read,
       Listed, Distinct, Holds
  <2>9. Working(c2)'
    BY <1>1, <1>2, <1>7, <1>3, <1>4, <2>1, <2>2, <2>3, <2>4, <2>5, <2>6 DEF Disk, Working,
       Steps, Goes, Same, Like
  <2>10. Read(c2)'
    BY <1>1, <1>2, <1>7, <1>3, <1>4, <2>1, <2>2, <2>3, <2>4, <2>5, <2>6 DEF Disk, Read,
       Holds, Steps, Goes, Same, Like
  <2>11. Placed' => Match(c2)'
    <3>1. Placed => Match(c)
      BY <1>2 DEF Disk
    <3>2. Placed' => Matched'
      BY <1>1, <1>2, <1>7, <1>3, <1>4, <2>1, <2>2, <2>3, <2>4, <2>5, <2>6, <3>1 DEF Match,
         Matched, Placed
    <3>3. Placed' => Apart(c2)'
      BY <1>1, <1>2, <1>7, <1>3, <1>4, <2>1, <2>2, <2>3, <2>4, <2>5, <2>6, <3>1 DEF Match,
         Apart, Swapping, Placed, Goes, Same, Like
    <3> QED
      BY <1>1, <1>2, <1>7, <1>3, <1>4, <2>1, <2>2, <2>3, <2>4, <2>5, <2>6, <3>1, <3>2, <3>3
         DEF Match, Swapping, Steps, Placed, Goes, Same, Like
  <2>12. Whole' => Lies(c2)'
      BY <1>1, <1>3, <1>4, <1>7, <2>1, <2>5 DEF Lies, Whole, Placed, Goes, Same, Like,
         Working, Disk, Steps
  <2>13. Stored' => Fitting(c2)'
    BY <1>1, <1>2, <1>7, <1>3, <1>4, <2>1, <2>2, <2>3, <2>4, <2>5, <2>6 DEF Disk, Fitting,
       Steps, Goes, Same, Like, Stored, Placed, When, Fits, Formats, Size, TopNode, Top
  <2>14. Followed' => Running(c2)'
    BY <1>1, <1>2, <1>7, <1>3, <1>4, <2>1, <2>2, <2>3, <2>4, <2>5, <2>6 DEF Disk, Running,
       Swapping, Steps, Goes, Same, Like, Followed, Placed, When, Found
  <2>15. Returned' => Tidy(c2)'
    BY <1>1, <1>2, <1>7, <1>3, <1>4, <2>1, <2>2, <2>3, <2>4, <2>5, <2>6 DEF Disk, Tidy,
       Owns, Working, Steps, Goes, Same, Like, Returned, When
  <2>16. Disk(IF Holds(c2) THEN c2 ELSE Idle)'
    BY <2>2, <2>7, <2>8, <2>9, <2>10, <2>11, <2>12, <2>13, <2>14, <2>15 DEF Disk
  <2> QED
    BY <1>1, <1>7, <2>1, <2>2, <2>7, <2>8, <2>16, Change DEF NoFs, Steps, Holds, Goes, Same,
       Like
<1>8. CASE /\ part' = part /\ c.pc = "s_gpt" /\ round_bdsize(c.size) - 4 * B <= part - B /\ c.own
           /\ Go(p, "s_umount")
           /\ UNCHANGED <<dd, tmp, names, nodes, dev, mnt, fs, windows>>
  <2>1. PICK c2 \in Calls : Becomes(p, c2) /\ Goes(c2, c, "s_umount") /\ UNCHANGED <<lock, wanted>>
    BY <1>1, <1>2, <1>8, GoIs
  <2>2. Steps(c2) /\ Holds(c2)
    BY <1>1, <1>8, <2>1 DEF Steps, Holds, Goes, Same, Like
  <2>3. /\ TopNode(dd)' = TopNode(dd) /\ Deltas(dd)' = Deltas(dd) /\ Size(dd)' = Size(dd)
        /\ Found(dd)' = Found(dd)
    BY <1>8 DEF TopNode, Top, Size, Deltas, Files, Found
  <2>4. Shapes'
    BY <1>1, <1>2, <1>8, <1>3, <1>4, <2>1, <2>2, <2>3 DEF Shapes
  <2>5. Listed' /\ dd' # None
    BY <1>1, <1>2, <1>8, <1>3, <1>4, <2>1, <2>2, <2>3 DEF Disk, Read, Listed, Distinct,
       Holds
  <2>6. Working(c2)'
    BY <1>1, <1>2, <1>8, <1>3, <1>4, <2>1, <2>2, <2>3 DEF Disk, Working, Steps, Goes, Same,
       Like
  <2>7. Read(c2)'
    BY <1>1, <1>2, <1>8, <1>3, <1>4, <2>1, <2>2, <2>3 DEF Disk, Read, Holds, Steps, Goes,
       Same, Like
  <2>8. Placed' => Match(c2)'
    <3>1. Placed => Match(c)
      BY <1>2 DEF Disk
    <3>2. Placed' => Matched'
      BY <1>1, <1>2, <1>8, <1>3, <1>4, <2>1, <2>2, <2>3, <3>1 DEF Match, Matched, Placed
    <3>3. Placed' => Apart(c2)'
      BY <1>1, <1>2, <1>8, <1>3, <1>4, <2>1, <2>2, <2>3, <3>1 DEF Match, Apart, Swapping,
         Placed, Goes, Same, Like
    <3> QED
      BY <1>1, <1>2, <1>8, <1>3, <1>4, <2>1, <2>2, <2>3, <3>1, <3>2, <3>3 DEF Match,
         Swapping, Steps, Placed, Goes, Same, Like
  <2>9. Whole' => Lies(c2)'
    BY <1>1, <1>2, <1>8, <1>3, <1>4, <2>1, <2>2, <2>3 DEF Disk, Lies, Steps, Goes, Same,
       Like, Whole, Placed, When, Room, Size, TopNode, Top
  <2>10. Stored' => Fitting(c2)'
    BY <1>1, <1>2, <1>8, <1>3, <1>4, <2>1, <2>2, <2>3 DEF Disk, Fitting, Steps, Goes, Same,
       Like, Stored, Placed, When, Fits, Formats, Size, TopNode, Top
  <2>11. Followed' => Running(c2)'
    BY <1>1, <1>2, <1>8, <1>3, <1>4, <2>1, <2>2, <2>3 DEF Disk, Running, Swapping, Steps,
       Goes, Same, Like, Followed, Placed, When, Found
  <2>12. Returned' => Tidy(c2)'
    BY <1>1, <1>2, <1>8, <1>3, <1>4, <2>1, <2>2, <2>3 DEF Disk, Tidy, Owns, Working, Steps,
       Goes, Same, Like, Returned, When
  <2>13. Disk(IF Holds(c2) THEN c2 ELSE Idle)'
    BY <2>2, <2>4, <2>5, <2>6, <2>7, <2>8, <2>9, <2>10, <2>11, <2>12 DEF Disk
  <2> QED
    BY <1>1, <1>8, <2>1, <2>2, <2>4, <2>5, <2>13, Change DEF NoFs, Steps, Holds, Goes, Same,
       Like
<1>9. CASE /\ part' = part /\ c.pc = "s_gpt" /\ round_bdsize(c.size) - 4 * B <= part - B
           /\ Go(p, "s_online")
           /\ UNCHANGED <<dd, tmp, names, nodes, dev, mnt, fs, windows>>
  <2>1. PICK c2 \in Calls : Becomes(p, c2) /\ Goes(c2, c, "s_online") /\ UNCHANGED <<lock, wanted>>
    BY <1>1, <1>2, <1>9, GoIs
  <2>2. Steps(c2) /\ Holds(c2)
    BY <1>1, <1>9, <2>1 DEF Steps, Holds, Goes, Same, Like
  <2>3. /\ TopNode(dd)' = TopNode(dd) /\ Deltas(dd)' = Deltas(dd) /\ Size(dd)' = Size(dd)
        /\ Found(dd)' = Found(dd)
    BY <1>9 DEF TopNode, Top, Size, Deltas, Files, Found
  <2>4. Shapes'
    BY <1>1, <1>2, <1>9, <1>3, <1>4, <2>1, <2>2, <2>3 DEF Shapes
  <2>5. Listed' /\ dd' # None
    BY <1>1, <1>2, <1>9, <1>3, <1>4, <2>1, <2>2, <2>3 DEF Disk, Read, Listed, Distinct,
       Holds
  <2>6. Working(c2)'
    BY <1>1, <1>2, <1>9, <1>3, <1>4, <2>1, <2>2, <2>3 DEF Disk, Working, Steps, Goes, Same,
       Like
  <2>7. Read(c2)'
    BY <1>1, <1>2, <1>9, <1>3, <1>4, <2>1, <2>2, <2>3 DEF Disk, Read, Holds, Steps, Goes,
       Same, Like
  <2>8. Placed' => Match(c2)'
    <3>1. Placed => Match(c)
      BY <1>2 DEF Disk
    <3>2. Placed' => Matched'
      BY <1>1, <1>2, <1>9, <1>3, <1>4, <2>1, <2>2, <2>3, <3>1 DEF Match, Matched, Placed
    <3>3. Placed' => Apart(c2)'
      BY <1>1, <1>2, <1>9, <1>3, <1>4, <2>1, <2>2, <2>3, <3>1 DEF Match, Apart, Swapping,
         Placed, Goes, Same, Like
    <3> QED
      BY <1>1, <1>2, <1>9, <1>3, <1>4, <2>1, <2>2, <2>3, <3>1, <3>2, <3>3 DEF Match,
         Swapping, Steps, Placed, Goes, Same, Like
  <2>9. Whole' => Lies(c2)'
    BY <1>1, <1>2, <1>9, <1>3, <1>4, <2>1, <2>2, <2>3 DEF Disk, Lies, Steps, Goes, Same,
       Like, Whole, Placed, When, Room, Size, TopNode, Top
  <2>10. Stored' => Fitting(c2)'
    BY <1>1, <1>2, <1>9, <1>3, <1>4, <2>1, <2>2, <2>3 DEF Disk, Fitting, Steps, Goes, Same,
       Like, Stored, Placed, When, Fits, Formats, Size, TopNode, Top
  <2>11. Followed' => Running(c2)'
    BY <1>1, <1>2, <1>9, <1>3, <1>4, <2>1, <2>2, <2>3 DEF Disk, Running, Swapping, Steps,
       Goes, Same, Like, Followed, Placed, When, Found
  <2>12. Returned' => Tidy(c2)'
    BY <1>1, <1>2, <1>9, <1>3, <1>4, <2>1, <2>2, <2>3 DEF Disk, Tidy, Owns, Working, Steps,
       Goes, Same, Like, Returned, When
  <2>13. Disk(IF Holds(c2) THEN c2 ELSE Idle)'
    BY <2>2, <2>4, <2>5, <2>6, <2>7, <2>8, <2>9, <2>10, <2>11, <2>12 DEF Disk
  <2> QED
    BY <1>1, <1>9, <2>1, <2>2, <2>4, <2>5, <2>13, Change DEF NoFs, Steps, Holds, Goes, Same,
       Like
<1>10. CASE /\ part' = PartEnd(round_bdsize(c.size)) /\ c.pc = "s_gpt" /\ part - B < round_bdsize(c.size) - 4 * B /\ c.own
            /\ Go(p, "s_umount")
            /\ UNCHANGED <<dd, tmp, names, nodes, dev, mnt, fs, windows>>
  <2>1. PICK c2 \in Calls : Becomes(p, c2) /\ Goes(c2, c, "s_umount") /\ UNCHANGED <<lock, wanted>>
    BY <1>1, <1>2, <1>10, GoIs
  <2>2. Steps(c2) /\ Holds(c2)
    BY <1>1, <1>10, <2>1 DEF Steps, Holds, Goes, Same, Like
  <2>3. /\ TopNode(dd)' = TopNode(dd) /\ Deltas(dd)' = Deltas(dd) /\ Size(dd)' = Size(dd)
        /\ Found(dd)' = Found(dd)
    BY <1>10 DEF TopNode, Top, Size, Deltas, Files, Found
  <2>4. part' = round_bdsize(c.size) - B /\ Aligned(round_bdsize(c.size) - B) /\ part' \in Int
    BY <1>3, <1>10, PartEndIs
  <2>5. Whole => Room' /\ B + fs <= part' /\ round_bdsize(c.size) - 4 * B <= part' - B
    BY <1>1, <1>3, <1>4, <1>10, <2>3, <2>4 DEF Room
  <2>6. Shapes'
    BY <1>1, <1>2, <1>10, <1>3, <1>4, <2>1, <2>2, <2>3, <2>4, <2>5 DEF Shapes
  <2>7. Listed' /\ dd' # None
    BY <1>1, <1>2, <1>10, <1>3, <1>4, <2>1, <2>2, <2>3, <2>4, <2>5 DEF Disk, Read, Listed,
       Distinct, Holds
  <2>8. Working(c2)'
    BY <1>1, <1>2, <1>10, <1>3, <1>4, <2>1, <2>2, <2>3, <2>4, <2>5 DEF Disk, Working, Steps,
       Goes, Same, Like
  <2>9. Read(c2)'
    BY <1>1, <1>2, <1>10, <1>3, <1>4, <2>1, <2>2, <2>3, <2>4, <2>5 DEF Disk, Read, Holds,
       Steps, Goes, Same, Like
  <2>10. Placed' => Match(c2)'
    <3>1. Placed => Match(c)
      BY <1>2 DEF Disk
    <3>2. Placed' => Matched'
      BY <1>1, <1>2, <1>10, <1>3, <1>4, <2>1, <2>2, <2>3, <2>4, <2>5, <3>1 DEF Match,
         Matched, Placed
    <3>3. Placed' => Apart(c2)'
      BY <1>1, <1>2, <1>10, <1>3, <1>4, <2>1, <2>2, <2>3, <2>4, <2>5, <3>1 DEF Match, Apart,
         Swapping, Placed, Goes, Same, Like
    <3> QED
      BY <1>1, <1>2, <1>10, <1>3, <1>4, <2>1, <2>2, <2>3, <2>4, <2>5, <3>1, <3>2, <3>3 DEF
         Match, Swapping, Steps, Placed, Goes, Same, Like
  <2>11. Whole' => Lies(c2)'
      BY <1>1, <1>2, <1>3, <1>4, <1>10, <2>1, <2>5 DEF Lies, Whole, Placed, Goes, Same,
         Like, Disk, Steps
  <2>12. Stored' => Fitting(c2)'
    BY <1>1, <1>2, <1>10, <1>3, <1>4, <2>1, <2>2, <2>3, <2>4, <2>5 DEF Disk, Fitting, Steps,
       Goes, Same, Like, Stored, Placed, When, Fits, Formats, Size, TopNode, Top
  <2>13. Followed' => Running(c2)'
    BY <1>1, <1>2, <1>10, <1>3, <1>4, <2>1, <2>2, <2>3, <2>4, <2>5 DEF Disk, Running,
       Swapping, Steps, Goes, Same, Like, Followed, Placed, When, Found
  <2>14. Returned' => Tidy(c2)'
    BY <1>1, <1>2, <1>10, <1>3, <1>4, <2>1, <2>2, <2>3, <2>4, <2>5 DEF Disk, Tidy, Owns,
       Working, Steps, Goes, Same, Like, Returned, When
  <2>15. Disk(IF Holds(c2) THEN c2 ELSE Idle)'
    BY <2>2, <2>6, <2>7, <2>8, <2>9, <2>10, <2>11, <2>12, <2>13, <2>14 DEF Disk
  <2> QED
    BY <1>1, <1>10, <2>1, <2>2, <2>6, <2>7, <2>15, Change DEF NoFs, Steps, Holds, Goes,
       Same, Like
<1>11. CASE /\ part' = PartEnd(round_bdsize(c.size)) /\ c.pc = "s_gpt" /\ part - B < round_bdsize(c.size) - 4 * B
            /\ Go(p, "s_online")
            /\ UNCHANGED <<dd, tmp, names, nodes, dev, mnt, fs, windows>>
  <2>1. PICK c2 \in Calls : Becomes(p, c2) /\ Goes(c2, c, "s_online") /\ UNCHANGED <<lock, wanted>>
    BY <1>1, <1>2, <1>11, GoIs
  <2>2. Steps(c2) /\ Holds(c2)
    BY <1>1, <1>11, <2>1 DEF Steps, Holds, Goes, Same, Like
  <2>3. /\ TopNode(dd)' = TopNode(dd) /\ Deltas(dd)' = Deltas(dd) /\ Size(dd)' = Size(dd)
        /\ Found(dd)' = Found(dd)
    BY <1>11 DEF TopNode, Top, Size, Deltas, Files, Found
  <2>4. part' = round_bdsize(c.size) - B /\ Aligned(round_bdsize(c.size) - B) /\ part' \in Int
    BY <1>3, <1>11, PartEndIs
  <2>5. Whole => Room' /\ B + fs <= part' /\ round_bdsize(c.size) - 4 * B <= part' - B
    BY <1>1, <1>3, <1>4, <1>11, <2>3, <2>4 DEF Room
  <2>6. Shapes'
    BY <1>1, <1>2, <1>11, <1>3, <1>4, <2>1, <2>2, <2>3, <2>4, <2>5 DEF Shapes
  <2>7. Listed' /\ dd' # None
    BY <1>1, <1>2, <1>11, <1>3, <1>4, <2>1, <2>2, <2>3, <2>4, <2>5 DEF Disk, Read, Listed,
       Distinct, Holds
  <2>8. Working(c2)'
    BY <1>1, <1>2, <1>11, <1>3, <1>4, <2>1, <2>2, <2>3, <2>4, <2>5 DEF Disk, Working, Steps,
       Goes, Same, Like
  <2>9. Read(c2)'
    BY <1>1, <1>2, <1>11, <1>3, <1>4, <2>1, <2>2, <2>3, <2>4, <2>5 DEF Disk, Read, Holds,
       Steps, Goes, Same, Like
  <2>10. Placed' => Match(c2)'
    <3>1. Placed => Match(c)
      BY <1>2 DEF Disk
    <3>2. Placed' => Matched'
      BY <1>1, <1>2, <1>11, <1>3, <1>4, <2>1, <2>2, <2>3, <2>4, <2>5, <3>1 DEF Match,
         Matched, Placed
    <3>3. Placed' => Apart(c2)'
      BY <1>1, <1>2, <1>11, <1>3, <1>4, <2>1, <2>2, <2>3, <2>4, <2>5, <3>1 DEF Match, Apart,
         Swapping, Placed, Goes, Same, Like
    <3> QED
      BY <1>1, <1>2, <1>11, <1>3, <1>4, <2>1, <2>2, <2>3, <2>4, <2>5, <3>1, <3>2, <3>3 DEF
         Match, Swapping, Steps, Placed, Goes, Same, Like
  <2>11. Whole' => Lies(c2)'
      BY <1>1, <1>2, <1>3, <1>4, <1>11, <2>1, <2>5 DEF Lies, Whole, Placed, Goes, Same,
         Like, Disk, Steps
  <2>12. Stored' => Fitting(c2)'
    BY <1>1, <1>2, <1>11, <1>3, <1>4, <2>1, <2>2, <2>3, <2>4, <2>5 DEF Disk, Fitting, Steps,
       Goes, Same, Like, Stored, Placed, When, Fits, Formats, Size, TopNode, Top
  <2>13. Followed' => Running(c2)'
    BY <1>1, <1>2, <1>11, <1>3, <1>4, <2>1, <2>2, <2>3, <2>4, <2>5 DEF Disk, Running,
       Swapping, Steps, Goes, Same, Like, Followed, Placed, When, Found
  <2>14. Returned' => Tidy(c2)'
    BY <1>1, <1>2, <1>11, <1>3, <1>4, <2>1, <2>2, <2>3, <2>4, <2>5 DEF Disk, Tidy, Owns,
       Working, Steps, Goes, Same, Like, Returned, When
  <2>15. Disk(IF Holds(c2) THEN c2 ELSE Idle)'
    BY <2>2, <2>6, <2>7, <2>8, <2>9, <2>10, <2>11, <2>12, <2>13, <2>14 DEF Disk
  <2> QED
    BY <1>1, <1>11, <2>1, <2>2, <2>6, <2>7, <2>15, Change DEF NoFs, Steps, Holds, Goes,
       Same, Like
<1> QED
  BY <1>5, <1>6, <1>7, <1>8, <1>9, <1>10, <1>11

\* The file system follows its partition, or gets the size asked for.
LEMMA ResizeFsInv ==
  ASSUME Inv, NEW p \in Proc, ResizeFs(p), "dropped" \notin windows'
  PROVE  Inv'
<1> PICK c \in Calls : c = call[p]
  BY DEF Inv, Types
<1>1. Steps(c) /\ Holds(c) /\ c.pc \in {"g_fs", "s_fs", "s_online"}
  BY DEF Inv, Control, ResizeFs, Holds
<1>2. Disk(c) /\ Types /\ Shapes /\ Listed
  BY <1>1, NowIs DEF Inv, Types
<1>3. /\ dd # None /\ c.size \in Int /\ round_bdsize(c.size) \in Int /\ Aligned(round_bdsize(c.size)) /\ round_bdsize(c.size) > 4 * B
     /\ dev \in Kernel /\ dev # None /\ dev.size \in Int /\ part \in Int /\ fs \in Int /\ B \in Int /\ B > 34
  BY <1>1, <1>2, AlignedUp, BlockIs DEF Disk, Read, Holds, Steps, Calls, Working, Shapes,
     Kernel
<1>4. Whole => /\ fs # 0 /\ Room /\ B + fs <= part /\ part + B <= dev.size /\ dev.size = Size(dd)
              /\ (c.pc = "g_gpt" => dev.size = round_bdsize(c.size)) /\ (c.pc = "s_gpt" => round_bdsize(c.size) <= dev.size)
              /\ (c.pc = "g_fs" => part > B) /\ (c.pc \in {"s_fs", "s_online"} => round_bdsize(c.size) - 4 * B <= part - B)
  BY <1>1, <1>2, <1>3 DEF Disk, Lies, Room, Whole, Match, Matched
<1>5. \/ /\ Still /\ windows' = windows
         /\ Go(p, "r_fail")
      \/ /\ fs' = part - B /\ c.pc = "g_fs"
         /\ Go(p, "r_ok")
         /\ UNCHANGED <<dd, tmp, names, nodes, dev, mnt, part, windows>>
      \/ /\ fs' = round_bdsize(c.size) - 4 * B /\ c.pc = "s_fs"
         /\ Go(p, "s_discard")
         /\ UNCHANGED <<dd, tmp, names, nodes, dev, mnt, part, windows>>
      \/ /\ fs' = (IF round_bdsize(c.size) - 4 * B > fs THEN round_bdsize(c.size) - 4 * B ELSE fs) /\ c.pc = "s_online"
         /\ Go(p, "r_ok")
         /\ UNCHANGED <<dd, tmp, names, nodes, dev, mnt, part, windows>>
  BY <1>1, <1>2, <1>3, <1>4 DEF ResizeFs, NoFault, Go, Still, store, kernel, layout,
     NewSize, NewFsSize, At
<1>6. CASE /\ Still /\ windows' = windows
           /\ Go(p, "r_fail")
  BY <1>1, <1>2, <1>6, GivesUp
<1>7. CASE /\ fs' = part - B /\ c.pc = "g_fs"
           /\ Go(p, "r_ok")
           /\ UNCHANGED <<dd, tmp, names, nodes, dev, mnt, part, windows>>
  <2>1. PICK c2 \in Calls : Becomes(p, c2) /\ Goes(c2, c, "r_ok") /\ UNCHANGED <<lock, wanted>>
    BY <1>1, <1>2, <1>7, GoIs
  <2>2. Steps(c2) /\ Holds(c2)
    BY <1>1, <1>7, <2>1 DEF Steps, Holds, Goes, Same, Like
  <2>3. /\ TopNode(dd)' = TopNode(dd) /\ Deltas(dd)' = Deltas(dd) /\ Size(dd)' = Size(dd)
        /\ Found(dd)' = Found(dd)
    BY <1>7 DEF TopNode, Top, Size, Deltas, Files, Found
  <2>4. fs' \in Int /\ (Whole => fs' # 0 /\ B + fs' <= part)
    BY <1>1, <1>3, <1>4, <1>7
  <2>5. Shapes'
    BY <1>1, <1>2, <1>7, <1>3, <1>4, <2>1, <2>2, <2>3, <2>4 DEF Shapes
  <2>6. Listed' /\ dd' # None
    BY <1>1, <1>2, <1>7, <1>3, <1>4, <2>1, <2>2, <2>3, <2>4 DEF Disk, Read, Listed,
       Distinct, Holds
  <2>7. Working(c2)'
    BY <1>1, <1>2, <1>7, <1>3, <1>4, <2>1, <2>2, <2>3, <2>4 DEF Disk, Working, Steps, Goes,
       Same, Like
  <2>8. Read(c2)'
    BY <1>1, <1>2, <1>7, <1>3, <1>4, <2>1, <2>2, <2>3, <2>4 DEF Disk, Read, Holds, Steps,
       Goes, Same, Like
  <2>9. Placed' => Match(c2)'
    <3>1. Placed => Match(c)
      BY <1>2 DEF Disk
    <3>2. Placed' => Matched'
      BY <1>1, <1>2, <1>7, <1>3, <1>4, <2>1, <2>2, <2>3, <2>4, <3>1 DEF Match, Matched,
         Placed
    <3>3. Placed' => Apart(c2)'
      BY <1>1, <1>2, <1>7, <1>3, <1>4, <2>1, <2>2, <2>3, <2>4, <3>1 DEF Match, Apart,
         Swapping, Placed, Goes, Same, Like
    <3> QED
      BY <1>1, <1>2, <1>7, <1>3, <1>4, <2>1, <2>2, <2>3, <2>4, <3>1, <3>2, <3>3 DEF Match,
         Swapping, Steps, Placed, Goes, Same, Like
  <2>10. Whole' => Lies(c2)'
    BY <1>1, <1>2, <1>7, <1>3, <1>4, <2>1, <2>2, <2>3, <2>4 DEF Disk, Lies, Steps, Goes,
       Same, Like, Whole, Placed, When, Room, Size, TopNode, Top
  <2>11. Stored' => Fitting(c2)'
    BY <1>1, <1>2, <1>7, <1>3, <1>4, <2>1, <2>2, <2>3, <2>4 DEF Disk, Fitting, Steps, Goes,
       Same, Like, Stored, Placed, When, Fits, Formats, Size, TopNode, Top
  <2>12. Followed' => Running(c2)'
    BY <1>1, <1>2, <1>7, <1>3, <1>4, <2>1, <2>2, <2>3, <2>4 DEF Disk, Running, Swapping,
       Steps, Goes, Same, Like, Followed, Placed, When, Found
  <2>13. Returned' => Tidy(c2)'
    BY <1>1, <1>2, <1>7, <1>3, <1>4, <2>1, <2>2, <2>3, <2>4 DEF Disk, Tidy, Owns, Working,
       Steps, Goes, Same, Like, Returned, When
  <2>14. Disk(IF Holds(c2) THEN c2 ELSE Idle)'
    BY <2>2, <2>5, <2>6, <2>7, <2>8, <2>9, <2>10, <2>11, <2>12, <2>13 DEF Disk
  <2> QED
    BY <1>1, <1>7, <2>1, <2>2, <2>5, <2>6, <2>14, Change, <1>4 DEF NoFs, Steps, Holds, Goes,
       Same, Like
<1>8. CASE /\ fs' = round_bdsize(c.size) - 4 * B /\ c.pc = "s_fs"
           /\ Go(p, "s_discard")
           /\ UNCHANGED <<dd, tmp, names, nodes, dev, mnt, part, windows>>
  <2>1. PICK c2 \in Calls : Becomes(p, c2) /\ Goes(c2, c, "s_discard") /\ UNCHANGED <<lock, wanted>>
    BY <1>1, <1>2, <1>8, GoIs
  <2>2. Steps(c2) /\ Holds(c2)
    BY <1>1, <1>8, <2>1 DEF Steps, Holds, Goes, Same, Like
  <2>3. /\ TopNode(dd)' = TopNode(dd) /\ Deltas(dd)' = Deltas(dd) /\ Size(dd)' = Size(dd)
        /\ Found(dd)' = Found(dd)
    BY <1>8 DEF TopNode, Top, Size, Deltas, Files, Found
  <2>4. fs' \in Int /\ (Whole => fs' # 0 /\ B + fs' <= part)
    BY <1>1, <1>3, <1>4, <1>8
  <2>5. Shapes'
    BY <1>1, <1>2, <1>8, <1>3, <1>4, <2>1, <2>2, <2>3, <2>4 DEF Shapes
  <2>6. Listed' /\ dd' # None
    BY <1>1, <1>2, <1>8, <1>3, <1>4, <2>1, <2>2, <2>3, <2>4 DEF Disk, Read, Listed,
       Distinct, Holds
  <2>7. Working(c2)'
    BY <1>1, <1>2, <1>8, <1>3, <1>4, <2>1, <2>2, <2>3, <2>4 DEF Disk, Working, Steps, Goes,
       Same, Like
  <2>8. Read(c2)'
    BY <1>1, <1>2, <1>8, <1>3, <1>4, <2>1, <2>2, <2>3, <2>4 DEF Disk, Read, Holds, Steps,
       Goes, Same, Like
  <2>9. Placed' => Match(c2)'
    <3>1. Placed => Match(c)
      BY <1>2 DEF Disk
    <3>2. Placed' => Matched'
      BY <1>1, <1>2, <1>8, <1>3, <1>4, <2>1, <2>2, <2>3, <2>4, <3>1 DEF Match, Matched,
         Placed
    <3>3. Placed' => Apart(c2)'
      BY <1>1, <1>2, <1>8, <1>3, <1>4, <2>1, <2>2, <2>3, <2>4, <3>1 DEF Match, Apart,
         Swapping, Placed, Goes, Same, Like
    <3> QED
      BY <1>1, <1>2, <1>8, <1>3, <1>4, <2>1, <2>2, <2>3, <2>4, <3>1, <3>2, <3>3 DEF Match,
         Swapping, Steps, Placed, Goes, Same, Like
  <2>10. Whole' => Lies(c2)'
    BY <1>1, <1>2, <1>8, <1>3, <1>4, <2>1, <2>2, <2>3, <2>4 DEF Disk, Lies, Steps, Goes,
       Same, Like, Whole, Placed, When, Room, Size, TopNode, Top
  <2>11. Stored' => Fitting(c2)'
    BY <1>1, <1>2, <1>8, <1>3, <1>4, <2>1, <2>2, <2>3, <2>4 DEF Disk, Fitting, Steps, Goes,
       Same, Like, Stored, Placed, When, Fits, Formats, Size, TopNode, Top
  <2>12. Followed' => Running(c2)'
    BY <1>1, <1>2, <1>8, <1>3, <1>4, <2>1, <2>2, <2>3, <2>4 DEF Disk, Running, Swapping,
       Steps, Goes, Same, Like, Followed, Placed, When, Found
  <2>13. Returned' => Tidy(c2)'
    BY <1>1, <1>2, <1>8, <1>3, <1>4, <2>1, <2>2, <2>3, <2>4 DEF Disk, Tidy, Owns, Working,
       Steps, Goes, Same, Like, Returned, When
  <2>14. Disk(IF Holds(c2) THEN c2 ELSE Idle)'
    BY <2>2, <2>5, <2>6, <2>7, <2>8, <2>9, <2>10, <2>11, <2>12, <2>13 DEF Disk
  <2> QED
    BY <1>1, <1>8, <2>1, <2>2, <2>5, <2>6, <2>14, Change, <1>4 DEF NoFs, Steps, Holds, Goes,
       Same, Like
<1>9. CASE /\ fs' = (IF round_bdsize(c.size) - 4 * B > fs THEN round_bdsize(c.size) - 4 * B ELSE fs) /\ c.pc = "s_online"
           /\ Go(p, "r_ok")
           /\ UNCHANGED <<dd, tmp, names, nodes, dev, mnt, part, windows>>
  <2>1. PICK c2 \in Calls : Becomes(p, c2) /\ Goes(c2, c, "r_ok") /\ UNCHANGED <<lock, wanted>>
    BY <1>1, <1>2, <1>9, GoIs
  <2>2. Steps(c2) /\ Holds(c2)
    BY <1>1, <1>9, <2>1 DEF Steps, Holds, Goes, Same, Like
  <2>3. /\ TopNode(dd)' = TopNode(dd) /\ Deltas(dd)' = Deltas(dd) /\ Size(dd)' = Size(dd)
        /\ Found(dd)' = Found(dd)
    BY <1>9 DEF TopNode, Top, Size, Deltas, Files, Found
  <2>4. fs' \in Int /\ (Whole => fs' # 0 /\ B + fs' <= part)
    BY <1>1, <1>3, <1>4, <1>9
  <2>5. Shapes'
    BY <1>1, <1>2, <1>9, <1>3, <1>4, <2>1, <2>2, <2>3, <2>4 DEF Shapes
  <2>6. Listed' /\ dd' # None
    BY <1>1, <1>2, <1>9, <1>3, <1>4, <2>1, <2>2, <2>3, <2>4 DEF Disk, Read, Listed,
       Distinct, Holds
  <2>7. Working(c2)'
    BY <1>1, <1>2, <1>9, <1>3, <1>4, <2>1, <2>2, <2>3, <2>4 DEF Disk, Working, Steps, Goes,
       Same, Like
  <2>8. Read(c2)'
    BY <1>1, <1>2, <1>9, <1>3, <1>4, <2>1, <2>2, <2>3, <2>4 DEF Disk, Read, Holds, Steps,
       Goes, Same, Like
  <2>9. Placed' => Match(c2)'
    <3>1. Placed => Match(c)
      BY <1>2 DEF Disk
    <3>2. Placed' => Matched'
      BY <1>1, <1>2, <1>9, <1>3, <1>4, <2>1, <2>2, <2>3, <2>4, <3>1 DEF Match, Matched,
         Placed
    <3>3. Placed' => Apart(c2)'
      BY <1>1, <1>2, <1>9, <1>3, <1>4, <2>1, <2>2, <2>3, <2>4, <3>1 DEF Match, Apart,
         Swapping, Placed, Goes, Same, Like
    <3> QED
      BY <1>1, <1>2, <1>9, <1>3, <1>4, <2>1, <2>2, <2>3, <2>4, <3>1, <3>2, <3>3 DEF Match,
         Swapping, Steps, Placed, Goes, Same, Like
  <2>10. Whole' => Lies(c2)'
    BY <1>1, <1>2, <1>9, <1>3, <1>4, <2>1, <2>2, <2>3, <2>4 DEF Disk, Lies, Steps, Goes,
       Same, Like, Whole, Placed, When, Room, Size, TopNode, Top
  <2>11. Stored' => Fitting(c2)'
    BY <1>1, <1>2, <1>9, <1>3, <1>4, <2>1, <2>2, <2>3, <2>4 DEF Disk, Fitting, Steps, Goes,
       Same, Like, Stored, Placed, When, Fits, Formats, Size, TopNode, Top
  <2>12. Followed' => Running(c2)'
    BY <1>1, <1>2, <1>9, <1>3, <1>4, <2>1, <2>2, <2>3, <2>4 DEF Disk, Running, Swapping,
       Steps, Goes, Same, Like, Followed, Placed, When, Found
  <2>13. Returned' => Tidy(c2)'
    BY <1>1, <1>2, <1>9, <1>3, <1>4, <2>1, <2>2, <2>3, <2>4 DEF Disk, Tidy, Owns, Working,
       Steps, Goes, Same, Like, Returned, When
  <2>14. Disk(IF Holds(c2) THEN c2 ELSE Idle)'
    BY <2>2, <2>5, <2>6, <2>7, <2>8, <2>9, <2>10, <2>11, <2>12, <2>13 DEF Disk
  <2> QED
    BY <1>1, <1>9, <2>1, <2>2, <2>5, <2>6, <2>14, Change, <1>4 DEF NoFs, Steps, Holds, Goes,
       Same, Like
<1> QED
  BY <1>5, <1>6, <1>7, <1>8, <1>9

\* A raw image is cut, a ploop1 image discards blocks.
LEMMA shrink_deviceInv ==
  ASSUME Inv, NEW p \in Proc, shrink_device(p), "dropped" \notin windows'
  PROVE  Inv'
<1> PICK c \in Calls : c = call[p]
  BY DEF Inv, Types
<1>1. Steps(c) /\ Holds(c) /\ c.pc = "s_discard"
  BY DEF Inv, Control, shrink_device, Holds, At
<1>2. Disk(c) /\ Types /\ Shapes /\ Listed
  BY <1>1, NowIs DEF Inv, Types
<1>3. \/ /\ c.di.mode = "raw" /\ c.di.top = None
         /\ Still /\ windows' = windows
         /\ Go(p, "d_gpt")
      \/ /\ Still /\ windows' = windows
         /\ Go(p, "r_ok")
  BY <1>1, <1>2 DEF shrink_device, NoFault, Go, Still, store, kernel, layout
<1>4. CASE /\ c.di.mode = "raw" /\ c.di.top = None
           /\ Still /\ windows' = windows
           /\ Go(p, "d_gpt")
  <2>1. PICK c2 \in Calls : Becomes(p, c2) /\ Goes(c2, c, "d_gpt") /\ UNCHANGED <<lock, wanted>>
    BY <1>1, <1>2, <1>4, GoIs
  <2>2. Steps(c2) /\ Holds(c2)
    BY <1>1, <1>4, <2>1 DEF Steps, Holds, Goes, Same, Like
  <2>3. Working(c2)
    BY <1>1, <1>2, <1>4, <2>1, <2>2 DEF Disk, Working, Steps, Goes, Same, Like, Still
  <2>4. Read(c2)
    BY <1>1, <1>2, <1>4, <2>1, <2>2 DEF Disk, Read, Holds, Steps, Goes, Same, Like, Still
  <2>5. Placed' => Match(c2)
    BY <1>1, <1>2, <1>4, <2>1, <2>2 DEF Disk, Match, Matched, Apart, Swapping, Steps, Goes,
       Same, Like, Still, Placed, When
  <2>6. Whole' => Lies(c2)
    BY <1>1, <1>2, <1>4, <2>1, <2>2 DEF Disk, Lies, Steps, Goes, Same, Like, Still, Whole,
       Placed, When
  <2>7. Stored' => Fitting(c2)
    BY <1>1, <1>2, <1>4, <2>1, <2>2 DEF Disk, Fitting, Steps, Goes, Same, Like, Still,
       Stored, Placed, When
  <2>8. Followed' => Running(c2)
    BY <1>1, <1>2, <1>4, <2>1, <2>2 DEF Disk, Running, Swapping, Steps, Goes, Same, Like,
       Still, Followed, Placed, When
  <2>9. Returned' => Tidy(c2)
    BY <1>1, <1>2, <1>4, <2>1, <2>2 DEF Disk, Tidy, Owns, Working, Steps, Goes, Same, Like,
       Still, Returned, When
  <2>10. Finds(IF Holds(c2) THEN c2 ELSE Idle)
    BY <2>2, <2>3, <2>4, <2>5, <2>6, <2>7, <2>8, <2>9 DEF Finds
  <2>11. Moved(p, c2)
    BY <1>4, <2>1 DEF Moved, Still, store, kernel, layout
  <2> QED
    BY <1>1, <1>4, <2>1, <2>2, <2>10, <2>11, Move DEF NoFs, Steps, Holds, Goes, Same, Like
<1>5. CASE /\ Still /\ windows' = windows
           /\ Go(p, "r_ok")
  <2>1. PICK c2 \in Calls : Becomes(p, c2) /\ Goes(c2, c, "r_ok") /\ UNCHANGED <<lock, wanted>>
    BY <1>1, <1>2, <1>5, GoIs
  <2>2. Steps(c2) /\ Holds(c2)
    BY <1>1, <1>5, <2>1 DEF Steps, Holds, Goes, Same, Like
  <2>3. Working(c2)
    BY <1>1, <1>2, <1>5, <2>1, <2>2 DEF Disk, Working, Steps, Goes, Same, Like, Still
  <2>4. Read(c2)
    BY <1>1, <1>2, <1>5, <2>1, <2>2 DEF Disk, Read, Holds, Steps, Goes, Same, Like, Still
  <2>5. Placed' => Match(c2)
    BY <1>1, <1>2, <1>5, <2>1, <2>2 DEF Disk, Match, Matched, Apart, Swapping, Steps, Goes,
       Same, Like, Still, Placed, When
  <2>6. Whole' => Lies(c2)
    BY <1>1, <1>2, <1>5, <2>1, <2>2 DEF Disk, Lies, Steps, Goes, Same, Like, Still, Whole,
       Placed, When
  <2>7. Stored' => Fitting(c2)
    BY <1>1, <1>2, <1>5, <2>1, <2>2 DEF Disk, Fitting, Steps, Goes, Same, Like, Still,
       Stored, Placed, When
  <2>8. Followed' => Running(c2)
    BY <1>1, <1>2, <1>5, <2>1, <2>2 DEF Disk, Running, Swapping, Steps, Goes, Same, Like,
       Still, Followed, Placed, When
  <2>9. Returned' => Tidy(c2)
    BY <1>1, <1>2, <1>5, <2>1, <2>2 DEF Disk, Tidy, Owns, Working, Steps, Goes, Same, Like,
       Still, Returned, When
  <2>10. Finds(IF Holds(c2) THEN c2 ELSE Idle)
    BY <2>2, <2>3, <2>4, <2>5, <2>6, <2>7, <2>8, <2>9 DEF Finds
  <2>11. Moved(p, c2)
    BY <1>5, <2>1 DEF Moved, Still, store, kernel, layout
  <2> QED
    BY <1>1, <1>5, <2>1, <2>2, <2>10, <2>11, Move DEF NoFs, Steps, Holds, Goes, Same, Like
<1> QED
  BY <1>3, <1>4, <1>5

\* The partition gets the size of what remains.
LEMMA DiscardGptInv ==
  ASSUME Inv, NEW p \in Proc, DiscardGpt(p), "dropped" \notin windows'
  PROVE  Inv'
<1> PICK c \in Calls : c = call[p]
  BY DEF Inv, Types
<1>1. Steps(c) /\ Holds(c) /\ c.pc = "d_gpt"
  BY DEF Inv, Control, DiscardGpt, Holds, At
<1>2. Disk(c) /\ Types /\ Shapes /\ Listed
  BY <1>1, NowIs DEF Inv, Types
<1>3. \/ /\ Still /\ windows' = windows
         /\ Go(p, "r_fail")
      \/ /\ part' = PartEnd(RoundUp(B + fs, B))
         /\ windows' = windows \cup {"raw shrunk"}
         /\ Go(p, "d_stop")
         /\ UNCHANGED <<dd, tmp, names, nodes, dev, mnt, fs>>
  BY <1>1, <1>2 DEF DiscardGpt, NoFault, Go, Still, store, kernel, layout
<1>4. CASE /\ Still /\ windows' = windows
           /\ Go(p, "r_fail")
  BY <1>1, <1>2, <1>4, GivesUp
<1>5. CASE /\ part' = PartEnd(RoundUp(B + fs, B))
           /\ windows' = windows \cup {"raw shrunk"}
           /\ Go(p, "d_stop")
           /\ UNCHANGED <<dd, tmp, names, nodes, dev, mnt, fs>>
  <2>1. PICK c2 \in Calls : Becomes(p, c2) /\ Goes(c2, c, "d_stop") /\ UNCHANGED <<lock, wanted>>
    BY <1>1, <1>2, <1>5, GoIs
  <2>2. Steps(c2) /\ Holds(c2)
    BY <1>1, <1>5, <2>1 DEF Steps, Holds, Goes, Same, Like
  <2>3. /\ TopNode(dd)' = TopNode(dd) /\ Deltas(dd)' = Deltas(dd) /\ Size(dd)' = Size(dd)
        /\ Found(dd)' = Found(dd)
    BY <1>5 DEF TopNode, Top, Size, Deltas, Files, Found
  <2>4. part' \in Int
    BY <1>5, <1>2, CutIs DEF Shapes
  <2>5. ~Whole'
    BY <1>5 DEF Whole
  <2>6. Shapes'
    BY <1>1, <1>2, <1>5, <2>1, <2>2, <2>3, <2>4, <2>5 DEF Shapes
  <2>7. Listed' /\ dd' # None
    BY <1>1, <1>2, <1>5 DEF Disk, Read, Listed, Distinct, Holds
  <2>8. Working(c2)'
    BY <1>1, <1>2, <1>5, <2>1, <2>2, <2>3, <2>4, <2>5 DEF Disk, Working, Steps, Goes, Same,
       Like
  <2>9. Read(c2)'
      <3>1. Read(c) /\ UNCHANGED <<dd, names, nodes>>
        BY <1>2, <1>5 DEF Disk
      <3>2. c2.pc = "d_stop" /\ c2.op = c.op /\ c2.di = c.di /\ Holds(c)
        BY <1>1, <2>1 DEF Goes, Same, Like
      <3>3. c.op = "resize"
        BY <1>1 DEF Steps
      <3> QED
        BY <1>1, <3>1, <3>2, <3>3 DEF Read
  <2>10. Placed' => Match(c2)'
    <3>1. Placed => Match(c)
      BY <1>2 DEF Disk
    <3>2. Placed' => Matched'
      BY <1>1, <1>2, <1>5, <2>1, <2>2, <2>3, <2>4, <2>5, <3>1 DEF Match, Matched, Placed
    <3>3. Placed' => Apart(c2)'
      BY <1>1, <1>2, <1>5, <2>1, <2>2, <2>3, <2>4, <2>5, <3>1 DEF Match, Apart, Swapping,
         Placed, Goes, Same, Like
    <3> QED
      BY <1>1, <1>2, <1>5, <2>1, <2>2, <2>3, <2>4, <2>5, <3>1, <3>2, <3>3 DEF Match,
         Swapping, Steps, Placed, Goes, Same, Like
  <2>11. Whole' => Lies(c2)'
    BY <1>1, <1>2, <1>5, <2>1, <2>2, <2>3, <2>4, <2>5 DEF Disk, Lies, Steps, Goes, Same,
       Like, Whole, Placed, When, Room, Size, TopNode, Top
  <2>12. Stored' => Fitting(c2)'
    BY <1>1, <1>2, <1>5, <2>1, <2>2, <2>3, <2>4, <2>5 DEF Disk, Fitting, Steps, Goes, Same,
       Like, Stored, Placed, When, Fits, Formats, Size, TopNode, Top
  <2>13. Followed' => Running(c2)'
    BY <1>1, <1>2, <1>5, <2>1, <2>2, <2>3, <2>4, <2>5 DEF Disk, Running, Swapping, Steps,
       Goes, Same, Like, Followed, Placed, When, Found
  <2>14. Returned' => Tidy(c2)'
    BY <1>1, <1>2, <1>5, <2>1, <2>2, <2>3, <2>4, <2>5 DEF Disk, Tidy, Owns, Working, Steps,
       Goes, Same, Like, Returned, When
  <2>15. Disk(IF Holds(c2) THEN c2 ELSE Idle)'
    BY <2>2, <2>6, <2>7, <2>8, <2>9, <2>10, <2>11, <2>12, <2>13, <2>14 DEF Disk
  <2> QED
    BY <1>1, <1>5, <2>1, <2>2, <2>6, <2>7, <2>15, Change DEF NoFs, Steps, Holds, Goes, Same,
       Like
<1> QED
  BY <1>3, <1>4, <1>5

\* The device is stopped.
LEMMA DiscardStopInv ==
  ASSUME Inv, NEW p \in Proc, DiscardStop(p), "dropped" \notin windows'
  PROVE  Inv'
<1> PICK c \in Calls : c = call[p]
  BY DEF Inv, Types
<1>1. Steps(c) /\ Holds(c) /\ c.pc = "d_stop"
  BY DEF Inv, Control, DiscardStop, Holds, At
<1>2. Disk(c) /\ Types /\ Shapes /\ Listed
  BY <1>1, NowIs DEF Inv, Types
<1>3. \/ /\ Still /\ windows' = windows
         /\ Go(p, "r_fail")
      \/ /\ dev' = None
         /\ call' = [call EXCEPT ![p].pc = "d_trunc", ![p].own = FALSE]
         /\ UNCHANGED <<dd, tmp, names, nodes, mnt, part, fs, lock, wanted, windows>>
  BY <1>1, <1>2 DEF DiscardStop, NoFault, Go, Still, store, kernel, layout
<1>4. CASE /\ Still /\ windows' = windows
           /\ Go(p, "r_fail")
  BY <1>1, <1>2, <1>4, GivesUp
<1>5. CASE /\ dev' = None
           /\ call' = [call EXCEPT ![p].pc = "d_trunc", ![p].own = FALSE]
           /\ UNCHANGED <<dd, tmp, names, nodes, mnt, part, fs, lock, wanted, windows>>
  <2>1. PICK c2 \in Calls : Becomes(p, c2) /\ Turns(c2, c, "d_trunc", FALSE)
    BY <1>1, <1>2, <1>5, TurnIs
  <2>2. Steps(c2) /\ Holds(c2)
    BY <1>1, <1>5, <2>1 DEF Steps, Holds, Turns, Same, Like
  <2>3. TopNode(dd)' = TopNode(dd) /\ Deltas(dd)' = Deltas(dd) /\ Size(dd)' = Size(dd)
    BY <1>5 DEF TopNode, Top, Size, Deltas, Files
  <2>4. Shapes'
    BY <1>1, <1>2, <1>5, <2>1, <2>2, <2>3 DEF Shapes
  <2>5. Listed' /\ dd' # None
    BY <1>1, <1>2, <1>5, <2>1, <2>2, <2>3 DEF Disk, Read, Listed, Distinct, Holds
  <2>6. Working(c2)'
    BY <1>1, <1>2, <1>5, <2>1, <2>2, <2>3 DEF Disk, Working, Steps, Turns, Same, Like
  <2>7. Read(c2)'
    BY <1>1, <1>2, <1>5, <2>1, <2>2, <2>3 DEF Disk, Read, Holds, Steps, Turns, Same, Like
  <2>8. Placed' => Match(c2)'
    <3>1. Placed => Match(c)
      BY <1>2 DEF Disk
    <3>2. Placed' => Matched'
      BY <1>1, <1>2, <1>5, <2>1, <2>2, <2>3, <3>1 DEF Match, Matched, Placed
    <3>3. Placed' => Apart(c2)'
      BY <1>1, <1>2, <1>5, <2>1, <2>2, <2>3, <3>1 DEF Match, Apart, Swapping, Placed, Turns,
         Same, Like
    <3> QED
      BY <1>1, <1>2, <1>5, <2>1, <2>2, <2>3, <3>1, <3>2, <3>3 DEF Match, Swapping, Steps,
         Placed, Turns, Same, Like
  <2>9. Whole' => Lies(c2)'
    BY <1>1, <1>2, <1>5, <2>1, <2>2, <2>3 DEF Disk, Lies, Steps, Turns, Same, Like, Whole,
       Placed, When, Room, Size, TopNode, Top
  <2>10. Stored' => Fitting(c2)'
    BY <1>1, <1>2, <1>5, <2>1, <2>2, <2>3 DEF Disk, Fitting, Steps, Turns, Same, Like,
       Stored, Placed, When, Fits, Formats, Size, TopNode, Top
  <2>11. Followed' => Running(c2)'
    BY <1>1, <1>2, <1>5, <2>1, <2>2, <2>3 DEF Disk, Running, Swapping, Steps, Turns, Same,
       Like, Followed, Placed, When, Found
  <2>12. Returned' => Tidy(c2)'
    BY <1>1, <1>2, <1>5, <2>1, <2>2, <2>3 DEF Disk, Tidy, Owns, Working, Steps, Turns, Same,
       Like, Returned, When
  <2>13. Disk(IF Holds(c2) THEN c2 ELSE Idle)'
    BY <2>2, <2>4, <2>5, <2>6, <2>7, <2>8, <2>9, <2>10, <2>11, <2>12 DEF Disk
  <2> QED
    BY <1>1, <1>5, <2>1, <2>2, <2>4, <2>5, <2>13, Change DEF NoFs, Steps, Holds, Turns,
       Same, Like
<1> QED
  BY <1>3, <1>4, <1>5

\* The image is cut behind the file system.
LEMMA DiscardTruncateInv ==
  ASSUME Inv, NEW p \in Proc, DiscardTruncate(p), "dropped" \notin windows'
  PROVE  Inv'
<1> PICK c \in Calls : c = call[p]
  BY DEF Inv, Types
<1>1. Steps(c) /\ Holds(c) /\ c.pc = "d_trunc"
  BY DEF Inv, Control, DiscardTruncate, Holds, At
<1>2. Disk(c) /\ Types /\ Shapes /\ Listed
  BY <1>1, NowIs DEF Inv, Types
<1>3. /\ c.di = dd /\ dd \in Descriptor /\ dd # None /\ dd.top = None /\ TopNode(dd) = names[dd.base] /\ dev = None
     /\ TopNode(dd) \in DOMAIN nodes /\ RoundUp(B + fs, B) \in Int /\ ~Whole
  BY <1>1, <1>2, DiskIs, CutIs DEF Disk, Read, Holds, Steps, Working, TopNode, Top, Shapes,
     Lies
<1>4. \/ /\ Still /\ windows' = windows
         /\ Go(p, "fail")
      \/ /\ nodes' = [nodes EXCEPT ![names[c.di.base]].size = RoundUp(B + fs, B)]
         /\ Go(p, "d_store")
         /\ UNCHANGED <<dd, tmp, names, dev, mnt, part, fs, windows>>
  BY <1>1, <1>2, <1>3 DEF DiscardTruncate, NoFault, Go, Still, store, kernel, layout
<1>5. CASE /\ Still /\ windows' = windows
           /\ Go(p, "fail")
  <2>1. PICK c2 \in Calls : Becomes(p, c2) /\ Goes(c2, c, "fail") /\ UNCHANGED <<lock, wanted>>
    BY <1>1, <1>2, <1>5, GoIs
  <2>2. Steps(c2) /\ Holds(c2)
    BY <1>1, <1>5, <2>1 DEF Steps, Holds, Goes, Same, Like
  <2>3. Working(c2)
    BY <1>1, <1>2, <1>5, <1>3, <2>1, <2>2 DEF Disk, Working, Steps, Goes, Same, Like, Still
  <2>4. Read(c2)
    BY <1>1, <1>2, <1>5, <1>3, <2>1, <2>2 DEF Disk, Read, Holds, Steps, Goes, Same, Like,
       Still
  <2>5. Placed' => Match(c2)
    BY <1>1, <1>2, <1>5, <1>3, <2>1, <2>2 DEF Disk, Match, Matched, Apart, Swapping, Steps,
       Goes, Same, Like, Still, Placed, When
  <2>6. Whole' => Lies(c2)
    BY <1>1, <1>2, <1>5, <1>3, <2>1, <2>2 DEF Disk, Lies, Steps, Goes, Same, Like, Still,
       Whole, Placed, When
  <2>7. Stored' => Fitting(c2)
    BY <1>1, <1>2, <1>5, <1>3, <2>1, <2>2 DEF Disk, Fitting, Steps, Goes, Same, Like, Still,
       Stored, Placed, When
  <2>8. Followed' => Running(c2)
    BY <1>1, <1>2, <1>5, <1>3, <2>1, <2>2 DEF Disk, Running, Swapping, Steps, Goes, Same,
       Like, Still, Followed, Placed, When
  <2>9. Returned' => Tidy(c2)
    BY <1>1, <1>2, <1>5, <1>3, <2>1, <2>2 DEF Disk, Tidy, Owns, Working, Steps, Goes, Same,
       Like, Still, Returned, When
  <2>10. Finds(IF Holds(c2) THEN c2 ELSE Idle)
    BY <2>2, <2>3, <2>4, <2>5, <2>6, <2>7, <2>8, <2>9 DEF Finds
  <2>11. Moved(p, c2)
    BY <1>5, <2>1 DEF Moved, Still, store, kernel, layout
  <2> QED
    BY <1>1, <1>5, <2>1, <2>2, <2>10, <2>11, Move DEF NoFs, Steps, Holds, Goes, Same, Like
<1>6. CASE /\ nodes' = [nodes EXCEPT ![names[c.di.base]].size = RoundUp(B + fs, B)]
           /\ Go(p, "d_store")
           /\ UNCHANGED <<dd, tmp, names, dev, mnt, part, fs, windows>>
  <2>1. PICK c2 \in Calls : Becomes(p, c2) /\ Goes(c2, c, "d_store") /\ UNCHANGED <<lock, wanted>>
    BY <1>1, <1>2, <1>6, GoIs
  <2>2. Steps(c2) /\ Holds(c2)
    BY <1>1, <1>6, <2>1 DEF Steps, Holds, Goes, Same, Like
  <2>3. /\ DOMAIN nodes' = DOMAIN nodes
        /\ \A m \in DOMAIN nodes :
             /\ nodes'[m] \in Node
             /\ nodes'[m].fmt = nodes[m].fmt /\ nodes'[m].whole = nodes[m].whole
             /\ nodes'[m].size = IF m = TopNode(dd) THEN RoundUp(B + fs, B) ELSE nodes[m].size
    BY <1>2, <1>3, <1>6 DEF Shapes, Node
  <2>4. TopNode(dd)' = TopNode(dd) /\ Size(dd)' = RoundUp(B + fs, B) /\ ~Whole'
    BY <1>3, <1>6, <2>3 DEF TopNode, Top, Size, Whole, Placed
  <2>5. Stored => Formats(dd)
    BY <1>1, <1>2, <1>3 DEF Disk, Fitting, Fits
  <2>6. Stored' => Formats(dd)' /\ Size(dd)' = RoundUp(B + fs, B)'
    BY <1>2, <1>3, <1>6, <2>3, <2>4, <2>5, DiskIs DEF Formats, Stored, Placed
  <2>7. Shapes'
    BY <1>1, <1>2, <1>6, <1>3, <2>1, <2>2, <2>3, <2>4, <2>5, <2>6 DEF Shapes
  <2>8. Listed' /\ dd' # None
    BY <1>1, <1>2, <1>6, <1>3, <2>1, <2>2, <2>3, <2>4, <2>5, <2>6 DEF Disk, Read, Listed,
       Distinct, Holds
  <2>9. Working(c2)'
    BY <1>1, <1>2, <1>6, <1>3, <2>1, <2>2, <2>3, <2>4, <2>5, <2>6 DEF Disk, Working, Steps,
       Goes, Same, Like
  <2>10. Read(c2)'
    BY <1>1, <1>2, <1>6, <1>3, <2>1, <2>2, <2>3, <2>4, <2>5, <2>6 DEF Disk, Read, Holds,
       Steps, Goes, Same, Like
  <2>11. Placed' => Match(c2)'
    <3>1. Placed => Match(c)
      BY <1>2 DEF Disk
    <3>2. Placed' => Matched'
      BY <1>1, <1>2, <1>6, <1>3, <2>1, <2>2, <2>3, <2>4, <2>5, <2>6, <3>1 DEF Match,
         Matched, Placed
    <3>3. Placed' => Apart(c2)'
      BY <1>1, <1>2, <1>6, <1>3, <2>1, <2>2, <2>3, <2>4, <2>5, <2>6, <3>1 DEF Match, Apart,
         Swapping, Placed, Goes, Same, Like
    <3> QED
      BY <1>1, <1>2, <1>6, <1>3, <2>1, <2>2, <2>3, <2>4, <2>5, <2>6, <3>1, <3>2, <3>3 DEF
         Match, Swapping, Steps, Placed, Goes, Same, Like
  <2>12. Whole' => Lies(c2)'
    BY <1>1, <1>2, <1>6, <1>3, <2>1, <2>2, <2>3, <2>4, <2>5, <2>6 DEF Disk, Lies, Steps,
       Goes, Same, Like, Whole, Placed, When, Room, Size, TopNode, Top
  <2>13. Stored' => Fitting(c2)'
    BY <1>1, <1>2, <1>6, <1>3, <2>1, <2>2, <2>3, <2>4, <2>5, <2>6 DEF Disk, Fitting, Steps,
       Goes, Same, Like, Stored, Placed, When, Fits, Formats, Size, TopNode, Top
  <2>14. Followed' => Running(c2)'
    BY <1>1, <1>2, <1>6, <1>3, <2>1, <2>2, <2>3, <2>4, <2>5, <2>6 DEF Disk, Running,
       Swapping, Steps, Goes, Same, Like, Followed, Placed, When, Found
  <2>15. Returned' => Tidy(c2)'
    BY <1>1, <1>2, <1>6, <1>3, <2>1, <2>2, <2>3, <2>4, <2>5, <2>6 DEF Disk, Tidy, Owns,
       Working, Steps, Goes, Same, Like, Returned, When
  <2>16. Disk(IF Holds(c2) THEN c2 ELSE Idle)'
    BY <2>2, <2>7, <2>8, <2>9, <2>10, <2>11, <2>12, <2>13, <2>14, <2>15 DEF Disk
  <2> QED
    BY <1>1, <1>6, <2>1, <2>2, <2>7, <2>8, <2>16, Change DEF NoFs, Steps, Holds, Goes, Same,
       Like
<1> QED
  BY <1>4, <1>5, <1>6

\* The descriptor with the new size is stored.
LEMMA DiscardStoreInv ==
  ASSUME Inv, NEW p \in Proc, DiscardStore(p), "dropped" \notin windows'
  PROVE  Inv'
<1> PICK c \in Calls : c = call[p]
  BY DEF Inv, Types
<1>1. Steps(c) /\ Holds(c) /\ c.pc = "d_store"
  BY DEF Inv, Control, DiscardStore, Holds, At
<1>2. Disk(c) /\ Types /\ Shapes /\ Listed
  BY <1>1, NowIs DEF Inv, Types
<1>3. /\ c.di = dd /\ dd \in Descriptor /\ dd # None /\ dd.top = None /\ TopNode(dd) = names[dd.base] /\ dev = None
     /\ TopNode(dd) \in DOMAIN nodes /\ RoundUp(B + fs, B) \in Int /\ ~Whole
  BY <1>1, <1>2, DiskIs, CutIs DEF Disk, Read, Holds, Steps, Working, TopNode, Top, Shapes,
     Lies
<1>4. \/ /\ Still /\ windows' = windows \cup {"truncated"}
         /\ Go(p, "fail")
      \/ /\ dd' = [c.di EXCEPT !.size = RoundUp(B + fs, B)]
         /\ Go(p, "ok")
         /\ UNCHANGED <<tmp, names, nodes, dev, mnt, part, fs, windows>>
  BY <1>1, <1>2, <1>3, HalfIs DEF DiscardStore, NoFault, Go, Still, store, kernel, layout,
     Steps
<1>5. CASE /\ Still /\ windows' = windows \cup {"truncated"}
           /\ Go(p, "fail")
  <2>1. PICK c2 \in Calls : Becomes(p, c2) /\ Goes(c2, c, "fail") /\ UNCHANGED <<lock, wanted>>
    BY <1>1, <1>2, <1>5, GoIs
  <2>2. Steps(c2) /\ Holds(c2)
    BY <1>1, <1>5, <2>1 DEF Steps, Holds, Goes, Same, Like
  <2>3. Working(c2)
    BY <1>1, <1>2, <1>5, <1>3, <2>1, <2>2 DEF Disk, Working, Steps, Goes, Same, Like, Still
  <2>4. Read(c2)
    BY <1>1, <1>2, <1>5, <1>3, <2>1, <2>2 DEF Disk, Read, Holds, Steps, Goes, Same, Like,
       Still
  <2>5. Placed' => Match(c2)
    BY <1>1, <1>2, <1>5, <1>3, <2>1, <2>2 DEF Disk, Match, Matched, Apart, Swapping, Steps,
       Goes, Same, Like, Still, Placed, When
  <2>6. Whole' => Lies(c2)
    BY <1>1, <1>2, <1>5, <1>3, <2>1, <2>2 DEF Disk, Lies, Steps, Goes, Same, Like, Still,
       Whole, Placed, When
  <2>7. Stored' => Fitting(c2)
    BY <1>1, <1>2, <1>5, <1>3, <2>1, <2>2 DEF Disk, Fitting, Steps, Goes, Same, Like, Still,
       Stored, Placed, When
  <2>8. Followed' => Running(c2)
    BY <1>1, <1>2, <1>5, <1>3, <2>1, <2>2 DEF Disk, Running, Swapping, Steps, Goes, Same,
       Like, Still, Followed, Placed, When
  <2>9. Returned' => Tidy(c2)
    BY <1>1, <1>2, <1>5, <1>3, <2>1, <2>2 DEF Disk, Tidy, Owns, Working, Steps, Goes, Same,
       Like, Still, Returned, When
  <2>10. Finds(IF Holds(c2) THEN c2 ELSE Idle)
    BY <2>2, <2>3, <2>4, <2>5, <2>6, <2>7, <2>8, <2>9 DEF Finds
  <2>11. Moved(p, c2)
    BY <1>5, <2>1 DEF Moved, Still, store, kernel, layout
  <2> QED
    BY <1>1, <1>5, <2>1, <2>2, <2>10, <2>11, Move DEF NoFs, Steps, Holds, Goes, Same, Like
<1>6. CASE /\ dd' = [c.di EXCEPT !.size = RoundUp(B + fs, B)]
           /\ Go(p, "ok")
           /\ UNCHANGED <<tmp, names, nodes, dev, mnt, part, fs, windows>>
  <2>1. PICK c2 \in Calls : Becomes(p, c2) /\ Goes(c2, c, "ok") /\ UNCHANGED <<lock, wanted>>
    BY <1>1, <1>2, <1>6, GoIs
  <2>2. Steps(c2) /\ Holds(c2)
    BY <1>1, <1>6, <2>1 DEF Steps, Holds, Goes, Same, Like
  <2>3. /\ dd' \in Descriptor /\ dd'.base = dd.base /\ dd'.top = dd.top /\ dd'.max = dd.max /\ dd'.mode = dd.mode
        /\ dd' = [dd EXCEPT !.size = RoundUp(B + fs, B)]
    BY <1>3, <1>6 DEF Descriptor
  <2>4. dd' # None
    BY <2>3, NoneAssumption
  <2>5. TopNode(dd)' = TopNode(dd) /\ Size(dd)' = Size(dd) /\ ~Whole'
    BY <1>3, <1>6, <2>3 DEF TopNode, Top, Size, Whole, Placed
  <2>6. Stored => Formats(dd) /\ Size(dd) = RoundUp(B + fs, B)
    BY <1>1, <1>2, <1>3 DEF Disk, Fitting
  <2>7. Stored' => Fits(dd)'
    BY <1>3, <1>6, <2>3, <2>5, <2>6 DEF Fits, Formats, Size, TopNode, Top, Stored, Placed
  <2>8. Shapes'
    BY <1>1, <1>2, <1>6, <1>3, <2>1, <2>2, <2>3, <2>4, <2>5, <2>6, <2>7 DEF Shapes
  <2>9. Listed' /\ dd' # None
    BY <1>1, <1>2, <1>6, <1>3, <2>1, <2>2, <2>3, <2>4, <2>5, <2>6, <2>7 DEF Disk, Read,
       Listed, Distinct, Holds
  <2>10. Working(c2)'
    BY <1>1, <1>2, <1>6, <1>3, <2>1, <2>2, <2>3, <2>4, <2>5, <2>6, <2>7 DEF Disk, Working,
       Steps, Goes, Same, Like
  <2>11. Read(c2)'
    BY <1>1, <1>2, <1>6, <1>3, <2>1, <2>2, <2>3, <2>4, <2>5, <2>6, <2>7 DEF Disk, Read,
       Holds, Steps, Goes, Same, Like
  <2>12. Placed' => Match(c2)'
    <3>1. Placed => Match(c)
      BY <1>2 DEF Disk
    <3>2. Placed' => Matched'
      BY <1>1, <1>2, <1>6, <1>3, <2>1, <2>2, <2>3, <2>4, <2>5, <2>6, <2>7, <3>1 DEF Match,
         Matched, Placed
    <3>3. Placed' => Apart(c2)'
      BY <1>1, <1>2, <1>6, <1>3, <2>1, <2>2, <2>3, <2>4, <2>5, <2>6, <2>7, <3>1 DEF Match,
         Apart, Swapping, Placed, Goes, Same, Like
    <3> QED
      BY <1>1, <1>2, <1>6, <1>3, <2>1, <2>2, <2>3, <2>4, <2>5, <2>6, <2>7, <3>1, <3>2, <3>3
         DEF Match, Swapping, Steps, Placed, Goes, Same, Like
  <2>13. Whole' => Lies(c2)'
    BY <1>1, <1>2, <1>6, <1>3, <2>1, <2>2, <2>3, <2>4, <2>5, <2>6, <2>7 DEF Disk, Lies,
       Steps, Goes, Same, Like, Whole, Placed, When, Room, Size, TopNode, Top
  <2>14. Stored' => Fitting(c2)'
    BY <1>1, <1>2, <1>6, <1>3, <2>1, <2>2, <2>3, <2>4, <2>5, <2>6, <2>7 DEF Disk, Fitting,
       Steps, Goes, Same, Like, Stored, Placed, When, Fits, Formats, Size, TopNode, Top
  <2>15. Followed' => Running(c2)'
    BY <1>1, <1>2, <1>6, <1>3, <2>1, <2>2, <2>3, <2>4, <2>5, <2>6, <2>7 DEF Disk, Running,
       Swapping, Steps, Goes, Same, Like, Followed, Placed, When, Found
  <2>16. Returned' => Tidy(c2)'
    BY <1>1, <1>2, <1>6, <1>3, <2>1, <2>2, <2>3, <2>4, <2>5, <2>6, <2>7 DEF Disk, Tidy,
       Owns, Working, Steps, Goes, Same, Like, Returned, When
  <2>17. Disk(IF Holds(c2) THEN c2 ELSE Idle)'
    BY <2>2, <2>8, <2>9, <2>10, <2>11, <2>12, <2>13, <2>14, <2>15, <2>16 DEF Disk
  <2> QED
    BY <1>1, <1>6, <2>1, <2>2, <2>8, <2>9, <2>17, Change DEF NoFs, Steps, Holds, Goes, Same,
       Like
<1> QED
  BY <1>4, <1>5, <1>6

\* What the call mounted it unmounts.
LEMMA ResizeLeaveInv ==
  ASSUME Inv, NEW p \in Proc, ResizeLeave(p), "dropped" \notin windows'
  PROVE  Inv'
<1> PICK c \in Calls : c = call[p]
  BY DEF Inv, Types
<1>1. Steps(c) /\ Holds(c) /\ c.pc \in {"r_ok", "r_fail"}
  BY DEF Inv, Control, ResizeLeave, Holds
<1>2. Disk(c) /\ Types /\ Shapes /\ Listed
  BY <1>1, NowIs DEF Inv, Types
<1>3. \/ /\ c.own /\ c.pc = "r_ok" /\ Still /\ windows' = windows
         /\ DoUmount(p, "ok", "ok")
      \/ /\ c.umfs /\ c.pc = "r_ok"
         /\ mnt' = "none"
         /\ Go(p, "ok")
         /\ UNCHANGED <<dd, tmp, names, nodes, dev, part, fs, windows>>
      \/ /\ c.umfs /\ c.pc = "r_ok"
         /\ Still /\ windows' = windows \cup {"left"}
         /\ Go(p, "ok")
      \/ /\ ~c.own /\ ~c.umfs /\ c.pc = "r_ok"
         /\ Still /\ windows' = windows
         /\ Go(p, "ok")
      \/ /\ c.own /\ c.pc = "r_fail" /\ Still /\ windows' = windows
         /\ DoUmount(p, "fail", "fail")
      \/ /\ c.umfs /\ c.pc = "r_fail"
         /\ mnt' = "none"
         /\ Go(p, "fail")
         /\ UNCHANGED <<dd, tmp, names, nodes, dev, part, fs, windows>>
      \/ /\ c.umfs /\ c.pc = "r_fail"
         /\ Still /\ windows' = windows \cup {"left"}
         /\ Go(p, "fail")
      \/ /\ ~c.own /\ ~c.umfs /\ c.pc = "r_fail"
         /\ Still /\ windows' = windows
         /\ Go(p, "fail")
  BY <1>1, <1>2 DEF ResizeLeave, NoFault, Go, Still, store, kernel, layout, At
<1>4. CASE /\ c.own /\ c.pc = "r_ok" /\ Still /\ windows' = windows
           /\ DoUmount(p, "ok", "ok")
  <2>1. PICK c2 \in Calls : Becomes(p, c2) /\ Umounts(c2, c, "ok", "ok") /\ UNCHANGED <<lock, wanted>>
    BY <1>1, <1>2, <1>4, DoUmountIs DEF Thens, Elses, Targets
  <2>2. Steps(c2) /\ Holds(c2)
    BY <1>1, <1>4, <2>1 DEF Steps, Holds, Umounts, Same, Like
  <2>3. Working(c2)
    BY <1>1, <1>2, <1>4, <2>1, <2>2 DEF Disk, Working, Steps, Umounts, Same, Like, Still
  <2>4. Read(c2)
    BY <1>1, <1>2, <1>4, <2>1, <2>2 DEF Disk, Read, Holds, Steps, Umounts, Same, Like, Still
  <2>5. Placed' => Match(c2)
    BY <1>1, <1>2, <1>4, <2>1, <2>2 DEF Disk, Match, Matched, Apart, Swapping, Steps,
       Umounts, Same, Like, Still, Placed, When
  <2>6. Whole' => Lies(c2)
    BY <1>1, <1>2, <1>4, <2>1, <2>2 DEF Disk, Lies, Steps, Umounts, Same, Like, Still,
       Whole, Placed, When
  <2>7. Stored' => Fitting(c2)
    BY <1>1, <1>2, <1>4, <2>1, <2>2 DEF Disk, Fitting, Steps, Umounts, Same, Like, Still,
       Stored, Placed, When
  <2>8. Followed' => Running(c2)
    BY <1>1, <1>2, <1>4, <2>1, <2>2 DEF Disk, Running, Swapping, Steps, Umounts, Same, Like,
       Still, Followed, Placed, When
  <2>9. Returned' => Tidy(c2)
    BY <1>1, <1>2, <1>4, <2>1, <2>2 DEF Disk, Tidy, Owns, Working, Steps, Umounts, Same,
       Like, Still, Returned, When
  <2>10. Finds(IF Holds(c2) THEN c2 ELSE Idle)
    BY <2>2, <2>3, <2>4, <2>5, <2>6, <2>7, <2>8, <2>9 DEF Finds
  <2>11. Moved(p, c2)
    BY <1>4, <2>1 DEF Moved, Still, store, kernel, layout
  <2> QED
    BY <1>1, <1>4, <2>1, <2>2, <2>10, <2>11, Move DEF NoFs, Steps, Holds, Umounts, Same,
       Like
<1>5. CASE /\ c.umfs /\ c.pc = "r_ok"
           /\ mnt' = "none"
           /\ Go(p, "ok")
           /\ UNCHANGED <<dd, tmp, names, nodes, dev, part, fs, windows>>
  <2>1. PICK c2 \in Calls : Becomes(p, c2) /\ Goes(c2, c, "ok") /\ UNCHANGED <<lock, wanted>>
    BY <1>1, <1>2, <1>5, GoIs
  <2>2. Steps(c2) /\ Holds(c2)
    BY <1>1, <1>5, <2>1 DEF Steps, Holds, Goes, Same, Like
  <2>3. /\ TopNode(dd)' = TopNode(dd) /\ Deltas(dd)' = Deltas(dd) /\ Size(dd)' = Size(dd)
        /\ Found(dd)' = Found(dd)
    BY <1>5 DEF TopNode, Top, Size, Deltas, Files, Found
  <2>4. Shapes'
    BY <1>1, <1>2, <1>5, <2>1, <2>2, <2>3 DEF Shapes, Targets
  <2>5. Listed' /\ dd' # None
    BY <1>1, <1>2, <1>5, <2>1, <2>2, <2>3 DEF Disk, Read, Listed, Distinct, Holds
  <2>6. Working(c2)'
    BY <1>1, <1>2, <1>5, <2>1, <2>2, <2>3 DEF Disk, Working, Steps, Goes, Same, Like
  <2>7. Read(c2)'
    BY <1>1, <1>2, <1>5, <2>1, <2>2, <2>3 DEF Disk, Read, Holds, Steps, Goes, Same, Like
  <2>8. Placed' => Match(c2)'
    <3>1. Placed => Match(c)
      BY <1>2 DEF Disk
    <3>2. Placed' => Matched'
      BY <1>1, <1>2, <1>5, <2>1, <2>2, <2>3, <3>1 DEF Match, Matched, Placed
    <3>3. Placed' => Apart(c2)'
      BY <1>1, <1>2, <1>5, <2>1, <2>2, <2>3, <3>1 DEF Match, Apart, Swapping, Placed, Goes,
         Same, Like
    <3> QED
      BY <1>1, <1>2, <1>5, <2>1, <2>2, <2>3, <3>1, <3>2, <3>3 DEF Match, Swapping, Steps,
         Placed, Goes, Same, Like
  <2>9. Whole' => Lies(c2)'
    BY <1>1, <1>2, <1>5, <2>1, <2>2, <2>3 DEF Disk, Lies, Steps, Goes, Same, Like, Whole,
       Placed, When, Room, Size, TopNode, Top
  <2>10. Stored' => Fitting(c2)'
    BY <1>1, <1>2, <1>5, <2>1, <2>2, <2>3 DEF Disk, Fitting, Steps, Goes, Same, Like,
       Stored, Placed, When, Fits, Formats, Size, TopNode, Top
  <2>11. Followed' => Running(c2)'
    BY <1>1, <1>2, <1>5, <2>1, <2>2, <2>3 DEF Disk, Running, Swapping, Steps, Goes, Same,
       Like, Followed, Placed, When, Found
  <2>12. Returned' => Tidy(c2)'
    BY <1>1, <1>2, <1>5, <2>1, <2>2, <2>3 DEF Disk, Tidy, Owns, Working, Steps, Goes, Same,
       Like, Returned, When
  <2>13. Disk(IF Holds(c2) THEN c2 ELSE Idle)'
    BY <2>2, <2>4, <2>5, <2>6, <2>7, <2>8, <2>9, <2>10, <2>11, <2>12 DEF Disk
  <2> QED
    BY <1>1, <1>5, <2>1, <2>2, <2>4, <2>5, <2>13, Change DEF NoFs, Steps, Holds, Goes, Same,
       Like
<1>6. CASE /\ c.umfs /\ c.pc = "r_ok"
           /\ Still /\ windows' = windows \cup {"left"}
           /\ Go(p, "ok")
  <2>1. PICK c2 \in Calls : Becomes(p, c2) /\ Goes(c2, c, "ok") /\ UNCHANGED <<lock, wanted>>
    BY <1>1, <1>2, <1>6, GoIs
  <2>2. Steps(c2) /\ Holds(c2)
    BY <1>1, <1>6, <2>1 DEF Steps, Holds, Goes, Same, Like
  <2>3. Working(c2)
    BY <1>1, <1>2, <1>6, <2>1, <2>2 DEF Disk, Working, Steps, Goes, Same, Like, Still
  <2>4. Read(c2)
    BY <1>1, <1>2, <1>6, <2>1, <2>2 DEF Disk, Read, Holds, Steps, Goes, Same, Like, Still
  <2>5. Placed' => Match(c2)
    BY <1>1, <1>2, <1>6, <2>1, <2>2 DEF Disk, Match, Matched, Apart, Swapping, Steps, Goes,
       Same, Like, Still, Placed, When
  <2>6. Whole' => Lies(c2)
    BY <1>1, <1>2, <1>6, <2>1, <2>2 DEF Disk, Lies, Steps, Goes, Same, Like, Still, Whole,
       Placed, When
  <2>7. Stored' => Fitting(c2)
    BY <1>1, <1>2, <1>6, <2>1, <2>2 DEF Disk, Fitting, Steps, Goes, Same, Like, Still,
       Stored, Placed, When
  <2>8. Followed' => Running(c2)
    BY <1>1, <1>2, <1>6, <2>1, <2>2 DEF Disk, Running, Swapping, Steps, Goes, Same, Like,
       Still, Followed, Placed, When
  <2>9. Returned' => Tidy(c2)
    BY <1>1, <1>2, <1>6, <2>1, <2>2 DEF Disk, Tidy, Owns, Working, Steps, Goes, Same, Like,
       Still, Returned, When
  <2>10. Finds(IF Holds(c2) THEN c2 ELSE Idle)
    BY <2>2, <2>3, <2>4, <2>5, <2>6, <2>7, <2>8, <2>9 DEF Finds
  <2>11. Moved(p, c2)
    BY <1>6, <2>1 DEF Moved, Still, store, kernel, layout
  <2> QED
    BY <1>1, <1>6, <2>1, <2>2, <2>10, <2>11, Move DEF NoFs, Steps, Holds, Goes, Same, Like
<1>7. CASE /\ ~c.own /\ ~c.umfs /\ c.pc = "r_ok"
           /\ Still /\ windows' = windows
           /\ Go(p, "ok")
  <2>1. PICK c2 \in Calls : Becomes(p, c2) /\ Goes(c2, c, "ok") /\ UNCHANGED <<lock, wanted>>
    BY <1>1, <1>2, <1>7, GoIs
  <2>2. Steps(c2) /\ Holds(c2)
    BY <1>1, <1>7, <2>1 DEF Steps, Holds, Goes, Same, Like
  <2>3. Working(c2)
    BY <1>1, <1>2, <1>7, <2>1, <2>2 DEF Disk, Working, Steps, Goes, Same, Like, Still
  <2>4. Read(c2)
    BY <1>1, <1>2, <1>7, <2>1, <2>2 DEF Disk, Read, Holds, Steps, Goes, Same, Like, Still
  <2>5. Placed' => Match(c2)
    BY <1>1, <1>2, <1>7, <2>1, <2>2 DEF Disk, Match, Matched, Apart, Swapping, Steps, Goes,
       Same, Like, Still, Placed, When
  <2>6. Whole' => Lies(c2)
    BY <1>1, <1>2, <1>7, <2>1, <2>2 DEF Disk, Lies, Steps, Goes, Same, Like, Still, Whole,
       Placed, When
  <2>7. Stored' => Fitting(c2)
    BY <1>1, <1>2, <1>7, <2>1, <2>2 DEF Disk, Fitting, Steps, Goes, Same, Like, Still,
       Stored, Placed, When
  <2>8. Followed' => Running(c2)
    BY <1>1, <1>2, <1>7, <2>1, <2>2 DEF Disk, Running, Swapping, Steps, Goes, Same, Like,
       Still, Followed, Placed, When
  <2>9. Returned' => Tidy(c2)
    BY <1>1, <1>2, <1>7, <2>1, <2>2 DEF Disk, Tidy, Owns, Working, Steps, Goes, Same, Like,
       Still, Returned, When
  <2>10. Finds(IF Holds(c2) THEN c2 ELSE Idle)
    BY <2>2, <2>3, <2>4, <2>5, <2>6, <2>7, <2>8, <2>9 DEF Finds
  <2>11. Moved(p, c2)
    BY <1>7, <2>1 DEF Moved, Still, store, kernel, layout
  <2> QED
    BY <1>1, <1>7, <2>1, <2>2, <2>10, <2>11, Move DEF NoFs, Steps, Holds, Goes, Same, Like
<1>8. CASE /\ c.own /\ c.pc = "r_fail" /\ Still /\ windows' = windows
           /\ DoUmount(p, "fail", "fail")
  <2>1. PICK c2 \in Calls : Becomes(p, c2) /\ Umounts(c2, c, "fail", "fail") /\ UNCHANGED <<lock, wanted>>
    BY <1>1, <1>2, <1>8, DoUmountIs DEF Thens, Elses, Targets
  <2>2. Steps(c2) /\ Holds(c2)
    BY <1>1, <1>8, <2>1 DEF Steps, Holds, Umounts, Same, Like
  <2>3. Working(c2)
    BY <1>1, <1>2, <1>8, <2>1, <2>2 DEF Disk, Working, Steps, Umounts, Same, Like, Still
  <2>4. Read(c2)
    BY <1>1, <1>2, <1>8, <2>1, <2>2 DEF Disk, Read, Holds, Steps, Umounts, Same, Like, Still
  <2>5. Placed' => Match(c2)
    BY <1>1, <1>2, <1>8, <2>1, <2>2 DEF Disk, Match, Matched, Apart, Swapping, Steps,
       Umounts, Same, Like, Still, Placed, When
  <2>6. Whole' => Lies(c2)
    BY <1>1, <1>2, <1>8, <2>1, <2>2 DEF Disk, Lies, Steps, Umounts, Same, Like, Still,
       Whole, Placed, When
  <2>7. Stored' => Fitting(c2)
    BY <1>1, <1>2, <1>8, <2>1, <2>2 DEF Disk, Fitting, Steps, Umounts, Same, Like, Still,
       Stored, Placed, When
  <2>8. Followed' => Running(c2)
    BY <1>1, <1>2, <1>8, <2>1, <2>2 DEF Disk, Running, Swapping, Steps, Umounts, Same, Like,
       Still, Followed, Placed, When
  <2>9. Returned' => Tidy(c2)
    BY <1>1, <1>2, <1>8, <2>1, <2>2 DEF Disk, Tidy, Owns, Working, Steps, Umounts, Same,
       Like, Still, Returned, When
  <2>10. Finds(IF Holds(c2) THEN c2 ELSE Idle)
    BY <2>2, <2>3, <2>4, <2>5, <2>6, <2>7, <2>8, <2>9 DEF Finds
  <2>11. Moved(p, c2)
    BY <1>8, <2>1 DEF Moved, Still, store, kernel, layout
  <2> QED
    BY <1>1, <1>8, <2>1, <2>2, <2>10, <2>11, Move DEF NoFs, Steps, Holds, Umounts, Same,
       Like
<1>9. CASE /\ c.umfs /\ c.pc = "r_fail"
           /\ mnt' = "none"
           /\ Go(p, "fail")
           /\ UNCHANGED <<dd, tmp, names, nodes, dev, part, fs, windows>>
  <2>1. PICK c2 \in Calls : Becomes(p, c2) /\ Goes(c2, c, "fail") /\ UNCHANGED <<lock, wanted>>
    BY <1>1, <1>2, <1>9, GoIs
  <2>2. Steps(c2) /\ Holds(c2)
    BY <1>1, <1>9, <2>1 DEF Steps, Holds, Goes, Same, Like
  <2>3. /\ TopNode(dd)' = TopNode(dd) /\ Deltas(dd)' = Deltas(dd) /\ Size(dd)' = Size(dd)
        /\ Found(dd)' = Found(dd)
    BY <1>9 DEF TopNode, Top, Size, Deltas, Files, Found
  <2>4. Shapes'
    BY <1>1, <1>2, <1>9, <2>1, <2>2, <2>3 DEF Shapes, Targets
  <2>5. Listed' /\ dd' # None
    BY <1>1, <1>2, <1>9, <2>1, <2>2, <2>3 DEF Disk, Read, Listed, Distinct, Holds
  <2>6. Working(c2)'
    BY <1>1, <1>2, <1>9, <2>1, <2>2, <2>3 DEF Disk, Working, Steps, Goes, Same, Like
  <2>7. Read(c2)'
    BY <1>1, <1>2, <1>9, <2>1, <2>2, <2>3 DEF Disk, Read, Holds, Steps, Goes, Same, Like
  <2>8. Placed' => Match(c2)'
    <3>1. Placed => Match(c)
      BY <1>2 DEF Disk
    <3>2. Placed' => Matched'
      BY <1>1, <1>2, <1>9, <2>1, <2>2, <2>3, <3>1 DEF Match, Matched, Placed
    <3>3. Placed' => Apart(c2)'
      BY <1>1, <1>2, <1>9, <2>1, <2>2, <2>3, <3>1 DEF Match, Apart, Swapping, Placed, Goes,
         Same, Like
    <3> QED
      BY <1>1, <1>2, <1>9, <2>1, <2>2, <2>3, <3>1, <3>2, <3>3 DEF Match, Swapping, Steps,
         Placed, Goes, Same, Like
  <2>9. Whole' => Lies(c2)'
    BY <1>1, <1>2, <1>9, <2>1, <2>2, <2>3 DEF Disk, Lies, Steps, Goes, Same, Like, Whole,
       Placed, When, Room, Size, TopNode, Top
  <2>10. Stored' => Fitting(c2)'
    BY <1>1, <1>2, <1>9, <2>1, <2>2, <2>3 DEF Disk, Fitting, Steps, Goes, Same, Like,
       Stored, Placed, When, Fits, Formats, Size, TopNode, Top
  <2>11. Followed' => Running(c2)'
    BY <1>1, <1>2, <1>9, <2>1, <2>2, <2>3 DEF Disk, Running, Swapping, Steps, Goes, Same,
       Like, Followed, Placed, When, Found
  <2>12. Returned' => Tidy(c2)'
    BY <1>1, <1>2, <1>9, <2>1, <2>2, <2>3 DEF Disk, Tidy, Owns, Working, Steps, Goes, Same,
       Like, Returned, When
  <2>13. Disk(IF Holds(c2) THEN c2 ELSE Idle)'
    BY <2>2, <2>4, <2>5, <2>6, <2>7, <2>8, <2>9, <2>10, <2>11, <2>12 DEF Disk
  <2> QED
    BY <1>1, <1>9, <2>1, <2>2, <2>4, <2>5, <2>13, Change DEF NoFs, Steps, Holds, Goes, Same,
       Like
<1>10. CASE /\ c.umfs /\ c.pc = "r_fail"
            /\ Still /\ windows' = windows \cup {"left"}
            /\ Go(p, "fail")
  <2>1. PICK c2 \in Calls : Becomes(p, c2) /\ Goes(c2, c, "fail") /\ UNCHANGED <<lock, wanted>>
    BY <1>1, <1>2, <1>10, GoIs
  <2>2. Steps(c2) /\ Holds(c2)
    BY <1>1, <1>10, <2>1 DEF Steps, Holds, Goes, Same, Like
  <2>3. Working(c2)
    BY <1>1, <1>2, <1>10, <2>1, <2>2 DEF Disk, Working, Steps, Goes, Same, Like, Still
  <2>4. Read(c2)
    BY <1>1, <1>2, <1>10, <2>1, <2>2 DEF Disk, Read, Holds, Steps, Goes, Same, Like, Still
  <2>5. Placed' => Match(c2)
    BY <1>1, <1>2, <1>10, <2>1, <2>2 DEF Disk, Match, Matched, Apart, Swapping, Steps, Goes,
       Same, Like, Still, Placed, When
  <2>6. Whole' => Lies(c2)
    BY <1>1, <1>2, <1>10, <2>1, <2>2 DEF Disk, Lies, Steps, Goes, Same, Like, Still, Whole,
       Placed, When
  <2>7. Stored' => Fitting(c2)
    BY <1>1, <1>2, <1>10, <2>1, <2>2 DEF Disk, Fitting, Steps, Goes, Same, Like, Still,
       Stored, Placed, When
  <2>8. Followed' => Running(c2)
    BY <1>1, <1>2, <1>10, <2>1, <2>2 DEF Disk, Running, Swapping, Steps, Goes, Same, Like,
       Still, Followed, Placed, When
  <2>9. Returned' => Tidy(c2)
    BY <1>1, <1>2, <1>10, <2>1, <2>2 DEF Disk, Tidy, Owns, Working, Steps, Goes, Same, Like,
       Still, Returned, When
  <2>10. Finds(IF Holds(c2) THEN c2 ELSE Idle)
    BY <2>2, <2>3, <2>4, <2>5, <2>6, <2>7, <2>8, <2>9 DEF Finds
  <2>11. Moved(p, c2)
    BY <1>10, <2>1 DEF Moved, Still, store, kernel, layout
  <2> QED
    BY <1>1, <1>10, <2>1, <2>2, <2>10, <2>11, Move DEF NoFs, Steps, Holds, Goes, Same, Like
<1>11. CASE /\ ~c.own /\ ~c.umfs /\ c.pc = "r_fail"
            /\ Still /\ windows' = windows
            /\ Go(p, "fail")
  <2>1. PICK c2 \in Calls : Becomes(p, c2) /\ Goes(c2, c, "fail") /\ UNCHANGED <<lock, wanted>>
    BY <1>1, <1>2, <1>11, GoIs
  <2>2. Steps(c2) /\ Holds(c2)
    BY <1>1, <1>11, <2>1 DEF Steps, Holds, Goes, Same, Like
  <2>3. Working(c2)
    BY <1>1, <1>2, <1>11, <2>1, <2>2 DEF Disk, Working, Steps, Goes, Same, Like, Still
  <2>4. Read(c2)
    BY <1>1, <1>2, <1>11, <2>1, <2>2 DEF Disk, Read, Holds, Steps, Goes, Same, Like, Still
  <2>5. Placed' => Match(c2)
    BY <1>1, <1>2, <1>11, <2>1, <2>2 DEF Disk, Match, Matched, Apart, Swapping, Steps, Goes,
       Same, Like, Still, Placed, When
  <2>6. Whole' => Lies(c2)
    BY <1>1, <1>2, <1>11, <2>1, <2>2 DEF Disk, Lies, Steps, Goes, Same, Like, Still, Whole,
       Placed, When
  <2>7. Stored' => Fitting(c2)
    BY <1>1, <1>2, <1>11, <2>1, <2>2 DEF Disk, Fitting, Steps, Goes, Same, Like, Still,
       Stored, Placed, When
  <2>8. Followed' => Running(c2)
    BY <1>1, <1>2, <1>11, <2>1, <2>2 DEF Disk, Running, Swapping, Steps, Goes, Same, Like,
       Still, Followed, Placed, When
  <2>9. Returned' => Tidy(c2)
    BY <1>1, <1>2, <1>11, <2>1, <2>2 DEF Disk, Tidy, Owns, Working, Steps, Goes, Same, Like,
       Still, Returned, When
  <2>10. Finds(IF Holds(c2) THEN c2 ELSE Idle)
    BY <2>2, <2>3, <2>4, <2>5, <2>6, <2>7, <2>8, <2>9 DEF Finds
  <2>11. Moved(p, c2)
    BY <1>11, <2>1 DEF Moved, Still, store, kernel, layout
  <2> QED
    BY <1>1, <1>11, <2>1, <2>2, <2>10, <2>11, Move DEF NoFs, Steps, Holds, Goes, Same, Like
<1> QED
  BY <1>3, <1>4, <1>5, <1>6, <1>7, <1>8, <1>9, <1>10, <1>11

-----------------------------------------------------------------------------
(* ploop_convert_image.                                                    *)

\* The descriptor with the new mode is written beside the stored one.
LEMMA ConvertStoreInv ==
  ASSUME Inv, NEW p \in Proc, ConvertStore(p), "dropped" \notin windows'
  PROVE  Inv'
<1> PICK c \in Calls : c = call[p]
  BY DEF Inv, Types
<1>1. Steps(c) /\ Holds(c) /\ c.pc = "locked" /\ c.op = "convert"
  BY DEF Inv, Control, ConvertStore, Holds, Entry, At
<1>2. Disk(c) /\ Types /\ Shapes /\ Listed
  BY <1>1, NowIs DEF Inv, Types
<1>3. c.di = dd /\ dd \in Descriptor /\ dd # None /\ c.mode \in Modes
  BY <1>1, <1>2, DiskIs DEF Disk, Read, Holds, Steps, Calls
<1>4. \/ /\ Still /\ windows' = windows
         /\ Go(p, "fail")
      \/ /\ tmp' = [c.di EXCEPT !.mode = c.mode] /\ c.di.mode # "raw" /\ c.mode = "raw"
         /\ Go(p, "cv_open")
         /\ UNCHANGED <<dd, names, nodes, dev, mnt, part, fs, windows>>
      \/ /\ tmp' = [c.di EXCEPT !.mode = c.mode] /\ c.di.mode # "raw" /\ c.mode = "expanded"
         /\ Go(p, "cv_conf")
         /\ UNCHANGED <<dd, names, nodes, dev, mnt, part, fs, windows>>
      \/ /\ tmp' = [c.di EXCEPT !.mode = c.mode] /\ c.di.mode # "raw" /\ c.mode = "preallocated"
         /\ Go(p, "cv_fill")
         /\ UNCHANGED <<dd, names, nodes, dev, mnt, part, fs, windows>>
      \/ /\ tmp' = None
         /\ Go(p, "fail")
         /\ UNCHANGED <<dd, names, nodes, dev, mnt, part, fs, windows>>
  BY <1>1, <1>2, <1>3 DEF ConvertStore, NoFault, Go, Still, store, kernel, layout, Modes
<1>5. CASE /\ Still /\ windows' = windows
           /\ Go(p, "fail")
  BY <1>1, <1>2, <1>5, Declines
<1>6. CASE /\ tmp' = [c.di EXCEPT !.mode = c.mode] /\ c.di.mode # "raw" /\ c.mode = "raw"
           /\ Go(p, "cv_open")
           /\ UNCHANGED <<dd, names, nodes, dev, mnt, part, fs, windows>>
  <2>1. PICK c2 \in Calls : Becomes(p, c2) /\ Goes(c2, c, "cv_open") /\ UNCHANGED <<lock, wanted>>
    BY <1>1, <1>2, <1>6, GoIs
  <2>2. Steps(c2) /\ Holds(c2)
    BY <1>1, <1>6, <2>1 DEF Steps, Holds, Goes, Same, Like
  <2>3. /\ TopNode(dd)' = TopNode(dd) /\ Deltas(dd)' = Deltas(dd) /\ Size(dd)' = Size(dd)
        /\ Found(dd)' = Found(dd)
    BY <1>6 DEF TopNode, Top, Size, Deltas, Files, Found
  <2>4. /\ tmp' \in Descriptor /\ tmp'.base = dd.base /\ tmp'.top = dd.top /\ tmp'.max = dd.max /\ tmp'.size = dd.size /\ tmp'.mode = c.mode
        /\ tmp' = [c2.di EXCEPT !.mode = c2.mode]
    BY <1>3, <1>6, <2>1 DEF Descriptor, Goes, Same, Like
  <2>5. Shapes'
    BY <1>1, <1>2, <1>6, <1>3, <2>1, <2>2, <2>3, <2>4 DEF Shapes
  <2>6. Listed' /\ dd' # None
    BY <1>1, <1>2, <1>6, <1>3, <2>1, <2>2, <2>3, <2>4 DEF Disk, Read, Listed, Distinct,
       Holds
  <2>7. Working(c2)'
    BY <1>1, <1>2, <1>6, <1>3, <2>1, <2>2, <2>3, <2>4 DEF Disk, Working, Steps, Goes, Same,
       Like
  <2>8. Read(c2)'
    BY <1>1, <1>2, <1>6, <1>3, <2>1, <2>2, <2>3, <2>4 DEF Disk, Read, Holds, Steps, Goes,
       Same, Like
  <2>9. Placed' => Match(c2)'
    <3>1. Placed => Match(c)
      BY <1>2 DEF Disk
    <3>2. Placed' => Matched'
      BY <1>1, <1>2, <1>6, <1>3, <2>1, <2>2, <2>3, <2>4, <3>1 DEF Match, Matched, Placed
    <3>3. Placed' => Apart(c2)'
      BY <1>1, <1>2, <1>6, <1>3, <2>1, <2>2, <2>3, <2>4, <3>1 DEF Match, Apart, Swapping,
         Placed, Goes, Same, Like
    <3> QED
      BY <1>1, <1>2, <1>6, <1>3, <2>1, <2>2, <2>3, <2>4, <3>1, <3>2, <3>3 DEF Match,
         Swapping, Steps, Placed, Goes, Same, Like
  <2>10. Whole' => Lies(c2)'
    BY <1>1, <1>2, <1>6, <1>3, <2>1, <2>2, <2>3, <2>4 DEF Disk, Lies, Steps, Goes, Same,
       Like, Whole, Placed, When, Room, Size, TopNode, Top
  <2>11. Stored' => Fitting(c2)'
    BY <1>1, <1>2, <1>6, <1>3, <2>1, <2>2, <2>3, <2>4 DEF Disk, Fitting, Steps, Goes, Same,
       Like, Stored, Placed, When, Fits, Formats, Size, TopNode, Top
  <2>12. Followed' => Running(c2)'
    BY <1>1, <1>2, <1>6, <1>3, <2>1, <2>2, <2>3, <2>4 DEF Disk, Running, Swapping, Steps,
       Goes, Same, Like, Followed, Placed, When, Found
  <2>13. Returned' => Tidy(c2)'
    BY <1>1, <1>2, <1>6, <1>3, <2>1, <2>2, <2>3, <2>4 DEF Disk, Tidy, Owns, Working, Steps,
       Goes, Same, Like, Returned, When
  <2>14. Disk(IF Holds(c2) THEN c2 ELSE Idle)'
    BY <2>2, <2>5, <2>6, <2>7, <2>8, <2>9, <2>10, <2>11, <2>12, <2>13 DEF Disk
  <2> QED
    BY <1>1, <1>6, <2>1, <2>2, <2>5, <2>6, <2>14, Change DEF NoFs, Steps, Holds, Goes, Same,
       Like
<1>7. CASE /\ tmp' = [c.di EXCEPT !.mode = c.mode] /\ c.di.mode # "raw" /\ c.mode = "expanded"
           /\ Go(p, "cv_conf")
           /\ UNCHANGED <<dd, names, nodes, dev, mnt, part, fs, windows>>
  <2>1. PICK c2 \in Calls : Becomes(p, c2) /\ Goes(c2, c, "cv_conf") /\ UNCHANGED <<lock, wanted>>
    BY <1>1, <1>2, <1>7, GoIs
  <2>2. Steps(c2) /\ Holds(c2)
    BY <1>1, <1>7, <2>1 DEF Steps, Holds, Goes, Same, Like
  <2>3. /\ TopNode(dd)' = TopNode(dd) /\ Deltas(dd)' = Deltas(dd) /\ Size(dd)' = Size(dd)
        /\ Found(dd)' = Found(dd)
    BY <1>7 DEF TopNode, Top, Size, Deltas, Files, Found
  <2>4. /\ tmp' \in Descriptor /\ tmp'.base = dd.base /\ tmp'.top = dd.top /\ tmp'.max = dd.max /\ tmp'.size = dd.size /\ tmp'.mode = c.mode
        /\ tmp' = [c2.di EXCEPT !.mode = c2.mode]
    BY <1>3, <1>7, <2>1 DEF Descriptor, Goes, Same, Like
  <2>5. Stored => Fits(dd)
    BY <1>1, <1>2, <1>3 DEF Disk, Fitting
  <2>6. Stored => Fits(tmp)'
    BY <1>2, <1>3, <1>7, <2>4, <2>5, DiskIs DEF Fits, Formats, Size, TopNode, Top, Format
  <2>7. Shapes'
    BY <1>1, <1>2, <1>7, <1>3, <2>1, <2>2, <2>3, <2>4, <2>5, <2>6 DEF Shapes
  <2>8. Listed' /\ dd' # None
    BY <1>1, <1>2, <1>7, <1>3, <2>1, <2>2, <2>3, <2>4, <2>5, <2>6 DEF Disk, Read, Listed,
       Distinct, Holds
  <2>9. Working(c2)'
    BY <1>1, <1>2, <1>7, <1>3, <2>1, <2>2, <2>3, <2>4, <2>5, <2>6 DEF Disk, Working, Steps,
       Goes, Same, Like
  <2>10. Read(c2)'
    BY <1>1, <1>2, <1>7, <1>3, <2>1, <2>2, <2>3, <2>4, <2>5, <2>6 DEF Disk, Read, Holds,
       Steps, Goes, Same, Like
  <2>11. Placed' => Match(c2)'
    <3>1. Placed => Match(c)
      BY <1>2 DEF Disk
    <3>2. Placed' => Matched'
      BY <1>1, <1>2, <1>7, <1>3, <2>1, <2>2, <2>3, <2>4, <2>5, <2>6, <3>1 DEF Match,
         Matched, Placed
    <3>3. Placed' => Apart(c2)'
      BY <1>1, <1>2, <1>7, <1>3, <2>1, <2>2, <2>3, <2>4, <2>5, <2>6, <3>1 DEF Match, Apart,
         Swapping, Placed, Goes, Same, Like
    <3> QED
      BY <1>1, <1>2, <1>7, <1>3, <2>1, <2>2, <2>3, <2>4, <2>5, <2>6, <3>1, <3>2, <3>3 DEF
         Match, Swapping, Steps, Placed, Goes, Same, Like
  <2>12. Whole' => Lies(c2)'
    BY <1>1, <1>2, <1>7, <1>3, <2>1, <2>2, <2>3, <2>4, <2>5, <2>6 DEF Disk, Lies, Steps,
       Goes, Same, Like, Whole, Placed, When, Room, Size, TopNode, Top
  <2>13. Stored' => Fitting(c2)'
    BY <1>1, <1>2, <1>7, <1>3, <2>1, <2>2, <2>3, <2>4, <2>5, <2>6 DEF Disk, Fitting, Steps,
       Goes, Same, Like, Stored, Placed, When, Fits, Formats, Size, TopNode, Top
  <2>14. Followed' => Running(c2)'
    BY <1>1, <1>2, <1>7, <1>3, <2>1, <2>2, <2>3, <2>4, <2>5, <2>6 DEF Disk, Running,
       Swapping, Steps, Goes, Same, Like, Followed, Placed, When, Found
  <2>15. Returned' => Tidy(c2)'
    BY <1>1, <1>2, <1>7, <1>3, <2>1, <2>2, <2>3, <2>4, <2>5, <2>6 DEF Disk, Tidy, Owns,
       Working, Steps, Goes, Same, Like, Returned, When
  <2>16. Disk(IF Holds(c2) THEN c2 ELSE Idle)'
    BY <2>2, <2>7, <2>8, <2>9, <2>10, <2>11, <2>12, <2>13, <2>14, <2>15 DEF Disk
  <2> QED
    BY <1>1, <1>7, <2>1, <2>2, <2>7, <2>8, <2>16, Change DEF NoFs, Steps, Holds, Goes, Same,
       Like
<1>8. CASE /\ tmp' = [c.di EXCEPT !.mode = c.mode] /\ c.di.mode # "raw" /\ c.mode = "preallocated"
           /\ Go(p, "cv_fill")
           /\ UNCHANGED <<dd, names, nodes, dev, mnt, part, fs, windows>>
  <2>1. PICK c2 \in Calls : Becomes(p, c2) /\ Goes(c2, c, "cv_fill") /\ UNCHANGED <<lock, wanted>>
    BY <1>1, <1>2, <1>8, GoIs
  <2>2. Steps(c2) /\ Holds(c2)
    BY <1>1, <1>8, <2>1 DEF Steps, Holds, Goes, Same, Like
  <2>3. /\ TopNode(dd)' = TopNode(dd) /\ Deltas(dd)' = Deltas(dd) /\ Size(dd)' = Size(dd)
        /\ Found(dd)' = Found(dd)
    BY <1>8 DEF TopNode, Top, Size, Deltas, Files, Found
  <2>4. /\ tmp' \in Descriptor /\ tmp'.base = dd.base /\ tmp'.top = dd.top /\ tmp'.max = dd.max /\ tmp'.size = dd.size /\ tmp'.mode = c.mode
        /\ tmp' = [c2.di EXCEPT !.mode = c2.mode]
    BY <1>3, <1>8, <2>1 DEF Descriptor, Goes, Same, Like
  <2>5. Shapes'
    BY <1>1, <1>2, <1>8, <1>3, <2>1, <2>2, <2>3, <2>4 DEF Shapes
  <2>6. Listed' /\ dd' # None
    BY <1>1, <1>2, <1>8, <1>3, <2>1, <2>2, <2>3, <2>4 DEF Disk, Read, Listed, Distinct,
       Holds
  <2>7. Working(c2)'
    BY <1>1, <1>2, <1>8, <1>3, <2>1, <2>2, <2>3, <2>4 DEF Disk, Working, Steps, Goes, Same,
       Like
  <2>8. Read(c2)'
    BY <1>1, <1>2, <1>8, <1>3, <2>1, <2>2, <2>3, <2>4 DEF Disk, Read, Holds, Steps, Goes,
       Same, Like
  <2>9. Placed' => Match(c2)'
    <3>1. Placed => Match(c)
      BY <1>2 DEF Disk
    <3>2. Placed' => Matched'
      BY <1>1, <1>2, <1>8, <1>3, <2>1, <2>2, <2>3, <2>4, <3>1 DEF Match, Matched, Placed
    <3>3. Placed' => Apart(c2)'
      BY <1>1, <1>2, <1>8, <1>3, <2>1, <2>2, <2>3, <2>4, <3>1 DEF Match, Apart, Swapping,
         Placed, Goes, Same, Like
    <3> QED
      BY <1>1, <1>2, <1>8, <1>3, <2>1, <2>2, <2>3, <2>4, <3>1, <3>2, <3>3 DEF Match,
         Swapping, Steps, Placed, Goes, Same, Like
  <2>10. Whole' => Lies(c2)'
    BY <1>1, <1>2, <1>8, <1>3, <2>1, <2>2, <2>3, <2>4 DEF Disk, Lies, Steps, Goes, Same,
       Like, Whole, Placed, When, Room, Size, TopNode, Top
  <2>11. Stored' => Fitting(c2)'
    BY <1>1, <1>2, <1>8, <1>3, <2>1, <2>2, <2>3, <2>4 DEF Disk, Fitting, Steps, Goes, Same,
       Like, Stored, Placed, When, Fits, Formats, Size, TopNode, Top
  <2>12. Followed' => Running(c2)'
    BY <1>1, <1>2, <1>8, <1>3, <2>1, <2>2, <2>3, <2>4 DEF Disk, Running, Swapping, Steps,
       Goes, Same, Like, Followed, Placed, When, Found
  <2>13. Returned' => Tidy(c2)'
    BY <1>1, <1>2, <1>8, <1>3, <2>1, <2>2, <2>3, <2>4 DEF Disk, Tidy, Owns, Working, Steps,
       Goes, Same, Like, Returned, When
  <2>14. Disk(IF Holds(c2) THEN c2 ELSE Idle)'
    BY <2>2, <2>5, <2>6, <2>7, <2>8, <2>9, <2>10, <2>11, <2>12, <2>13 DEF Disk
  <2> QED
    BY <1>1, <1>8, <2>1, <2>2, <2>5, <2>6, <2>14, Change DEF NoFs, Steps, Holds, Goes, Same,
       Like
<1>9. CASE /\ tmp' = None
           /\ Go(p, "fail")
           /\ UNCHANGED <<dd, names, nodes, dev, mnt, part, fs, windows>>
  <2>1. PICK c2 \in Calls : Becomes(p, c2) /\ Goes(c2, c, "fail") /\ UNCHANGED <<lock, wanted>>
    BY <1>1, <1>2, <1>9, GoIs
  <2>2. Steps(c2) /\ Holds(c2)
    BY <1>1, <1>9, <2>1 DEF Steps, Holds, Goes, Same, Like
  <2>3. /\ TopNode(dd)' = TopNode(dd) /\ Deltas(dd)' = Deltas(dd) /\ Size(dd)' = Size(dd)
        /\ Found(dd)' = Found(dd)
    BY <1>9 DEF TopNode, Top, Size, Deltas, Files, Found
  <2>4. Shapes'
    BY <1>1, <1>2, <1>9, <1>3, <2>1, <2>2, <2>3 DEF Shapes
  <2>5. Listed' /\ dd' # None
    BY <1>1, <1>2, <1>9, <1>3, <2>1, <2>2, <2>3 DEF Disk, Read, Listed, Distinct, Holds
  <2>6. Working(c2)'
    BY <1>1, <1>2, <1>9, <1>3, <2>1, <2>2, <2>3 DEF Disk, Working, Steps, Goes, Same, Like
  <2>7. Read(c2)'
    BY <1>1, <1>2, <1>9, <1>3, <2>1, <2>2, <2>3 DEF Disk, Read, Holds, Steps, Goes, Same,
       Like
  <2>8. Placed' => Match(c2)'
    <3>1. Placed => Match(c)
      BY <1>2 DEF Disk
    <3>2. Placed' => Matched'
      BY <1>1, <1>2, <1>9, <1>3, <2>1, <2>2, <2>3, <3>1 DEF Match, Matched, Placed
    <3>3. Placed' => Apart(c2)'
      BY <1>1, <1>2, <1>9, <1>3, <2>1, <2>2, <2>3, <3>1 DEF Match, Apart, Swapping, Placed,
         Goes, Same, Like
    <3> QED
      BY <1>1, <1>2, <1>9, <1>3, <2>1, <2>2, <2>3, <3>1, <3>2, <3>3 DEF Match, Swapping,
         Steps, Placed, Goes, Same, Like
  <2>9. Whole' => Lies(c2)'
    BY <1>1, <1>2, <1>9, <1>3, <2>1, <2>2, <2>3 DEF Disk, Lies, Steps, Goes, Same, Like,
       Whole, Placed, When, Room, Size, TopNode, Top
  <2>10. Stored' => Fitting(c2)'
    BY <1>1, <1>2, <1>9, <1>3, <2>1, <2>2, <2>3 DEF Disk, Fitting, Steps, Goes, Same, Like,
       Stored, Placed, When, Fits, Formats, Size, TopNode, Top
  <2>11. Followed' => Running(c2)'
    BY <1>1, <1>2, <1>9, <1>3, <2>1, <2>2, <2>3 DEF Disk, Running, Swapping, Steps, Goes,
       Same, Like, Followed, Placed, When, Found
  <2>12. Returned' => Tidy(c2)'
    BY <1>1, <1>2, <1>9, <1>3, <2>1, <2>2, <2>3 DEF Disk, Tidy, Owns, Working, Steps, Goes,
       Same, Like, Returned, When
  <2>13. Disk(IF Holds(c2) THEN c2 ELSE Idle)'
    BY <2>2, <2>4, <2>5, <2>6, <2>7, <2>8, <2>9, <2>10, <2>11, <2>12 DEF Disk
  <2> QED
    BY <1>1, <1>9, <2>1, <2>2, <2>4, <2>5, <2>13, Change DEF NoFs, Steps, Holds, Goes, Same,
       Like
<1> QED
  BY <1>4, <1>5, <1>6, <1>7, <1>8, <1>9

\* The image is filled in place.
LEMMA expanded2preallocatedInv ==
  ASSUME Inv, NEW p \in Proc, expanded2preallocated(p), "dropped" \notin windows'
  PROVE  Inv'
<1> PICK c \in Calls : c = call[p]
  BY DEF Inv, Types
<1>1. Steps(c) /\ Holds(c) /\ c.pc = "cv_fill"
  BY DEF Inv, Control, expanded2preallocated, Holds, At
<1>2. Disk(c) /\ Types /\ Shapes /\ Listed
  BY <1>1, NowIs DEF Inv, Types
<1>3. c.di = dd /\ dd \in Descriptor /\ dd # None /\ c.mode \in Modes
  BY <1>1, <1>2, DiskIs DEF Disk, Read, Holds, Steps, Calls
<1>4. \/ /\ Still /\ windows' = windows
         /\ Go(p, "cv_conf")
      \/ /\ tmp' = None
         /\ Go(p, "fail")
         /\ UNCHANGED <<dd, names, nodes, dev, mnt, part, fs, windows>>
  BY <1>1, <1>2, <1>3 DEF expanded2preallocated, NoFault, Go, Still, store, kernel, layout
<1>5. CASE /\ Still /\ windows' = windows
           /\ Go(p, "cv_conf")
  <2>1. PICK c2 \in Calls : Becomes(p, c2) /\ Goes(c2, c, "cv_conf") /\ UNCHANGED <<lock, wanted>>
    BY <1>1, <1>2, <1>5, GoIs
  <2>2. Steps(c2) /\ Holds(c2)
    BY <1>1, <1>5, <2>1 DEF Steps, Holds, Goes, Same, Like
  <2>3. Stored => Fits(dd)
    BY <1>1, <1>2, <1>3 DEF Disk, Fitting
  <2>4. tmp = [c.di EXCEPT !.mode = c.mode] /\ c.di.mode # "raw" /\ c.mode # "raw"
    BY <1>1, <1>2 DEF Disk, Working, Steps
  <2>5. tmp.base = dd.base /\ tmp.top = dd.top /\ tmp.size = dd.size /\ tmp.mode = c.mode
    BY <1>3, <2>4 DEF Descriptor
  <2>6. Stored => Fits(tmp)
    BY <1>3, <2>3, <2>4, <2>5 DEF Fits, Formats, Size, TopNode, Top, Format
  <2>7. Working(c2)
    BY <1>1, <1>2, <1>5, <1>3, <2>1, <2>2, <2>3, <2>4, <2>5, <2>6 DEF Disk, Working, Steps,
       Goes, Same, Like, Still
  <2>8. Read(c2)
    BY <1>1, <1>2, <1>5, <1>3, <2>1, <2>2, <2>3, <2>4, <2>5, <2>6 DEF Disk, Read, Holds,
       Steps, Goes, Same, Like, Still
  <2>9. Placed' => Match(c2)
    BY <1>1, <1>2, <1>5, <1>3, <2>1, <2>2, <2>3, <2>4, <2>5, <2>6 DEF Disk, Match, Matched,
       Apart, Swapping, Steps, Goes, Same, Like, Still, Placed, When
  <2>10. Whole' => Lies(c2)
    BY <1>1, <1>2, <1>5, <1>3, <2>1, <2>2, <2>3, <2>4, <2>5, <2>6 DEF Disk, Lies, Steps,
       Goes, Same, Like, Still, Whole, Placed, When
  <2>11. Stored' => Fitting(c2)
    BY <1>1, <1>2, <1>5, <1>3, <2>1, <2>2, <2>3, <2>4, <2>5, <2>6 DEF Disk, Fitting, Steps,
       Goes, Same, Like, Still, Stored, Placed, When
  <2>12. Followed' => Running(c2)
    BY <1>1, <1>2, <1>5, <1>3, <2>1, <2>2, <2>3, <2>4, <2>5, <2>6 DEF Disk, Running,
       Swapping, Steps, Goes, Same, Like, Still, Followed, Placed, When
  <2>13. Returned' => Tidy(c2)
    BY <1>1, <1>2, <1>5, <1>3, <2>1, <2>2, <2>3, <2>4, <2>5, <2>6 DEF Disk, Tidy, Owns,
       Working, Steps, Goes, Same, Like, Still, Returned, When
  <2>14. Finds(IF Holds(c2) THEN c2 ELSE Idle)
    BY <2>2, <2>7, <2>8, <2>9, <2>10, <2>11, <2>12, <2>13 DEF Finds
  <2>15. Moved(p, c2)
    BY <1>5, <2>1 DEF Moved, Still, store, kernel, layout
  <2> QED
    BY <1>1, <1>5, <2>1, <2>2, <2>14, <2>15, Move DEF NoFs, Steps, Holds, Goes, Same, Like
<1>6. CASE /\ tmp' = None
           /\ Go(p, "fail")
           /\ UNCHANGED <<dd, names, nodes, dev, mnt, part, fs, windows>>
  <2>1. PICK c2 \in Calls : Becomes(p, c2) /\ Goes(c2, c, "fail") /\ UNCHANGED <<lock, wanted>>
    BY <1>1, <1>2, <1>6, GoIs
  <2>2. Steps(c2) /\ Holds(c2)
    BY <1>1, <1>6, <2>1 DEF Steps, Holds, Goes, Same, Like
  <2>3. /\ TopNode(dd)' = TopNode(dd) /\ Deltas(dd)' = Deltas(dd) /\ Size(dd)' = Size(dd)
        /\ Found(dd)' = Found(dd)
    BY <1>6 DEF TopNode, Top, Size, Deltas, Files, Found
  <2>4. Shapes'
    BY <1>1, <1>2, <1>6, <1>3, <2>1, <2>2, <2>3 DEF Shapes
  <2>5. Listed' /\ dd' # None
    BY <1>1, <1>2, <1>6, <1>3, <2>1, <2>2, <2>3 DEF Disk, Read, Listed, Distinct, Holds
  <2>6. Working(c2)'
    BY <1>1, <1>2, <1>6, <1>3, <2>1, <2>2, <2>3 DEF Disk, Working, Steps, Goes, Same, Like
  <2>7. Read(c2)'
    BY <1>1, <1>2, <1>6, <1>3, <2>1, <2>2, <2>3 DEF Disk, Read, Holds, Steps, Goes, Same,
       Like
  <2>8. Placed' => Match(c2)'
    <3>1. Placed => Match(c)
      BY <1>2 DEF Disk
    <3>2. Placed' => Matched'
      BY <1>1, <1>2, <1>6, <1>3, <2>1, <2>2, <2>3, <3>1 DEF Match, Matched, Placed
    <3>3. Placed' => Apart(c2)'
      BY <1>1, <1>2, <1>6, <1>3, <2>1, <2>2, <2>3, <3>1 DEF Match, Apart, Swapping, Placed,
         Goes, Same, Like
    <3> QED
      BY <1>1, <1>2, <1>6, <1>3, <2>1, <2>2, <2>3, <3>1, <3>2, <3>3 DEF Match, Swapping,
         Steps, Placed, Goes, Same, Like
  <2>9. Whole' => Lies(c2)'
    BY <1>1, <1>2, <1>6, <1>3, <2>1, <2>2, <2>3 DEF Disk, Lies, Steps, Goes, Same, Like,
       Whole, Placed, When, Room, Size, TopNode, Top
  <2>10. Stored' => Fitting(c2)'
    BY <1>1, <1>2, <1>6, <1>3, <2>1, <2>2, <2>3 DEF Disk, Fitting, Steps, Goes, Same, Like,
       Stored, Placed, When, Fits, Formats, Size, TopNode, Top
  <2>11. Followed' => Running(c2)'
    BY <1>1, <1>2, <1>6, <1>3, <2>1, <2>2, <2>3 DEF Disk, Running, Swapping, Steps, Goes,
       Same, Like, Followed, Placed, When, Found
  <2>12. Returned' => Tidy(c2)'
    BY <1>1, <1>2, <1>6, <1>3, <2>1, <2>2, <2>3 DEF Disk, Tidy, Owns, Working, Steps, Goes,
       Same, Like, Returned, When
  <2>13. Disk(IF Holds(c2) THEN c2 ELSE Idle)'
    BY <2>2, <2>4, <2>5, <2>6, <2>7, <2>8, <2>9, <2>10, <2>11, <2>12 DEF Disk
  <2> QED
    BY <1>1, <1>6, <2>1, <2>2, <2>4, <2>5, <2>13, Change DEF NoFs, Steps, Holds, Goes, Same,
       Like
<1> QED
  BY <1>4, <1>5, <1>6

\* The descriptor with the new mode takes the place of the old one.
LEMMA ConvertRenameInv ==
  ASSUME Inv, NEW p \in Proc, ConvertRename(p), "dropped" \notin windows'
  PROVE  Inv'
<1> PICK c \in Calls : c = call[p]
  BY DEF Inv, Types
<1>1. Steps(c) /\ Holds(c) /\ c.pc = "cv_conf"
  BY DEF Inv, Control, ConvertRename, Holds, At
<1>2. Disk(c) /\ Types /\ Shapes /\ Listed
  BY <1>1, NowIs DEF Inv, Types
<1>3. c.di = dd /\ dd \in Descriptor /\ dd # None /\ c.mode \in Modes
  BY <1>1, <1>2, DiskIs DEF Disk, Read, Holds, Steps, Calls
<1>4. \/ /\ Still /\ windows' = windows \cup {"converted"}
         /\ Go(p, "fail")
      \/ /\ dd' = tmp /\ tmp' = None
         /\ Go(p, "ok")
         /\ UNCHANGED <<names, nodes, dev, mnt, part, fs, lock, wanted, windows>>
  BY <1>1, <1>2, <1>3, HalfIs DEF ConvertRename, NoFault, Go, Still, store, kernel, layout,
     Steps
<1>5. CASE /\ Still /\ windows' = windows \cup {"converted"}
           /\ Go(p, "fail")
  <2>1. PICK c2 \in Calls : Becomes(p, c2) /\ Goes(c2, c, "fail") /\ UNCHANGED <<lock, wanted>>
    BY <1>1, <1>2, <1>5, GoIs
  <2>2. Steps(c2) /\ Holds(c2)
    BY <1>1, <1>5, <2>1 DEF Steps, Holds, Goes, Same, Like
  <2>3. Working(c2)
    BY <1>1, <1>2, <1>5, <1>3, <2>1, <2>2 DEF Disk, Working, Steps, Goes, Same, Like, Still
  <2>4. Read(c2)
    BY <1>1, <1>2, <1>5, <1>3, <2>1, <2>2 DEF Disk, Read, Holds, Steps, Goes, Same, Like,
       Still
  <2>5. Placed' => Match(c2)
    BY <1>1, <1>2, <1>5, <1>3, <2>1, <2>2 DEF Disk, Match, Matched, Apart, Swapping, Steps,
       Goes, Same, Like, Still, Placed, When
  <2>6. Whole' => Lies(c2)
    BY <1>1, <1>2, <1>5, <1>3, <2>1, <2>2 DEF Disk, Lies, Steps, Goes, Same, Like, Still,
       Whole, Placed, When
  <2>7. Stored' => Fitting(c2)
    BY <1>1, <1>2, <1>5, <1>3, <2>1, <2>2 DEF Disk, Fitting, Steps, Goes, Same, Like, Still,
       Stored, Placed, When
  <2>8. Followed' => Running(c2)
    BY <1>1, <1>2, <1>5, <1>3, <2>1, <2>2 DEF Disk, Running, Swapping, Steps, Goes, Same,
       Like, Still, Followed, Placed, When
  <2>9. Returned' => Tidy(c2)
    BY <1>1, <1>2, <1>5, <1>3, <2>1, <2>2 DEF Disk, Tidy, Owns, Working, Steps, Goes, Same,
       Like, Still, Returned, When
  <2>10. Finds(IF Holds(c2) THEN c2 ELSE Idle)
    BY <2>2, <2>3, <2>4, <2>5, <2>6, <2>7, <2>8, <2>9 DEF Finds
  <2>11. Moved(p, c2)
    BY <1>5, <2>1 DEF Moved, Still, store, kernel, layout
  <2> QED
    BY <1>1, <1>5, <2>1, <2>2, <2>10, <2>11, Move DEF NoFs, Steps, Holds, Goes, Same, Like
<1>6. CASE /\ dd' = tmp /\ tmp' = None
           /\ Go(p, "ok")
           /\ UNCHANGED <<names, nodes, dev, mnt, part, fs, lock, wanted, windows>>
  <2>1. PICK c2 \in Calls : Becomes(p, c2) /\ Goes(c2, c, "ok") /\ UNCHANGED <<lock, wanted>>
    BY <1>1, <1>2, <1>6, GoIs
  <2>2. Steps(c2) /\ Holds(c2)
    BY <1>1, <1>6, <2>1 DEF Steps, Holds, Goes, Same, Like
  <2>3. /\ tmp \in Descriptor /\ tmp # None /\ tmp.base = dd.base /\ tmp.top = dd.top /\ tmp.size = dd.size /\ tmp.max = dd.max
    BY <1>1, <1>2, <1>3, NoneAssumption DEF Disk, Working, Descriptor
  <2>4. /\ dd' = tmp /\ names' = names /\ nodes' = nodes /\ TopNode(dd)' = TopNode(dd) /\ Deltas(dd)' = Deltas(dd) /\ Size(dd)' = Size(dd)
        /\ Found(dd)' = Found(dd)
    BY <1>6, <2>3 DEF TopNode, Top, Size, Deltas, Files, Found
  <2>5. Stored => Fits(dd)'
    BY <1>1, <1>2, <1>6, <2>3, <2>4 DEF Disk, Fitting, Fits, Formats, Size, TopNode, Top
  <2>6. Shapes'
    BY <1>1, <1>2, <1>6, <1>3, <2>1, <2>2, <2>3, <2>4, <2>5 DEF Shapes
  <2>7. Listed' /\ dd' # None
    BY <1>1, <1>2, <1>6, <1>3, <2>1, <2>2, <2>3, <2>4, <2>5 DEF Disk, Read, Listed,
       Distinct, Holds
  <2>8. Working(c2)'
    BY <1>1, <1>2, <1>6, <1>3, <2>1, <2>2, <2>3, <2>4, <2>5 DEF Disk, Working, Steps, Goes,
       Same, Like
  <2>9. Read(c2)'
    BY <1>1, <1>2, <1>6, <1>3, <2>1, <2>2, <2>3, <2>4, <2>5 DEF Disk, Read, Holds, Steps,
       Goes, Same, Like
  <2>10. Placed' => Match(c2)'
    <3>1. Placed => Match(c)
      BY <1>2 DEF Disk
    <3>2. Placed' => Matched'
      BY <1>1, <1>2, <1>6, <1>3, <2>1, <2>2, <2>3, <2>4, <2>5, <3>1 DEF Match, Matched,
         Placed
    <3>3. Placed' => Apart(c2)'
      BY <1>1, <1>2, <1>6, <1>3, <2>1, <2>2, <2>3, <2>4, <2>5, <3>1 DEF Match, Apart,
         Swapping, Placed, Goes, Same, Like
    <3> QED
      BY <1>1, <1>2, <1>6, <1>3, <2>1, <2>2, <2>3, <2>4, <2>5, <3>1, <3>2, <3>3 DEF Match,
         Swapping, Steps, Placed, Goes, Same, Like
  <2>11. Whole' => Lies(c2)'
    BY <1>1, <1>2, <1>6, <1>3, <2>1, <2>2, <2>3, <2>4, <2>5 DEF Disk, Lies, Steps, Goes,
       Same, Like, Whole, Placed, When, Room, Size, TopNode, Top
  <2>12. Stored' => Fitting(c2)'
    BY <1>1, <1>2, <1>6, <1>3, <2>1, <2>2, <2>3, <2>4, <2>5 DEF Disk, Fitting, Steps, Goes,
       Same, Like, Stored, Placed, When, Fits, Formats, Size, TopNode, Top
  <2>13. Followed' => Running(c2)'
    BY <1>1, <1>2, <1>6, <1>3, <2>1, <2>2, <2>3, <2>4, <2>5 DEF Disk, Running, Swapping,
       Steps, Goes, Same, Like, Followed, Placed, When, Found
  <2>14. Returned' => Tidy(c2)'
      <3>1. c.op = "convert"
        BY <1>1 DEF Steps
      <3>2. (Owns(c2) <=> Owns(c)) /\ c2.op = c.op /\ c2.own = c.own /\ c2.umfs = c.umfs /\ c2.pc = "ok"
        BY <1>1, <1>6, <2>1 DEF Owns, Steps, Goes, Same, Like
      <3>3. UNCHANGED <<mnt, names, wanted>> /\ tmp' = None
        BY <1>6
      <3>4. UNCHANGED dev
        BY <1>6
      <3>5. Returned' => Tidy(c)
        BY <1>2, <1>6 DEF Disk, Returned
      <3> QED
        BY <1>1, <3>1, <3>2, <3>3, <3>4, <3>5 DEF Tidy
  <2>15. Disk(IF Holds(c2) THEN c2 ELSE Idle)'
    BY <2>2, <2>6, <2>7, <2>8, <2>9, <2>10, <2>11, <2>12, <2>13, <2>14 DEF Disk
  <2> QED
    BY <1>1, <1>6, <2>1, <2>2, <2>6, <2>7, <2>15, Change DEF NoFs, Steps, Holds, Goes, Same,
       Like
<1> QED
  BY <1>4, <1>5, <1>6

\* A raw image is made beside the image.
LEMMA RawOpenInv ==
  ASSUME Inv, NEW p \in Proc, RawOpen(p), "dropped" \notin windows'
  PROVE  Inv'
<1> PICK c \in Calls : c = call[p]
  BY DEF Inv, Types
<1>1. Steps(c) /\ Holds(c) /\ c.pc = "cv_open"
  BY DEF Inv, Control, RawOpen, Holds, At
<1>2. Disk(c) /\ Types /\ Shapes /\ Listed
  BY <1>1, NowIs DEF Inv, Types
<1>3. c.di = dd /\ dd \in Descriptor /\ dd # None /\ names[dd.base] # None /\ names[dd.base] \in DOMAIN nodes /\ TopNode(dd) \in DOMAIN nodes
     /\ (dd.top # None => names[dd.top] \in DOMAIN nodes) /\ dd.base \in {"image", "copy"} /\ dd.top \in {None, "delta"} /\ "image.tmp" \in Names
  BY <1>1, <1>2, DiskIs DEF Disk, Read, Holds, Steps, Calls, Descriptor, Names
<1>4. \/ /\ names["image.tmp"] = None
         /\ names' = [names EXCEPT !["image.tmp"] = Fresh]
         /\ nodes' = NewNode(Fresh, [fmt |-> "raw", size |-> nodes[names[dd.base]].size, whole |-> FALSE])
         /\ Go(p, "cv_copy")
         /\ UNCHANGED <<dd, tmp, dev, mnt, part, fs, windows>>
      \/ /\ names' = [names EXCEPT !["image.tmp"] = None]
         /\ tmp' = None
         /\ Go(p, "fail")
         /\ UNCHANGED <<dd, nodes, dev, mnt, part, fs, windows>>
      \/ /\ tmp' = None
         /\ Go(p, "fail")
         /\ UNCHANGED <<dd, names, nodes, dev, mnt, part, fs, windows>>
  BY <1>1, <1>2, <1>3 DEF RawOpen, NoFault, Go, Still, store, kernel, layout
<1>5. CASE /\ names["image.tmp"] = None
           /\ names' = [names EXCEPT !["image.tmp"] = Fresh]
           /\ nodes' = NewNode(Fresh, [fmt |-> "raw", size |-> nodes[names[dd.base]].size, whole |-> FALSE])
           /\ Go(p, "cv_copy")
           /\ UNCHANGED <<dd, tmp, dev, mnt, part, fs, windows>>
  <2>1. PICK c2 \in Calls : Becomes(p, c2) /\ Goes(c2, c, "cv_copy") /\ UNCHANGED <<lock, wanted>>
    BY <1>1, <1>2, <1>5, GoIs
  <2>2. Steps(c2) /\ Holds(c2)
    BY <1>1, <1>5, <2>1 DEF Steps, Holds, Goes, Same, Like
  <2>3. Fresh \in Nat /\ Fresh \notin DOMAIN nodes /\ Fresh # None
    BY <1>2, FreshIs, NoneAssumption
  <2>4. [fmt |-> "raw", size |-> nodes[names[dd.base]].size, whole |-> FALSE] \in Node
    BY <1>2, <1>3 DEF Shapes, Node
  <2>5. /\ IsFiniteSet(DOMAIN nodes') /\ DOMAIN nodes' = DOMAIN nodes \cup {Fresh}
        /\ \A m \in DOMAIN nodes : nodes'[m] = nodes[m] /\ m # Fresh
        /\ nodes'[Fresh] = [fmt |-> "raw", size |-> nodes[names[dd.base]].size, whole |-> FALSE]
        /\ \A m \in DOMAIN nodes' : nodes'[m] \in Node
    BY <1>2, <1>5, <2>3, <2>4, NewNodeIs
  <2>6. /\ names'["image.tmp"] = Fresh /\ names' \in [Names -> Nat \cup {None}]
        /\ \A f \in Names : f # "image.tmp" => names'[f] = names[f]
        /\ \A f \in Names : names[f] # None => names[f] \in DOMAIN nodes
    BY <1>2, <1>3, <1>5, <2>3 DEF Shapes, Names
  <2>7. TopNode(dd)' = TopNode(dd) /\ Deltas(dd)' = Deltas(dd) /\ Found(dd)' = Found(dd) /\ names'[dd.base] = names[dd.base] /\ (dd.top # None => names'[dd.top] = names[dd.top])
    BY <1>3, <1>5, <2>6 DEF TopNode, Top, Deltas, Files, Found, Names
  <2>8. Size(dd)' = Size(dd)
    BY <1>3, <1>5, <2>5, <2>7 DEF Size
  <2>9. /\ names'["image"] = names["image"] /\ names'["delta"] = names["delta"] /\ names'["copy"] = names["copy"] /\ names'["link"] = names["link"]
        /\ \A f \in Names : names[f] # Fresh
    BY <1>3, <1>5, <2>3, <2>6 DEF Names
  <2>10. dev # None => dev.deltas[1] # Fresh
    BY <1>2, <2>3 DEF Shapes, Kernel
  <2>11. Shapes'
    BY <1>1, <1>2, <1>5, <1>3, <2>1, <2>2, <2>3, <2>4, <2>5, <2>6, <2>7, <2>8, <2>9, <2>10
       DEF Shapes
  <2>12. Listed' /\ dd' # None
      <3>1. Listed /\ dd' = dd /\ dev' = dev
        BY <1>2, <1>5
      <3>2. Distinct({"image", "delta", "copy", "image.tmp"})'
        BY <3>1, <2>6, <2>9 DEF Listed, Distinct, Names
      <3>3. Distinct({"link", "delta"})' /\ Distinct({"link", "image.tmp"})'
        BY <3>1, <2>6, <2>9 DEF Listed, Distinct, Names
      <3> QED
        BY <1>3, <3>1, <3>2, <3>3, <2>7, <2>9 DEF Listed
  <2>13. Working(c2)'
    BY <1>1, <1>2, <1>5, <1>3, <2>1, <2>2, <2>3, <2>4, <2>5, <2>6, <2>7, <2>8, <2>9, <2>10
       DEF Disk, Working, Steps, Goes, Same, Like
  <2>14. Read(c2)'
      <3>1. c2.pc = "cv_copy" /\ c2.op = c.op /\ c2.di = dd /\ dd' = dd
        BY <1>3, <1>5, <2>1 DEF Goes, Same, Like
      <3>2. c.op = "convert"
        BY <1>1 DEF Steps
      <3>3. names'["image.tmp"] # None /\ nodes'[names'["image.tmp"]].fmt = "raw"
            /\ nodes'[names'["image.tmp"]].size = nodes'[names'[dd.base]].size
        BY <1>3, <2>3, <2>5, <2>6, <2>7
      <3> QED
        BY <1>3, <3>1, <3>2, <3>3 DEF Read, Holds
  <2>15. Placed' => Match(c2)'
    <3>1. Placed => Match(c)
      BY <1>2 DEF Disk
    <3>2. Placed' => Matched'
      BY <1>1, <1>2, <1>5, <1>3, <2>1, <2>2, <2>3, <2>4, <2>5, <2>6, <2>7, <2>8, <2>9,
         <2>10, <3>1 DEF Match, Matched, Placed
    <3>3. Placed' => Apart(c2)'
      BY <1>1, <1>2, <1>5, <1>3, <2>1, <2>2, <2>3, <2>4, <2>5, <2>6, <2>7, <2>8, <2>9,
         <2>10, <3>1 DEF Match, Apart, Swapping, Placed, Goes, Same, Like
    <3> QED
      BY <1>1, <1>2, <1>5, <1>3, <2>1, <2>2, <2>3, <2>4, <2>5, <2>6, <2>7, <2>8, <2>9,
         <2>10, <3>1, <3>2, <3>3 DEF Match, Swapping, Steps, Placed, Goes, Same, Like
  <2>16. Whole' => Lies(c2)'
    BY <1>1, <1>2, <1>5, <1>3, <2>1, <2>2, <2>3, <2>4, <2>5, <2>6, <2>7, <2>8, <2>9, <2>10
       DEF Disk, Lies, Steps, Goes, Same, Like, Whole, Placed, When, Room, Size, TopNode,
       Top
  <2>17. Stored' => Fitting(c2)'
      <3>1. Stored' => Fits(dd)
        BY <1>1, <1>2, <1>3, <1>5 DEF Disk, Fitting, Stored, Placed
      <3>2. Formats(dd) => Formats(dd)'
        <4>1. dd' = dd
          BY <1>5
        <4>2. names'[dd.base] = names[dd.base] /\ nodes'[names[dd.base]] = nodes[names[dd.base]]
          BY <1>3, <2>5, <2>7
        <4>3. dd.top # None => names'[dd.top] = names[dd.top] /\ nodes'[names[dd.top]] = nodes[names[dd.top]]
          BY <1>3, <2>5, <2>7
        <4> QED
          BY <4>1, <4>2, <4>3 DEF Formats
      <3>3. c2.pc = "cv_copy" /\ dd' = dd
        BY <1>5, <2>1 DEF Goes, Same, Like
      <3> QED
        BY <2>8, <3>1, <3>2, <3>3 DEF Fitting, Fits
  <2>18. Followed' => Running(c2)'
    BY <1>1, <1>2, <1>5, <1>3, <2>1, <2>2, <2>3, <2>4, <2>5, <2>6, <2>7, <2>8, <2>9, <2>10
       DEF Disk, Running, Swapping, Steps, Goes, Same, Like, Followed, Placed, When, Found
  <2>19. Returned' => Tidy(c2)'
    BY <1>1, <1>2, <1>5, <1>3, <2>1, <2>2, <2>3, <2>4, <2>5, <2>6, <2>7, <2>8, <2>9, <2>10
       DEF Disk, Tidy, Owns, Working, Steps, Goes, Same, Like, Returned, When
  <2>20. Disk(IF Holds(c2) THEN c2 ELSE Idle)'
    BY <2>2, <2>11, <2>12, <2>13, <2>14, <2>15, <2>16, <2>17, <2>18, <2>19 DEF Disk
  <2> QED
    BY <1>1, <1>5, <2>1, <2>2, <2>11, <2>12, <2>20, Change DEF NoFs, Steps, Holds, Goes,
       Same, Like
<1>6. CASE /\ names' = [names EXCEPT !["image.tmp"] = None]
           /\ tmp' = None
           /\ Go(p, "fail")
           /\ UNCHANGED <<dd, nodes, dev, mnt, part, fs, windows>>
  <2>1. PICK c2 \in Calls : Becomes(p, c2) /\ Goes(c2, c, "fail") /\ UNCHANGED <<lock, wanted>>
    BY <1>1, <1>2, <1>6, GoIs
  <2>2. Steps(c2) /\ Holds(c2)
    BY <1>1, <1>6, <2>1 DEF Steps, Holds, Goes, Same, Like
  <2>3. /\ TopNode(dd)' = TopNode(dd) /\ Deltas(dd)' = Deltas(dd) /\ Size(dd)' = Size(dd) /\ Found(dd)' = Found(dd)
        /\ \A f \in Names : f # "image.tmp" => names'[f] = names[f]
        /\ names'["image.tmp"] = None
    BY <1>2, <1>3, <1>6 DEF TopNode, Top, Size, Deltas, Files, Found, Shapes, Names
  <2>4. Shapes'
    BY <1>1, <1>2, <1>6, <1>3, <2>1, <2>2, <2>3 DEF Shapes
  <2>5. Listed' /\ dd' # None
    BY <1>1, <1>2, <1>6, <1>3, <2>1, <2>2, <2>3 DEF Disk, Read, Listed, Distinct, Holds
  <2>6. Working(c2)'
    BY <1>1, <1>2, <1>6, <1>3, <2>1, <2>2, <2>3 DEF Disk, Working, Steps, Goes, Same, Like
  <2>7. Read(c2)'
    BY <1>1, <1>2, <1>6, <1>3, <2>1, <2>2, <2>3 DEF Disk, Read, Holds, Steps, Goes, Same,
       Like
  <2>8. Placed' => Match(c2)'
    <3>1. Placed => Match(c)
      BY <1>2 DEF Disk
    <3>2. Placed' => Matched'
      BY <1>1, <1>2, <1>6, <1>3, <2>1, <2>2, <2>3, <3>1 DEF Match, Matched, Placed
    <3>3. Placed' => Apart(c2)'
      BY <1>1, <1>2, <1>6, <1>3, <2>1, <2>2, <2>3, <3>1 DEF Match, Apart, Swapping, Placed,
         Goes, Same, Like
    <3> QED
      BY <1>1, <1>2, <1>6, <1>3, <2>1, <2>2, <2>3, <3>1, <3>2, <3>3 DEF Match, Swapping,
         Steps, Placed, Goes, Same, Like
  <2>9. Whole' => Lies(c2)'
    BY <1>1, <1>2, <1>6, <1>3, <2>1, <2>2, <2>3 DEF Disk, Lies, Steps, Goes, Same, Like,
       Whole, Placed, When, Room, Size, TopNode, Top
  <2>10. Stored' => Fitting(c2)'
    BY <1>1, <1>2, <1>6, <1>3, <2>1, <2>2, <2>3 DEF Disk, Fitting, Steps, Goes, Same, Like,
       Stored, Placed, When, Fits, Formats, Size, TopNode, Top
  <2>11. Followed' => Running(c2)'
    BY <1>1, <1>2, <1>6, <1>3, <2>1, <2>2, <2>3 DEF Disk, Running, Swapping, Steps, Goes,
       Same, Like, Followed, Placed, When, Found
  <2>12. Returned' => Tidy(c2)'
    BY <1>1, <1>2, <1>6, <1>3, <2>1, <2>2, <2>3 DEF Disk, Tidy, Owns, Working, Steps, Goes,
       Same, Like, Returned, When
  <2>13. Disk(IF Holds(c2) THEN c2 ELSE Idle)'
    BY <2>2, <2>4, <2>5, <2>6, <2>7, <2>8, <2>9, <2>10, <2>11, <2>12 DEF Disk
  <2> QED
    BY <1>1, <1>6, <2>1, <2>2, <2>4, <2>5, <2>13, Change DEF NoFs, Steps, Holds, Goes, Same,
       Like
<1>7. CASE /\ tmp' = None
           /\ Go(p, "fail")
           /\ UNCHANGED <<dd, names, nodes, dev, mnt, part, fs, windows>>
  <2>1. PICK c2 \in Calls : Becomes(p, c2) /\ Goes(c2, c, "fail") /\ UNCHANGED <<lock, wanted>>
    BY <1>1, <1>2, <1>7, GoIs
  <2>2. Steps(c2) /\ Holds(c2)
    BY <1>1, <1>7, <2>1 DEF Steps, Holds, Goes, Same, Like
  <2>3. /\ TopNode(dd)' = TopNode(dd) /\ Deltas(dd)' = Deltas(dd) /\ Size(dd)' = Size(dd)
        /\ Found(dd)' = Found(dd)
    BY <1>7 DEF TopNode, Top, Size, Deltas, Files, Found
  <2>4. Shapes'
    BY <1>1, <1>2, <1>7, <1>3, <2>1, <2>2, <2>3 DEF Shapes
  <2>5. Listed' /\ dd' # None
    BY <1>1, <1>2, <1>7, <1>3, <2>1, <2>2, <2>3 DEF Disk, Read, Listed, Distinct, Holds
  <2>6. Working(c2)'
    BY <1>1, <1>2, <1>7, <1>3, <2>1, <2>2, <2>3 DEF Disk, Working, Steps, Goes, Same, Like
  <2>7. Read(c2)'
    BY <1>1, <1>2, <1>7, <1>3, <2>1, <2>2, <2>3 DEF Disk, Read, Holds, Steps, Goes, Same,
       Like
  <2>8. Placed' => Match(c2)'
    <3>1. Placed => Match(c)
      BY <1>2 DEF Disk
    <3>2. Placed' => Matched'
      BY <1>1, <1>2, <1>7, <1>3, <2>1, <2>2, <2>3, <3>1 DEF Match, Matched, Placed
    <3>3. Placed' => Apart(c2)'
      BY <1>1, <1>2, <1>7, <1>3, <2>1, <2>2, <2>3, <3>1 DEF Match, Apart, Swapping, Placed,
         Goes, Same, Like
    <3> QED
      BY <1>1, <1>2, <1>7, <1>3, <2>1, <2>2, <2>3, <3>1, <3>2, <3>3 DEF Match, Swapping,
         Steps, Placed, Goes, Same, Like
  <2>9. Whole' => Lies(c2)'
    BY <1>1, <1>2, <1>7, <1>3, <2>1, <2>2, <2>3 DEF Disk, Lies, Steps, Goes, Same, Like,
       Whole, Placed, When, Room, Size, TopNode, Top
  <2>10. Stored' => Fitting(c2)'
    BY <1>1, <1>2, <1>7, <1>3, <2>1, <2>2, <2>3 DEF Disk, Fitting, Steps, Goes, Same, Like,
       Stored, Placed, When, Fits, Formats, Size, TopNode, Top
  <2>11. Followed' => Running(c2)'
    BY <1>1, <1>2, <1>7, <1>3, <2>1, <2>2, <2>3 DEF Disk, Running, Swapping, Steps, Goes,
       Same, Like, Followed, Placed, When, Found
  <2>12. Returned' => Tidy(c2)'
    BY <1>1, <1>2, <1>7, <1>3, <2>1, <2>2, <2>3 DEF Disk, Tidy, Owns, Working, Steps, Goes,
       Same, Like, Returned, When
  <2>13. Disk(IF Holds(c2) THEN c2 ELSE Idle)'
    BY <2>2, <2>4, <2>5, <2>6, <2>7, <2>8, <2>9, <2>10, <2>11, <2>12 DEF Disk
  <2> QED
    BY <1>1, <1>7, <2>1, <2>2, <2>4, <2>5, <2>13, Change DEF NoFs, Steps, Holds, Goes, Same,
       Like
<1> QED
  BY <1>4, <1>5, <1>6, <1>7

\* The raw image takes the place of the image.
LEMMA RawRenameInv ==
  ASSUME Inv, NEW p \in Proc, RawRename(p), "dropped" \notin windows'
  PROVE  Inv'
<1> PICK c \in Calls : c = call[p]
  BY DEF Inv, Types
<1>1. Steps(c) /\ Holds(c) /\ c.pc = "cv_copy"
  BY DEF Inv, Control, RawRename, Holds, At
<1>2. Disk(c) /\ Types /\ Shapes /\ Listed
  BY <1>1, NowIs DEF Inv, Types
<1>3. c.di = dd /\ dd \in Descriptor /\ dd # None /\ names[dd.base] # None /\ names[dd.base] \in DOMAIN nodes /\ TopNode(dd) \in DOMAIN nodes
     /\ (dd.top # None => names[dd.top] \in DOMAIN nodes) /\ dd.base \in {"image", "copy"} /\ dd.top \in {None, "delta"} /\ "image.tmp" \in Names
  BY <1>1, <1>2, DiskIs DEF Disk, Read, Holds, Steps, Calls, Descriptor, Names
<1>4. /\ names["image.tmp"] # None /\ names["image.tmp"] \in DOMAIN nodes
     /\ nodes[names["image.tmp"]].fmt = "raw" /\ nodes[names["image.tmp"]].size = nodes[names[dd.base]].size
     /\ (dd.top # None => names[dd.top] # names["image.tmp"])
  BY <1>1, <1>2, <1>3 DEF Disk, Read, Shapes, Names, Listed, Distinct
<1>5. \/ /\ names' = [names EXCEPT ![dd.base] = names["image.tmp"], !["image.tmp"] = None]
         /\ nodes' = [nodes EXCEPT ![names["image.tmp"]].whole = TRUE]
         /\ windows' = windows \cup When(InUse(names[dd.base]), "swapped")
         /\ Go(p, "cv_conf")
         /\ UNCHANGED <<dd, tmp, dev, mnt, part, fs>>
      \/ /\ names' = [names EXCEPT !["image.tmp"] = None]
         /\ tmp' = None
         /\ Go(p, "fail")
         /\ UNCHANGED <<dd, nodes, dev, mnt, part, fs, windows>>
  BY <1>1, <1>2, <1>3, <1>4 DEF RawRename, NoFault, Go, Still, store, kernel, layout
<1>6. CASE /\ names' = [names EXCEPT ![dd.base] = names["image.tmp"], !["image.tmp"] = None]
           /\ nodes' = [nodes EXCEPT ![names["image.tmp"]].whole = TRUE]
           /\ windows' = windows \cup When(InUse(names[dd.base]), "swapped")
           /\ Go(p, "cv_conf")
           /\ UNCHANGED <<dd, tmp, dev, mnt, part, fs>>
  <2>1. PICK c2 \in Calls : Becomes(p, c2) /\ Goes(c2, c, "cv_conf") /\ UNCHANGED <<lock, wanted>>
    BY <1>1, <1>2, <1>6, GoIs
  <2>2. Steps(c2) /\ Holds(c2)
    BY <1>1, <1>6, <2>1 DEF Steps, Holds, Goes, Same, Like
  <2>3. /\ names' \in [Names -> Nat \cup {None}] /\ names'[dd.base] = names["image.tmp"] /\ names'["image.tmp"] = None
        /\ \A f \in Names : f # "image.tmp" /\ f # dd.base => names'[f] = names[f]
    BY <1>2, <1>3, <1>4, <1>6 DEF Shapes, Names
  <2>4. /\ DOMAIN nodes' = DOMAIN nodes
        /\ \A m \in DOMAIN nodes : /\ nodes'[m] \in Node
                                   /\ nodes'[m].fmt = nodes[m].fmt /\ nodes'[m].size = nodes[m].size
                                   /\ nodes[m].whole => nodes'[m].whole
        /\ nodes'[names["image.tmp"]].whole
    BY <1>2, <1>4, <1>6 DEF Shapes, Node
  <2>5. (dd.top # None => names'[dd.top] = names[dd.top]) /\ dd' = dd /\ dev' = dev /\ tmp' = tmp
    BY <1>3, <1>6, <2>3 DEF Names
  <2>6. Size(dd)' = Size(dd)
    BY <1>3, <1>4, <2>3, <2>4, <2>5 DEF Size, TopNode, Top
  <2>7. Placed => dev = None \/ dev.deltas[1] # names["image.tmp"]
    BY <1>1, <1>2, <1>4 DEF Disk, Match, Apart
  <2>8. Placed => ~Found(dd)'
    BY <2>3, <2>5, <2>7 DEF Found
  <2>9. /\ tmp = [dd EXCEPT !.mode = c.mode] /\ c.mode = "raw" /\ c.op = "convert"
    BY <1>1, <1>2, <1>3 DEF Disk, Working, Steps
  <2>10. tmp.base = dd.base /\ tmp.top = dd.top /\ tmp.size = dd.size /\ tmp.mode = "raw"
    BY <1>3, <2>9 DEF Descriptor
  <2>11. Stored => Fits(dd)
    BY <1>1, <1>2, <1>3 DEF Disk, Fitting
  <2>12. Size(tmp)' = Size(dd)'
    BY <2>5, <2>10 DEF Size, TopNode, Top
  <2>13. Formats(dd) => Formats(tmp)'
    BY <1>3, <1>4, <2>3, <2>4, <2>5, <2>10 DEF Formats, Format
  <2>14. Followed /\ dev # None => Found(dd)
    BY <1>1, <1>2 DEF Disk, Running, Swapping
  <2>15. Followed' => dev = None
    BY <1>2, <1>3, <1>6, <2>14 DEF Followed, Placed, When, InUse, Found, Shapes, Kernel
  <2>16. Shapes'
      <3>1. \A f \in Names : names'[f] # None => names'[f] \in DOMAIN nodes'
        BY <1>2, <1>3, <1>4, <2>3, <2>4 DEF Shapes
      <3>2. UNCHANGED <<dd, tmp, dev, mnt, part, fs, lock, wanted>>
        BY <1>6, <2>1
      <3> QED
        BY <1>2, <2>3, <2>4, <3>1, <3>2 DEF Shapes
  <2>17. Listed' /\ dd' # None
      <3>1. Listed /\ dd' = dd /\ dev' = dev
        BY <1>2, <1>6
      <3>2. Distinct({"image", "delta", "copy", "image.tmp"})'
        BY <1>3, <3>1, <2>3 DEF Listed, Distinct, Names
      <3>3. Distinct({"link", "delta"})' /\ Distinct({"link", "image.tmp"})'
        BY <1>3, <3>1, <2>3 DEF Listed, Distinct, Names
      <3>4. names'["image"] # None /\ names'["delta"] = names["delta"]
        BY <1>3, <1>4, <3>1, <2>3 DEF Listed, Names
      <3> QED
        BY <1>3, <1>4, <3>1, <3>2, <3>3, <3>4, <2>3, <2>5 DEF Listed
  <2>18. Working(c2)'
    BY <1>1, <1>2, <1>6, <1>3, <1>4, <2>1, <2>2, <2>3, <2>4, <2>5, <2>6, <2>7, <2>8, <2>9,
       <2>10, <2>11, <2>12, <2>13, <2>14, <2>15 DEF Disk, Working, Steps, Goes, Same, Like
  <2>19. Read(c2)'
      <3>1. c2.pc = "cv_conf" /\ c2.op = c.op /\ c2.di = dd /\ dd' = dd
        BY <1>3, <1>6, <2>1 DEF Goes, Same, Like
      <3> QED
        BY <1>3, <3>1, <2>9 DEF Read, Holds
  <2>20. Placed' => Match(c2)'
    <3>1. Placed => Match(c)
      BY <1>2 DEF Disk
    <3>2. Placed' => Matched'
      BY <2>8, <1>6 DEF Match, Matched, Placed, When
    <3>3. Placed' => Apart(c2)'
      BY <1>1, <1>2, <1>3, <1>6, <2>1, <2>3, <2>5, <3>1 DEF Match, Apart, Swapping, Placed,
         Goes, Same, Like, When, Names, Steps
    <3> QED
      BY <1>1, <1>2, <1>6, <1>3, <1>4, <2>1, <2>2, <2>3, <2>4, <2>5, <2>6, <2>7, <2>8, <2>9,
         <2>10, <2>11, <2>12, <2>13, <2>14, <2>15, <3>1, <3>2, <3>3 DEF Match, Swapping,
         Steps, Placed, Goes, Same, Like
  <2>21. Whole' => Lies(c2)'
    BY <1>1, <1>2, <1>6, <1>3, <1>4, <2>1, <2>2, <2>3, <2>4, <2>5, <2>6, <2>7, <2>8, <2>9,
       <2>10, <2>11, <2>12, <2>13, <2>14, <2>15 DEF Disk, Lies, Steps, Goes, Same, Like,
       Whole, Placed, When, Room, Size, TopNode, Top
  <2>22. Stored' => Fitting(c2)'
      <3>1. Stored' => Stored
        BY <1>6 DEF Stored, Placed
      <3>2. c2.pc = "cv_conf"
        BY <2>1 DEF Goes, Same, Like
      <3>3. Stored => Fits(tmp)'
        BY <2>5, <2>6, <2>10, <2>11, <2>12, <2>13 DEF Fits
      <3> QED
        BY <3>1, <3>2, <3>3 DEF Fitting
  <2>23. Followed' => Running(c2)'
    BY <2>15, <2>5, <2>1 DEF Disk, Running, Swapping, Steps, Goes, Same, Like, Followed,
       Placed, When, Found
  <2>24. Returned' => Tidy(c2)'
      <3>1. c.op = "convert"
        BY <1>1 DEF Steps
      <3>2. (Owns(c2) <=> Owns(c)) /\ c2.op = c.op /\ c2.own = c.own /\ c2.umfs = c.umfs /\ c2.pc = "cv_conf"
        BY <1>1, <1>6, <2>1 DEF Owns, Steps, Goes, Same, Like
      <3>3. UNCHANGED <<mnt, wanted>> /\ tmp' = tmp
        BY <1>6, <2>1
      <3>4. UNCHANGED dev
        BY <1>6
      <3>5. Returned' => Tidy(c)
        BY <1>2, <1>6 DEF Disk, Returned
      <3> QED
        BY <1>1, <2>3, <3>1, <3>2, <3>3, <3>4, <3>5 DEF Tidy
  <2>25. Disk(IF Holds(c2) THEN c2 ELSE Idle)'
    BY <2>2, <2>16, <2>17, <2>18, <2>19, <2>20, <2>21, <2>22, <2>23, <2>24 DEF Disk
  <2> QED
    BY <1>1, <1>6, <2>1, <2>2, <2>16, <2>17, <2>25, Change DEF NoFs, Steps, Holds, Goes,
       Same, Like
<1>7. CASE /\ names' = [names EXCEPT !["image.tmp"] = None]
           /\ tmp' = None
           /\ Go(p, "fail")
           /\ UNCHANGED <<dd, nodes, dev, mnt, part, fs, windows>>
  <2>1. PICK c2 \in Calls : Becomes(p, c2) /\ Goes(c2, c, "fail") /\ UNCHANGED <<lock, wanted>>
    BY <1>1, <1>2, <1>7, GoIs
  <2>2. Steps(c2) /\ Holds(c2)
    BY <1>1, <1>7, <2>1 DEF Steps, Holds, Goes, Same, Like
  <2>3. /\ TopNode(dd)' = TopNode(dd) /\ Deltas(dd)' = Deltas(dd) /\ Size(dd)' = Size(dd) /\ Found(dd)' = Found(dd)
        /\ \A f \in Names : f # "image.tmp" => names'[f] = names[f]
        /\ names'["image.tmp"] = None
    BY <1>2, <1>3, <1>7 DEF TopNode, Top, Size, Deltas, Files, Found, Shapes, Names
  <2>4. Shapes'
    BY <1>1, <1>2, <1>7, <1>3, <1>4, <2>1, <2>2, <2>3 DEF Shapes
  <2>5. Listed' /\ dd' # None
    BY <1>1, <1>2, <1>7, <1>3, <1>4, <2>1, <2>2, <2>3 DEF Disk, Read, Listed, Distinct,
       Holds
  <2>6. Working(c2)'
    BY <1>1, <1>2, <1>7, <1>3, <1>4, <2>1, <2>2, <2>3 DEF Disk, Working, Steps, Goes, Same,
       Like
  <2>7. Read(c2)'
    BY <1>1, <1>2, <1>7, <1>3, <1>4, <2>1, <2>2, <2>3 DEF Disk, Read, Holds, Steps, Goes,
       Same, Like
  <2>8. Placed' => Match(c2)'
    <3>1. Placed => Match(c)
      BY <1>2 DEF Disk
    <3>2. Placed' => Matched'
      BY <1>1, <1>2, <1>7, <1>3, <1>4, <2>1, <2>2, <2>3, <3>1 DEF Match, Matched, Placed
    <3>3. Placed' => Apart(c2)'
      BY <1>1, <1>2, <1>7, <1>3, <1>4, <2>1, <2>2, <2>3, <3>1 DEF Match, Apart, Swapping,
         Placed, Goes, Same, Like
    <3> QED
      BY <1>1, <1>2, <1>7, <1>3, <1>4, <2>1, <2>2, <2>3, <3>1, <3>2, <3>3 DEF Match,
         Swapping, Steps, Placed, Goes, Same, Like
  <2>9. Whole' => Lies(c2)'
    BY <1>1, <1>2, <1>7, <1>3, <1>4, <2>1, <2>2, <2>3 DEF Disk, Lies, Steps, Goes, Same,
       Like, Whole, Placed, When, Room, Size, TopNode, Top
  <2>10. Stored' => Fitting(c2)'
    BY <1>1, <1>2, <1>7, <1>3, <1>4, <2>1, <2>2, <2>3 DEF Disk, Fitting, Steps, Goes, Same,
       Like, Stored, Placed, When, Fits, Formats, Size, TopNode, Top
  <2>11. Followed' => Running(c2)'
    BY <1>1, <1>2, <1>7, <1>3, <1>4, <2>1, <2>2, <2>3 DEF Disk, Running, Swapping, Steps,
       Goes, Same, Like, Followed, Placed, When, Found
  <2>12. Returned' => Tidy(c2)'
    BY <1>1, <1>2, <1>7, <1>3, <1>4, <2>1, <2>2, <2>3 DEF Disk, Tidy, Owns, Working, Steps,
       Goes, Same, Like, Returned, When
  <2>13. Disk(IF Holds(c2) THEN c2 ELSE Idle)'
    BY <2>2, <2>4, <2>5, <2>6, <2>7, <2>8, <2>9, <2>10, <2>11, <2>12 DEF Disk
  <2> QED
    BY <1>1, <1>7, <2>1, <2>2, <2>4, <2>5, <2>13, Change DEF NoFs, Steps, Holds, Goes, Same,
       Like
<1> QED
  BY <1>5, <1>6, <1>7

-----------------------------------------------------------------------------
(* ploop_replace_image.                                                    *)

\* TurnIs with the fields set in the other order.
LEMMA OwnTurnIs ==
  ASSUME Types, NEW p \in Proc, NEW pc \in Pcs, NEW own \in BOOLEAN,
         call' = [call EXCEPT ![p].own = own, ![p].pc = pc]
  PROVE  \E c2 \in Calls : Becomes(p, c2) /\ Turns(c2, call[p], pc, own)
<1> PICK c \in Calls : c = call[p]
  BY DEF Types
<1> PICK d1 \in Calls : d1 = [c EXCEPT !.own = own] /\ OwnSet(d1, c, own)
  BY OwnIs
<1> PICK c2 \in Calls : c2 = [d1 EXCEPT !.pc = pc] /\ PcSet(c2, d1, pc)
  BY PcIs
<1>2. Turns(c2, c, pc, own)
  BY DEF PcSet, OwnSet, Turns, Same, Like
<1>3. call' = [call EXCEPT ![p] = c2]
  BY DEF Types
<1> QED
  BY <1>2, <1>3 DEF Becomes

\* The list of images with another first one.
LEMMA FirstIs ==
  ASSUME NEW d, NEW n
  PROVE  /\ [Deltas(d) EXCEPT ![1] = n] = IF d.top = None THEN <<n>> ELSE <<n, names[d.top]>>
         /\ [Deltas(d) EXCEPT ![1] = n][1] = n
<1>1. CASE d.top = None
  <2>1. Deltas(d) = <<names[d.base]>>
    BY <1>1, DeltasIs
  <2> QED
    BY <1>1, <2>1
<1>2. CASE d.top # None
  <2>1. Deltas(d) = <<names[d.base], names[d.top]>>
    BY <1>2, DeltasIs
  <2> QED
    BY <1>2, <2>1
<1> QED
  BY <1>1, <1>2

\* A device whose first image is replaced by another.
LEMMA SwapIs ==
  ASSUME Shapes, dev # None, NEW n \in Nat, n \in DOMAIN nodes,
         dev' = [dev EXCEPT !.deltas[1] = n], UNCHANGED nodes
  PROVE  /\ dev' \in Kernel /\ dev' # None
         /\ Len(dev'.deltas) >= 1 /\ \A i \in DOMAIN dev'.deltas : dev'.deltas[i] \in DOMAIN nodes'
         /\ dev'.deltas = [dev.deltas EXCEPT ![1] = n] /\ dev'.deltas[1] = n
         /\ dev'.size = dev.size /\ dev'.running = dev.running /\ dev'.max = dev.max
<1>1. dev \in Kernel /\ dev.deltas \in Seq(Nat) /\ Len(dev.deltas) >= 1
  BY DEF Shapes, Kernel
<1> DEFINE e == [dev.deltas EXCEPT ![1] = n]
<1>2. e \in Seq(Nat) /\ Len(e) = Len(dev.deltas) /\ e[1] = n
  BY <1>1
<1>3. \A i \in DOMAIN e : e[i] \in DOMAIN nodes
  BY <1>1 DEF Shapes
<1> HIDE DEF e
<1>4. dev' = [dev EXCEPT !.deltas = e]
  BY <1>1 DEF Kernel, e
<1>5. dev' \in Kernel /\ dev'.deltas = e /\ dev'.size = dev.size /\ dev'.running = dev.running
      /\ dev'.max = dev.max
  BY <1>1, <1>2, <1>4 DEF Kernel
<1>6. dev' # None
  BY <1>5, NoneAssumption
<1> QED
  BY <1>1, <1>2, <1>3, <1>5, <1>6 DEF e

\* The descriptor with the new image is written beside the stored one.
LEMMA ReplaceCheckInv ==
  ASSUME Inv, NEW p \in Proc, ReplaceCheck(p), "dropped" \notin windows'
  PROVE  Inv'
<1> PICK c \in Calls : c = call[p]
  BY DEF Inv, Types
<1>1. Steps(c) /\ Holds(c) /\ c.pc = "locked" /\ c.op = "replace"
  BY DEF Inv, Control, ReplaceCheck, Holds, Entry, At
<1>2. Disk(c) /\ Types /\ Shapes /\ Listed
  BY <1>1, NowIs DEF Inv, Types
<1>3. /\ c.di = dd /\ dd \in Descriptor /\ dd # None /\ dd.base = "image" /\ dd.top \in {None, "delta"} /\ c.op = "replace"
     /\ names["image"] # None /\ names["image"] \in DOMAIN nodes /\ TopNode(dd) \in DOMAIN nodes
  BY <1>1, <1>2, DiskIs DEF Disk, Read, Holds, Steps, Calls, Descriptor, Names
<1>4. /\ (Found(c.di) <=> Found(dd))
     /\ (Found(dd) => (Found(c.di) = TRUE)) /\ (~Found(dd) => (Found(c.di) = FALSE))
  BY <1>3 DEF Found
<1>5. \/ /\ Still /\ windows' = windows
         /\ Go(p, "fail")
      \/ /\ names["copy"] # None /\ Found(dd)
         /\ tmp' = [dd EXCEPT !.base = "copy"]
         /\ call' = [call EXCEPT ![p].own = TRUE, ![p].pc = "rp_kernel"]
         /\ windows' = windows \cup When(names["image"] = None \/ nodes[names["copy"]] # nodes[names["image"]], "other")
         /\ UNCHANGED <<dd, names, nodes, dev, mnt, part, fs, lock, wanted>>
      \/ /\ names["copy"] # None /\ ~Found(dd)
         /\ tmp' = [dd EXCEPT !.base = "copy"]
         /\ call' = [call EXCEPT ![p].own = FALSE, ![p].pc = "rp_rename"]
         /\ windows' = windows \cup When(names["image"] = None \/ nodes[names["copy"]] # nodes[names["image"]], "other")
         /\ UNCHANGED <<dd, names, nodes, dev, mnt, part, fs, lock, wanted>>
      \/ /\ names["copy"] # None /\ ~Found(dd)
         /\ tmp' = [dd EXCEPT !.base = "copy"]
         /\ call' = [call EXCEPT ![p].own = FALSE, ![p].pc = "rp_conf"]
         /\ windows' = windows \cup When(names["image"] = None \/ nodes[names["copy"]] # nodes[names["image"]], "other")
         /\ UNCHANGED <<dd, names, nodes, dev, mnt, part, fs, lock, wanted>>
      \/ /\ tmp' = None
         /\ Go(p, "fail")
         /\ UNCHANGED <<dd, names, nodes, dev, mnt, part, fs, windows>>
  <2>1. \/ Go(p, "fail") /\ Still /\ windows' = windows
        \/ tmp' = None /\ Go(p, "fail") /\ UNCHANGED <<dd, names, nodes, dev, mnt, part, fs, windows>>
        \/ /\ names["copy"] # None /\ tmp' = [dd EXCEPT !.base = "copy"]
           /\ call' = [call EXCEPT ![p].own = Found(c.di),
                ![p].pc = IF Found(c.di) THEN "rp_kernel" ELSE IF c.flag THEN "rp_rename" ELSE "rp_conf"]
           /\ windows' = windows \cup When(names["image"] = None \/ nodes[names["copy"]] # nodes[names["image"]], "other")
           /\ UNCHANGED <<dd, names, nodes, dev, mnt, part, fs, lock, wanted>>
    BY <1>1, <1>2, <1>3 DEF ReplaceCheck, NoFault, Go, Still, store, kernel, layout
  <2>2. CASE Found(dd)
    BY <2>1, <2>2, <1>4
  <2>3. CASE ~Found(dd)
    BY <2>1, <2>3, <1>4
  <2> QED
    BY <2>2, <2>3
<1>6. CASE /\ Still /\ windows' = windows
           /\ Go(p, "fail")
  BY <1>1, <1>2, <1>6, Declines
<1>7. CASE /\ names["copy"] # None /\ Found(dd)
           /\ tmp' = [dd EXCEPT !.base = "copy"]
           /\ call' = [call EXCEPT ![p].own = TRUE, ![p].pc = "rp_kernel"]
           /\ windows' = windows \cup When(names["image"] = None \/ nodes[names["copy"]] # nodes[names["image"]], "other")
           /\ UNCHANGED <<dd, names, nodes, dev, mnt, part, fs, lock, wanted>>
  <2>1. PICK c2 \in Calls : Becomes(p, c2) /\ Turns(c2, c, "rp_kernel", TRUE)
    BY <1>1, <1>2, <1>7, OwnTurnIs
  <2>2. Steps(c2) /\ Holds(c2)
    BY <1>1, <1>7, <2>1 DEF Steps, Holds, Turns, Same, Like
  <2>3. /\ TopNode(dd)' = TopNode(dd) /\ Deltas(dd)' = Deltas(dd) /\ Size(dd)' = Size(dd)
        /\ Found(dd)' = Found(dd)
    BY <1>7 DEF TopNode, Top, Size, Deltas, Files, Found
  <2>4. tmp' \in Descriptor /\ tmp' = [c2.di EXCEPT !.base = "copy"]
    BY <1>3, <1>7, <2>1 DEF Descriptor, Turns, Same, Like
  <2>5. tmp' # None
    BY <2>4, NoneAssumption
  <2>6. Placed' => Placed /\ nodes[names["copy"]] = nodes[names["image"]]
    BY <1>3, <1>7 DEF Placed, When
  <2>7. dev # None
    BY <1>7 DEF Found
  <2>8. Shapes'
    BY <1>1, <1>2, <1>7, <1>3, <1>4, <2>1, <2>2, <2>3, <2>4, <2>5, <2>6, <2>7 DEF Shapes
  <2>9. Listed' /\ dd' # None
    BY <1>1, <1>2, <1>7, <1>3, <1>4, <2>1, <2>2, <2>3, <2>4, <2>5, <2>6, <2>7 DEF Disk,
       Read, Listed, Distinct, Holds
  <2>10. Working(c2)'
    BY <1>1, <1>2, <1>7, <1>3, <1>4, <2>1, <2>2, <2>3, <2>4, <2>5, <2>6, <2>7 DEF Disk,
       Working, Steps, Turns, Same, Like
  <2>11. Read(c2)'
    BY <1>1, <1>2, <1>7, <1>3, <1>4, <2>1, <2>2, <2>3, <2>4, <2>5, <2>6, <2>7 DEF Disk,
       Read, Holds, Steps, Turns, Same, Like
  <2>12. Placed' => Match(c2)'
    <3>1. Placed => Match(c)
      BY <1>2 DEF Disk
    <3>2. Placed' => Matched'
      BY <1>1, <1>2, <1>7, <1>3, <1>4, <2>1, <2>2, <2>3, <2>4, <2>5, <2>6, <2>7, <3>1 DEF
         Match, Matched, Placed
    <3>3. Placed' => Apart(c2)'
      BY <1>1, <1>2, <1>7, <1>3, <1>4, <2>1, <2>2, <2>3, <2>4, <2>5, <2>6, <2>7, <3>1 DEF
         Match, Apart, Swapping, Placed, Turns, Same, Like
    <3> QED
      BY <1>1, <1>2, <1>7, <1>3, <1>4, <2>1, <2>2, <2>3, <2>4, <2>5, <2>6, <2>7, <3>1, <3>2,
         <3>3 DEF Match, Swapping, Steps, Placed, Turns, Same, Like
  <2>13. Whole' => Lies(c2)'
    BY <1>1, <1>2, <1>7, <1>3, <1>4, <2>1, <2>2, <2>3, <2>4, <2>5, <2>6, <2>7 DEF Disk,
       Lies, Steps, Turns, Same, Like, Whole, Placed, When, Room, Size, TopNode, Top
  <2>14. Stored' => Fitting(c2)'
    BY <1>1, <1>2, <1>7, <1>3, <1>4, <2>1, <2>2, <2>3, <2>4, <2>5, <2>6, <2>7 DEF Disk,
       Fitting, Steps, Turns, Same, Like, Stored, Placed, When, Fits, Formats, Size,
       TopNode, Top
  <2>15. Followed' => Running(c2)'
    BY <1>1, <1>2, <1>7, <1>3, <1>4, <2>1, <2>2, <2>3, <2>4, <2>5, <2>6, <2>7 DEF Disk,
       Running, Swapping, Steps, Turns, Same, Like, Followed, Placed, When, Found
  <2>16. Returned' => Tidy(c2)'
    BY <1>1, <1>2, <1>7, <1>3, <1>4, <2>1, <2>2, <2>3, <2>4, <2>5, <2>6, <2>7 DEF Disk,
       Tidy, Owns, Working, Steps, Turns, Same, Like, Returned, When
  <2>17. Disk(IF Holds(c2) THEN c2 ELSE Idle)'
    BY <2>2, <2>8, <2>9, <2>10, <2>11, <2>12, <2>13, <2>14, <2>15, <2>16 DEF Disk
  <2> QED
    BY <1>1, <1>7, <2>1, <2>2, <2>8, <2>9, <2>17, Change DEF NoFs, Steps, Holds, Turns,
       Same, Like
<1>8. CASE /\ names["copy"] # None /\ ~Found(dd)
           /\ tmp' = [dd EXCEPT !.base = "copy"]
           /\ call' = [call EXCEPT ![p].own = FALSE, ![p].pc = "rp_rename"]
           /\ windows' = windows \cup When(names["image"] = None \/ nodes[names["copy"]] # nodes[names["image"]], "other")
           /\ UNCHANGED <<dd, names, nodes, dev, mnt, part, fs, lock, wanted>>
  <2>1. PICK c2 \in Calls : Becomes(p, c2) /\ Turns(c2, c, "rp_rename", FALSE)
    BY <1>1, <1>2, <1>8, OwnTurnIs
  <2>2. Steps(c2) /\ Holds(c2)
    BY <1>1, <1>8, <2>1 DEF Steps, Holds, Turns, Same, Like
  <2>3. /\ TopNode(dd)' = TopNode(dd) /\ Deltas(dd)' = Deltas(dd) /\ Size(dd)' = Size(dd)
        /\ Found(dd)' = Found(dd)
    BY <1>8 DEF TopNode, Top, Size, Deltas, Files, Found
  <2>4. tmp' \in Descriptor /\ tmp' = [c2.di EXCEPT !.base = "copy"]
    BY <1>3, <1>8, <2>1 DEF Descriptor, Turns, Same, Like
  <2>5. tmp' # None
    BY <2>4, NoneAssumption
  <2>6. Placed' => Placed /\ nodes[names["copy"]] = nodes[names["image"]]
    BY <1>3, <1>8 DEF Placed, When
  <2>7. Shapes'
    BY <1>1, <1>2, <1>8, <1>3, <1>4, <2>1, <2>2, <2>3, <2>4, <2>5, <2>6 DEF Shapes
  <2>8. Listed' /\ dd' # None
    BY <1>1, <1>2, <1>8, <1>3, <1>4, <2>1, <2>2, <2>3, <2>4, <2>5, <2>6 DEF Disk, Read,
       Listed, Distinct, Holds
  <2>9. Working(c2)'
    BY <1>1, <1>2, <1>8, <1>3, <1>4, <2>1, <2>2, <2>3, <2>4, <2>5, <2>6 DEF Disk, Working,
       Steps, Turns, Same, Like
  <2>10. Read(c2)'
    BY <1>1, <1>2, <1>8, <1>3, <1>4, <2>1, <2>2, <2>3, <2>4, <2>5, <2>6 DEF Disk, Read,
       Holds, Steps, Turns, Same, Like
  <2>11. Placed' => Match(c2)'
    <3>1. Placed => Match(c)
      BY <1>2 DEF Disk
    <3>2. Placed' => Matched'
      BY <1>1, <1>2, <1>8, <1>3, <1>4, <2>1, <2>2, <2>3, <2>4, <2>5, <2>6, <3>1 DEF Match,
         Matched, Placed
    <3>3. Placed' => Apart(c2)'
      BY <1>1, <1>2, <1>8, <1>3, <1>4, <2>1, <2>2, <2>3, <2>4, <2>5, <2>6, <3>1 DEF Match,
         Apart, Swapping, Placed, Turns, Same, Like
    <3> QED
      BY <1>1, <1>2, <1>8, <1>3, <1>4, <2>1, <2>2, <2>3, <2>4, <2>5, <2>6, <3>1, <3>2, <3>3
         DEF Match, Swapping, Steps, Placed, Turns, Same, Like
  <2>12. Whole' => Lies(c2)'
    BY <1>1, <1>2, <1>8, <1>3, <1>4, <2>1, <2>2, <2>3, <2>4, <2>5, <2>6 DEF Disk, Lies,
       Steps, Turns, Same, Like, Whole, Placed, When, Room, Size, TopNode, Top
  <2>13. Stored' => Fitting(c2)'
    BY <1>1, <1>2, <1>8, <1>3, <1>4, <2>1, <2>2, <2>3, <2>4, <2>5, <2>6 DEF Disk, Fitting,
       Steps, Turns, Same, Like, Stored, Placed, When, Fits, Formats, Size, TopNode, Top
  <2>14. Followed' => Running(c2)'
    BY <1>1, <1>2, <1>8, <1>3, <1>4, <2>1, <2>2, <2>3, <2>4, <2>5, <2>6 DEF Disk, Running,
       Swapping, Steps, Turns, Same, Like, Followed, Placed, When, Found
  <2>15. Returned' => Tidy(c2)'
    BY <1>1, <1>2, <1>8, <1>3, <1>4, <2>1, <2>2, <2>3, <2>4, <2>5, <2>6 DEF Disk, Tidy,
       Owns, Working, Steps, Turns, Same, Like, Returned, When
  <2>16. Disk(IF Holds(c2) THEN c2 ELSE Idle)'
    BY <2>2, <2>7, <2>8, <2>9, <2>10, <2>11, <2>12, <2>13, <2>14, <2>15 DEF Disk
  <2> QED
    BY <1>1, <1>8, <2>1, <2>2, <2>7, <2>8, <2>16, Change DEF NoFs, Steps, Holds, Turns,
       Same, Like
<1>9. CASE /\ names["copy"] # None /\ ~Found(dd)
           /\ tmp' = [dd EXCEPT !.base = "copy"]
           /\ call' = [call EXCEPT ![p].own = FALSE, ![p].pc = "rp_conf"]
           /\ windows' = windows \cup When(names["image"] = None \/ nodes[names["copy"]] # nodes[names["image"]], "other")
           /\ UNCHANGED <<dd, names, nodes, dev, mnt, part, fs, lock, wanted>>
  <2>1. PICK c2 \in Calls : Becomes(p, c2) /\ Turns(c2, c, "rp_conf", FALSE)
    BY <1>1, <1>2, <1>9, OwnTurnIs
  <2>2. Steps(c2) /\ Holds(c2)
    BY <1>1, <1>9, <2>1 DEF Steps, Holds, Turns, Same, Like
  <2>3. /\ TopNode(dd)' = TopNode(dd) /\ Deltas(dd)' = Deltas(dd) /\ Size(dd)' = Size(dd)
        /\ Found(dd)' = Found(dd)
    BY <1>9 DEF TopNode, Top, Size, Deltas, Files, Found
  <2>4. tmp' \in Descriptor /\ tmp' = [c2.di EXCEPT !.base = "copy"]
    BY <1>3, <1>9, <2>1 DEF Descriptor, Turns, Same, Like
  <2>5. tmp' # None
    BY <2>4, NoneAssumption
  <2>6. Placed' => Placed /\ nodes[names["copy"]] = nodes[names["image"]]
    BY <1>3, <1>9 DEF Placed, When
  <2>7. Shapes'
    BY <1>1, <1>2, <1>9, <1>3, <1>4, <2>1, <2>2, <2>3, <2>4, <2>5, <2>6 DEF Shapes
  <2>8. Listed' /\ dd' # None
    BY <1>1, <1>2, <1>9, <1>3, <1>4, <2>1, <2>2, <2>3, <2>4, <2>5, <2>6 DEF Disk, Read,
       Listed, Distinct, Holds
  <2>9. Working(c2)'
    BY <1>1, <1>2, <1>9, <1>3, <1>4, <2>1, <2>2, <2>3, <2>4, <2>5, <2>6 DEF Disk, Working,
       Steps, Turns, Same, Like
  <2>10. Read(c2)'
    BY <1>1, <1>2, <1>9, <1>3, <1>4, <2>1, <2>2, <2>3, <2>4, <2>5, <2>6 DEF Disk, Read,
       Holds, Steps, Turns, Same, Like
  <2>11. Placed' => Match(c2)'
    <3>1. Placed => Match(c)
      BY <1>2 DEF Disk
    <3>2. Placed' => Matched'
      BY <1>1, <1>2, <1>9, <1>3, <1>4, <2>1, <2>2, <2>3, <2>4, <2>5, <2>6, <3>1 DEF Match,
         Matched, Placed
    <3>3. Placed' => Apart(c2)'
      BY <1>1, <1>2, <1>9, <1>3, <1>4, <2>1, <2>2, <2>3, <2>4, <2>5, <2>6, <3>1 DEF Match,
         Apart, Swapping, Placed, Turns, Same, Like
    <3> QED
      BY <1>1, <1>2, <1>9, <1>3, <1>4, <2>1, <2>2, <2>3, <2>4, <2>5, <2>6, <3>1, <3>2, <3>3
         DEF Match, Swapping, Steps, Placed, Turns, Same, Like
  <2>12. Whole' => Lies(c2)'
    BY <1>1, <1>2, <1>9, <1>3, <1>4, <2>1, <2>2, <2>3, <2>4, <2>5, <2>6 DEF Disk, Lies,
       Steps, Turns, Same, Like, Whole, Placed, When, Room, Size, TopNode, Top
  <2>13. Stored' => Fitting(c2)'
    BY <1>1, <1>2, <1>9, <1>3, <1>4, <2>1, <2>2, <2>3, <2>4, <2>5, <2>6 DEF Disk, Fitting,
       Steps, Turns, Same, Like, Stored, Placed, When, Fits, Formats, Size, TopNode, Top
  <2>14. Followed' => Running(c2)'
    BY <1>1, <1>2, <1>9, <1>3, <1>4, <2>1, <2>2, <2>3, <2>4, <2>5, <2>6 DEF Disk, Running,
       Swapping, Steps, Turns, Same, Like, Followed, Placed, When, Found
  <2>15. Returned' => Tidy(c2)'
    BY <1>1, <1>2, <1>9, <1>3, <1>4, <2>1, <2>2, <2>3, <2>4, <2>5, <2>6 DEF Disk, Tidy,
       Owns, Working, Steps, Turns, Same, Like, Returned, When
  <2>16. Disk(IF Holds(c2) THEN c2 ELSE Idle)'
    BY <2>2, <2>7, <2>8, <2>9, <2>10, <2>11, <2>12, <2>13, <2>14, <2>15 DEF Disk
  <2> QED
    BY <1>1, <1>9, <2>1, <2>2, <2>7, <2>8, <2>16, Change DEF NoFs, Steps, Holds, Turns,
       Same, Like
<1>10. CASE /\ tmp' = None
            /\ Go(p, "fail")
            /\ UNCHANGED <<dd, names, nodes, dev, mnt, part, fs, windows>>
  <2>1. PICK c2 \in Calls : Becomes(p, c2) /\ Goes(c2, c, "fail") /\ UNCHANGED <<lock, wanted>>
    BY <1>1, <1>2, <1>10, GoIs
  <2>2. Steps(c2) /\ Holds(c2)
    BY <1>1, <1>10, <2>1 DEF Steps, Holds, Goes, Same, Like
  <2>3. /\ TopNode(dd)' = TopNode(dd) /\ Deltas(dd)' = Deltas(dd) /\ Size(dd)' = Size(dd)
        /\ Found(dd)' = Found(dd)
    BY <1>10 DEF TopNode, Top, Size, Deltas, Files, Found
  <2>4. Shapes'
    BY <1>1, <1>2, <1>10, <1>3, <1>4, <2>1, <2>2, <2>3 DEF Shapes
  <2>5. Listed' /\ dd' # None
    BY <1>1, <1>2, <1>10, <1>3, <1>4, <2>1, <2>2, <2>3 DEF Disk, Read, Listed, Distinct,
       Holds
  <2>6. Working(c2)'
    BY <1>1, <1>2, <1>10, <1>3, <1>4, <2>1, <2>2, <2>3 DEF Disk, Working, Steps, Goes, Same,
       Like
  <2>7. Read(c2)'
    BY <1>1, <1>2, <1>10, <1>3, <1>4, <2>1, <2>2, <2>3 DEF Disk, Read, Holds, Steps, Goes,
       Same, Like
  <2>8. Placed' => Match(c2)'
    <3>1. Placed => Match(c)
      BY <1>2 DEF Disk
    <3>2. Placed' => Matched'
      BY <1>1, <1>2, <1>10, <1>3, <1>4, <2>1, <2>2, <2>3, <3>1 DEF Match, Matched, Placed
    <3>3. Placed' => Apart(c2)'
      BY <1>1, <1>2, <1>10, <1>3, <1>4, <2>1, <2>2, <2>3, <3>1 DEF Match, Apart, Swapping,
         Placed, Goes, Same, Like
    <3> QED
      BY <1>1, <1>2, <1>10, <1>3, <1>4, <2>1, <2>2, <2>3, <3>1, <3>2, <3>3 DEF Match,
         Swapping, Steps, Placed, Goes, Same, Like
  <2>9. Whole' => Lies(c2)'
    BY <1>1, <1>2, <1>10, <1>3, <1>4, <2>1, <2>2, <2>3 DEF Disk, Lies, Steps, Goes, Same,
       Like, Whole, Placed, When, Room, Size, TopNode, Top
  <2>10. Stored' => Fitting(c2)'
    BY <1>1, <1>2, <1>10, <1>3, <1>4, <2>1, <2>2, <2>3 DEF Disk, Fitting, Steps, Goes, Same,
       Like, Stored, Placed, When, Fits, Formats, Size, TopNode, Top
  <2>11. Followed' => Running(c2)'
    BY <1>1, <1>2, <1>10, <1>3, <1>4, <2>1, <2>2, <2>3 DEF Disk, Running, Swapping, Steps,
       Goes, Same, Like, Followed, Placed, When, Found
  <2>12. Returned' => Tidy(c2)'
    BY <1>1, <1>2, <1>10, <1>3, <1>4, <2>1, <2>2, <2>3 DEF Disk, Tidy, Owns, Working, Steps,
       Goes, Same, Like, Returned, When
  <2>13. Disk(IF Holds(c2) THEN c2 ELSE Idle)'
    BY <2>2, <2>4, <2>5, <2>6, <2>7, <2>8, <2>9, <2>10, <2>11, <2>12 DEF Disk
  <2> QED
    BY <1>1, <1>10, <2>1, <2>2, <2>4, <2>5, <2>13, Change DEF NoFs, Steps, Holds, Goes,
       Same, Like
<1> QED
  BY <1>5, <1>6, <1>7, <1>8, <1>9, <1>10

\* The kernel takes the new image.
LEMMA replace_deltaInv ==
  ASSUME Inv, NEW p \in Proc, replace_delta(p), "dropped" \notin windows'
  PROVE  Inv'
<1> PICK c \in Calls : c = call[p]
  BY DEF Inv, Types
<1>1. Steps(c) /\ Holds(c) /\ c.pc = "rp_kernel"
  BY DEF Inv, Control, replace_delta, Holds, At
<1>2. Disk(c) /\ Types /\ Shapes /\ Listed
  BY <1>1, NowIs DEF Inv, Types
<1>3. /\ c.di = dd /\ dd \in Descriptor /\ dd # None /\ dd.base = "image" /\ dd.top \in {None, "delta"} /\ c.op = "replace"
     /\ names["image"] # None /\ names["image"] \in DOMAIN nodes /\ TopNode(dd) \in DOMAIN nodes
  BY <1>1, <1>2, DiskIs DEF Disk, Read, Holds, Steps, Calls, Descriptor, Names
<1>4. /\ tmp = [dd EXCEPT !.base = "copy"] /\ names["copy"] # None /\ names["copy"] \in DOMAIN nodes /\ names["copy"] \in Nat
     /\ names["copy"] # names["image"] /\ (names["image.tmp"] # None => names["image.tmp"] # names["copy"])
     /\ (dd.top # None => names["delta"] # names["copy"])
     /\ (c.own => dev # None) /\ (Placed => nodes[names["copy"]] = nodes[names["image"]])
  BY <1>1, <1>2, <1>3 DEF Disk, Working, Match, Shapes, Names, Listed, Distinct
<1>5. \/ /\ dev' = [dev EXCEPT !.deltas[1] = names["copy"]]
         /\ Go(p, "rp_link") \/ Go(p, "rp_conf")
         /\ UNCHANGED <<dd, tmp, names, nodes, mnt, part, fs, windows>>
      \/ /\ tmp' = None
         /\ Go(p, "fail")
         /\ UNCHANGED <<dd, names, nodes, dev, mnt, part, fs, windows>>
  BY <1>1, <1>2, <1>3, <1>4 DEF replace_delta, NoFault, Go, Still, store, kernel, layout
<1>6. CASE /\ dev' = [dev EXCEPT !.deltas[1] = names["copy"]]
           /\ Go(p, "rp_link") \/ Go(p, "rp_conf")
           /\ UNCHANGED <<dd, tmp, names, nodes, mnt, part, fs, windows>>
  <2>1. PICK pc \in {"rp_link", "rp_conf"} : Go(p, pc)
    BY <1>6
  <2>2. PICK c2 \in Calls : Becomes(p, c2) /\ Goes(c2, c, pc) /\ UNCHANGED <<lock, wanted>>
    BY <1>1, <1>2, <1>6, <2>1, GoIs
  <2>3. Steps(c2) /\ Holds(c2)
    BY <1>1, <1>6, <2>1, <2>2 DEF Steps, Holds, Goes, Same, Like
  <2>4. /\ dev' \in Kernel /\ dev' # None
        /\ Len(dev'.deltas) >= 1 /\ (\A i \in DOMAIN dev'.deltas : dev'.deltas[i] \in DOMAIN nodes')
        /\ dev'.deltas = [dev.deltas EXCEPT ![1] = names["copy"]] /\ dev'.deltas[1] = names["copy"]
        /\ dev'.size = dev.size /\ dev'.running = dev.running /\ dev'.max = dev.max
    BY <1>1, <1>2, <1>4, <1>6, SwapIs DEF Steps
  <2>5. TopNode(dd)' = TopNode(dd) /\ Deltas(dd)' = Deltas(dd) /\ Size(dd)' = Size(dd)
    BY <1>6 DEF TopNode, Top, Deltas, Files, Size
  <2>6. Placed => Found(dd) /\ dev.deltas = Deltas(dd) /\ dev.size = Size(dd)
    BY <1>1, <1>2, <1>3 DEF Disk, Match, Matched, Found
  <2>7. ~Found(dd)' /\ dev # None
    BY <1>1, <1>3, <1>4, <1>6, <2>4 DEF Found, Steps
  <2>8. Shapes'
    BY <1>1, <1>2, <1>6, <1>3, <1>4, <2>1, <2>2, <2>3, <2>4, <2>5, <2>6, <2>7 DEF Shapes
  <2>9. Listed' /\ dd' # None
    BY <1>1, <1>2, <1>6, <1>3, <1>4, <2>1, <2>2, <2>3, <2>4, <2>5, <2>6, <2>7 DEF Disk,
       Read, Listed, Distinct, Holds
  <2>10. Working(c2)'
    BY <1>1, <1>2, <1>6, <1>3, <1>4, <2>1, <2>2, <2>3, <2>4, <2>5, <2>6, <2>7 DEF Disk,
       Working, Steps, Goes, Same, Like
  <2>11. Read(c2)'
    BY <1>1, <1>2, <1>6, <1>3, <1>4, <2>1, <2>2, <2>3, <2>4, <2>5, <2>6, <2>7 DEF Disk,
       Read, Holds, Steps, Goes, Same, Like
  <2>12. Placed' => Match(c2)'
      <3>1. Placed' => Placed /\ Match(c)
        BY <1>2, <1>6 DEF Disk, Placed
      <3>2. c2.pc \in {"rp_link", "rp_conf"} /\ c2.own = c.own /\ c.own
        BY <1>1, <2>1, <2>2 DEF Goes, Same, Like, Steps
      <3>3. UNCHANGED <<dd, names, nodes>>
        BY <1>6
      <3>4. Placed' => Matched'
        BY <2>7, <3>3 DEF Matched
      <3>5. Placed' => Apart(c2)'
        BY <3>1, <3>2, <3>3, <1>3, <1>4, <2>4 DEF Apart, Swapping
      <3>6. Placed' => dev'.deltas = [Deltas(dd)' EXCEPT ![1] = names'["copy"]] /\ dev'.size = Size(dd)'
        BY <2>4, <2>5, <2>6, <3>1, <3>3
      <3> QED
        BY <1>3, <1>4, <3>1, <3>2, <3>3, <3>4, <3>5, <3>6 DEF Match, Swapping
  <2>13. Whole' => Lies(c2)'
    BY <1>1, <1>2, <1>6, <1>3, <1>4, <2>1, <2>2, <2>3, <2>4, <2>5, <2>6, <2>7 DEF Disk,
       Lies, Steps, Goes, Same, Like, Whole, Placed, When, Room, Size, TopNode, Top
  <2>14. Stored' => Fitting(c2)'
    BY <1>1, <1>2, <1>6, <1>3, <1>4, <2>1, <2>2, <2>3, <2>4, <2>5, <2>6, <2>7 DEF Disk,
       Fitting, Steps, Goes, Same, Like, Stored, Placed, When, Fits, Formats, Size, TopNode,
       Top
  <2>15. Followed' => Running(c2)'
    BY <1>1, <1>2, <1>6, <1>3, <1>4, <2>1, <2>2, <2>3, <2>4, <2>5, <2>6, <2>7 DEF Disk,
       Running, Swapping, Steps, Goes, Same, Like, Followed, Placed, When, Found
  <2>16. Returned' => Tidy(c2)'
    BY <1>1, <1>2, <1>6, <1>3, <1>4, <2>1, <2>2, <2>3, <2>4, <2>5, <2>6, <2>7 DEF Disk,
       Tidy, Owns, Working, Steps, Goes, Same, Like, Returned, When
  <2>17. Disk(IF Holds(c2) THEN c2 ELSE Idle)'
    BY <2>3, <2>8, <2>9, <2>10, <2>11, <2>12, <2>13, <2>14, <2>15, <2>16 DEF Disk
  <2> QED
    BY <1>1, <1>6, <2>1, <2>2, <2>3, <2>8, <2>9, <2>17, Change DEF NoFs, Steps, Holds, Goes,
       Same, Like
<1>7. CASE /\ tmp' = None
           /\ Go(p, "fail")
           /\ UNCHANGED <<dd, names, nodes, dev, mnt, part, fs, windows>>
  <2>1. PICK c2 \in Calls : Becomes(p, c2) /\ Goes(c2, c, "fail") /\ UNCHANGED <<lock, wanted>>
    BY <1>1, <1>2, <1>7, GoIs
  <2>2. Steps(c2) /\ Holds(c2)
    BY <1>1, <1>7, <2>1 DEF Steps, Holds, Goes, Same, Like
  <2>3. /\ TopNode(dd)' = TopNode(dd) /\ Deltas(dd)' = Deltas(dd) /\ Size(dd)' = Size(dd)
        /\ Found(dd)' = Found(dd)
    BY <1>7 DEF TopNode, Top, Size, Deltas, Files, Found
  <2>4. Shapes'
    BY <1>1, <1>2, <1>7, <1>3, <1>4, <2>1, <2>2, <2>3 DEF Shapes
  <2>5. Listed' /\ dd' # None
    BY <1>1, <1>2, <1>7, <1>3, <1>4, <2>1, <2>2, <2>3 DEF Disk, Read, Listed, Distinct,
       Holds
  <2>6. Working(c2)'
    BY <1>1, <1>2, <1>7, <1>3, <1>4, <2>1, <2>2, <2>3 DEF Disk, Working, Steps, Goes, Same,
       Like
  <2>7. Read(c2)'
    BY <1>1, <1>2, <1>7, <1>3, <1>4, <2>1, <2>2, <2>3 DEF Disk, Read, Holds, Steps, Goes,
       Same, Like
  <2>8. Placed' => Match(c2)'
    <3>1. Placed => Match(c)
      BY <1>2 DEF Disk
    <3>2. Placed' => Matched'
      BY <1>1, <1>2, <1>7, <1>3, <1>4, <2>1, <2>2, <2>3, <3>1 DEF Match, Matched, Placed
    <3>3. Placed' => Apart(c2)'
      BY <1>1, <1>2, <1>7, <1>3, <1>4, <2>1, <2>2, <2>3, <3>1 DEF Match, Apart, Swapping,
         Placed, Goes, Same, Like
    <3> QED
      BY <1>1, <1>2, <1>7, <1>3, <1>4, <2>1, <2>2, <2>3, <3>1, <3>2, <3>3 DEF Match,
         Swapping, Steps, Placed, Goes, Same, Like
  <2>9. Whole' => Lies(c2)'
    BY <1>1, <1>2, <1>7, <1>3, <1>4, <2>1, <2>2, <2>3 DEF Disk, Lies, Steps, Goes, Same,
       Like, Whole, Placed, When, Room, Size, TopNode, Top
  <2>10. Stored' => Fitting(c2)'
    BY <1>1, <1>2, <1>7, <1>3, <1>4, <2>1, <2>2, <2>3 DEF Disk, Fitting, Steps, Goes, Same,
       Like, Stored, Placed, When, Fits, Formats, Size, TopNode, Top
  <2>11. Followed' => Running(c2)'
    BY <1>1, <1>2, <1>7, <1>3, <1>4, <2>1, <2>2, <2>3 DEF Disk, Running, Swapping, Steps,
       Goes, Same, Like, Followed, Placed, When, Found
  <2>12. Returned' => Tidy(c2)'
    BY <1>1, <1>2, <1>7, <1>3, <1>4, <2>1, <2>2, <2>3 DEF Disk, Tidy, Owns, Working, Steps,
       Goes, Same, Like, Returned, When
  <2>13. Disk(IF Holds(c2) THEN c2 ELSE Idle)'
    BY <2>2, <2>4, <2>5, <2>6, <2>7, <2>8, <2>9, <2>10, <2>11, <2>12 DEF Disk
  <2> QED
    BY <1>1, <1>7, <2>1, <2>2, <2>4, <2>5, <2>13, Change DEF NoFs, Steps, Holds, Goes, Same,
       Like
<1> QED
  BY <1>5, <1>6, <1>7

\* A second name is made for the new image, if that is allowed.
LEMMA ReplaceLinkInv ==
  ASSUME Inv, NEW p \in Proc, ReplaceLink(p), "dropped" \notin windows'
  PROVE  Inv'
<1> PICK c \in Calls : c = call[p]
  BY DEF Inv, Types
<1>1. Steps(c) /\ Holds(c) /\ c.pc = "rp_link"
  BY DEF Inv, Control, ReplaceLink, Holds, At
<1>2. Disk(c) /\ Types /\ Shapes /\ Listed
  BY <1>1, NowIs DEF Inv, Types
<1>3. /\ Still /\ windows' = windows
      /\ Go(p, "rp_rename") \/ Go(p, "rp_undo")
  BY <1>1, <1>2 DEF ReplaceLink, NoFault, Go, Still, store, kernel, layout
<1>4. PICK pc \in {"rp_rename", "rp_undo"} : Go(p, pc)
  BY <1>3
<1>5. PICK c2 \in Calls : Becomes(p, c2) /\ Goes(c2, c, pc) /\ UNCHANGED <<lock, wanted>>
  BY <1>1, <1>2, <1>3, <1>4, GoIs
<1>6. Steps(c2) /\ Holds(c2)
  BY <1>1, <1>3, <1>4, <1>5 DEF Steps, Holds, Goes, Same, Like
<1>7. Working(c2)
  BY <1>1, <1>2, <1>3, <1>4, <1>5, <1>6 DEF Disk, Working, Steps, Goes, Same, Like, Still
<1>8. Read(c2)
  BY <1>1, <1>2, <1>3, <1>4, <1>5, <1>6 DEF Disk, Read, Holds, Steps, Goes, Same, Like,
     Still
<1>9. Placed' => Match(c2)
  BY <1>1, <1>2, <1>3, <1>4, <1>5, <1>6 DEF Disk, Match, Matched, Apart, Swapping, Steps,
     Goes, Same, Like, Still, Placed, When
<1>10. Whole' => Lies(c2)
  BY <1>1, <1>2, <1>3, <1>4, <1>5, <1>6 DEF Disk, Lies, Steps, Goes, Same, Like, Still,
     Whole, Placed, When
<1>11. Stored' => Fitting(c2)
  BY <1>1, <1>2, <1>3, <1>4, <1>5, <1>6 DEF Disk, Fitting, Steps, Goes, Same, Like, Still,
     Stored, Placed, When
<1>12. Followed' => Running(c2)
  BY <1>1, <1>2, <1>3, <1>4, <1>5, <1>6 DEF Disk, Running, Swapping, Steps, Goes, Same,
     Like, Still, Followed, Placed, When
<1>13. Returned' => Tidy(c2)
  BY <1>1, <1>2, <1>3, <1>4, <1>5, <1>6 DEF Disk, Tidy, Owns, Working, Steps, Goes, Same,
     Like, Still, Returned, When
<1>14. Finds(IF Holds(c2) THEN c2 ELSE Idle)
  BY <1>6, <1>7, <1>8, <1>9, <1>10, <1>11, <1>12, <1>13 DEF Finds
<1>15. Moved(p, c2)
  BY <1>3, <1>5 DEF Moved, Still, store, kernel, layout
<1> QED
  BY <1>1, <1>3, <1>4, <1>5, <1>6, <1>14, <1>15, Move DEF NoFs, Steps, Holds, Goes, Same,
     Like

\* The new image takes the name of the old one.
LEMMA ReplaceRenameInv ==
  ASSUME Inv, NEW p \in Proc, ReplaceRename(p), "dropped" \notin windows'
  PROVE  Inv'
<1> PICK c \in Calls : c = call[p]
  BY DEF Inv, Types
<1>1. Steps(c) /\ Holds(c) /\ c.pc = "rp_rename"
  BY DEF Inv, Control, ReplaceRename, Holds, At
<1>2. Disk(c) /\ Types /\ Shapes /\ Listed
  BY <1>1, NowIs DEF Inv, Types
<1>3. /\ c.di = dd /\ dd \in Descriptor /\ dd # None /\ dd.base = "image" /\ dd.top \in {None, "delta"} /\ c.op = "replace"
     /\ names["image"] # None /\ names["image"] \in DOMAIN nodes /\ TopNode(dd) \in DOMAIN nodes
  BY <1>1, <1>2, DiskIs DEF Disk, Read, Holds, Steps, Calls, Descriptor, Names
<1>4. /\ tmp = [dd EXCEPT !.base = "copy"] /\ names["copy"] # None /\ names["copy"] \in DOMAIN nodes /\ names["copy"] \in Nat
     /\ names["copy"] # names["image"] /\ (names["image.tmp"] # None => names["image.tmp"] # names["copy"])
     /\ (dd.top # None => names["delta"] # names["copy"])
     /\ (c.own => dev # None) /\ (Placed => nodes[names["copy"]] = nodes[names["image"]])
  BY <1>1, <1>2, <1>3 DEF Disk, Working, Match, Shapes, Names, Listed, Distinct
<1>5. /\ (Placed => Matched /\ Apart(c))
     /\ (Placed /\ c.own => dev.deltas = [Deltas(dd) EXCEPT ![1] = names["copy"]] /\ dev.size = Size(dd))
     /\ (Placed /\ ~c.own => ~Found(dd)) /\ (Followed /\ ~c.own => dev = None)
     /\ (Stored => Fits(dd)) /\ (Followed /\ dev # None /\ dev.running => dev.max = dd.max)
     /\ (Returned => names["image.tmp"] = None /\ mnt # "temp" /\ (wanted <=> dev # None)) /\ ~Owns(c)
  BY <1>1, <1>2, <1>3 DEF Disk, Match, Swapping, Running, Followed, Fitting, Tidy, Owns
<1>6. \/ /\ c.own
         /\ Still /\ windows' = windows
         /\ Go(p, "rp_undo")
      \/ /\ tmp' = None /\ ~c.own
         /\ Go(p, "ok")
         /\ UNCHANGED <<dd, names, nodes, dev, mnt, part, fs, windows>>
      \/ /\ names' = [names EXCEPT !["image"] = names["copy"], !["copy"] = None]
         /\ tmp' = None
         /\ Go(p, "ok")
         /\ UNCHANGED <<dd, nodes, dev, mnt, part, fs, windows>>
  BY <1>1, <1>2, <1>3, <1>4, <1>5 DEF ReplaceRename, NoFault, Go, Still, store, kernel,
     layout
<1>7. CASE /\ c.own
           /\ Still /\ windows' = windows
           /\ Go(p, "rp_undo")
  <2>1. PICK c2 \in Calls : Becomes(p, c2) /\ Goes(c2, c, "rp_undo") /\ UNCHANGED <<lock, wanted>>
    BY <1>1, <1>2, <1>7, GoIs
  <2>2. Steps(c2) /\ Holds(c2)
    BY <1>1, <1>7, <2>1 DEF Steps, Holds, Goes, Same, Like
  <2>3. Working(c2)
    BY <1>1, <1>2, <1>7, <1>3, <1>4, <1>5, <2>1, <2>2 DEF Disk, Working, Steps, Goes, Same,
       Like, Still
  <2>4. Read(c2)
    BY <1>1, <1>2, <1>7, <1>3, <1>4, <1>5, <2>1, <2>2 DEF Disk, Read, Holds, Steps, Goes,
       Same, Like, Still
  <2>5. Placed' => Match(c2)
    BY <1>1, <1>2, <1>7, <1>3, <1>4, <1>5, <2>1, <2>2 DEF Disk, Match, Matched, Apart,
       Swapping, Steps, Goes, Same, Like, Still, Placed, When
  <2>6. Whole' => Lies(c2)
    BY <1>1, <1>2, <1>7, <1>3, <1>4, <1>5, <2>1, <2>2 DEF Disk, Lies, Steps, Goes, Same,
       Like, Still, Whole, Placed, When
  <2>7. Stored' => Fitting(c2)
    BY <1>1, <1>2, <1>7, <1>3, <1>4, <1>5, <2>1, <2>2 DEF Disk, Fitting, Steps, Goes, Same,
       Like, Still, Stored, Placed, When
  <2>8. Followed' => Running(c2)
    BY <1>1, <1>2, <1>7, <1>3, <1>4, <1>5, <2>1, <2>2 DEF Disk, Running, Swapping, Steps,
       Goes, Same, Like, Still, Followed, Placed, When
  <2>9. Returned' => Tidy(c2)
    BY <1>1, <1>2, <1>7, <1>3, <1>4, <1>5, <2>1, <2>2 DEF Disk, Tidy, Owns, Working, Steps,
       Goes, Same, Like, Still, Returned, When
  <2>10. Finds(IF Holds(c2) THEN c2 ELSE Idle)
    BY <2>2, <2>3, <2>4, <2>5, <2>6, <2>7, <2>8, <2>9 DEF Finds
  <2>11. Moved(p, c2)
    BY <1>7, <2>1 DEF Moved, Still, store, kernel, layout
  <2> QED
    BY <1>1, <1>7, <2>1, <2>2, <2>10, <2>11, Move DEF NoFs, Steps, Holds, Goes, Same, Like
<1>8. CASE /\ tmp' = None /\ ~c.own
           /\ Go(p, "ok")
           /\ UNCHANGED <<dd, names, nodes, dev, mnt, part, fs, windows>>
  <2>1. PICK c2 \in Calls : Becomes(p, c2) /\ Goes(c2, c, "ok") /\ UNCHANGED <<lock, wanted>>
    BY <1>1, <1>2, <1>8, GoIs
  <2>2. Steps(c2) /\ Holds(c2)
    BY <1>1, <1>8, <2>1 DEF Steps, Holds, Goes, Same, Like
  <2>3. /\ TopNode(dd)' = TopNode(dd) /\ Deltas(dd)' = Deltas(dd) /\ Size(dd)' = Size(dd)
        /\ Found(dd)' = Found(dd)
    BY <1>8 DEF TopNode, Top, Size, Deltas, Files, Found
  <2>4. Shapes'
    BY <1>1, <1>2, <1>8, <1>3, <1>4, <1>5, <2>1, <2>2, <2>3 DEF Shapes
  <2>5. Listed' /\ dd' # None
    BY <1>1, <1>2, <1>8, <1>3, <1>4, <1>5, <2>1, <2>2, <2>3 DEF Disk, Read, Listed,
       Distinct, Holds
  <2>6. Working(c2)'
    BY <1>1, <1>2, <1>8, <1>3, <1>4, <1>5, <2>1, <2>2, <2>3 DEF Disk, Working, Steps, Goes,
       Same, Like
  <2>7. Read(c2)'
    BY <1>1, <1>2, <1>8, <1>3, <1>4, <1>5, <2>1, <2>2, <2>3 DEF Disk, Read, Holds, Steps,
       Goes, Same, Like
  <2>8. Placed' => Match(c2)'
    <3>1. Placed => Match(c)
      BY <1>2 DEF Disk
    <3>2. Placed' => Matched'
      BY <1>1, <1>2, <1>8, <1>3, <1>4, <1>5, <2>1, <2>2, <2>3, <3>1 DEF Match, Matched,
         Placed
    <3>3. Placed' => Apart(c2)'
      BY <1>1, <1>2, <1>8, <1>3, <1>4, <1>5, <2>1, <2>2, <2>3, <3>1 DEF Match, Apart,
         Swapping, Placed, Goes, Same, Like
    <3> QED
      BY <1>1, <1>2, <1>8, <1>3, <1>4, <1>5, <2>1, <2>2, <2>3, <3>1, <3>2, <3>3 DEF Match,
         Swapping, Steps, Placed, Goes, Same, Like
  <2>9. Whole' => Lies(c2)'
    BY <1>1, <1>2, <1>8, <1>3, <1>4, <1>5, <2>1, <2>2, <2>3 DEF Disk, Lies, Steps, Goes,
       Same, Like, Whole, Placed, When, Room, Size, TopNode, Top
  <2>10. Stored' => Fitting(c2)'
    BY <1>1, <1>2, <1>8, <1>3, <1>4, <1>5, <2>1, <2>2, <2>3 DEF Disk, Fitting, Steps, Goes,
       Same, Like, Stored, Placed, When, Fits, Formats, Size, TopNode, Top
  <2>11. Followed' => Running(c2)'
    BY <1>1, <1>2, <1>8, <1>3, <1>4, <1>5, <2>1, <2>2, <2>3 DEF Disk, Running, Swapping,
       Steps, Goes, Same, Like, Followed, Placed, When, Found
  <2>12. Returned' => Tidy(c2)'
    BY <1>1, <1>2, <1>8, <1>3, <1>4, <1>5, <2>1, <2>2, <2>3 DEF Disk, Tidy, Owns, Working,
       Steps, Goes, Same, Like, Returned, When
  <2>13. Disk(IF Holds(c2) THEN c2 ELSE Idle)'
    BY <2>2, <2>4, <2>5, <2>6, <2>7, <2>8, <2>9, <2>10, <2>11, <2>12 DEF Disk
  <2> QED
    BY <1>1, <1>8, <2>1, <2>2, <2>4, <2>5, <2>13, Change DEF NoFs, Steps, Holds, Goes, Same,
       Like
<1>9. CASE /\ names' = [names EXCEPT !["image"] = names["copy"], !["copy"] = None]
           /\ tmp' = None
           /\ Go(p, "ok")
           /\ UNCHANGED <<dd, nodes, dev, mnt, part, fs, windows>>
  <2>1. PICK c2 \in Calls : Becomes(p, c2) /\ Goes(c2, c, "ok") /\ UNCHANGED <<lock, wanted>>
    BY <1>1, <1>2, <1>9, GoIs
  <2>2. Steps(c2) /\ Holds(c2)
    BY <1>1, <1>9, <2>1 DEF Steps, Holds, Goes, Same, Like
  <2>3. /\ names' \in [Names -> Nat \cup {None}] /\ names'["image"] = names["copy"] /\ names'["copy"] = None
        /\ (\A f \in Names : f # "image" /\ f # "copy" => names'[f] = names[f])
        /\ names'["delta"] = names["delta"] /\ names'["image.tmp"] = names["image.tmp"] /\ names'["link"] = names["link"]
    BY <1>2, <1>4, <1>9 DEF Shapes, Names
  <2>4. dd' = dd /\ dev' = dev /\ nodes' = nodes /\ tmp' = None
    BY <1>9
  <2>5. /\ Deltas(dd)' = [Deltas(dd) EXCEPT ![1] = names["copy"]] /\ [Deltas(dd) EXCEPT ![1] = names["copy"]][1] = names["copy"]
        /\ (Found(dd)' <=> dev # None /\ dev.deltas[1] = names["copy"])
      <3>1. dd.top = None => Deltas(dd)' = [Deltas(dd) EXCEPT ![1] = names["copy"]]
        <4> SUFFICES ASSUME dd.top = None PROVE Deltas(dd)' = [Deltas(dd) EXCEPT ![1] = names["copy"]]
          OBVIOUS
        <4>1. Deltas(dd)' = <<names["copy"]>>
          BY <1>3, <2>3, <2>4 DEF Deltas, Files
        <4>2. [Deltas(dd) EXCEPT ![1] = names["copy"]]
                = IF dd.top = None THEN <<names["copy"]>> ELSE <<names["copy"], names[dd.top]>>
          BY FirstIs
        <4> QED
          BY <4>1, <4>2
      <3>2. dd.top # None => Deltas(dd)' = [Deltas(dd) EXCEPT ![1] = names["copy"]]
        <4> SUFFICES ASSUME dd.top # None PROVE Deltas(dd)' = [Deltas(dd) EXCEPT ![1] = names["copy"]]
          OBVIOUS
        <4>1. Deltas(dd)' = <<names["copy"], names["delta"]>>
          BY <1>3, <2>3, <2>4 DEF Deltas, Files
        <4>2. [Deltas(dd) EXCEPT ![1] = names["copy"]]
                = IF dd.top = None THEN <<names["copy"]>> ELSE <<names["copy"], names[dd.top]>>
          BY FirstIs
        <4> QED
          BY <1>3, <4>1, <4>2
      <3>3. [Deltas(dd) EXCEPT ![1] = names["copy"]][1] = names["copy"]
        BY FirstIs
      <3>4. Found(dd)' <=> dev # None /\ dev.deltas[1] = names["copy"]
        BY <1>3, <1>4, <2>3, <2>4 DEF Found
      <3> QED
        BY <3>1, <3>2, <3>3, <3>4
  <2>6. Placed => Size(dd)' = Size(dd)
    BY <1>3, <1>4, <2>3, <2>4 DEF Size, TopNode, Top
  <2>7. Placed => Matched'
    BY <1>4, <1>5, <1>3, <1>1, <2>4, <2>5, <2>6, FirstIs DEF Matched, Apart, Swapping
  <2>8. Placed => Apart(Idle)'
    BY <1>4, <1>5, <1>3, <1>1, <2>3, <2>4, FirstIs DEF Apart, Swapping
  <2>9. Stored => Fits(dd)'
    BY <1>3, <1>4, <1>5, <2>3, <2>4, <2>6 DEF Fits, Formats, Stored
  <2>10. Followed => dev = None \/ Found(dd)'
    BY <1>4, <1>5, <2>5, FirstIs DEF Followed
  <2>11. Shapes'
      <3>1. \A f \in Names : names'[f] # None => names'[f] \in DOMAIN nodes'
        BY <1>2, <1>3, <1>4, <2>3, <2>4 DEF Shapes
      <3>2. UNCHANGED <<dd, dev, mnt, part, fs, lock, wanted>>
        BY <1>9, <2>1
      <3> QED
        BY <1>2, <2>3, <2>4, <3>1, <3>2 DEF Shapes
  <2>12. Listed' /\ dd' # None
      <3>1. Listed /\ dd' = dd /\ dev' = dev
        BY <1>2, <1>9
      <3>2. Distinct({"image", "delta", "copy", "image.tmp"})'
        BY <1>3, <1>4, <3>1, <2>3 DEF Listed, Distinct, Names
      <3>3. Distinct({"link", "delta"})' /\ Distinct({"link", "image.tmp"})'
        BY <1>3, <3>1, <2>3 DEF Listed, Distinct, Names
      <3> QED
        BY <1>3, <1>4, <3>1, <3>2, <3>3, <2>3 DEF Listed
  <2>13. Working(c2)'
    BY <1>1, <1>2, <1>3, <1>9, <2>1, <2>4 DEF Disk, Working, Steps, Goes, Same, Like
  <2>14. Read(c2)'
    BY <1>3, <2>1, <2>4 DEF Disk, Read, Holds, Steps, Goes, Same, Like
  <2>15. Placed' => Match(c2)'
      <3>1. Placed' => Placed
        BY <1>9 DEF Placed
      <3>2. c2.pc = "ok"
        BY <2>1 DEF Goes, Same, Like
      <3>3. Placed' => Apart(c2)'
        BY <2>4, <2>8, <3>1, <3>2, IdleIs DEF Apart, Swapping
      <3> QED
        BY <2>7, <3>1, <3>2, <3>3 DEF Match, Swapping
  <2>16. Whole' => Lies(c2)'
      <3>1. Whole' => Placed /\ Lies(c)
        BY <1>2, <1>9 DEF Disk, Whole, Placed
      <3>2. c2.pc = "ok" /\ UNCHANGED <<part, fs, mnt>>
        BY <1>9, <2>1 DEF Goes, Same, Like
      <3> QED
        BY <1>3, <2>4, <2>6, <3>1, <3>2 DEF Lies, Room
  <2>17. Stored' => Fitting(c2)'
    BY <2>9, <2>1, <1>9 DEF Disk, Fitting, Steps, Goes, Same, Like, Stored, Placed, When,
       Fits, Formats, Size, TopNode, Top
  <2>18. Followed' => Running(c2)'
      <3>1. Followed' => Followed
        BY <1>9 DEF Followed, Placed
      <3>2. c2.pc = "ok"
        BY <2>1 DEF Goes, Same, Like
      <3> QED
        BY <1>3, <1>5, <2>4, <2>10, <3>1, <3>2 DEF Running
  <2>19. Returned' => Tidy(c2)'
      <3>1. c2.op = "replace" /\ c2.pc = "ok" /\ ~Owns(c2)
        BY <1>3, <2>1 DEF Goes, Same, Like, Owns
      <3>2. UNCHANGED <<mnt, wanted>> /\ tmp' = None /\ (Returned' => Returned)
        BY <1>9, <2>1 DEF Returned
      <3>3. names'["image.tmp"] = names["image.tmp"] /\ (dev' # None <=> dev # None)
        BY <1>9, <2>3
      <3> QED
        BY <1>5, <3>1, <3>2, <3>3 DEF Tidy
  <2>20. Disk(IF Holds(c2) THEN c2 ELSE Idle)'
    BY <2>2, <2>11, <2>12, <2>13, <2>14, <2>15, <2>16, <2>17, <2>18, <2>19 DEF Disk
  <2> QED
    BY <1>1, <1>9, <2>1, <2>2, <2>11, <2>12, <2>20, Change DEF NoFs, Steps, Holds, Goes,
       Same, Like
<1> QED
  BY <1>6, <1>7, <1>8, <1>9

\* The old image is given back to the kernel.
LEMMA ReplaceUndoInv ==
  ASSUME Inv, NEW p \in Proc, ReplaceUndo(p), "dropped" \notin windows'
  PROVE  Inv'
<1> PICK c \in Calls : c = call[p]
  BY DEF Inv, Types
<1>1. Steps(c) /\ Holds(c) /\ c.pc = "rp_undo"
  BY DEF Inv, Control, ReplaceUndo, Holds, At
<1>2. Disk(c) /\ Types /\ Shapes /\ Listed
  BY <1>1, NowIs DEF Inv, Types
<1>3. /\ c.di = dd /\ dd \in Descriptor /\ dd # None /\ dd.base = "image" /\ dd.top \in {None, "delta"} /\ c.op = "replace"
     /\ names["image"] # None /\ names["image"] \in DOMAIN nodes /\ TopNode(dd) \in DOMAIN nodes
  BY <1>1, <1>2, DiskIs DEF Disk, Read, Holds, Steps, Calls, Descriptor, Names
<1>4. /\ tmp = [dd EXCEPT !.base = "copy"] /\ names["copy"] # None /\ names["copy"] \in DOMAIN nodes /\ names["copy"] \in Nat
     /\ names["copy"] # names["image"] /\ (names["image.tmp"] # None => names["image.tmp"] # names["copy"])
     /\ (dd.top # None => names["delta"] # names["copy"])
     /\ (c.own => dev # None) /\ (Placed => nodes[names["copy"]] = nodes[names["image"]])
  BY <1>1, <1>2, <1>3 DEF Disk, Working, Match, Shapes, Names, Listed, Distinct
<1>5. /\ (Placed => Matched /\ Apart(c))
     /\ (Placed /\ c.own => dev.deltas = [Deltas(dd) EXCEPT ![1] = names["copy"]] /\ dev.size = Size(dd))
     /\ (Placed /\ ~c.own => ~Found(dd)) /\ (Followed /\ ~c.own => dev = None)
     /\ (Stored => Fits(dd)) /\ (Followed /\ dev # None /\ dev.running => dev.max = dd.max)
     /\ (Returned => names["image.tmp"] = None /\ mnt # "temp" /\ (wanted <=> dev # None)) /\ ~Owns(c)
  BY <1>1, <1>2, <1>3 DEF Disk, Match, Swapping, Running, Followed, Fitting, Tidy, Owns
<1>6. \/ /\ dev' = [dev EXCEPT !.deltas[1] = names["image"]]
         /\ tmp' = None
         /\ Go(p, "ok")
         /\ UNCHANGED <<dd, names, nodes, mnt, part, fs, windows>>
      \/ /\ c.own
         /\ Still /\ windows' = windows
         /\ Go(p, "rp_conf")
  BY <1>1, <1>2, <1>3, <1>4, <1>5 DEF ReplaceUndo, NoFault, Go, Still, store, kernel,
     layout, Steps
<1>7. CASE /\ dev' = [dev EXCEPT !.deltas[1] = names["image"]]
           /\ tmp' = None
           /\ Go(p, "ok")
           /\ UNCHANGED <<dd, names, nodes, mnt, part, fs, windows>>
  <2>1. PICK c2 \in Calls : Becomes(p, c2) /\ Goes(c2, c, "ok") /\ UNCHANGED <<lock, wanted>>
    BY <1>1, <1>2, <1>7, GoIs
  <2>2. Steps(c2) /\ Holds(c2)
    BY <1>1, <1>7, <2>1 DEF Steps, Holds, Goes, Same, Like
  <2>3. /\ dev' \in Kernel /\ dev' # None
        /\ Len(dev'.deltas) >= 1 /\ (\A i \in DOMAIN dev'.deltas : dev'.deltas[i] \in DOMAIN nodes')
        /\ dev'.deltas = [dev.deltas EXCEPT ![1] = names["image"]] /\ dev'.deltas[1] = names["image"]
        /\ dev'.size = dev.size /\ dev'.running = dev.running /\ dev'.max = dev.max
      <3>1. dev # None /\ names["image"] \in Nat
        BY <1>1, <1>2, <1>3, <1>4 DEF Steps, Shapes, Names
      <3>2. dev' = [dev EXCEPT !.deltas[1] = names["image"]] /\ UNCHANGED nodes
        BY <1>7
      <3> QED
        BY <1>2, <1>3, <3>1, <3>2, SwapIs
  <2>4. /\ TopNode(dd)' = TopNode(dd) /\ Deltas(dd)' = Deltas(dd) /\ Size(dd)' = Size(dd) /\ Found(dd)'
        /\ dd' = dd /\ names' = names /\ nodes' = nodes /\ tmp' = None
    BY <1>3, <1>7, <2>3 DEF TopNode, Top, Deltas, Files, Size, Found
  <2>5. Placed => dev'.deltas = Deltas(dd) /\ dev'.size = Size(dd)
      <3> SUFFICES ASSUME Placed PROVE dev'.deltas = Deltas(dd) /\ dev'.size = Size(dd)
        OBVIOUS
      <3>1. dev.deltas = [Deltas(dd) EXCEPT ![1] = names["copy"]] /\ dev.size = Size(dd)
        BY <1>1, <1>5 DEF Steps
      <3>2. [Deltas(dd) EXCEPT ![1] = names["copy"]]
              = IF dd.top = None THEN <<names["copy"]>> ELSE <<names["copy"], names[dd.top]>>
        BY FirstIs
      <3>3. Deltas(dd) = IF dd.top = None THEN <<names["image"]>> ELSE <<names["image"], names[dd.top]>>
        BY <1>3, DeltasIs
      <3> QED
        BY <2>3, <3>1, <3>2, <3>3
  <2>6. Apart(Idle)'
    BY <1>2, <1>3, <1>4, <2>3, <2>4 DEF Apart, Listed, Distinct
  <2>7. Shapes'
    BY <1>1, <1>2, <1>7, <1>3, <1>4, <1>5, <2>1, <2>2, <2>3, <2>4, <2>5, <2>6 DEF Shapes
  <2>8. Listed' /\ dd' # None
      <3>1. Listed
        BY <1>2
      <3> QED
        BY <1>3, <2>4, <3>1 DEF Listed, Distinct
  <2>9. Working(c2)'
    BY <1>1, <1>2, <1>3, <1>7, <2>1, <2>3, <2>4 DEF Disk, Working, Steps, Goes, Same, Like
  <2>10. Read(c2)'
    BY <1>3, <2>1, <2>4 DEF Disk, Read, Holds, Steps, Goes, Same, Like
  <2>11. Placed' => Match(c2)'
      <3>1. Placed' => Placed
        BY <1>7 DEF Placed
      <3>2. c2.pc = "ok"
        BY <2>1 DEF Goes, Same, Like
      <3>3. Placed' => Matched'
        BY <2>4, <2>5, <3>1 DEF Matched
      <3>4. Placed' => Apart(c2)'
        BY <2>4, <2>6, <3>1, <3>2, IdleIs DEF Apart, Swapping
      <3> QED
        BY <3>1, <3>2, <3>3, <3>4 DEF Match, Swapping
  <2>12. Whole' => Lies(c2)'
      <3>1. Whole' => Placed /\ Lies(c)
        BY <1>2, <1>7 DEF Disk, Whole, Placed
      <3>2. c2.pc = "ok" /\ UNCHANGED <<part, fs, mnt>>
        BY <1>7, <2>1 DEF Goes, Same, Like
      <3> QED
        BY <1>3, <2>4, <3>1, <3>2 DEF Lies, Room
  <2>13. Stored' => Fitting(c2)'
      <3>1. Stored' => Fits(dd) /\ Formats(dd)
        BY <1>5, <1>7 DEF Stored, Placed, Fits
      <3>2. c2.pc = "ok"
        BY <2>1 DEF Goes, Same, Like
      <3>3. Formats(dd) => Formats(dd)'
        BY <2>4 DEF Formats
      <3> QED
        BY <2>4, <3>1, <3>2, <3>3 DEF Fitting, Fits
  <2>14. Followed' => Running(c2)'
      <3>1. Followed' => Followed
        BY <1>7 DEF Followed, Placed
      <3>2. c2.pc = "ok"
        BY <2>1 DEF Goes, Same, Like
      <3>3. dev # None
        BY <1>1, <1>4 DEF Steps
      <3> QED
        BY <1>3, <1>5, <2>3, <2>4, <3>1, <3>2, <3>3 DEF Running
  <2>15. Returned' => Tidy(c2)'
      <3>1. c2.op = "replace" /\ c2.pc = "ok" /\ ~Owns(c2)
        BY <1>3, <2>1 DEF Goes, Same, Like, Owns
      <3>2. UNCHANGED <<mnt, wanted>> /\ tmp' = None /\ (Returned' => Returned)
        BY <1>7, <2>1 DEF Returned
      <3>3. names'["image.tmp"] = names["image.tmp"] /\ (dev' # None <=> dev # None)
        BY <1>1, <1>4, <1>7, <2>3 DEF Steps
      <3> QED
        BY <1>5, <3>1, <3>2, <3>3 DEF Tidy
  <2>16. Disk(IF Holds(c2) THEN c2 ELSE Idle)'
    BY <2>2, <2>7, <2>8, <2>9, <2>10, <2>11, <2>12, <2>13, <2>14, <2>15 DEF Disk
  <2> QED
    BY <1>1, <1>7, <2>1, <2>2, <2>7, <2>8, <2>16, Change DEF NoFs, Steps, Holds, Goes, Same,
       Like
<1>8. CASE /\ c.own
           /\ Still /\ windows' = windows
           /\ Go(p, "rp_conf")
  <2>1. PICK c2 \in Calls : Becomes(p, c2) /\ Goes(c2, c, "rp_conf") /\ UNCHANGED <<lock, wanted>>
    BY <1>1, <1>2, <1>8, GoIs
  <2>2. Steps(c2) /\ Holds(c2)
    BY <1>1, <1>8, <2>1, <1>3 DEF Steps, Holds, Goes, Same, Like
  <2>3. Working(c2)
    BY <1>1, <1>2, <1>8, <1>3, <1>4, <1>5, <2>1, <2>2 DEF Disk, Working, Steps, Goes, Same,
       Like, Still
  <2>4. Read(c2)
    BY <1>1, <1>2, <1>8, <1>3, <1>4, <1>5, <2>1, <2>2 DEF Disk, Read, Holds, Steps, Goes,
       Same, Like, Still
  <2>5. Placed' => Match(c2)
    BY <1>1, <1>2, <1>8, <1>3, <1>4, <1>5, <2>1, <2>2 DEF Disk, Match, Matched, Apart,
       Swapping, Steps, Goes, Same, Like, Still, Placed, When
  <2>6. Whole' => Lies(c2)
    BY <1>1, <1>2, <1>8, <1>3, <1>4, <1>5, <2>1, <2>2 DEF Disk, Lies, Steps, Goes, Same,
       Like, Still, Whole, Placed, When
  <2>7. Stored' => Fitting(c2)
    BY <1>1, <1>2, <1>8, <1>3, <1>4, <1>5, <2>1, <2>2 DEF Disk, Fitting, Steps, Goes, Same,
       Like, Still, Stored, Placed, When
  <2>8. Followed' => Running(c2)
    BY <1>1, <1>2, <1>8, <1>3, <1>4, <1>5, <2>1, <2>2 DEF Disk, Running, Swapping, Steps,
       Goes, Same, Like, Still, Followed, Placed, When
  <2>9. Returned' => Tidy(c2)
    BY <1>1, <1>2, <1>8, <1>3, <1>4, <1>5, <2>1, <2>2 DEF Disk, Tidy, Owns, Working, Steps,
       Goes, Same, Like, Still, Returned, When
  <2>10. Finds(IF Holds(c2) THEN c2 ELSE Idle)
    BY <2>2, <2>3, <2>4, <2>5, <2>6, <2>7, <2>8, <2>9 DEF Finds
  <2>11. Moved(p, c2)
    BY <1>8, <2>1 DEF Moved, Still, store, kernel, layout
  <2> QED
    BY <1>1, <1>8, <2>1, <2>2, <2>10, <2>11, Move DEF NoFs, Steps, Holds, Goes, Same, Like
<1> QED
  BY <1>6, <1>7, <1>8

\* The descriptor with the new image takes the place of the old one.
LEMMA ReplaceConfInv ==
  ASSUME Inv, NEW p \in Proc, ReplaceConf(p), "dropped" \notin windows'
  PROVE  Inv'
<1> PICK c \in Calls : c = call[p]
  BY DEF Inv, Types
<1>1. Steps(c) /\ Holds(c) /\ c.pc = "rp_conf"
  BY DEF Inv, Control, ReplaceConf, Holds, At
<1>2. Disk(c) /\ Types /\ Shapes /\ Listed
  BY <1>1, NowIs DEF Inv, Types
<1>3. /\ c.di = dd /\ dd \in Descriptor /\ dd # None /\ dd.base = "image" /\ dd.top \in {None, "delta"} /\ c.op = "replace"
     /\ names["image"] # None /\ names["image"] \in DOMAIN nodes /\ TopNode(dd) \in DOMAIN nodes
  BY <1>1, <1>2, DiskIs DEF Disk, Read, Holds, Steps, Calls, Descriptor, Names
<1>4. /\ tmp = [dd EXCEPT !.base = "copy"] /\ names["copy"] # None /\ names["copy"] \in DOMAIN nodes /\ names["copy"] \in Nat
     /\ names["copy"] # names["image"] /\ (names["image.tmp"] # None => names["image.tmp"] # names["copy"])
     /\ (dd.top # None => names["delta"] # names["copy"])
     /\ (c.own => dev # None) /\ (Placed => nodes[names["copy"]] = nodes[names["image"]])
  BY <1>1, <1>2, <1>3 DEF Disk, Working, Match, Shapes, Names, Listed, Distinct
<1>5. /\ (Placed => Matched /\ Apart(c))
     /\ (Placed /\ c.own => dev.deltas = [Deltas(dd) EXCEPT ![1] = names["copy"]] /\ dev.size = Size(dd))
     /\ (Placed /\ ~c.own => ~Found(dd)) /\ (Followed /\ ~c.own => dev = None)
     /\ (Stored => Fits(dd)) /\ (Followed /\ dev # None /\ dev.running => dev.max = dd.max)
     /\ (Returned => names["image.tmp"] = None /\ mnt # "temp" /\ (wanted <=> dev # None)) /\ ~Owns(c)
  BY <1>1, <1>2, <1>3 DEF Disk, Match, Swapping, Running, Followed, Fitting, Tidy, Owns
<1>6. \/ /\ c.own
         /\ Still /\ windows' = windows \cup {"replaced", "tmp kept"}
         /\ Go(p, "fail")
      \/ /\ ~c.own
         /\ Still /\ windows' = windows \cup {"tmp kept"}
         /\ Go(p, "fail")
      \/ /\ dd' = tmp /\ tmp' = None
         /\ Go(p, "ok")
         /\ UNCHANGED <<names, nodes, dev, mnt, part, fs, lock, wanted, windows>>
  BY <1>1, <1>2, <1>3, <1>4, <1>5, HalfIs DEF ReplaceConf, NoFault, Go, Still, store,
     kernel, layout
<1>7. CASE /\ c.own
           /\ Still /\ windows' = windows \cup {"replaced", "tmp kept"}
           /\ Go(p, "fail")
  <2>1. PICK c2 \in Calls : Becomes(p, c2) /\ Goes(c2, c, "fail") /\ UNCHANGED <<lock, wanted>>
    BY <1>1, <1>2, <1>7, GoIs
  <2>2. Steps(c2) /\ Holds(c2)
    BY <1>1, <1>7, <2>1 DEF Steps, Holds, Goes, Same, Like
  <2>3. Working(c2)
    BY <1>1, <1>2, <1>7, <1>3, <1>4, <1>5, <2>1, <2>2 DEF Disk, Working, Steps, Goes, Same,
       Like, Still
  <2>4. Read(c2)
    BY <1>1, <1>2, <1>7, <1>3, <1>4, <1>5, <2>1, <2>2 DEF Disk, Read, Holds, Steps, Goes,
       Same, Like, Still
  <2>5. Placed' => Match(c2)
    BY <1>1, <1>2, <1>7, <1>3, <1>4, <1>5, <2>1, <2>2 DEF Disk, Match, Matched, Apart,
       Swapping, Steps, Goes, Same, Like, Still, Placed, When
  <2>6. Whole' => Lies(c2)
    BY <1>1, <1>2, <1>7, <1>3, <1>4, <1>5, <2>1, <2>2 DEF Disk, Lies, Steps, Goes, Same,
       Like, Still, Whole, Placed, When
  <2>7. Stored' => Fitting(c2)
    BY <1>1, <1>2, <1>7, <1>3, <1>4, <1>5, <2>1, <2>2 DEF Disk, Fitting, Steps, Goes, Same,
       Like, Still, Stored, Placed, When
  <2>8. Followed' => Running(c2)
    BY <1>1, <1>2, <1>7, <1>3, <1>4, <1>5, <2>1, <2>2 DEF Disk, Running, Swapping, Steps,
       Goes, Same, Like, Still, Followed, Placed, When
  <2>9. Returned' => Tidy(c2)
    BY <1>1, <1>2, <1>7, <1>3, <1>4, <1>5, <2>1, <2>2 DEF Disk, Tidy, Owns, Working, Steps,
       Goes, Same, Like, Still, Returned, When
  <2>10. Finds(IF Holds(c2) THEN c2 ELSE Idle)
    BY <2>2, <2>3, <2>4, <2>5, <2>6, <2>7, <2>8, <2>9 DEF Finds
  <2>11. Moved(p, c2)
    BY <1>7, <2>1 DEF Moved, Still, store, kernel, layout
  <2> QED
    BY <1>1, <1>7, <2>1, <2>2, <2>10, <2>11, Move DEF NoFs, Steps, Holds, Goes, Same, Like
<1>8. CASE /\ ~c.own
           /\ Still /\ windows' = windows \cup {"tmp kept"}
           /\ Go(p, "fail")
  <2>1. PICK c2 \in Calls : Becomes(p, c2) /\ Goes(c2, c, "fail") /\ UNCHANGED <<lock, wanted>>
    BY <1>1, <1>2, <1>8, GoIs
  <2>2. Steps(c2) /\ Holds(c2)
    BY <1>1, <1>8, <2>1, <1>3 DEF Steps, Holds, Goes, Same, Like
  <2>3. Working(c2)
    BY <1>1, <1>2, <1>8, <1>3, <1>4, <1>5, <2>1, <2>2 DEF Disk, Working, Steps, Goes, Same,
       Like, Still
  <2>4. Read(c2)
    BY <1>1, <1>2, <1>8, <1>3, <1>4, <1>5, <2>1, <2>2 DEF Disk, Read, Holds, Steps, Goes,
       Same, Like, Still
  <2>5. Placed' => Match(c2)
    BY <1>1, <1>2, <1>8, <1>3, <1>4, <1>5, <2>1, <2>2 DEF Disk, Match, Matched, Apart,
       Swapping, Steps, Goes, Same, Like, Still, Placed, When
  <2>6. Whole' => Lies(c2)
    BY <1>1, <1>2, <1>8, <1>3, <1>4, <1>5, <2>1, <2>2 DEF Disk, Lies, Steps, Goes, Same,
       Like, Still, Whole, Placed, When
  <2>7. Stored' => Fitting(c2)
    BY <1>1, <1>2, <1>8, <1>3, <1>4, <1>5, <2>1, <2>2 DEF Disk, Fitting, Steps, Goes, Same,
       Like, Still, Stored, Placed, When
  <2>8. Followed' => Running(c2)
    BY <1>1, <1>2, <1>8, <1>3, <1>4, <1>5, <2>1, <2>2 DEF Disk, Running, Swapping, Steps,
       Goes, Same, Like, Still, Followed, Placed, When
  <2>9. Returned' => Tidy(c2)
    BY <1>1, <1>2, <1>8, <1>3, <1>4, <1>5, <2>1, <2>2 DEF Disk, Tidy, Owns, Working, Steps,
       Goes, Same, Like, Still, Returned, When
  <2>10. Finds(IF Holds(c2) THEN c2 ELSE Idle)
    BY <2>2, <2>3, <2>4, <2>5, <2>6, <2>7, <2>8, <2>9 DEF Finds
  <2>11. Moved(p, c2)
    BY <1>8, <2>1 DEF Moved, Still, store, kernel, layout
  <2> QED
    BY <1>1, <1>8, <2>1, <2>2, <2>10, <2>11, Move DEF NoFs, Steps, Holds, Goes, Same, Like
<1>9. CASE /\ dd' = tmp /\ tmp' = None
           /\ Go(p, "ok")
           /\ UNCHANGED <<names, nodes, dev, mnt, part, fs, lock, wanted, windows>>
  <2>1. PICK c2 \in Calls : Becomes(p, c2) /\ Goes(c2, c, "ok") /\ UNCHANGED <<lock, wanted>>
    BY <1>1, <1>2, <1>9, GoIs
  <2>2. Steps(c2) /\ Holds(c2)
    BY <1>1, <1>9, <2>1 DEF Steps, Holds, Goes, Same, Like
  <2>3. /\ tmp \in Descriptor /\ tmp # None /\ tmp.base = "copy" /\ tmp.top = dd.top /\ tmp.size = dd.size /\ tmp.max = dd.max /\ tmp.mode = dd.mode
    BY <1>3, <1>4, NoneAssumption DEF Descriptor
  <2>4. dd' = tmp /\ names' = names /\ nodes' = nodes /\ tmp' = None /\ dev' = dev /\ dd' # None
    BY <1>9, <2>3
  <2>5. /\ Deltas(dd)' = [Deltas(dd) EXCEPT ![1] = names["copy"]] /\ [Deltas(dd) EXCEPT ![1] = names["copy"]][1] = names["copy"]
        /\ (Found(dd)' <=> dev # None /\ dev.deltas[1] = names["copy"])
      <3>1. Deltas(dd)' = IF dd.top = None THEN <<names["copy"]>> ELSE <<names["copy"], names[dd.top]>>
        BY <1>3, <2>3, <2>4 DEF Deltas, Files
      <3>2. [Deltas(dd) EXCEPT ![1] = names["copy"]]
              = IF dd.top = None THEN <<names["copy"]>> ELSE <<names["copy"], names[dd.top]>>
        BY FirstIs
      <3>3. [Deltas(dd) EXCEPT ![1] = names["copy"]][1] = names["copy"]
        BY FirstIs
      <3>4. Found(dd)' <=> dev # None /\ dev.deltas[1] = names["copy"]
        BY <1>3, <1>4, <2>3, <2>4 DEF Found
      <3> QED
        BY <3>1, <3>2, <3>3, <3>4
  <2>6. Placed => Size(dd)' = Size(dd)
    BY <1>3, <1>4, <2>3, <2>4 DEF Size, TopNode, Top
  <2>7. Placed => Matched'
    BY <1>4, <1>5, <1>3, <1>1, <2>3, <2>4, <2>5, <2>6 DEF Matched, Apart, Swapping
  <2>8. Placed => Apart(Idle)'
    BY <1>4, <1>5, <1>3, <1>1, <2>3, <2>4, <2>5 DEF Apart, Swapping
  <2>9. Stored => Fits(dd)'
    BY <1>3, <1>4, <1>5, <2>3, <2>4, <2>6 DEF Fits, Formats, Stored
  <2>10. Followed => dev = None \/ Found(dd)'
    BY <1>4, <1>5, <2>5 DEF Followed
  <2>11. Shapes'
    BY <1>1, <1>2, <1>9, <1>3, <1>4, <1>5, <2>1, <2>2, <2>3, <2>4, <2>5, <2>6, <2>7, <2>8,
       <2>9, <2>10 DEF Shapes
  <2>12. Listed' /\ dd' # None
      <3>1. Listed
        BY <1>2
      <3> QED
        BY <1>3, <1>4, <3>1, <2>3, <2>4 DEF Listed, Distinct
  <2>13. Working(c2)'
    BY <1>1, <1>2, <1>3, <1>9, <2>1, <2>4 DEF Disk, Working, Steps, Goes, Same, Like
  <2>14. Read(c2)'
    BY <1>3, <2>1, <2>4 DEF Disk, Read, Holds, Steps, Goes, Same, Like
  <2>15. Placed' => Match(c2)'
      <3>1. Placed' => Placed
        BY <1>9 DEF Placed
      <3>2. c2.pc = "ok"
        BY <2>1 DEF Goes, Same, Like
      <3>3. Placed' => Apart(c2)'
        BY <2>4, <2>8, <3>1, <3>2, IdleIs DEF Apart, Swapping
      <3> QED
        BY <2>7, <3>1, <3>2, <3>3 DEF Match, Swapping
  <2>16. Whole' => Lies(c2)'
      <3>1. Whole' => Placed /\ Lies(c)
        BY <1>2, <1>9 DEF Disk, Whole, Placed
      <3>2. c2.pc = "ok" /\ UNCHANGED <<part, fs, mnt>>
        BY <1>9, <2>1 DEF Goes, Same, Like
      <3> QED
        BY <1>3, <2>4, <2>6, <3>1, <3>2 DEF Lies, Room
  <2>17. Stored' => Fitting(c2)'
      <3>1. Stored' => Stored
        BY <1>9 DEF Stored, Placed
      <3>2. c2.pc = "ok"
        BY <2>1 DEF Goes, Same, Like
      <3> QED
        BY <2>9, <3>1, <3>2 DEF Fitting
  <2>18. Followed' => Running(c2)'
      <3>1. Followed' => Followed
        BY <1>9 DEF Followed, Placed
      <3>2. c2.pc = "ok"
        BY <2>1 DEF Goes, Same, Like
      <3> QED
        BY <1>3, <1>5, <2>3, <2>4, <2>10, <3>1, <3>2 DEF Running
  <2>19. Returned' => Tidy(c2)'
      <3>1. c2.op = "replace" /\ c2.pc = "ok" /\ ~Owns(c2)
        BY <1>3, <2>1 DEF Goes, Same, Like, Owns
      <3>2. UNCHANGED <<mnt, wanted>> /\ tmp' = None /\ (Returned' => Returned)
        BY <1>9, <2>1 DEF Returned
      <3>3. names'["image.tmp"] = names["image.tmp"] /\ (dev' # None <=> dev # None)
        BY <1>9, <2>3
      <3> QED
        BY <1>5, <3>1, <3>2, <3>3 DEF Tidy
  <2>20. Disk(IF Holds(c2) THEN c2 ELSE Idle)'
    BY <2>2, <2>11, <2>12, <2>13, <2>14, <2>15, <2>16, <2>17, <2>18, <2>19 DEF Disk
  <2> QED
    BY <1>1, <1>9, <2>1, <2>2, <2>11, <2>12, <2>20, Change DEF NoFs, Steps, Holds, Goes,
       Same, Like
<1> QED
  BY <1>6, <1>7, <1>8, <1>9

-----------------------------------------------------------------------------
(* The limit of a device and of a descriptor.                              *)

\* A device with the limit lifted.
LEMMA KernelMaxIs ==
  ASSUME NEW d \in Kernel, NEW e, e = [d EXCEPT !.max = 1]
  PROVE  /\ e \in Kernel /\ e # None
         /\ e.max = 1 /\ e.deltas = d.deltas /\ e.size = d.size /\ e.running = d.running
<1>1. e \in Kernel /\ e.max = 1 /\ e.deltas = d.deltas /\ e.size = d.size /\ e.running = d.running
  BY DEF Kernel
<1> QED
  BY <1>1, NoneAssumption

\* A descriptor with the limit lifted.
LEMMA StoredMaxIs ==
  ASSUME NEW d \in Descriptor, NEW e, e = [d EXCEPT !.max = 1]
  PROVE  /\ e \in Descriptor /\ e # None
         /\ e.max = 1 /\ e.mode = d.mode /\ e.size = d.size /\ e.base = d.base /\ e.top = d.top
<1>1. /\ e \in Descriptor
      /\ e.max = 1 /\ e.mode = d.mode /\ e.size = d.size /\ e.base = d.base /\ e.top = d.top
  BY DEF Descriptor
<1> QED
  BY <1>1, NoneAssumption

\* The limit of the device.
LEMMA SetMaxDeviceInv ==
  ASSUME Inv, NEW p \in Proc, SetMaxDevice(p), "dropped" \notin windows'
  PROVE  Inv'
<1> PICK c \in Calls : c = call[p]
  BY DEF Inv, Types
<1>1. Steps(c) /\ Holds(c) /\ c.pc = "locked" /\ c.op = "max"
  BY DEF Inv, Control, SetMaxDevice, Holds, Entry, At
<1>2. Disk(c) /\ Types /\ Shapes /\ Listed
  BY <1>1, NowIs DEF Inv, Types
<1>3. c.di = dd /\ dd \in Descriptor /\ dd # None /\ c.op = "max" /\ ~c.own
  BY <1>1, <1>2, DiskIs DEF Disk, Read, Holds, Steps
<1>4. \/ /\ dev' = IF Found(dd) THEN [dev EXCEPT !.max = 1] ELSE dev
         /\ Go(p, "max_store")
         /\ UNCHANGED <<dd, tmp, names, nodes, mnt, part, fs, windows>>
      \/ /\ Still /\ windows' = windows
         /\ Go(p, "fail")
  BY <1>1, <1>2, <1>3 DEF SetMaxDevice, NoFault, Go, Still, store, kernel, layout
<1>5. CASE /\ dev' = IF Found(dd) THEN [dev EXCEPT !.max = 1] ELSE dev
           /\ Go(p, "max_store")
           /\ UNCHANGED <<dd, tmp, names, nodes, mnt, part, fs, windows>>
  <2>1. PICK c2 \in Calls : Becomes(p, c2) /\ Goes(c2, c, "max_store") /\ UNCHANGED <<lock, wanted>>
    BY <1>1, <1>2, <1>5, GoIs
  <2>2. Steps(c2) /\ Holds(c2)
    BY <1>1, <1>5, <2>1 DEF Steps, Holds, Goes, Same, Like
  <2>3. /\ dev' \in Kernel \cup {None} /\ (dev' = None <=> dev = None)
        /\ dev # None => dev'.deltas = dev.deltas /\ dev'.size = dev.size /\ dev'.running = dev.running
        /\ Found(dd) => dev'.max = 1
      <3>1. CASE Found(dd)
        <4>1. dev \in Kernel /\ dev # None /\ dev' = [dev EXCEPT !.max = 1]
          BY <1>2, <1>5, <3>1 DEF Shapes, Found
        <4> QED
          BY <4>1, KernelMaxIs
      <3>2. CASE ~Found(dd)
        BY <1>2, <1>5, <3>2 DEF Shapes
      <3> QED
        BY <3>1, <3>2
  <2>4. Deltas(dd)' = Deltas(dd) /\ Size(dd)' = Size(dd) /\ (Found(dd)' <=> Found(dd)) /\ dd' = dd /\ names' = names /\ nodes' = nodes
      <3>1. UNCHANGED <<dd, names, nodes>>
        BY <1>5
      <3>2. Found(dd)' <=> Found(dd)
        BY <2>3, <3>1 DEF Found
      <3> QED
        BY <3>1, <3>2 DEF Deltas, Files, Size, TopNode, Top
  <2>5. Shapes'
    BY <1>1, <1>2, <1>5, <1>3, <2>1, <2>2, <2>3, <2>4 DEF Shapes
  <2>6. Listed' /\ dd' # None
    BY <1>1, <1>2, <1>5, <1>3, <2>1, <2>2, <2>3, <2>4 DEF Disk, Read, Listed, Distinct,
       Holds
  <2>7. Working(c2)'
    BY <1>1, <1>2, <1>5, <1>3, <2>1, <2>2, <2>3, <2>4 DEF Disk, Working, Steps, Goes, Same,
       Like
  <2>8. Read(c2)'
    BY <1>1, <1>2, <1>5, <1>3, <2>1, <2>2, <2>3, <2>4 DEF Disk, Read, Holds, Steps, Goes,
       Same, Like
  <2>9. Placed' => Match(c2)'
    <3>1. Placed => Match(c)
      BY <1>2 DEF Disk
    <3>2. Placed' => Matched'
      BY <1>1, <1>2, <1>5, <1>3, <2>1, <2>2, <2>3, <2>4, <3>1 DEF Match, Matched, Placed
    <3>3. Placed' => Apart(c2)'
      BY <1>1, <1>2, <1>5, <1>3, <2>1, <2>2, <2>3, <2>4, <3>1 DEF Match, Apart, Swapping,
         Placed, Goes, Same, Like
    <3> QED
      BY <1>1, <1>2, <1>5, <1>3, <2>1, <2>2, <2>3, <2>4, <3>1, <3>2, <3>3 DEF Match,
         Swapping, Steps, Placed, Goes, Same, Like
  <2>10. Whole' => Lies(c2)'
    BY <1>1, <1>2, <1>5, <1>3, <2>1, <2>2, <2>3, <2>4 DEF Disk, Lies, Steps, Goes, Same,
       Like, Whole, Placed, When, Room, Size, TopNode, Top
  <2>11. Stored' => Fitting(c2)'
    BY <1>1, <1>2, <1>5, <1>3, <2>1, <2>2, <2>3, <2>4 DEF Disk, Fitting, Steps, Goes, Same,
       Like, Stored, Placed, When, Fits, Formats, Size, TopNode, Top
  <2>12. Followed' => Running(c2)'
      <3>1. Followed' => Running(c)
        BY <1>2, <1>5 DEF Followed, Placed, Disk
      <3>2. c2.pc = "max_store" /\ ~c2.own
        BY <1>3, <2>1 DEF Goes, Same, Like
      <3> QED
        BY <1>1, <1>3, <2>3, <2>4, <3>1, <3>2 DEF Running, Swapping
  <2>13. Returned' => Tidy(c2)'
      <3>1. c.op = "max"
        BY <1>1 DEF Steps
      <3>2. (Owns(c2) <=> Owns(c)) /\ c2.op = c.op /\ c2.own = c.own /\ c2.umfs = c.umfs /\ c2.pc = "max_store"
        BY <1>1, <1>5, <2>1, <2>1 DEF Owns, Steps, Goes, Same, Like
      <3>3. UNCHANGED <<mnt, names, wanted>> /\ UNCHANGED tmp
        BY <1>5, <2>1
      <3>4. dev' = None <=> dev = None
        BY <1>5, <2>1, <2>3
      <3>5. Returned' => Tidy(c)
        BY <1>2, <1>5, <2>1 DEF Disk, Returned
      <3> QED
        BY <1>1, <3>1, <3>2, <3>3, <3>4, <3>5 DEF Tidy
  <2>14. Disk(IF Holds(c2) THEN c2 ELSE Idle)'
    BY <2>2, <2>5, <2>6, <2>7, <2>8, <2>9, <2>10, <2>11, <2>12, <2>13 DEF Disk
  <2> QED
    BY <1>1, <1>5, <2>1, <2>2, <2>5, <2>6, <2>14, Change DEF NoFs, Steps, Holds, Goes, Same,
       Like
<1>6. CASE /\ Still /\ windows' = windows
           /\ Go(p, "fail")
  BY <1>1, <1>2, <1>6, Declines
<1> QED
  BY <1>4, <1>5, <1>6

\* The limit of the descriptor.
LEMMA SetMaxStoreInv ==
  ASSUME Inv, NEW p \in Proc, SetMaxStore(p), "dropped" \notin windows'
  PROVE  Inv'
<1> PICK c \in Calls : c = call[p]
  BY DEF Inv, Types
<1>1. Steps(c) /\ Holds(c) /\ c.pc = "max_store"
  BY DEF Inv, Control, SetMaxStore, Holds, At
<1>2. Disk(c) /\ Types /\ Shapes /\ Listed
  BY <1>1, NowIs DEF Inv, Types
<1>3. c.di = dd /\ dd \in Descriptor /\ dd # None /\ c.op = "max" /\ ~c.own
  BY <1>1, <1>2, DiskIs DEF Disk, Read, Holds, Steps
<1>4. \/ /\ dd' = [dd EXCEPT !.max = 1]
         /\ Go(p, "ok")
         /\ UNCHANGED <<tmp, names, nodes, dev, mnt, part, fs, windows>>
      \/ /\ Still /\ windows' = windows \cup {"limited"}
         /\ Go(p, "fail")
  BY <1>1, <1>2, <1>3, HalfIs DEF SetMaxStore, NoFault, Go, Still, store, kernel, layout
<1>5. CASE /\ dd' = [dd EXCEPT !.max = 1]
           /\ Go(p, "ok")
           /\ UNCHANGED <<tmp, names, nodes, dev, mnt, part, fs, windows>>
  <2>1. PICK c2 \in Calls : Becomes(p, c2) /\ Goes(c2, c, "ok") /\ UNCHANGED <<lock, wanted>>
    BY <1>1, <1>2, <1>5, GoIs
  <2>2. Steps(c2) /\ Holds(c2)
    BY <1>1, <1>5, <2>1 DEF Steps, Holds, Goes, Same, Like
  <2>3. /\ dd' \in Descriptor /\ dd' # None /\ dd'.max = 1
        /\ dd'.mode = dd.mode /\ dd'.size = dd.size /\ dd'.base = dd.base /\ dd'.top = dd.top
        /\ names' = names /\ nodes' = nodes /\ dev' = dev
    BY <1>3, <1>5, StoredMaxIs
  <2>4. TopNode(dd)' = TopNode(dd) /\ Deltas(dd)' = Deltas(dd) /\ Size(dd)' = Size(dd) /\ (Found(dd)' <=> Found(dd))
    BY <2>3 DEF Deltas, Files, Size, TopNode, Top, Found
  <2>5. Shapes'
    BY <1>1, <1>2, <1>5, <1>3, <2>1, <2>2, <2>3, <2>4 DEF Shapes
  <2>6. Listed' /\ dd' # None
    BY <1>1, <1>2, <1>5, <1>3, <2>1, <2>2, <2>3, <2>4 DEF Disk, Read, Listed, Distinct,
       Holds
  <2>7. Working(c2)'
    BY <1>1, <1>2, <1>5, <1>3, <2>1, <2>2, <2>3, <2>4 DEF Disk, Working, Steps, Goes, Same,
       Like
  <2>8. Read(c2)'
    BY <1>1, <1>2, <1>5, <1>3, <2>1, <2>2, <2>3, <2>4 DEF Disk, Read, Holds, Steps, Goes,
       Same, Like
  <2>9. Placed' => Match(c2)'
    <3>1. Placed => Match(c)
      BY <1>2 DEF Disk
    <3>2. Placed' => Matched'
      BY <1>1, <1>2, <1>5, <1>3, <2>1, <2>2, <2>3, <2>4, <3>1 DEF Match, Matched, Placed
    <3>3. Placed' => Apart(c2)'
      BY <1>1, <1>2, <1>5, <1>3, <2>1, <2>2, <2>3, <2>4, <3>1 DEF Match, Apart, Swapping,
         Placed, Goes, Same, Like
    <3> QED
      BY <1>1, <1>2, <1>5, <1>3, <2>1, <2>2, <2>3, <2>4, <3>1, <3>2, <3>3 DEF Match,
         Swapping, Steps, Placed, Goes, Same, Like
  <2>10. Whole' => Lies(c2)'
    BY <1>1, <1>2, <1>5, <1>3, <2>1, <2>2, <2>3, <2>4 DEF Disk, Lies, Steps, Goes, Same,
       Like, Whole, Placed, When, Room, Size, TopNode, Top
  <2>11. Stored' => Fitting(c2)'
    BY <1>1, <1>2, <1>5, <1>3, <2>1, <2>2, <2>3, <2>4 DEF Disk, Fitting, Steps, Goes, Same,
       Like, Stored, Placed, When, Fits, Formats, Size, TopNode, Top
  <2>12. Followed' => Running(c2)'
      <3>1. Followed' => Running(c)
        BY <1>2, <1>5 DEF Followed, Placed, Disk
      <3>2. c2.pc = "ok" /\ ~c.own
        BY <1>3, <2>1 DEF Goes, Same, Like
      <3> QED
        BY <1>1, <1>3, <2>3, <2>4, <3>1, <3>2 DEF Running, Swapping
  <2>13. Returned' => Tidy(c2)'
      <3>1. c.op = "max"
        BY <1>1 DEF Steps
      <3>2. (Owns(c2) <=> Owns(c)) /\ c2.op = c.op /\ c2.own = c.own /\ c2.umfs = c.umfs /\ c2.pc = "ok"
        BY <1>1, <1>5, <2>1, <2>1 DEF Owns, Steps, Goes, Same, Like
      <3>3. UNCHANGED <<mnt, names, wanted>> /\ UNCHANGED tmp
        BY <1>5, <2>1
      <3>4. UNCHANGED dev
        BY <1>5, <2>1
      <3>5. Returned' => Tidy(c)
        BY <1>2, <1>5, <2>1 DEF Disk, Returned
      <3> QED
        BY <1>1, <3>1, <3>2, <3>3, <3>4, <3>5 DEF Tidy
  <2>14. Disk(IF Holds(c2) THEN c2 ELSE Idle)'
    BY <2>2, <2>5, <2>6, <2>7, <2>8, <2>9, <2>10, <2>11, <2>12, <2>13 DEF Disk
  <2> QED
    BY <1>1, <1>5, <2>1, <2>2, <2>5, <2>6, <2>14, Change DEF NoFs, Steps, Holds, Goes, Same,
       Like
<1>6. CASE /\ Still /\ windows' = windows \cup {"limited"}
           /\ Go(p, "fail")
  <2>1. PICK c2 \in Calls : Becomes(p, c2) /\ Goes(c2, c, "fail") /\ UNCHANGED <<lock, wanted>>
    BY <1>1, <1>2, <1>6, GoIs
  <2>2. Steps(c2) /\ Holds(c2)
    BY <1>1, <1>6, <2>1 DEF Steps, Holds, Goes, Same, Like
  <2>3. Working(c2)
    BY <1>1, <1>2, <1>6, <1>3, <2>1, <2>2 DEF Disk, Working, Steps, Goes, Same, Like, Still
  <2>4. Read(c2)
    BY <1>1, <1>2, <1>6, <1>3, <2>1, <2>2 DEF Disk, Read, Holds, Steps, Goes, Same, Like,
       Still
  <2>5. Placed' => Match(c2)
    BY <1>1, <1>2, <1>6, <1>3, <2>1, <2>2 DEF Disk, Match, Matched, Apart, Swapping, Steps,
       Goes, Same, Like, Still, Placed, When
  <2>6. Whole' => Lies(c2)
    BY <1>1, <1>2, <1>6, <1>3, <2>1, <2>2 DEF Disk, Lies, Steps, Goes, Same, Like, Still,
       Whole, Placed, When
  <2>7. Stored' => Fitting(c2)
    BY <1>1, <1>2, <1>6, <1>3, <2>1, <2>2 DEF Disk, Fitting, Steps, Goes, Same, Like, Still,
       Stored, Placed, When
  <2>8. Followed' => Running(c2)
    BY <1>1, <1>2, <1>6, <1>3, <2>1, <2>2 DEF Disk, Running, Swapping, Steps, Goes, Same,
       Like, Still, Followed, Placed, When
  <2>9. Returned' => Tidy(c2)
    BY <1>1, <1>2, <1>6, <1>3, <2>1, <2>2 DEF Disk, Tidy, Owns, Working, Steps, Goes, Same,
       Like, Still, Returned, When
  <2>10. Finds(IF Holds(c2) THEN c2 ELSE Idle)
    BY <2>2, <2>3, <2>4, <2>5, <2>6, <2>7, <2>8, <2>9 DEF Finds
  <2>11. Moved(p, c2)
    BY <1>6, <2>1 DEF Moved, Still, store, kernel, layout
  <2> QED
    BY <1>1, <1>6, <2>1, <2>2, <2>10, <2>11, Move DEF NoFs, Steps, Holds, Goes, Same, Like
<1> QED
  BY <1>4, <1>5, <1>6

-----------------------------------------------------------------------------
(* The initial states.                                                     *)

\* At first nobody is at work.
LEMMA Begun ==
  ASSUME Init
  PROVE  /\ tmp = None /\ dev = None /\ mnt = "none" /\ lock = None
         /\ call \in [Proc -> Calls] /\ \A p \in Proc : call[p] = Idle
         /\ wanted = FALSE /\ Now = Idle /\ Control
<1>1. Idle \in Calls
  BY DEF Idle, Calls, Modes, Targets, Thens, Elses
<1>2. /\ tmp = None /\ dev = None /\ mnt = "none" /\ lock = None
      /\ call \in [Proc -> Calls] /\ \A p \in Proc : call[p] = Idle
      /\ wanted = FALSE /\ Now = Idle
  BY <1>1 DEF Init, Now
<1>3. Steps(Idle) /\ ~Holds(Idle)
  BY IdleIs DEF Idle, Steps, Holds
<1> QED
  BY <1>2, <1>3 DEF Control

\* Where there is no disk yet, the invariant holds.
LEMMA EmptyInit ==
  ASSUME Init, Empty
  PROVE  Inv
<1>1. /\ dd = None /\ names = [f \in Names |-> None] /\ DOMAIN nodes = {} /\ part = 0 /\ fs = 0
  BY DEF Empty
<1>2. Types
  <2>1. IsFiniteSet(DOMAIN nodes)
    BY <1>1, FS_EmptySet
  <2> QED
    BY <1>1, <2>1, Begun DEF Types, Shapes, Targets
<1>3. Listed
  BY <1>1, Begun DEF Listed, Distinct, Names
<1>4. Making
  BY Begun, IdleIs DEF Making, Makes
<1>5. Disk(Idle)
  <2>1. Working(Idle) /\ Read(Idle)
    BY Begun, IdleIs DEF Working, Read, Holds
  <2>2. Match(Idle)
    BY Begun, IdleIs DEF Match, Matched, Apart, Swapping
  <2>3. Lies(Idle)
    BY <1>1, Begun, IdleIs DEF Lies
  <2>4. Fitting(Idle)
    BY <1>1, IdleIs DEF Fitting
  <2>5. Running(Idle)
    BY Begun, IdleIs DEF Running
  <2>6. Tidy(Idle)
    BY <1>1, Begun, IdleIs DEF Tidy, Owns, Names
  <2> QED
    BY <2>1, <2>2, <2>3, <2>4, <2>5, <2>6 DEF Disk
<1>6. \A q \in Proc : lock # q
  BY Begun, NoneAssumption
<1> QED
  BY <1>1, <1>2, <1>3, <1>4, <1>5, <1>6, Begun DEF Inv

\* On a disk that was made before, the invariant holds.
LEMMA MadeInit ==
  ASSUME Init, Made
  PROVE  Inv
<1> PICK s \in Nat, m \in Modes, t \in {None, "delta"} :
      LET file(format) == [fmt |-> format, size |-> round_bdsize(s), whole |-> TRUE] IN
      /\ dd = [mode |-> m, size |-> round_bdsize(s), base |-> "image", top |-> t, max |-> 0]
      /\ names = [f \in Names |-> CASE f = "image" -> 1
                                    [] f = "delta" /\ t = "delta" -> 2
                                    [] OTHER -> None]
      /\ nodes = IF t = None THEN <<file(Format(m))>> ELSE <<file(Format(m)), file("ploop1")>>
      /\ part = CreateEnd(round_bdsize(s))
      /\ fs = CreateEnd(round_bdsize(s)) - B
  BY DeviceAssumption DEF Made
<1> DEFINE file(format) == [fmt |-> format, size |-> round_bdsize(s), whole |-> TRUE]
<1>1. round_bdsize(s) \in Int /\ B \in Int /\ CreateEnd(round_bdsize(s)) \in Int
      /\ Aligned(CreateEnd(round_bdsize(s))) /\ CreateEnd(round_bdsize(s)) + B <= round_bdsize(s)
  BY AlignedUp, CreateEndIs, BlockIs
<1>2. dd \in Descriptor
  BY <1>1 DEF Descriptor
<1>3. dd # None /\ "delta" # None
  BY <1>2, NoneAssumption DEF Names
<1>4. /\ names["image"] = 1 /\ names["copy"] = None /\ names["link"] = None /\ names["image.tmp"] = None
      /\ names["delta"] = IF t = None THEN None ELSE 2
      /\ names \in [Names -> Nat \cup {None}]
  BY <1>3 DEF Names
<1>5. file(Format(m)) \in Node /\ file("ploop1") \in Node
  BY <1>1 DEF Node, Format
<1>6. /\ DOMAIN nodes = IF t = None THEN {1} ELSE {1, 2}
      /\ nodes[1] = file(Format(m)) /\ (t # None => nodes[2] = file("ploop1"))
  OBVIOUS
<1>7. IsFiniteSet(DOMAIN nodes)
  <2>1. {1} = 1 .. 1 /\ {1, 2} = 1 .. 2
    OBVIOUS
  <2>2. IsFiniteSet(1 .. 1)
    BY FS_Interval, 1 \in Int
  <2>3. IsFiniteSet(1 .. 2)
    BY FS_Interval, 1 \in Int, 2 \in Int
  <2> QED
    BY <1>6, <2>1, <2>2, <2>3
<1>8. \A f \in Names : names[f] # None => names[f] \in DOMAIN nodes
  BY <1>4, <1>6 DEF Names
<1>9. Types
  <2>1. \A n \in DOMAIN nodes : nodes[n] \in Node
    BY <1>5, <1>6
  <2>2. part \in Int /\ fs \in Int
    BY <1>1
  <2> HIDE DEF file
  <2> QED
    BY <1>2, <1>4, <1>7, <1>8, <2>1, <2>2, Begun DEF Types, Shapes, Targets
<1>10. Listed
  <2>1. None # 1 /\ None # 2
    BY NoneAssumption
  <2>2. Distinct({"image", "delta", "copy", "image.tmp"})
    BY <1>4, <2>1 DEF Distinct
  <2>3. Distinct({"link", "delta"}) /\ Distinct({"link", "image.tmp"})
    BY <1>4, <2>1 DEF Distinct
  <2> QED
    BY <1>3, <1>4, <2>1, <2>2, <2>3 DEF Listed
<1>11. Making
  BY Begun, IdleIs DEF Making, Makes
<1>12. Formats(dd) /\ Size(dd) = dd.size /\ dd.size = round_bdsize(s)
  BY <1>3, <1>4, <1>6 DEF Formats, Size, TopNode, Top
<1>13. Disk(Idle)
  <2>1. Working(Idle) /\ Read(Idle)
    BY Begun, IdleIs DEF Working, Read, Holds
  <2>2. Match(Idle)
    BY Begun, IdleIs DEF Match, Matched, Apart, Swapping
  <2>3. Lies(Idle)
    BY <1>1, <1>3, <1>12, Begun, IdleIs DEF Lies, Room
  <2>4. Fitting(Idle)
    BY <1>12, IdleIs DEF Fitting, Fits
  <2>5. Running(Idle)
    BY Begun, IdleIs DEF Running
  <2>6. Tidy(Idle)
    BY <1>4, Begun, IdleIs DEF Tidy, Owns
  <2> QED
    BY <2>1, <2>2, <2>3, <2>4, <2>5, <2>6 DEF Disk
<1>14. \A q \in Proc : lock # q /\ ~NoFs(call[q])
  BY Begun, NoneAssumption, IdleIs DEF NoFs
<1> QED
  BY <1>9, <1>10, <1>11, <1>13, <1>14, Begun DEF Inv

-----------------------------------------------------------------------------
(* Every step.                                                             *)

\* A step that changes nothing preserves the invariant.
LEMMA Unchanged ==
  ASSUME Inv, UNCHANGED vars
  PROVE  Inv'
<1> PICK n : n = Now
  OBVIOUS
<1>1. Still /\ UNCHANGED <<wanted, lock, call, windows>>
  BY DEF vars, control, Still
<1>2. UNCHANGED <<dd, tmp, names, nodes, dev, mnt, part, fs>>
  BY <1>1 DEF Still, store, kernel, layout
<1>3. Disk(n)'
  BY <1>1, Lasts DEF Inv
<1>4. Shapes' /\ Listed' /\ Making'
  BY <1>1, <1>2 DEF Inv, Types, Shapes, Listed, Distinct, Making
<1>5. Whole => \A p \in Proc : NoFs(call[p]) => fs' = 0
  BY <1>2 DEF Inv
<1> QED
  BY <1>1, <1>3, <1>4, <1>5, Beside

\* The circumstances are remembered, but for the lock that a process keeps.
LEMMA Remembered ==
  ASSUME Next, "dropped" \notin windows'
  PROVE  "dropped" \notin windows
<1>1. AddDelta => windows \subseteq windows'
  BY DEF AddDelta
<1>2. ASSUME NEW p \in Proc, Exit(p) PROVE "dropped" \notin windows
  BY <1>2 DEF Exit
<1>3. ASSUME NEW p \in Proc, ploop_lock_dd(p) \/ Reply(p) \/ Kill(p)
      PROVE  windows \subseteq windows'
  <2>1. ploop_lock_dd(p) => windows \subseteq windows'
    BY DEF ploop_lock_dd, NoFault, Call
  <2>2. Reply(p) => windows \subseteq windows'
    BY DEF Reply, NoFault, Call
  <2>3. Kill(p) => windows \subseteq windows'
    BY DEF Kill, NoFault, Call
  <2> QED
    BY <1>3, <2>1, <2>2, <2>3
<1>4. ASSUME NEW p \in Proc, MountCheck(p) \/ MountAdd(p) \/ MountStart(p) \/ MountUndo(p) \/ MountGpt(p)
      PROVE  windows \subseteq windows'
  <2>1. MountCheck(p) => windows \subseteq windows'
    BY DEF MountCheck, NoFault, Call
  <2>2. MountAdd(p) => windows \subseteq windows'
    BY DEF MountAdd, NoFault, Call
  <2>3. MountStart(p) => windows \subseteq windows'
    BY DEF MountStart, NoFault, Call
  <2>4. MountUndo(p) => windows \subseteq windows'
    BY DEF MountUndo, NoFault, Call
  <2>5. MountGpt(p) => windows \subseteq windows'
    BY DEF MountGpt, NoFault, Call
  <2> QED
    BY <1>4, <2>1, <2>2, <2>3, <2>4, <2>5
<1>5. ASSUME NEW p \in Proc, MountFs(p) \/ ploop_mount_image(p) \/ remount_image(p)
      PROVE  windows \subseteq windows'
  <2>1. MountFs(p) => windows \subseteq windows'
    BY DEF MountFs, NoFault, Call
  <2>2. ploop_mount_image(p) => windows \subseteq windows'
    BY DEF ploop_mount_image, NoFault, Call
  <2>3. remount_image(p) => windows \subseteq windows'
    BY DEF remount_image, NoFault, Call
  <2> QED
    BY <1>5, <2>1, <2>2, <2>3
<1>6. ASSUME NEW p \in Proc, ploop_umount_fs(p) \/ ploop_stop(p) \/ ploop_umount_image(p)
      PROVE  windows \subseteq windows'
  <2>1. ploop_umount_fs(p) => windows \subseteq windows'
    BY DEF ploop_umount_fs, NoFault, Call
  <2>2. ploop_stop(p) => windows \subseteq windows'
    BY DEF ploop_stop, NoFault, Call
  <2>3. ploop_umount_image(p) => windows \subseteq windows'
    BY DEF ploop_umount_image, NoFault, Call
  <2> QED
    BY <1>6, <2>1, <2>2, <2>3
<1>7. ASSUME NEW p \in Proc, Create(p) \/ init_dd(p) \/ create_image(p) \/ do_create_delta(p)
      PROVE  windows \subseteq windows'
  <2>1. Create(p) => windows \subseteq windows'
    BY DEF Create, NoFault, Call
  <2>2. init_dd(p) => windows \subseteq windows'
    BY DEF init_dd, NoFault, Call
  <2>3. create_image(p) => windows \subseteq windows'
    BY DEF create_image, NoFault, Call
  <2>4. do_create_delta(p) => windows \subseteq windows'
    BY DEF do_create_delta, NoFault, Call
  <2> QED
    BY <1>7, <2>1, <2>2, <2>3, <2>4
<1>8. ASSUME NEW p \in Proc, ploop_create_dd(p) \/ ploop_init_image(p) \/ create_gpt_partition(p) \/ make_fs(p)
      PROVE  windows \subseteq windows'
  <2>1. ploop_create_dd(p) => windows \subseteq windows'
    BY DEF ploop_create_dd, NoFault, Call
  <2>2. ploop_init_image(p) => windows \subseteq windows'
    BY DEF ploop_init_image, NoFault, Call
  <2>3. create_gpt_partition(p) => windows \subseteq windows'
    BY DEF create_gpt_partition, NoFault, Call
  <2>4. make_fs(p) => windows \subseteq windows'
    BY DEF make_fs, NoFault, Call
  <2> QED
    BY <1>8, <2>1, <2>2, <2>3, <2>4
<1>9. ASSUME NEW p \in Proc, CreateErr(p) \/ ploop_unlock_dd(p) \/ ploop_drop_image(p) \/ CreateClean(p)
      PROVE  windows \subseteq windows'
  <2>1. CreateErr(p) => windows \subseteq windows'
    BY DEF CreateErr, NoFault, Call
  <2>2. ploop_drop_image(p) => windows \subseteq windows'
    BY DEF ploop_drop_image, NoFault, Call
  <2>3. CreateClean(p) => windows \subseteq windows'
    BY DEF CreateClean, NoFault, Call
  <2>4. ploop_unlock_dd(p) => windows \subseteq windows'
    BY DEF ploop_unlock_dd, NoFault
  <2> QED
    BY <1>9, <2>1, <2>2, <2>3, <2>4
<1>10. ASSUME NEW p \in Proc, ploop_restore_descriptor(p) \/ copy_delta(p)
      PROVE  windows \subseteq windows'
  <2>1. ploop_restore_descriptor(p) => windows \subseteq windows'
    BY DEF ploop_restore_descriptor, NoFault, Call
  <2>2. copy_delta(p) => windows \subseteq windows'
    BY DEF copy_delta, NoFault, Call
  <2> QED
    BY <1>10, <2>1, <2>2
<1>11. ASSUME NEW p \in Proc, GrowStore(p) \/ GrowDevice(p) \/ ploop_grow_device(p)
      PROVE  windows \subseteq windows'
  <2>1. GrowStore(p) => windows \subseteq windows'
    BY DEF GrowStore, NoFault, Call
  <2>2. GrowDevice(p) => windows \subseteq windows'
    BY DEF GrowDevice, NoFault, Call
  <2>3. ploop_grow_device(p) => windows \subseteq windows'
    BY DEF ploop_grow_device, NoFault, Call
  <2> QED
    BY <1>11, <2>1, <2>2, <2>3
<1>12. ASSUME NEW p \in Proc, ploop_grow_raw_delta_offline(p) \/ GrowRename(p) \/ GrowOut(p)
      PROVE  windows \subseteq windows'
  <2>1. ploop_grow_raw_delta_offline(p) => windows \subseteq windows'
    BY DEF ploop_grow_raw_delta_offline, NoFault, Call
  <2>2. GrowRename(p) => windows \subseteq windows'
    BY DEF GrowRename, NoFault, Call
  <2>3. GrowOut(p) => windows \subseteq windows'
    BY DEF GrowOut, NoFault, Call
  <2> QED
    BY <1>12, <2>1, <2>2, <2>3
<1>13. ASSUME NEW p \in Proc, ResizeBegin(p) \/ ResizeSize(p) \/ ResizeUmount(p) \/ ResizeStore(p)
      PROVE  windows \subseteq windows'
  <2>1. ResizeBegin(p) => windows \subseteq windows'
    BY DEF ResizeBegin, NoFault, Call
  <2>2. ResizeSize(p) => windows \subseteq windows'
    BY DEF ResizeSize, NoFault, Call
  <2>3. ResizeUmount(p) => windows \subseteq windows'
    BY DEF ResizeUmount, NoFault, Call
  <2>4. ResizeStore(p) => windows \subseteq windows'
    BY DEF ResizeStore, NoFault, Call
  <2> QED
    BY <1>13, <2>1, <2>2, <2>3, <2>4
<1>14. ASSUME NEW p \in Proc, ResizeGrow(p) \/ ResizeRename(p) \/ ResizeGpt(p) \/ ResizeFs(p)
      PROVE  windows \subseteq windows'
  <2>1. ResizeGrow(p) => windows \subseteq windows'
    BY DEF ResizeGrow, NoFault, Call
  <2>2. ResizeRename(p) => windows \subseteq windows'
    BY DEF ResizeRename, NoFault, Call
  <2>3. ResizeGpt(p) => windows \subseteq windows'
    BY DEF ResizeGpt, NoFault, Call
  <2>4. ResizeFs(p) => windows \subseteq windows'
    BY DEF ResizeFs, NoFault, Call
  <2> QED
    BY <1>14, <2>1, <2>2, <2>3, <2>4
<1>15. ASSUME NEW p \in Proc, shrink_device(p) \/ DiscardGpt(p) \/ DiscardStop(p) \/ DiscardTruncate(p)
      PROVE  windows \subseteq windows'
  <2>1. shrink_device(p) => windows \subseteq windows'
    BY DEF shrink_device, NoFault, Call
  <2>2. DiscardGpt(p) => windows \subseteq windows'
    BY DEF DiscardGpt, NoFault, Call
  <2>3. DiscardStop(p) => windows \subseteq windows'
    BY DEF DiscardStop, NoFault, Call
  <2>4. DiscardTruncate(p) => windows \subseteq windows'
    BY DEF DiscardTruncate, NoFault, Call
  <2> QED
    BY <1>15, <2>1, <2>2, <2>3, <2>4
<1>16. ASSUME NEW p \in Proc, DiscardStore(p) \/ ResizeLeave(p)
      PROVE  windows \subseteq windows'
  <2>1. DiscardStore(p) => windows \subseteq windows'
    BY DEF DiscardStore, NoFault, Call
  <2>2. ResizeLeave(p) => windows \subseteq windows'
    BY DEF ResizeLeave, NoFault, Call
  <2> QED
    BY <1>16, <2>1, <2>2
<1>17. ASSUME NEW p \in Proc, ConvertStore(p) \/ expanded2preallocated(p) \/ RawOpen(p) \/ RawRename(p)
      PROVE  windows \subseteq windows'
  <2>1. ConvertStore(p) => windows \subseteq windows'
    BY DEF ConvertStore, NoFault, Call
  <2>2. expanded2preallocated(p) => windows \subseteq windows'
    BY DEF expanded2preallocated, NoFault, Call
  <2>3. RawOpen(p) => windows \subseteq windows'
    BY DEF RawOpen, NoFault, Call
  <2>4. RawRename(p) => windows \subseteq windows'
    BY DEF RawRename, NoFault, Call
  <2> QED
    BY <1>17, <2>1, <2>2, <2>3, <2>4
<1>18. ASSUME NEW p \in Proc, ConvertRename(p)
      PROVE  windows \subseteq windows'
  BY <1>18 DEF ConvertRename, NoFault
<1>19. ASSUME NEW p \in Proc, ReplaceCheck(p) \/ replace_delta(p) \/ ReplaceLink(p) \/ ReplaceRename(p)
      PROVE  windows \subseteq windows'
  <2>1. ReplaceCheck(p) => windows \subseteq windows'
    BY DEF ReplaceCheck, NoFault, Call
  <2>2. replace_delta(p) => windows \subseteq windows'
    BY DEF replace_delta, NoFault, Call
  <2>3. ReplaceLink(p) => windows \subseteq windows'
    BY DEF ReplaceLink, NoFault, Call
  <2>4. ReplaceRename(p) => windows \subseteq windows'
    BY DEF ReplaceRename, NoFault, Call
  <2> QED
    BY <1>19, <2>1, <2>2, <2>3, <2>4
<1>20. ASSUME NEW p \in Proc, ReplaceUndo(p) \/ ReplaceConf(p)
      PROVE  windows \subseteq windows'
  <2>1. ReplaceUndo(p) => windows \subseteq windows'
    BY DEF ReplaceUndo, NoFault, Call
  <2>2. ReplaceConf(p) => windows \subseteq windows'
    BY DEF ReplaceConf, NoFault, Call
  <2> QED
    BY <1>20, <2>1, <2>2
<1>21. ASSUME NEW p \in Proc, SetMaxDevice(p) \/ SetMaxStore(p) \/ check_dd(p)
      PROVE  windows \subseteq windows'
  <2>1. SetMaxDevice(p) => windows \subseteq windows'
    BY DEF SetMaxDevice, NoFault, Call
  <2>2. SetMaxStore(p) => windows \subseteq windows'
    BY DEF SetMaxStore, NoFault, Call
  <2>3. check_dd(p) => windows \subseteq windows'
    BY DEF check_dd, NoFault, Call
  <2> QED
    BY <1>21, <2>1, <2>2, <2>3
<1> QED
  BY <1>1, <1>2, <1>3, <1>4, <1>5, <1>6, <1>7, <1>8, <1>9, <1>10, <1>11, <1>12, <1>13,
     <1>14, <1>15, <1>16, <1>17, <1>18, <1>19, <1>20, <1>21 DEF Next

\* Every step preserves the invariant.
LEMMA NextInv ==
  ASSUME Inv, Next, "dropped" \notin windows'
  PROVE  Inv'
<1>1. CASE AddDelta
  BY <1>1, AddDeltaInv
<1>2. ASSUME NEW p \in Proc, Exit(p)
      PROVE  Inv'
  BY <1>2, ExitInv
<1>3. ASSUME NEW p \in Proc, ploop_lock_dd(p) \/ Reply(p) \/ Kill(p)
      PROVE  Inv'
  BY <1>3, ploop_lock_ddInv, ReplyInv, KillInv
<1>4. ASSUME NEW p \in Proc, MountCheck(p) \/ MountAdd(p) \/ MountStart(p) \/ MountUndo(p) \/ MountGpt(p)
      PROVE  Inv'
  BY <1>4, MountCheckInv, MountAddInv, MountStartInv, MountUndoInv, MountGptInv
<1>5. ASSUME NEW p \in Proc, MountFs(p) \/ ploop_mount_image(p) \/ remount_image(p)
      PROVE  Inv'
  BY <1>5, MountFsInv, ploop_mount_imageInv, remount_imageInv
<1>6. ASSUME NEW p \in Proc, ploop_umount_fs(p) \/ ploop_stop(p) \/ ploop_umount_image(p)
      PROVE  Inv'
  BY <1>6, ploop_umount_fsInv, ploop_stopInv, ploop_umount_imageInv
<1>7. ASSUME NEW p \in Proc, Create(p) \/ init_dd(p) \/ create_image(p) \/ do_create_delta(p)
      PROVE  Inv'
  BY <1>7, CreateInv, init_ddInv, create_imageInv, do_create_deltaInv
<1>8. ASSUME NEW p \in Proc, ploop_create_dd(p) \/ ploop_init_image(p) \/ create_gpt_partition(p) \/ make_fs(p)
      PROVE  Inv'
  BY <1>8, ploop_create_ddInv, ploop_init_imageInv, create_gpt_partitionInv, make_fsInv
<1>9. ASSUME NEW p \in Proc, CreateErr(p) \/ ploop_unlock_dd(p) \/ ploop_drop_image(p) \/ CreateClean(p)
      PROVE  Inv'
  BY <1>9, CreateErrInv, ploop_unlock_ddInv, ploop_drop_imageInv, CreateCleanInv
<1>10. ASSUME NEW p \in Proc, ploop_restore_descriptor(p) \/ copy_delta(p)
      PROVE  Inv'
  BY <1>10, ploop_restore_descriptorInv, copy_deltaInv
<1>11. ASSUME NEW p \in Proc, GrowStore(p) \/ GrowDevice(p) \/ ploop_grow_device(p)
      PROVE  Inv'
  BY <1>11, GrowStoreInv, GrowDeviceInv, ploop_grow_deviceInv
<1>12. ASSUME NEW p \in Proc, ploop_grow_raw_delta_offline(p) \/ GrowRename(p) \/ GrowOut(p)
      PROVE  Inv'
  BY <1>12, ploop_grow_raw_delta_offlineInv, GrowRenameInv, GrowOutInv
<1>13. ASSUME NEW p \in Proc, ResizeBegin(p) \/ ResizeSize(p) \/ ResizeUmount(p) \/ ResizeStore(p)
      PROVE  Inv'
  BY <1>13, ResizeBeginInv, ResizeSizeInv, ResizeUmountInv, ResizeStoreInv
<1>14. ASSUME NEW p \in Proc, ResizeGrow(p) \/ ResizeRename(p) \/ ResizeGpt(p) \/ ResizeFs(p)
      PROVE  Inv'
  BY <1>14, ResizeGrowInv, ResizeRenameInv, ResizeGptInv, ResizeFsInv
<1>15. ASSUME NEW p \in Proc, shrink_device(p) \/ DiscardGpt(p) \/ DiscardStop(p) \/ DiscardTruncate(p)
      PROVE  Inv'
  BY <1>15, shrink_deviceInv, DiscardGptInv, DiscardStopInv, DiscardTruncateInv
<1>16. ASSUME NEW p \in Proc, DiscardStore(p) \/ ResizeLeave(p)
      PROVE  Inv'
  BY <1>16, DiscardStoreInv, ResizeLeaveInv
<1>17. ASSUME NEW p \in Proc, ConvertStore(p) \/ expanded2preallocated(p) \/ RawOpen(p) \/ RawRename(p)
      PROVE  Inv'
  BY <1>17, ConvertStoreInv, expanded2preallocatedInv, RawOpenInv, RawRenameInv
<1>18. ASSUME NEW p \in Proc, ConvertRename(p)
      PROVE  Inv'
  BY <1>18, ConvertRenameInv
<1>19. ASSUME NEW p \in Proc, ReplaceCheck(p) \/ replace_delta(p) \/ ReplaceLink(p) \/ ReplaceRename(p)
      PROVE  Inv'
  BY <1>19, ReplaceCheckInv, replace_deltaInv, ReplaceLinkInv, ReplaceRenameInv
<1>20. ASSUME NEW p \in Proc, ReplaceUndo(p) \/ ReplaceConf(p)
      PROVE  Inv'
  BY <1>20, ReplaceUndoInv, ReplaceConfInv
<1>21. ASSUME NEW p \in Proc, SetMaxDevice(p) \/ SetMaxStore(p) \/ check_dd(p)
      PROVE  Inv'
  BY <1>21, SetMaxDeviceInv, SetMaxStoreInv, check_ddInv
<1> QED
  BY <1>1, <1>2, <1>3, <1>4, <1>5, <1>6, <1>7, <1>8, <1>9, <1>10, <1>11, <1>12, <1>13,
     <1>14, <1>15, <1>16, <1>17, <1>18, <1>19, <1>20, <1>21 DEF Next

\* The invariant holds at every step, up to the first disk that is taken from
\* under its users.
THEOREM Invariant == Spec => []IInv
<1>1. Init => IInv
  BY EmptyInit, MadeInit DEF Init, IInv
<1>2. IInv /\ [Next]_vars => IInv'
  <2> SUFFICES ASSUME IInv, [Next]_vars, "dropped" \notin windows' PROVE Inv'
    BY DEF IInv
  <2>1. CASE Next
    <3>1. Inv
      BY <2>1, Remembered DEF IInv
    <3> QED
      BY <2>1, <3>1, NextInv
  <2>2. CASE UNCHANGED vars
    <3>1. Inv
      BY <2>2 DEF IInv, vars
    <3> QED
      BY <2>2, <3>1, Unchanged
  <2> QED
    BY <2>1, <2>2
<1> QED
  BY <1>1, <1>2, PTL DEF Spec

\* Between calls nobody is at work.
LEMMA Rests ==
  ASSUME IInv, AtRest, "dropped" \notin windows
  PROVE  Inv /\ Now = Idle /\ Disk(Idle)
<1>1. Inv /\ (lock # None => lock \in Proc)
  BY DEF IInv, Inv, Types, Shapes
<1>2. ~Holds(Idle)
  BY IdleIs DEF Holds
<1>3. Now = Idle
  BY <1>1, <1>2 DEF AtRest, Now
<1> QED
  BY <1>1, <1>3 DEF Inv

\* Between calls, after failures and kills too, the images a descriptor lists
\* exist, the base has the format of the mode and the top image the size the
\* descriptor says (lib/ploop.c).
THEOREM Fitted == Spec => []DescriptorFits
<1>1. IInv => DescriptorFits
  <2> SUFFICES ASSUME IInv, AtRest, dd # None,
                      windows \cap {"grown", "converted", "truncated", "unaligned", "replaced",
                                    "other", "dropped"} = {}
               PROVE  /\ Checked(dd)
                      /\ nodes[names[dd.base]].fmt = Format(dd.mode)
                      /\ nodes[TopNode(dd)].size = dd.size
    BY DEF DescriptorFits
  <2>1. "dropped" \notin windows /\ Stored
    BY DEF Stored, Placed
  <2>2. Fits(dd)
    BY <2>1, Rests, IdleIs DEF Disk, Fitting
  <2>3. /\ names[dd.base] # None
        /\ dd.top # None => names[dd.top] # None
    BY <2>1, Rests, DiskIs DEF Inv, Types
  <2>4. Checked(dd)
    <3>1. /\ nodes[names[dd.base]].whole
          /\ dd.mode = "raw" \/ nodes[names[dd.base]].fmt = "ploop1"
          /\ dd.top # None => nodes[names[dd.top]].whole /\ nodes[names[dd.top]].fmt = "ploop1"
      BY <2>2 DEF Fits, Formats, Format
    <3>2. CASE dd.top = None
      <4>1. Files(dd) = <<dd.base>>
        BY <3>2 DEF Files
      <4>2. DOMAIN Files(dd) = {1} /\ Files(dd)[1] = dd.base
        BY <4>1
      <4> QED
        BY <2>3, <3>1, <4>2 DEF Checked
    <3>3. CASE dd.top # None
      <4>1. Files(dd) = <<dd.base, dd.top>>
        BY <3>3 DEF Files
      <4>2. DOMAIN Files(dd) = {1, 2} /\ Files(dd)[1] = dd.base /\ Files(dd)[2] = dd.top
        BY <4>1
      <4> QED
        BY <2>3, <3>1, <3>3, <4>2 DEF Checked
    <3> QED
      BY <3>2, <3>3
  <2> QED
    BY <2>2, <2>4 DEF Fits, Formats, Size
<1> QED
  BY <1>1, Invariant, PTL

\* The second table takes less than a block.
LEMMA Ends ==
  ASSUME NEW e \in Int, NEW s \in Int, e + B <= s
  PROVE  e + Gpt <= s
<1>1. B \in Int /\ B > 34 /\ Gpt = 33
  BY BlockIs DEF Gpt
<1>2. e + 33 <= s
  BY <1>1
<1> QED
  BY <1>1, <1>2

\* At every step the file system lies in its partition and the partition in the
\* disk, before the second partition table.
THEOREM Contained == Spec => []FsFits
<1>1. IInv => FsFits
  <2> SUFFICES ASSUME IInv, fs # 0, dd # None,
                      windows \cap {"raw shrunk", "replaced", "other", "dropped"} = {}
               PROVE  B + fs <= part /\ part + Gpt <= nodes[TopNode(dd)].size
    BY DEF FsFits
  <2>1. Inv /\ Whole
    BY DEF IInv, Whole, Placed
  <2>2. Lies(Now) /\ Types /\ Shapes /\ Listed
    BY <2>1 DEF Inv, Disk, Types
  <2>3. /\ B + fs <= part
        /\ part + B <= Size(dd)
        /\ part \in Int
        /\ Size(dd) \in Int
    BY <2>2, DiskIs DEF Lies, Room, Shapes
  <2>4. part + Gpt <= Size(dd)
    BY <2>3, Ends
  <2> QED
    BY <2>3, <2>4 DEF Size
<1> QED
  BY <1>1, Invariant, PTL

\* Between calls a running device is made of the images the descriptor lists,
\* with its size and its limit.
THEOREM Findable == Spec => []DeviceFound
<1>1. IInv => DeviceFound
  <2> SUFFICES ASSUME IInv, AtRest, dev # None, dev.running,
                      windows \cap {"replaced", "limited", "swapped", "other", "dropped"} = {}
               PROVE  /\ dd # None /\ dev.deltas = Deltas(dd)
                      /\ dev.size = nodes[TopNode(dd)].size /\ dev.max = dd.max
    BY DEF DeviceFound
  <2>1. "dropped" \notin windows /\ Followed /\ Placed
    BY DEF Followed, Placed
  <2>2. Running(Idle) /\ Match(Idle) /\ Listed
    BY <2>1, Rests DEF Disk, Inv
  <2>3. dd # None /\ Found(dd) /\ dev.max = dd.max
    BY <2>2, IdleIs DEF Running, Swapping, Listed
  <2> QED
    BY <2>2, <2>3 DEF Match, Matched, Size
<1> QED
  BY <1>1, Invariant, PTL

\* Between calls there is a device exactly if the caller asked for one, and no
\* lock, temporary mount, file or descriptor is left of calls that returned.
THEOREM TidiedUp == Spec => []NothingLeft
<1>1. IInv => NothingLeft
  <2> SUFFICES ASSUME IInv, AtRest,
                      windows \cap {"killed", "left", "dropped", "lock kept", "tmp kept", "grown",
                                    "converted"} = {}
               PROVE  /\ (dev # None) = wanted /\ mnt # "temp"
                      /\ lock = None /\ tmp = None /\ names["image.tmp"] = None
    BY DEF NothingLeft
  <2>1. "dropped" \notin windows /\ "lock kept" \notin windows /\ Returned
    BY DEF Returned
  <2>2. Tidy(Idle) /\ Inv
    BY <2>1, Rests DEF Disk
  <2>3. (wanted <=> dev # None) /\ mnt # "temp" /\ tmp = None /\ names["image.tmp"] = None
    BY <2>2, IdleIs DEF Tidy, Owns
  <2>4. wanted \in BOOLEAN /\ lock \in Proc \cup {None}
    BY <2>2 DEF Inv, Types, Shapes
  <2>5. lock = None
    BY <2>1, <2>2, <2>4 DEF Inv, AtRest
  <2> QED
    BY <2>3, <2>4, <2>5
<1> QED
  BY <1>1, Invariant, PTL

=============================================================================
