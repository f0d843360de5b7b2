----------------------------- MODULE PCopyProofs -----------------------------
(***************************************************************************)
(* Proofs about PCopy, for every image size and every bound: CopyInv is    *)
(* inductive, and from it follow the type invariant, CopyComplete,         *)
(* BufferStable and the refinement of LiveCopy.  One lemma per action says *)
(* that the action preserves CopyInv, with one step per conjunct.          *)
(***************************************************************************)
EXTENDS PCopy, TLAPS

\* The initial states, with nothing copied and the whole image pending,
\* satisfy the invariant.
LEMMA InitInv == Init => CopyInv
<1> SUFFICES ASSUME Init PROVE CopyInv
  OBVIOUS
<1> USE PCopyAssumption DEF Init
<1>1. NumbersOK
  BY DEF NumbersOK, Cluster
<1>2. ContentsOK
  BY DEF ContentsOK, Cluster, Value, Absent
<1>3. FlagsOK
  BY DEF FlagsOK
<1>4. ControlOK
  BY DEF ControlOK, Mpcs, Spcs
<1>5. Handshake
  BY DEF Handshake, Quiet, InFlight
<1>6. Positions
  BY DEF Positions, InPass, Quiet, InFlight
<1>7. Stopping
  BY DEF Stopping, InPass, Closing
<1>8. FileEnd
  BY DEF FileEnd, Cluster
<1>9. NothingLost
  BY DEF NothingLost, Pending, Delivered, InFlight, Cluster
<1> QED
  BY <1>1, <1>2, <1>3, <1>4, <1>5, <1>6, <1>7, <1>8, <1>9 DEF CopyInv, TypeOK

\* Ploop_copy_start switches the tracker on with nothing copied: the invariant
\* is preserved.
LEMMA CopyStartInv == CopyInv /\ CopyStart => CopyInv'
<1> SUFFICES ASSUME CopyInv, CopyStart PROVE CopyInv'
  OBVIOUS
<1> USE PCopyAssumption DEF CopyInv, TypeOK, CopyStart, image, output,
        buffers, faults
<1>1. NumbersOK'
  BY DEF NumbersOK, ContentsOK, ControlOK, Positions, Cluster
<1>2. ContentsOK'
  BY DEF NumbersOK, ContentsOK, Value, Cluster, Positions
<1>3. FlagsOK'
  BY DEF FlagsOK
<1>4. ControlOK'
  BY DEF ControlOK, Mpcs, Spcs
<1>5. Handshake'
  BY DEF NumbersOK, ContentsOK, FlagsOK, ControlOK, Handshake, Quiet,
         InFlight, MutexFree
<1>6. Positions'
  BY DEF NumbersOK, ContentsOK, Cluster, Positions, Handshake, InPass,
         Quiet, InFlight, MutexFree
<1>7. Stopping'
  BY DEF NumbersOK, FlagsOK, Positions, Stopping, InPass, Closing, Pending,
         Handshake, InFlight
<1>8. FileEnd'
  BY DEF NumbersOK, ContentsOK, FileEnd, Positions, InFlight, Cluster
<1>9. NothingLost'
  BY DEF NumbersOK, ContentsOK, ControlOK, NothingLost, Pending, Delivered,
         InFlight, CallerHas, Handshake, Positions, FileEnd, Cluster,
         MutexFree
<1> QED
  BY <1>1, <1>2, <1>3, <1>4, <1>5, <1>6, <1>7, <1>8, <1>9

\* The first pass tells the tracker of the next cluster: the invariant is
\* preserved.
LEMMA SetPosInv == CopyInv /\ SetPos => CopyInv'
<1> SUFFICES ASSUME CopyInv, SetPos PROVE CopyInv'
  OBVIOUS
<1> USE PCopyAssumption DEF CopyInv, TypeOK, SetPos, image, output, loop,
        buffers, sender, faults
<1>1. NumbersOK'
  BY DEF NumbersOK, ContentsOK, ControlOK, Positions, Cluster
<1>2. ContentsOK'
  BY DEF NumbersOK, ContentsOK, Value, Cluster, Positions
<1>3. FlagsOK'
  BY DEF FlagsOK
<1>4. ControlOK'
  BY DEF ControlOK, Mpcs, Spcs
<1>5. Handshake'
  BY DEF NumbersOK, ContentsOK, FlagsOK, ControlOK, Handshake, Quiet,
         InFlight, MutexFree
<1>6. Positions'
  <2>1. CASE pos <= trackend
    BY <2>1 DEF NumbersOK, ContentsOK, Cluster, Positions, InPass, Quiet, InFlight
  <2>2. CASE ~ (pos <= trackend)
    BY <2>2 DEF NumbersOK, ContentsOK, Cluster, Positions, InPass, Quiet, InFlight
  <2> QED
    BY <2>1, <2>2
<1>7. Stopping'
  BY DEF NumbersOK, FlagsOK, Stopping, Positions, InPass, Closing
<1>8. FileEnd'
  BY DEF NumbersOK, ContentsOK, FileEnd, Positions, InFlight, Cluster
<1>9. NothingLost'
  BY DEF NumbersOK, ContentsOK, ControlOK, NothingLost, Pending, Delivered,
         InFlight, CallerHas, Handshake, Positions, FileEnd, Cluster,
         MutexFree
<1> QED
  BY <1>1, <1>2, <1>3, <1>4, <1>5, <1>6, <1>7, <1>8, <1>9

\* Send_image_block reads into the buffer the sender is not using: the
\* invariant is preserved.
LEMMA ReadBlockInv == CopyInv /\ ReadBlock => CopyInv'
<1> SUFFICES ASSUME CopyInv, ReadBlock PROVE CopyInv'
  OBVIOUS
<1> USE PCopyAssumption DEF CopyInv, TypeOK, ReadBlock, image, kernel,
        output, sender, faults
<1>1. NumbersOK'
  BY DEF NumbersOK, ContentsOK, ControlOK, Positions, Cluster
<1>2. ContentsOK'
  BY DEF NumbersOK, ContentsOK, Value, Cluster, Positions
<1>3. FlagsOK'
  BY DEF FlagsOK
<1>4. ControlOK'
  BY DEF ControlOK, Mpcs, Spcs
<1>5. Handshake'
  <2>1. CASE pos < eof
    BY <2>1 DEF NumbersOK, ContentsOK, Handshake, Quiet, InFlight
  <2>2. CASE ~ (pos < eof)
    BY <2>2 DEF NumbersOK, ContentsOK, Handshake, Quiet, InFlight
  <2> QED
    BY <2>1, <2>2
<1>6. Positions'
  BY DEF NumbersOK, ContentsOK, Cluster, Positions, Handshake, InPass,
         Quiet, InFlight, MutexFree
<1>7. Stopping'
  BY DEF NumbersOK, FlagsOK, Positions, Stopping, InPass, Closing, Pending,
         Handshake, InFlight
<1>8. FileEnd'
  BY DEF NumbersOK, ContentsOK, FileEnd, Positions, InFlight, Cluster
<1>9. NothingLost'
  <2>1. CASE pos < eof
    <3> SUFFICES ASSUME ~ (sret /\ spc # "exited"), ~ ret, NEW b \in Cluster
                 PROVE  b \in Pending' \/ CallerHas(b)' \/ Delivered(b)'
      BY <2>1 DEF NothingLost
    <3>1. b \in Pending \/ CallerHas(b) \/ Delivered(b)
      BY <2>1 DEF NothingLost
    <3>2. buf'[cur'] = src[pos]
      BY <2>1 DEF NumbersOK, ContentsOK
    <3>3. InFlight => buf'[sd.buf] = buf[sd.buf]
      BY <2>1 DEF NumbersOK, ContentsOK, Handshake, InFlight
    <3> QED
      BY <2>1, <3>1, <3>2, <3>3
      DEF NumbersOK, Pending, CallerHas, Delivered, InFlight
  <2>2. CASE ~ (pos < eof) /\ call = "start"
    <3> SUFFICES ASSUME ~ (sret /\ spc # "exited"), ~ ret, NEW b \in Cluster
                 PROVE  b \in Pending' \/ CallerHas(b)' \/ Delivered(b)'
      BY <2>2 DEF NothingLost, Stopping
    <3>1. b \in Pending \/ CallerHas(b) \/ Delivered(b)
      BY <2>2 DEF NothingLost
    <3>2. CASE b >= eof
      BY <2>2, <3>2
      DEF FileEnd, Delivered, InFlight, NumbersOK, Positions, ContentsOK, Cluster
    <3>3. CASE b < eof
      BY <2>2, <3>1, <3>3
      DEF NumbersOK, Pending, CallerHas, Delivered, InFlight, Cluster
    <3> QED
      BY <3>2, <3>3 DEF NumbersOK, Cluster
  <2>3. CASE ~ (pos < eof) /\ call # "start"
    BY <2>3 DEF NothingLost
  <2> QED
    BY <2>1, <2>2, <2>3
<1> QED
  BY <1>1, <1>2, <1>3, <1>4, <1>5, <1>6, <1>7, <1>8, <1>9

\* Send_async hands a cluster over to a sender that is waiting: the invariant
\* is preserved.
LEMMA SendAsyncInv == CopyInv /\ SendAsync => CopyInv'
<1> SUFFICES ASSUME CopyInv, SendAsync PROVE CopyInv'
  OBVIOUS
<1> USE PCopyAssumption DEF CopyInv, TypeOK, SendAsync, image, kernel,
        output, loop, buffers, faults, Signalled
<1>1. NumbersOK'
  BY DEF NumbersOK, ContentsOK, ControlOK, Positions, Cluster
<1>2. ContentsOK'
  BY DEF NumbersOK, ContentsOK, Value, Cluster, Positions
<1>3. FlagsOK'
  BY DEF FlagsOK
<1>4. ControlOK'
  BY DEF ControlOK, Mpcs, Spcs
<1>5. Handshake'
  BY DEF NumbersOK, ContentsOK, FlagsOK, ControlOK, Handshake, Quiet,
         InFlight, MutexFree
<1>6. Positions'
  BY DEF NumbersOK, ContentsOK, Cluster, Positions, Handshake, InPass,
         Quiet, InFlight, MutexFree
<1>7. Stopping'
  BY DEF NumbersOK, FlagsOK, Positions, Stopping, InPass, Closing, Pending,
         Handshake, InFlight
<1>8. FileEnd'
  BY DEF NumbersOK, ContentsOK, FileEnd, Positions, InFlight, Cluster
<1>9. NothingLost'
  <2> SUFFICES ASSUME ~ ret, NEW b \in Cluster
               PROVE  b \in Pending' \/ CallerHas(b)' \/ Delivered(b)'
    BY DEF NothingLost
  <2>1. b \in Pending \/ CallerHas(b) \/ Delivered(b)
    BY DEF NothingLost
  <2>2. spc = "wait" /\ spc' = "woken"
    BY DEF Handshake, MutexFree
  <2>3. CASE b = pos
    BY <2>1, <2>2, <2>3 DEF NumbersOK, ContentsOK, Pending, CallerHas, Delivered, InFlight
  <2>4. CASE b # pos
    BY <2>1, <2>2, <2>4 DEF NumbersOK, ContentsOK, Pending, CallerHas, Delivered, InFlight
  <2> QED
    BY <2>3, <2>4
<1> QED
  BY <1>1, <1>2, <1>3, <1>4, <1>5, <1>6, <1>7, <1>8, <1>9

\* Send_async reports an earlier write error: the invariant is preserved.
LEMMA SendRefusedInv == CopyInv /\ SendRefused => CopyInv'
<1> SUFFICES ASSUME CopyInv, SendRefused PROVE CopyInv'
  OBVIOUS
<1> USE PCopyAssumption DEF CopyInv, TypeOK, SendRefused, image, kernel,
        output, buffers, sender, faults
<1>1. NumbersOK'
  BY DEF NumbersOK, ContentsOK, ControlOK, Positions, Cluster
<1>2. ContentsOK'
  BY DEF NumbersOK, ContentsOK, Value, Cluster, Positions
<1>3. FlagsOK'
  BY DEF FlagsOK
<1>4. ControlOK'
  BY DEF ControlOK, Mpcs, Spcs
<1>5. Handshake'
  BY DEF NumbersOK, ContentsOK, FlagsOK, ControlOK, Handshake, Quiet,
         InFlight, MutexFree
<1>6. Positions'
  BY DEF NumbersOK, ContentsOK, Cluster, Positions, Handshake, InPass,
         Quiet, InFlight, MutexFree
<1>7. Stopping'
  BY DEF NumbersOK, FlagsOK, Positions, Stopping, InPass, Closing, Pending,
         Handshake, InFlight
<1>8. FileEnd'
  BY DEF NumbersOK, ContentsOK, FileEnd, Positions, InFlight, Cluster
<1>9. NothingLost'
  BY DEF NumbersOK, ContentsOK, ControlOK, NothingLost, Pending, Delivered,
         InFlight, CallerHas, Handshake, Positions, FileEnd, Cluster,
         MutexFree
<1> QED
  BY <1>1, <1>2, <1>3, <1>4, <1>5, <1>6, <1>7, <1>8, <1>9

\* The caller releases wait_mutex to wait for the sender: the invariant is
\* preserved.
LEMMA WaitTakenInv == CopyInv /\ WaitTaken => CopyInv'
<1> SUFFICES ASSUME CopyInv, WaitTaken PROVE CopyInv'
  OBVIOUS
<1> USE PCopyAssumption DEF CopyInv, TypeOK, WaitTaken, image, kernel,
        output, loop, buffers, sender, faults
<1>1. NumbersOK'
  BY DEF NumbersOK, ContentsOK, ControlOK, Positions, Cluster
<1>2. ContentsOK'
  BY DEF NumbersOK, ContentsOK, Value, Cluster, Positions
<1>3. FlagsOK'
  BY DEF FlagsOK
<1>4. ControlOK'
  BY DEF ControlOK, Mpcs, Spcs
<1>5. Handshake'
  BY DEF NumbersOK, ContentsOK, FlagsOK, ControlOK, Handshake, Quiet,
         InFlight, MutexFree
<1>6. Positions'
  BY DEF NumbersOK, ContentsOK, Cluster, Positions, Handshake, InPass,
         Quiet, InFlight, MutexFree
<1>7. Stopping'
  BY DEF NumbersOK, FlagsOK, Positions, Stopping, InPass, Closing, Pending,
         Handshake, InFlight
<1>8. FileEnd'
  BY DEF NumbersOK, ContentsOK, FileEnd, Positions, InFlight, Cluster
<1>9. NothingLost'
  BY DEF NumbersOK, ContentsOK, ControlOK, NothingLost, Pending, Delivered,
         InFlight, CallerHas, Handshake, Positions, FileEnd, Cluster,
         MutexFree
<1> QED
  BY <1>1, <1>2, <1>3, <1>4, <1>5, <1>6, <1>7, <1>8, <1>9

\* The caller goes on with the next cluster: the invariant is preserved.
LEMMA SentInv == CopyInv /\ Sent => CopyInv'
<1> SUFFICES ASSUME CopyInv, Sent PROVE CopyInv'
  OBVIOUS
<1> USE PCopyAssumption DEF CopyInv, TypeOK, Sent, image, kernel, output,
        buffers, sender, faults
<1>1. NumbersOK'
  BY DEF NumbersOK, ContentsOK, ControlOK, Positions, Cluster
<1>2. ContentsOK'
  BY DEF NumbersOK, ContentsOK, Value, Cluster, Positions
<1>3. FlagsOK'
  BY DEF FlagsOK
<1>4. ControlOK'
  BY DEF ControlOK, Mpcs, Spcs
<1>5. Handshake'
  BY DEF NumbersOK, ContentsOK, FlagsOK, ControlOK, Handshake, Quiet,
         InFlight, MutexFree
<1>6. Positions'
  BY DEF NumbersOK, ContentsOK, Cluster, Positions, Handshake, InPass,
         Quiet, InFlight, MutexFree
<1>7. Stopping'
  BY DEF NumbersOK, FlagsOK, Positions, Stopping, InPass, Closing, Pending,
         Handshake, InFlight
<1>8. FileEnd'
  BY DEF NumbersOK, ContentsOK, FileEnd, Positions, InFlight, Cluster
<1>9. NothingLost'
  BY DEF NumbersOK, ContentsOK, ControlOK, NothingLost, Pending, Delivered,
         InFlight, CallerHas, Handshake, Positions, FileEnd, Cluster,
         MutexFree
<1> QED
  BY <1>1, <1>2, <1>3, <1>4, <1>5, <1>6, <1>7, <1>8, <1>9

\* Wait_sender returns only when no write is under way: the invariant is
\* preserved.
LEMMA WaitSenderInv == CopyInv /\ WaitSender => CopyInv'
<1> SUFFICES ASSUME CopyInv, WaitSender PROVE CopyInv'
  OBVIOUS
<1> USE PCopyAssumption DEF CopyInv, TypeOK, WaitSender, image, kernel,
        output, loop, buffers, sender, faults
<1>1. NumbersOK'
  BY DEF NumbersOK, ContentsOK, ControlOK, Positions, Cluster
<1>2. ContentsOK'
  BY DEF NumbersOK, ContentsOK, Value, Cluster, Positions
<1>3. FlagsOK'
  BY DEF FlagsOK
<1>4. ControlOK'
  BY DEF ControlOK, Mpcs, Spcs
<1>5. Handshake'
  BY DEF NumbersOK, ContentsOK, FlagsOK, ControlOK, Handshake, Quiet,
         InFlight, MutexFree
<1>6. Positions'
  BY DEF NumbersOK, ContentsOK, Cluster, Positions, Handshake, InPass,
         Quiet, InFlight, MutexFree
<1>7. Stopping'
  BY DEF NumbersOK, FlagsOK, Positions, Stopping, InPass, Closing, Pending,
         Handshake, InFlight
<1>8. FileEnd'
  BY DEF NumbersOK, ContentsOK, FileEnd, Positions, InFlight, Cluster
<1>9. NothingLost'
  BY DEF NumbersOK, ContentsOK, ControlOK, NothingLost, Pending, Delivered,
         InFlight, CallerHas, Handshake, Positions, FileEnd, Cluster,
         MutexFree
<1> QED
  BY <1>1, <1>2, <1>3, <1>4, <1>5, <1>6, <1>7, <1>8, <1>9

\* The end of an iteration: the invariant is preserved.
LEMMA SyncInv == CopyInv /\ Sync => CopyInv'
<1> SUFFICES ASSUME CopyInv, Sync PROVE CopyInv'
  OBVIOUS
<1> USE PCopyAssumption DEF CopyInv, TypeOK, Sync, image, kernel, output,
        loop, buffers, sender, faults
<1>1. NumbersOK'
  BY DEF NumbersOK, ContentsOK, ControlOK, Positions, Cluster
<1>2. ContentsOK'
  BY DEF NumbersOK, ContentsOK, Value, Cluster, Positions
<1>3. FlagsOK'
  BY DEF FlagsOK
<1>4. ControlOK'
  BY DEF ControlOK, Mpcs, Spcs
<1>5. Handshake'
  BY DEF NumbersOK, ContentsOK, FlagsOK, ControlOK, Handshake, Quiet,
         InFlight, MutexFree
<1>6. Positions'
  BY DEF NumbersOK, ContentsOK, Cluster, Positions, Handshake, InPass,
         Quiet, InFlight, MutexFree
<1>7. Stopping'
  BY DEF NumbersOK, FlagsOK, Positions, Stopping, InPass, Closing, Pending,
         Handshake, InFlight
<1>8. FileEnd'
  BY DEF NumbersOK, ContentsOK, FileEnd, Positions, InFlight, Cluster
<1>9. NothingLost'
  BY DEF NumbersOK, ContentsOK, ControlOK, NothingLost, Pending, Delivered,
         InFlight, CallerHas, Handshake, Positions, FileEnd, Cluster,
         MutexFree
<1> QED
  BY <1>1, <1>2, <1>3, <1>4, <1>5, <1>6, <1>7, <1>8, <1>9

\* Ploop_copy_next_iteration begins: the invariant is preserved.
LEMMA NextIterationInv == CopyInv /\ NextIteration => CopyInv'
<1> SUFFICES ASSUME CopyInv, NextIteration PROVE CopyInv'
  OBVIOUS
<1> USE PCopyAssumption DEF CopyInv, TypeOK, NextIteration, image, kernel,
        output, buffers, sender, faults, BeginIteration
<1>1. NumbersOK'
  BY DEF NumbersOK, ContentsOK, ControlOK, Positions, Cluster
<1>2. ContentsOK'
  BY DEF NumbersOK, ContentsOK, Value, Cluster, Positions
<1>3. FlagsOK'
  BY DEF FlagsOK
<1>4. ControlOK'
  BY DEF ControlOK, Mpcs, Spcs
<1>5. Handshake'
  BY DEF NumbersOK, ContentsOK, FlagsOK, ControlOK, Handshake, Quiet,
         InFlight, MutexFree
<1>6. Positions'
  BY DEF NumbersOK, ContentsOK, Cluster, Positions, Handshake, InPass,
         Quiet, InFlight, MutexFree
<1>7. Stopping'
  BY DEF NumbersOK, FlagsOK, Positions, Stopping, InPass, Closing, Pending,
         Handshake, InFlight
<1>8. FileEnd'
  BY DEF NumbersOK, ContentsOK, FileEnd, Positions, InFlight, Cluster
<1>9. NothingLost'
  BY DEF NumbersOK, ContentsOK, ControlOK, NothingLost, Pending, Delivered,
         InFlight, CallerHas, Handshake, Positions, FileEnd, Cluster,
         MutexFree
<1> QED
  BY <1>1, <1>2, <1>3, <1>4, <1>5, <1>6, <1>7, <1>8, <1>9

\* PLOOP_IOC_TRACK_READ hands an extent from the tracker to the caller: the
\* invariant is preserved.
LEMMA TrackReadInv == CopyInv /\ TrackRead => CopyInv'
<1> SUFFICES ASSUME CopyInv, TrackRead PROVE CopyInv'
  OBVIOUS
<1> USE PCopyAssumption DEF CopyInv, TypeOK, TrackRead, image, output,
        buffers, sender, faults
<1>1. NumbersOK'
  BY DEF NumbersOK, Cluster, Pending
<1>2. ContentsOK'
  BY DEF NumbersOK, ContentsOK, Value, Cluster, Positions
<1>3. FlagsOK'
  BY DEF FlagsOK
<1>4. ControlOK'
  BY DEF ControlOK, Mpcs, Spcs
<1>5. Handshake'
  BY DEF NumbersOK, ContentsOK, FlagsOK, ControlOK, Handshake, Quiet,
         InFlight, MutexFree
<1>6. Positions'
  <2>1. PICK s \in Pending, e \in 1 .. N :
          /\ IsNext(s)
          /\ s < e
          /\ s .. e - 1 \subseteq Pending
          /\ pos' = s
          /\ end' = e
          /\ ptr' = e
          /\ dirty' = dirty \ (s .. e - 1)
    OBVIOUS
  <2>2. Pending \subseteq Cluster /\ \A b \in Pending : b < eof
    BY DEF Pending, NumbersOK, Cluster, Positions
  <2>3. e <= eof
    <3>1. e - 1 \in s .. e - 1
      BY <2>1, <2>2 DEF Cluster
    <3> QED
      BY <2>1, <2>2, <3>1 DEF NumbersOK, Cluster
  <2>4. s <= trackpos
    <3>1. CASE trackpos < eof
      <4>1. trackpos \in Pending /\ ptr <= trackpos
        BY <3>1 DEF Pending, NumbersOK, Cluster, Positions, Quiet
      <4> QED
        BY <2>1, <4>1 DEF IsNext, NumbersOK
    <3>2. CASE eof <= trackpos
      BY <2>1, <2>2, <3>2 DEF NumbersOK, Cluster
    <3> QED
      BY <3>1, <3>2 DEF NumbersOK
  <2> QED
    BY <2>1, <2>2, <2>3, <2>4
    DEF NumbersOK, Cluster, Positions, InPass, Quiet, InFlight
<1>7. Stopping'
  BY DEF NumbersOK, FlagsOK, Positions, Stopping, InPass, Closing, Pending,
         Handshake, InFlight
<1>8. FileEnd'
  BY DEF NumbersOK, ContentsOK, FileEnd, Positions, InFlight, Cluster
<1>9. NothingLost'
  BY DEF NumbersOK, ContentsOK, ControlOK, NothingLost, Pending, Delivered,
         InFlight, CallerHas, Handshake, Positions, FileEnd, Cluster,
         MutexFree
<1> QED
  BY <1>1, <1>2, <1>3, <1>4, <1>5, <1>6, <1>7, <1>8, <1>9

\* The tracker has nothing more to report: the invariant is preserved.
LEMMA TrackEmptyInv == CopyInv /\ TrackEmpty => CopyInv'
<1> SUFFICES ASSUME CopyInv, TrackEmpty PROVE CopyInv'
  OBVIOUS
<1> USE PCopyAssumption DEF CopyInv, TypeOK, TrackEmpty, image, kernel,
        output, loop, buffers, sender, faults
<1>1. NumbersOK'
  BY DEF NumbersOK, ContentsOK, ControlOK, Positions, Cluster
<1>2. ContentsOK'
  BY DEF NumbersOK, ContentsOK, Value, Cluster, Positions
<1>3. FlagsOK'
  BY DEF FlagsOK
<1>4. ControlOK'
  BY DEF ControlOK, Mpcs, Spcs
<1>5. Handshake'
  BY DEF NumbersOK, ContentsOK, FlagsOK, ControlOK, Handshake, Quiet,
         InFlight, MutexFree
<1>6. Positions'
  BY DEF NumbersOK, ContentsOK, Cluster, Positions, Handshake, InPass,
         Quiet, InFlight, MutexFree
<1>7. Stopping'
  BY DEF NumbersOK, FlagsOK, Positions, Stopping, InPass, Closing, Pending,
         Handshake, InFlight
<1>8. FileEnd'
  BY DEF NumbersOK, ContentsOK, FileEnd, Positions, InFlight, Cluster
<1>9. NothingLost'
  BY DEF NumbersOK, ContentsOK, ControlOK, NothingLost, Pending, Delivered,
         InFlight, CallerHas, Handshake, Positions, FileEnd, Cluster,
         MutexFree
<1> QED
  BY <1>1, <1>2, <1>3, <1>4, <1>5, <1>6, <1>7, <1>8, <1>9

\* The loop over an extent tells the tracker before it reads: the invariant is
\* preserved.
LEMMA ExtentBlockInv == CopyInv /\ ExtentBlock => CopyInv'
<1> SUFFICES ASSUME CopyInv, ExtentBlock PROVE CopyInv'
  OBVIOUS
<1> USE PCopyAssumption DEF CopyInv, TypeOK, ExtentBlock, image, output,
        loop, buffers, sender, faults
<1>1. NumbersOK'
  BY DEF NumbersOK, ContentsOK, ControlOK, Positions, Cluster
<1>2. ContentsOK'
  BY DEF NumbersOK, ContentsOK, Value, Cluster, Positions
<1>3. FlagsOK'
  BY DEF FlagsOK
<1>4. ControlOK'
  BY DEF ControlOK, Mpcs, Spcs
<1>5. Handshake'
  BY DEF NumbersOK, ContentsOK, FlagsOK, ControlOK, Handshake, Quiet,
         InFlight, MutexFree
<1>6. Positions'
  BY DEF NumbersOK, ContentsOK, Cluster, Positions, Handshake, InPass,
         Quiet, InFlight, MutexFree
<1>7. Stopping'
  BY DEF NumbersOK, FlagsOK, Positions, Stopping, InPass, Closing, Pending,
         Handshake, InFlight
<1>8. FileEnd'
  BY DEF NumbersOK, ContentsOK, FileEnd, Positions, InFlight, Cluster
<1>9. NothingLost'
  BY DEF NumbersOK, ContentsOK, ControlOK, NothingLost, Pending, Delivered,
         InFlight, CallerHas, Handshake, Positions, FileEnd, Cluster,
         MutexFree
<1> QED
  BY <1>1, <1>2, <1>3, <1>4, <1>5, <1>6, <1>7, <1>8, <1>9

\* Ploop_copy_stop begins: the invariant is preserved.
LEMMA CopyStopInv == CopyInv /\ CopyStop => CopyInv'
<1> SUFFICES ASSUME CopyInv, CopyStop PROVE CopyInv'
  OBVIOUS
<1> USE PCopyAssumption DEF CopyInv, TypeOK, CopyStop, image, kernel,
        output, buffers, sender, faults
<1>1. NumbersOK'
  BY DEF NumbersOK, ContentsOK, ControlOK, Positions, Cluster
<1>2. ContentsOK'
  BY DEF NumbersOK, ContentsOK, Value, Cluster, Positions
<1>3. FlagsOK'
  BY DEF FlagsOK
<1>4. ControlOK'
  BY DEF ControlOK, Mpcs, Spcs
<1>5. Handshake'
  BY DEF NumbersOK, ContentsOK, FlagsOK, ControlOK, Handshake, Quiet,
         InFlight, MutexFree
<1>6. Positions'
  BY DEF NumbersOK, ContentsOK, Cluster, Positions, Handshake, InPass,
         Quiet, InFlight, MutexFree
<1>7. Stopping'
  BY DEF NumbersOK, FlagsOK, Positions, Stopping, InPass, Closing, Pending,
         Handshake, InFlight
<1>8. FileEnd'
  BY DEF NumbersOK, ContentsOK, FileEnd, Positions, InFlight, Cluster
<1>9. NothingLost'
  BY DEF NumbersOK, ContentsOK, ControlOK, NothingLost, Pending, Delivered,
         InFlight, CallerHas, Handshake, Positions, FileEnd, Cluster,
         MutexFree
<1> QED
  BY <1>1, <1>2, <1>3, <1>4, <1>5, <1>6, <1>7, <1>8, <1>9

\* The device is frozen for the last iterations: the invariant is preserved.
LEMMA FreezeInv == CopyInv /\ Freeze => CopyInv'
<1> SUFFICES ASSUME CopyInv, Freeze PROVE CopyInv'
  OBVIOUS
<1> USE PCopyAssumption DEF CopyInv, TypeOK, Freeze, image, output, buffers,
        sender, faults, BeginIteration
<1>1. NumbersOK'
  BY DEF NumbersOK, ContentsOK, ControlOK, Positions, Cluster
<1>2. ContentsOK'
  BY DEF NumbersOK, ContentsOK, Value, Cluster, Positions
<1>3. FlagsOK'
  BY DEF FlagsOK
<1>4. ControlOK'
  BY DEF ControlOK, Mpcs, Spcs
<1>5. Handshake'
  BY DEF NumbersOK, ContentsOK, FlagsOK, ControlOK, Handshake, Quiet,
         InFlight, MutexFree
<1>6. Positions'
  BY DEF NumbersOK, ContentsOK, Cluster, Positions, Handshake, InPass,
         Quiet, InFlight, MutexFree
<1>7. Stopping'
  BY DEF NumbersOK, FlagsOK, Positions, Stopping, InPass, Closing, Pending,
         Handshake, InFlight
<1>8. FileEnd'
  BY DEF NumbersOK, ContentsOK, FileEnd, Positions, InFlight, Cluster
<1>9. NothingLost'
  BY DEF NumbersOK, ContentsOK, ControlOK, NothingLost, Pending, Delivered,
         InFlight, CallerHas, Handshake, Positions, FileEnd, Cluster,
         MutexFree
<1> QED
  BY <1>1, <1>2, <1>3, <1>4, <1>5, <1>6, <1>7, <1>8, <1>9

\* An iteration on the frozen device that sent nothing is the last: the
\* invariant is preserved.
LEMMA IteratedInv == CopyInv /\ Iterated => CopyInv'
<1> SUFFICES ASSUME CopyInv, Iterated PROVE CopyInv'
  OBVIOUS
<1> USE PCopyAssumption DEF CopyInv, TypeOK, Iterated, image, kernel,
        output, buffers, sender, faults, BeginIteration
<1>1. NumbersOK'
  BY DEF NumbersOK, ContentsOK, ControlOK, Positions, Cluster
<1>2. ContentsOK'
  BY DEF NumbersOK, ContentsOK, Value, Cluster, Positions
<1>3. FlagsOK'
  BY DEF FlagsOK
<1>4. ControlOK'
  BY DEF ControlOK, Mpcs, Spcs
<1>5. Handshake'
  BY DEF NumbersOK, ContentsOK, FlagsOK, ControlOK, Handshake, Quiet,
         InFlight, MutexFree
<1>6. Positions'
  BY DEF NumbersOK, ContentsOK, Cluster, Positions, Handshake, InPass,
         Quiet, InFlight, MutexFree
<1>7. Stopping'
  BY DEF NumbersOK, FlagsOK, Positions, Stopping, InPass, Closing, Pending,
         Handshake, InFlight
<1>8. FileEnd'
  BY DEF NumbersOK, ContentsOK, FileEnd, Positions, InFlight, Cluster
<1>9. NothingLost'
  BY DEF NumbersOK, ContentsOK, ControlOK, NothingLost, Pending, Delivered,
         InFlight, CallerHas, Handshake, Positions, FileEnd, Cluster,
         MutexFree
<1> QED
  BY <1>1, <1>2, <1>3, <1>4, <1>5, <1>6, <1>7, <1>8, <1>9

\* The header is sent while no other write is under way: the invariant is
\* preserved.
LEMMA SendHeaderInv == CopyInv /\ SendHeader => CopyInv'
<1> SUFFICES ASSUME CopyInv, SendHeader PROVE CopyInv'
  OBVIOUS
<1> USE PCopyAssumption DEF CopyInv, TypeOK, SendHeader, image, kernel,
        loop, sender, faults
<1>1. NumbersOK'
  BY DEF NumbersOK, ContentsOK, ControlOK, Positions, Cluster
<1>2. ContentsOK'
  BY DEF NumbersOK, ContentsOK, Value, Cluster, Positions
<1>3. FlagsOK'
  BY DEF FlagsOK
<1>4. ControlOK'
  BY DEF ControlOK, Mpcs, Spcs
<1>5. Handshake'
  BY DEF NumbersOK, ContentsOK, FlagsOK, ControlOK, Handshake, Quiet,
         InFlight, MutexFree
<1>6. Positions'
  BY DEF NumbersOK, ContentsOK, Cluster, Positions, Handshake, InPass,
         Quiet, InFlight, MutexFree
<1>7. Stopping'
  BY DEF NumbersOK, FlagsOK, Positions, Stopping, InPass, Closing, Pending,
         Handshake, InFlight
<1>8. FileEnd'
  BY DEF NumbersOK, ContentsOK, FileEnd, Positions, InFlight, Cluster
<1>9. NothingLost'
  <2>1. ~ InFlight
    BY DEF Handshake, InFlight, Quiet
  <2> QED
    BY <2>1 DEF NothingLost, Pending, CallerHas, Delivered, InFlight
<1> QED
  BY <1>1, <1>2, <1>3, <1>4, <1>5, <1>6, <1>7, <1>8, <1>9

\* The header is not sent after a cancellation: the invariant is preserved.
LEMMA HeaderCancelledInv == CopyInv /\ HeaderCancelled => CopyInv'
<1> SUFFICES ASSUME CopyInv, HeaderCancelled PROVE CopyInv'
  OBVIOUS
<1> USE PCopyAssumption DEF CopyInv, TypeOK, HeaderCancelled, image, kernel,
        output, buffers, sender, faults
<1>1. NumbersOK'
  BY DEF NumbersOK, ContentsOK, ControlOK, Positions, Cluster
<1>2. ContentsOK'
  BY DEF NumbersOK, ContentsOK, Value, Cluster, Positions
<1>3. FlagsOK'
  BY DEF FlagsOK
<1>4. ControlOK'
  BY DEF ControlOK, Mpcs, Spcs
<1>5. Handshake'
  BY DEF NumbersOK, ContentsOK, FlagsOK, ControlOK, Handshake, Quiet,
         InFlight, MutexFree
<1>6. Positions'
  BY DEF NumbersOK, ContentsOK, Cluster, Positions, Handshake, InPass,
         Quiet, InFlight, MutexFree
<1>7. Stopping'
  BY DEF NumbersOK, FlagsOK, Positions, Stopping, InPass, Closing, Pending,
         Handshake, InFlight
<1>8. FileEnd'
  BY DEF NumbersOK, ContentsOK, FileEnd, Positions, InFlight, Cluster
<1>9. NothingLost'
  BY DEF NumbersOK, ContentsOK, ControlOK, NothingLost, Pending, Delivered,
         InFlight, CallerHas, Handshake, Positions, FileEnd, Cluster,
         MutexFree
<1> QED
  BY <1>1, <1>2, <1>3, <1>4, <1>5, <1>6, <1>7, <1>8, <1>9

\* The tracker is switched off with the device still frozen: the invariant is
\* preserved.
LEMMA TrackStopInv == CopyInv /\ TrackStop => CopyInv'
<1> SUFFICES ASSUME CopyInv, TrackStop PROVE CopyInv'
  OBVIOUS
<1> USE PCopyAssumption DEF CopyInv, TypeOK, TrackStop, image, output, loop,
        buffers, sender, faults
<1>1. NumbersOK'
  BY DEF NumbersOK, ContentsOK, ControlOK, Positions, Cluster
<1>2. ContentsOK'
  BY DEF NumbersOK, ContentsOK, Value, Cluster, Positions
<1>3. FlagsOK'
  BY DEF FlagsOK
<1>4. ControlOK'
  BY DEF ControlOK, Mpcs, Spcs
<1>5. Handshake'
  BY DEF NumbersOK, ContentsOK, FlagsOK, ControlOK, Handshake, Quiet,
         InFlight, MutexFree
<1>6. Positions'
  BY DEF NumbersOK, ContentsOK, Cluster, Positions, Handshake, InPass,
         Quiet, InFlight, MutexFree
<1>7. Stopping'
  BY DEF NumbersOK, FlagsOK, Positions, Stopping, InPass, Closing, Pending,
         Handshake, InFlight
<1>8. FileEnd'
  BY DEF NumbersOK, ContentsOK, FileEnd, Positions, InFlight, Cluster
<1>9. NothingLost'
  BY DEF NumbersOK, ContentsOK, ControlOK, NothingLost, Pending, Delivered,
         InFlight, CallerHas, Handshake, Positions, FileEnd, Cluster,
         MutexFree
<1> QED
  BY <1>1, <1>2, <1>3, <1>4, <1>5, <1>6, <1>7, <1>8, <1>9

\* The closing packet is handed over, or refused after an error: the invariant
\* is preserved.
LEMMA SendCloseInv == CopyInv /\ SendClose => CopyInv'
<1> SUFFICES ASSUME CopyInv, SendClose PROVE CopyInv'
  OBVIOUS
<1> USE PCopyAssumption DEF CopyInv, TypeOK, SendClose, image, kernel,
        output, loop, buffers, faults, Signalled
<1>1. NumbersOK'
  BY DEF NumbersOK, ContentsOK, ControlOK, Positions, Cluster
<1>2. ContentsOK'
  <2>1. 0 \in Cluster
    BY DEF Cluster
  <2>2. [buf |-> 0, pos |-> 0, last |-> TRUE]
          \in [buf : {0, 1}, pos : Cluster, last : BOOLEAN]
    BY ONLY <2>1
  <2>3. sd' = sd \/ sd' = [buf |-> 0, pos |-> 0, last |-> TRUE]
    OBVIOUS
  <2> QED
    BY <2>2, <2>3 DEF ContentsOK
<1>3. FlagsOK'
  BY DEF FlagsOK
<1>4. ControlOK'
  BY DEF ControlOK, Mpcs, Spcs
<1>5. Handshake'
  BY DEF NumbersOK, ContentsOK, FlagsOK, ControlOK, Handshake, Quiet,
         InFlight, MutexFree
<1>6. Positions'
  BY DEF NumbersOK, ContentsOK, Cluster, Positions, Handshake, InPass,
         Quiet, InFlight, MutexFree
<1>7. Stopping'
  BY DEF NumbersOK, FlagsOK, Positions, Stopping, InPass, Closing, Pending,
         Handshake, InFlight
<1>8. FileEnd'
  BY DEF NumbersOK, ContentsOK, FileEnd, Positions, InFlight, Cluster
<1>9. NothingLost'
  <2>1. ~ InFlight /\ spc # "exited"
    BY DEF Handshake, InFlight, Quiet
  <2>2. CASE sret
    BY <2>1, <2>2 DEF NothingLost
  <2>3. CASE ~ sret
    BY <2>1, <2>3 DEF NothingLost, Pending, CallerHas, Delivered, InFlight
  <2> QED
    BY <2>2, <2>3
<1> QED
  BY <1>1, <1>2, <1>3, <1>4, <1>5, <1>6, <1>7, <1>8, <1>9

\* Pthread_join returns with everything written: the invariant is preserved.
LEMMA JoinInv == CopyInv /\ Join => CopyInv'
<1> SUFFICES ASSUME CopyInv, Join PROVE CopyInv'
  OBVIOUS
<1> USE PCopyAssumption DEF CopyInv, TypeOK, Join, image, kernel, output,
        loop, buffers, sender, faults
<1>1. NumbersOK'
  BY DEF NumbersOK, ContentsOK, ControlOK, Positions, Cluster
<1>2. ContentsOK'
  BY DEF NumbersOK, ContentsOK, Value, Cluster, Positions
<1>3. FlagsOK'
  BY DEF FlagsOK
<1>4. ControlOK'
  BY DEF ControlOK, Mpcs, Spcs
<1>5. Handshake'
  BY DEF NumbersOK, ContentsOK, FlagsOK, ControlOK, Handshake, Quiet,
         InFlight, MutexFree
<1>6. Positions'
  BY DEF NumbersOK, ContentsOK, Cluster, Positions, Handshake, InPass,
         Quiet, InFlight, MutexFree
<1>7. Stopping'
  <2>1. ~ ret => copy = src
    <3> SUFFICES ASSUME ~ ret PROVE copy = src
      OBVIOUS
    <3>1. \A b \in Cluster : copy[b] = src[b]
      BY DEF NothingLost, Stopping, Closing, CallerHas, Delivered, InFlight
    <3> QED
      BY <3>1 DEF ContentsOK
  <2> QED
    BY <2>1 DEF FlagsOK, Handshake, Stopping, InPass, Closing, Pending
<1>8. FileEnd'
  BY DEF NumbersOK, ContentsOK, FileEnd, Positions, InFlight, Cluster
<1>9. NothingLost'
  BY DEF NumbersOK, ContentsOK, ControlOK, NothingLost, Pending, Delivered,
         InFlight, CallerHas, Handshake, Positions, FileEnd, Cluster,
         MutexFree
<1> QED
  BY <1>1, <1>2, <1>3, <1>4, <1>5, <1>6, <1>7, <1>8, <1>9

\* Ploop_copy_release thaws the device: the invariant is preserved.
LEMMA ReleaseInv == CopyInv /\ Release => CopyInv'
<1> SUFFICES ASSUME CopyInv, Release PROVE CopyInv'
  OBVIOUS
<1> USE PCopyAssumption DEF CopyInv, TypeOK, Release, image, output, loop,
        buffers, sender, faults
<1>1. NumbersOK'
  BY DEF NumbersOK, ContentsOK, ControlOK, Positions, Cluster
<1>2. ContentsOK'
  BY DEF NumbersOK, ContentsOK, Value, Cluster, Positions
<1>3. FlagsOK'
  BY DEF FlagsOK
<1>4. ControlOK'
  BY DEF ControlOK, Mpcs, Spcs
<1>5. Handshake'
  BY DEF NumbersOK, ContentsOK, FlagsOK, ControlOK, Handshake, Quiet,
         InFlight, MutexFree
<1>6. Positions'
  BY DEF NumbersOK, ContentsOK, Cluster, Positions, Handshake, InPass,
         Quiet, InFlight, MutexFree
<1>7. Stopping'
  BY DEF NumbersOK, FlagsOK, Positions, Stopping, InPass, Closing, Pending,
         Handshake, InFlight
<1>8. FileEnd'
  BY DEF NumbersOK, ContentsOK, FileEnd, Positions, InFlight, Cluster
<1>9. NothingLost'
  BY DEF NumbersOK, ContentsOK, ControlOK, NothingLost, Pending, Delivered,
         InFlight, CallerHas, Handshake, Positions, FileEnd, Cluster,
         MutexFree
<1> QED
  BY <1>1, <1>2, <1>3, <1>4, <1>5, <1>6, <1>7, <1>8, <1>9

\* Ploop_copy_deinit ends the sender: the invariant is preserved.
LEMMA DeinitInv == CopyInv /\ Deinit => CopyInv'
<1> SUFFICES ASSUME CopyInv, Deinit PROVE CopyInv'
  OBVIOUS
<1> USE PCopyAssumption DEF CopyInv, TypeOK, Deinit, image, output, loop,
        buffers, faults
<1>1. NumbersOK'
  BY DEF NumbersOK, ContentsOK, ControlOK, Positions, Cluster
<1>2. ContentsOK'
  BY DEF NumbersOK, ContentsOK, Value, Cluster, Positions
<1>3. FlagsOK'
  BY DEF FlagsOK
<1>4. ControlOK'
  BY DEF ControlOK, Mpcs, Spcs
<1>5. Handshake'
  BY DEF NumbersOK, ContentsOK, FlagsOK, ControlOK, Handshake, Quiet,
         InFlight, MutexFree
<1>6. Positions'
  BY DEF NumbersOK, ContentsOK, Cluster, Positions, Handshake, InPass,
         Quiet, InFlight, MutexFree
<1>7. Stopping'
  BY DEF NumbersOK, FlagsOK, Positions, Stopping, InPass, Closing, Pending,
         Handshake, InFlight
<1>8. FileEnd'
  BY DEF NumbersOK, ContentsOK, FileEnd, Positions, InFlight, Cluster
<1>9. NothingLost'
  BY DEF NumbersOK, ContentsOK, ControlOK, NothingLost, Pending, Delivered,
         InFlight, CallerHas, Handshake, Positions, FileEnd, Cluster,
         MutexFree
<1> QED
  BY <1>1, <1>2, <1>3, <1>4, <1>5, <1>6, <1>7, <1>8, <1>9

\* The sender waits for its first packet: the invariant is preserved.
LEMMA SenderWaitInv == CopyInv /\ SenderWait => CopyInv'
<1> SUFFICES ASSUME CopyInv, SenderWait PROVE CopyInv'
  OBVIOUS
<1> USE PCopyAssumption DEF CopyInv, TypeOK, SenderWait, image, kernel,
        output, loop, buffers, faults
<1>1. NumbersOK'
  BY DEF NumbersOK, ContentsOK, ControlOK, Positions, Cluster
<1>2. ContentsOK'
  BY DEF NumbersOK, ContentsOK, Value, Cluster, Positions
<1>3. FlagsOK'
  BY DEF FlagsOK
<1>4. ControlOK'
  BY DEF ControlOK, Mpcs, Spcs
<1>5. Handshake'
  BY DEF NumbersOK, ContentsOK, FlagsOK, ControlOK, Handshake, Quiet,
         InFlight, MutexFree
<1>6. Positions'
  BY DEF NumbersOK, ContentsOK, Cluster, Positions, Handshake, InPass,
         Quiet, InFlight, MutexFree
<1>7. Stopping'
  BY DEF NumbersOK, FlagsOK, Positions, Stopping, InPass, Closing, Pending,
         Handshake, InFlight
<1>8. FileEnd'
  BY DEF NumbersOK, ContentsOK, FileEnd, Positions, InFlight, Cluster
<1>9. NothingLost'
  BY DEF NumbersOK, ContentsOK, ControlOK, NothingLost, Pending, Delivered,
         InFlight, CallerHas, Handshake, Positions, FileEnd, Cluster,
         MutexFree
<1> QED
  BY <1>1, <1>2, <1>3, <1>4, <1>5, <1>6, <1>7, <1>8, <1>9

\* The sender takes sd.mutex again: the invariant is preserved.
LEMMA SenderTakesInv == CopyInv /\ SenderTakes => CopyInv'
<1> SUFFICES ASSUME CopyInv, SenderTakes PROVE CopyInv'
  OBVIOUS
<1> USE PCopyAssumption DEF CopyInv, TypeOK, SenderTakes, image, kernel,
        output, loop, buffers, faults
<1>1. NumbersOK'
  BY DEF NumbersOK, ContentsOK, ControlOK, Positions, Cluster
<1>2. ContentsOK'
  BY DEF NumbersOK, ContentsOK, Value, Cluster, Positions
<1>3. FlagsOK'
  BY DEF FlagsOK
<1>4. ControlOK'
  BY DEF ControlOK, Mpcs, Spcs
<1>5. Handshake'
  BY DEF NumbersOK, ContentsOK, FlagsOK, ControlOK, Handshake, Quiet,
         InFlight, MutexFree
<1>6. Positions'
  BY DEF NumbersOK, ContentsOK, Cluster, Positions, Handshake, InPass,
         Quiet, InFlight, MutexFree
<1>7. Stopping'
  BY DEF NumbersOK, FlagsOK, Positions, Stopping, InPass, Closing, Pending,
         Handshake, InFlight
<1>8. FileEnd'
  BY DEF NumbersOK, ContentsOK, FileEnd, Positions, InFlight, Cluster
<1>9. NothingLost'
  BY DEF NumbersOK, ContentsOK, ControlOK, NothingLost, Pending, Delivered,
         InFlight, CallerHas, Handshake, Positions, FileEnd, Cluster,
         MutexFree
<1> QED
  BY <1>1, <1>2, <1>3, <1>4, <1>5, <1>6, <1>7, <1>8, <1>9

\* The sender lets the caller go on: the invariant is preserved.
LEMMA NotifyInv == CopyInv /\ Notify => CopyInv'
<1> SUFFICES ASSUME CopyInv, Notify PROVE CopyInv'
  OBVIOUS
<1> USE PCopyAssumption DEF CopyInv, TypeOK, Notify, image, kernel, output,
        loop, buffers, faults, WaitMutexFree
<1>1. NumbersOK'
  BY DEF NumbersOK, ContentsOK, ControlOK, Positions, Cluster
<1>2. ContentsOK'
  BY DEF NumbersOK, ContentsOK, Value, Cluster, Positions
<1>3. FlagsOK'
  BY DEF FlagsOK
<1>4. ControlOK'
  BY DEF ControlOK, Mpcs, Spcs
<1>5. Handshake'
  BY DEF NumbersOK, ContentsOK, FlagsOK, ControlOK, Handshake, Quiet,
         InFlight, MutexFree
<1>6. Positions'
  BY DEF NumbersOK, ContentsOK, Cluster, Positions, Handshake, InPass,
         Quiet, InFlight, MutexFree
<1>7. Stopping'
  BY DEF NumbersOK, FlagsOK, Positions, Stopping, InPass, Closing, Pending,
         Handshake, InFlight
<1>8. FileEnd'
  BY DEF NumbersOK, ContentsOK, FileEnd, Positions, InFlight, Cluster
<1>9. NothingLost'
  BY DEF NumbersOK, ContentsOK, ControlOK, NothingLost, Pending, Delivered,
         InFlight, CallerHas, Handshake, Positions, FileEnd, Cluster,
         MutexFree
<1> QED
  BY <1>1, <1>2, <1>3, <1>4, <1>5, <1>6, <1>7, <1>8, <1>9

\* The sender writes a cluster, or syncs the output at the end: the invariant
\* is preserved.
LEMMA SendBufInv == CopyInv /\ SendBuf => CopyInv'
<1> SUFFICES ASSUME CopyInv, SendBuf PROVE CopyInv'
  OBVIOUS
<1> USE PCopyAssumption DEF CopyInv, TypeOK, SendBuf, image, kernel, loop,
        buffers, faults, SenderNext
<1>1. NumbersOK'
  BY DEF NumbersOK, ContentsOK, ControlOK, Positions, Cluster
<1>2. ContentsOK'
  BY DEF NumbersOK, ContentsOK, Value, Cluster, Positions
<1>3. FlagsOK'
  BY DEF FlagsOK
<1>4. ControlOK'
  BY DEF ControlOK, Mpcs, Spcs
<1>5. Handshake'
  BY DEF NumbersOK, ContentsOK, FlagsOK, ControlOK, Handshake, Quiet,
         InFlight, MutexFree
<1>6. Positions'
  BY DEF NumbersOK, ContentsOK, Cluster, Positions, Handshake, InPass,
         Quiet, InFlight, MutexFree
<1>7. Stopping'
  <2>1. mpc \in Closing => sd.last
    BY DEF Handshake, Closing
  <2> QED
    BY <2>1 DEF FlagsOK, Handshake, Stopping, InPass, Closing, Pending, Quiet
<1>8. FileEnd'
  BY DEF NumbersOK, ContentsOK, FileEnd, Positions, InFlight, Cluster
<1>9. NothingLost'
  BY DEF NumbersOK, ContentsOK, ControlOK, NothingLost, Pending, Delivered,
         InFlight, CallerHas, Handshake, Positions, FileEnd, Cluster,
         MutexFree
<1> QED
  BY <1>1, <1>2, <1>3, <1>4, <1>5, <1>6, <1>7, <1>8, <1>9

\* The sender writes nothing after a cancellation: the invariant is preserved.
LEMMA SendBufCancelledInv == CopyInv /\ SendBufCancelled => CopyInv'
<1> SUFFICES ASSUME CopyInv, SendBufCancelled PROVE CopyInv'
  OBVIOUS
<1> USE PCopyAssumption DEF CopyInv, TypeOK, SendBufCancelled, image,
        kernel, output, loop, buffers, faults, SenderNext
<1>1. NumbersOK'
  BY DEF NumbersOK, ContentsOK, ControlOK, Positions, Cluster
<1>2. ContentsOK'
  BY DEF NumbersOK, ContentsOK, Value, Cluster, Positions
<1>3. FlagsOK'
  BY DEF FlagsOK
<1>4. ControlOK'
  BY DEF ControlOK, Mpcs, Spcs
<1>5. Handshake'
  BY DEF NumbersOK, ContentsOK, FlagsOK, ControlOK, Handshake, Quiet,
         InFlight, MutexFree
<1>6. Positions'
  BY DEF NumbersOK, ContentsOK, Cluster, Positions, Handshake, InPass,
         Quiet, InFlight, MutexFree
<1>7. Stopping'
  BY DEF NumbersOK, FlagsOK, Positions, Stopping, InPass, Closing, Pending,
         Handshake, InFlight
<1>8. FileEnd'
  BY DEF NumbersOK, ContentsOK, FileEnd, Positions, InFlight, Cluster
<1>9. NothingLost'
  BY DEF NumbersOK, ContentsOK, ControlOK, NothingLost, Pending, Delivered,
         InFlight, CallerHas, Handshake, Positions, FileEnd, Cluster,
         MutexFree
<1> QED
  BY <1>1, <1>2, <1>3, <1>4, <1>5, <1>6, <1>7, <1>8, <1>9

\* A write of the sender fails: the invariant is preserved.
LEMMA SendBufFailsInv == CopyInv /\ SendBufFails => CopyInv'
<1> SUFFICES ASSUME CopyInv, SendBufFails PROVE CopyInv'
  OBVIOUS
<1> USE PCopyAssumption DEF CopyInv, TypeOK, SendBufFails, image, kernel,
        output, loop, buffers, Failing, SenderNext
<1>1. NumbersOK'
  BY DEF NumbersOK, ContentsOK, ControlOK, Positions, Cluster
<1>2. ContentsOK'
  BY DEF NumbersOK, ContentsOK, Value, Cluster, Positions
<1>3. FlagsOK'
  BY DEF FlagsOK
<1>4. ControlOK'
  BY DEF ControlOK, Mpcs, Spcs
<1>5. Handshake'
  BY DEF NumbersOK, ContentsOK, FlagsOK, ControlOK, Handshake, Quiet,
         InFlight, MutexFree
<1>6. Positions'
  BY DEF NumbersOK, ContentsOK, Cluster, Positions, Handshake, InPass,
         Quiet, InFlight, MutexFree
<1>7. Stopping'
  BY DEF NumbersOK, FlagsOK, Positions, Stopping, InPass, Closing, Pending,
         Handshake, InFlight
<1>8. FileEnd'
  BY DEF NumbersOK, ContentsOK, FileEnd, Positions, InFlight, Cluster
<1>9. NothingLost'
  BY DEF NumbersOK, ContentsOK, ControlOK, NothingLost, Pending, Delivered,
         InFlight, CallerHas, Handshake, Positions, FileEnd, Cluster,
         MutexFree
<1> QED
  BY <1>1, <1>2, <1>3, <1>4, <1>5, <1>6, <1>7, <1>8, <1>9

\* A system call of the caller fails: the invariant is preserved.
LEMMA CallFailsInv == CopyInv /\ CallFails => CopyInv'
<1> SUFFICES ASSUME CopyInv, CallFails PROVE CopyInv'
  OBVIOUS
<1> USE PCopyAssumption DEF CopyInv, TypeOK, CallFails, image, kernel,
        output, buffers, sender, Failing
<1>1. NumbersOK'
  BY DEF NumbersOK, ContentsOK, ControlOK, Positions, Cluster
<1>2. ContentsOK'
  BY DEF NumbersOK, ContentsOK, Value, Cluster, Positions
<1>3. FlagsOK'
  BY DEF FlagsOK
<1>4. ControlOK'
  BY DEF ControlOK, Mpcs, Spcs
<1>5. Handshake'
  BY DEF NumbersOK, ContentsOK, FlagsOK, ControlOK, Handshake, Quiet,
         InFlight, MutexFree
<1>6. Positions'
  BY DEF NumbersOK, ContentsOK, Cluster, Positions, Handshake, InPass,
         Quiet, InFlight, MutexFree
<1>7. Stopping'
  BY DEF NumbersOK, FlagsOK, Positions, Stopping, InPass, Closing, Pending,
         Handshake, InFlight
<1>8. FileEnd'
  BY DEF NumbersOK, ContentsOK, FileEnd, Positions, InFlight, Cluster
<1>9. NothingLost'
  BY DEF NumbersOK, ContentsOK, ControlOK, NothingLost, Pending, Delivered,
         InFlight, CallerHas, Handshake, Positions, FileEnd, Cluster,
         MutexFree
<1> QED
  BY <1>1, <1>2, <1>3, <1>4, <1>5, <1>6, <1>7, <1>8, <1>9

\* The cleanup hook sets h->cancelled: the invariant is preserved.
LEMMA CancelSenderInv == CopyInv /\ CancelSender => CopyInv'
<1> SUFFICES ASSUME CopyInv, CancelSender PROVE CopyInv'
  OBVIOUS
<1> USE PCopyAssumption DEF CopyInv, TypeOK, CancelSender, image, kernel,
        output, loop, buffers, sender
<1>1. NumbersOK'
  BY DEF NumbersOK, ContentsOK, ControlOK, Positions, Cluster
<1>2. ContentsOK'
  BY DEF NumbersOK, ContentsOK, Value, Cluster, Positions
<1>3. FlagsOK'
  BY DEF FlagsOK
<1>4. ControlOK'
  BY DEF ControlOK, Mpcs, Spcs
<1>5. Handshake'
  BY DEF NumbersOK, ContentsOK, FlagsOK, ControlOK, Handshake, Quiet,
         InFlight, MutexFree
<1>6. Positions'
  BY DEF NumbersOK, ContentsOK, Cluster, Positions, Handshake, InPass,
         Quiet, InFlight, MutexFree
<1>7. Stopping'
  BY DEF NumbersOK, FlagsOK, Positions, Stopping, InPass, Closing, Pending,
         Handshake, InFlight
<1>8. FileEnd'
  BY DEF NumbersOK, ContentsOK, FileEnd, Positions, InFlight, Cluster
<1>9. NothingLost'
  BY DEF NumbersOK, ContentsOK, ControlOK, NothingLost, Pending, Delivered,
         InFlight, CallerHas, Handshake, Positions, FileEnd, Cluster,
         MutexFree
<1> QED
  BY <1>1, <1>2, <1>3, <1>4, <1>5, <1>6, <1>7, <1>8, <1>9

\* A write of the guest either meets a cluster the tracker has not been
\* told of, or is recorded as dirty: the invariant is preserved.
LEMMA GuestWriteInv ==
  ASSUME CopyInv, NEW w \in Cluster, GuestWrite(w) PROVE CopyInv'
<1> USE PCopyAssumption
    DEF CopyInv, TypeOK, GuestWrite, output, loop, buffers, sender, faults
<1>1. NumbersOK'
  BY DEF NumbersOK, Cluster
<1>2. ContentsOK'
  BY DEF NumbersOK, ContentsOK, Value, Cluster
<1>3. FlagsOK'
  BY DEF FlagsOK
<1>4. ControlOK'
  BY DEF ControlOK
<1>5. Handshake'
  BY DEF Handshake, Quiet, InFlight
<1>6. Positions'
  BY DEF NumbersOK, ContentsOK, Cluster, Positions, InPass, Quiet, InFlight
<1>7. Stopping'
  BY DEF FlagsOK, Stopping, InPass, Closing
<1>8. FileEnd'
  BY DEF NumbersOK, ContentsOK, FileEnd, Cluster
<1>9. NothingLost'
  <2> SUFFICES ASSUME ~ (sret /\ spc # "exited"), ~ ret,
                      mpc \notin {"done", "closed", "failed", "gone", "looped"},
                      NEW b \in Cluster
               PROVE  b \in Pending' \/ CallerHas(b)' \/ Delivered(b)'
    BY DEF NothingLost
  <2>1. b \in Pending \/ CallerHas(b) \/ Delivered(b)
    BY DEF NothingLost
  <2>2. CASE b = w
    <3>1. tracking \/ trackpos = 0
      BY DEF ControlOK, Mpcs, Positions, Stopping, InPass, Closing
    <3> QED
      BY <2>2, <3>1 DEF NumbersOK, Pending, Cluster
  <2>3. CASE b # w
    BY <2>1, <2>3 DEF NumbersOK, ContentsOK, Pending, CallerHas, Delivered,
                      InFlight, Cluster
  <2> QED
    BY <2>2, <2>3
<1> QED
  BY <1>1, <1>2, <1>3, <1>4, <1>5, <1>6, <1>7, <1>8, <1>9

\* Every step preserves the invariant.
LEMMA NextInv == CopyInv /\ [Next]_vars => CopyInv'
<1> SUFFICES ASSUME CopyInv, [Next]_vars PROVE CopyInv'
  OBVIOUS
<1>1. CASE Caller
  BY <1>1, SetPosInv, ReadBlockInv, SendAsyncInv, SendRefusedInv,
     WaitTakenInv, SentInv, WaitSenderInv, SyncInv, TrackReadInv,
     TrackEmptyInv, ExtentBlockInv, FreezeInv, IteratedInv, SendHeaderInv,
     HeaderCancelledInv, TrackStopInv, SendCloseInv, JoinInv, ReleaseInv
  DEF Caller
<1>2. CASE Sender
  BY <1>2, SenderWaitInv, SenderTakesInv, NotifyInv, SendBufInv,
     SendBufCancelledInv
  DEF Sender
<1>3. CASE Client
  BY <1>3, CopyStartInv, NextIterationInv, CopyStopInv, DeinitInv DEF Client
<1>4. CASE \E b \in Cluster : GuestWrite(b)
  BY <1>4, GuestWriteInv
<1>5. CASE SendBufFails \/ CallFails \/ CancelSender
  BY <1>5, SendBufFailsInv, CallFailsInv, CancelSenderInv
<1>6. CASE UNCHANGED vars
  BY <1>6 DEF CopyInv, TypeOK, NumbersOK, ContentsOK, FlagsOK, ControlOK,
     Handshake, Positions, Stopping, FileEnd, NothingLost, Pending,
     CallerHas, Delivered, InFlight, vars, image, kernel, output, loop,
     buffers, sender, faults
<1> QED
  BY <1>1, <1>2, <1>3, <1>4, <1>5, <1>6 DEF Next

\* The invariant holds in every reachable state of the copy.
THEOREM Invariance == Spec => []CopyInv
BY InitInv, NextInv, PTL DEF Spec

\* Type correctness of the live copy: the tracker, the extents and the
\* packets handed to the sender stay inside the image file.
THEOREM TypeCorrect == Spec => []TypeOK
<1>1. CopyInv => TypeOK
  BY DEF CopyInv
<1> QED
  BY <1>1, Invariance, PTL

\* A successful ploop_copy_stop delivers the frozen image, cluster by
\* cluster and with a clean header, however the guest, the sender and the
\* failures were interleaved.
THEOREM StopDeliversImage == Spec => []CopyComplete
<1>1. CopyInv => CopyComplete
  BY DEF CopyInv, Stopping, CopyComplete
<1> QED
  BY <1>1, Invariance, PTL

\* The double buffering is safe: what the sender writes out is not
\* overwritten by the reader.
THEOREM BuffersSafe == Spec => BufferStable
<1>1. CopyInv /\ [Next]_vars
        => [spc = "sending" /\ spc' = "sending" /\ ~ sd.last
              => buf'[sd.buf] = buf[sd.buf]]_vars
  <2> SUFFICES ASSUME CopyInv, Next, spc = "sending", spc' = "sending",
                      ~ sd.last
               PROVE  buf'[sd.buf] = buf[sd.buf]
    OBVIOUS
  <2>1. CASE ReadBlock
    BY <2>1 DEF CopyInv, TypeOK, NumbersOK, ContentsOK, Handshake, ReadBlock
  <2>2. CASE SendHeader
    BY <2>2 DEF CopyInv, Handshake, Quiet, SendHeader
  <2>3. CASE ~ ReadBlock /\ ~ SendHeader
    <3>1. UNCHANGED buf
      BY <2>3 DEF Next, Caller, Sender, Client, SetPos, SendAsync,
         SendRefused, WaitTaken, Sent, WaitSender, Sync, TrackRead,
         TrackEmpty, ExtentBlock, Freeze, Iterated, HeaderCancelled,
         TrackStop, SendClose, Join, Release, SenderWait, SenderTakes,
         Notify, SendBuf, SendBufCancelled, CopyStart, NextIteration,
         CopyStop, Deinit, GuestWrite, SendBufFails, CallFails,
         CancelSender, buffers
    <3> QED
      BY <3>1
  <2> QED
    BY <2>1, <2>2, <2>3
<1> QED
  BY <1>1, Invariance, PTL DEF Spec, BufferStable

-----------------------------------------------------------------------------
(***************************************************************************)
(* The bound on the iterations of ploop_copy_stop.                         *)
(***************************************************************************)

\* Every step preserves LoopInv; PLOOP_IOC_TRACK_READ is the one that needs
\* the circular order of the tracker.
LEMMA NextLoop == CopyInv /\ LoopInv /\ [Next]_vars => LoopInv'
<1> SUFFICES ASSUME CopyInv, LoopInv, [Next]_vars PROVE LoopInv'
  OBVIOUS
<1> USE DEF LoopInv, InStop, InPass, Pending
<1>1. CASE ReadBlock
  BY <1>1 DEF ReadBlock, image, kernel, CopyInv, Positions
<1>2. CASE SendAsync
  BY <1>2 DEF SendAsync, image, kernel, loop
<1>3. CASE SendRefused
  BY <1>3 DEF SendRefused, image, kernel
<1>4. CASE WaitTaken
  BY <1>4 DEF WaitTaken, image, kernel, loop
<1>5. CASE Sent
  BY <1>5 DEF Sent, image, kernel
<1>6. CASE WaitSender
  BY <1>6 DEF WaitSender, image, kernel, loop
<1>7. CASE Sync
  BY <1>7 DEF Sync, image, kernel, loop
<1>8. CASE NextIteration
  BY <1>8 DEF NextIteration, image, kernel, BeginIteration
<1>9. CASE TrackEmpty
  BY <1>9 DEF TrackEmpty, image, kernel, loop
<1>10. CASE CopyStop
  BY <1>10 DEF CopyStop, image, kernel
<1>11. CASE SendHeader
  BY <1>11 DEF SendHeader, image, kernel, loop
<1>12. CASE HeaderCancelled
  BY <1>12 DEF HeaderCancelled, image, kernel
<1>13. CASE TrackStop
  BY <1>13 DEF TrackStop, image, loop
<1>14. CASE SendClose
  BY <1>14 DEF SendClose, image, kernel, loop
<1>15. CASE Join
  BY <1>15 DEF Join, image, kernel, loop
<1>16. CASE Release
  BY <1>16 DEF Release, image, loop
<1>17. CASE Deinit
  BY <1>17 DEF Deinit, image, loop
<1>18. CASE SenderWait
  BY <1>18 DEF SenderWait, image, kernel, loop
<1>19. CASE SenderTakes
  BY <1>19 DEF SenderTakes, image, kernel, loop
<1>20. CASE Notify
  BY <1>20 DEF Notify, image, kernel, loop, WaitMutexFree
<1>21. CASE SendBuf
  BY <1>21 DEF SendBuf, image, kernel, loop
<1>22. CASE SendBufCancelled
  BY <1>22 DEF SendBufCancelled, image, kernel, loop
<1>23. CASE SendBufFails
  BY <1>23 DEF SendBufFails, image, kernel, loop, Failing
<1>24. CASE CallFails
  BY <1>24 DEF CallFails, image, kernel, Failing
<1>25. CASE CancelSender
  BY <1>25 DEF CancelSender, image, kernel, loop
<1>26. CASE CopyStart
  BY <1>26 DEF CopyStart, image, CopyInv, Positions
<1>27. CASE SetPos
  BY <1>27 DEF SetPos, image, loop, CopyInv, Positions
<1>28. CASE Freeze
  BY <1>28 DEF Freeze, BeginIteration, image, CopyInv, TypeOK, NumbersOK, Positions
<1>29. CASE Iterated
  BY <1>29 DEF Iterated, BeginIteration, image, kernel, CopyInv, TypeOK,
         NumbersOK, Positions
<1>30. CASE ExtentBlock
  BY <1>30 DEF ExtentBlock, image, loop, CopyInv, TypeOK, NumbersOK,
         Stopping, Cluster
<1>31. CASE \E b \in Cluster : GuestWrite(b)
  BY <1>31 DEF GuestWrite, loop, CopyInv, Stopping
<1>32. CASE UNCHANGED vars
  BY <1>32 DEF vars, image, kernel, loop
<1>33. CASE TrackRead
  <2>1. PICK s \in Pending, e \in 1 .. N :
          /\ IsNext(s)
          /\ s < e
          /\ s .. e - 1 \subseteq Pending
          /\ ptr' = e
          /\ dirty' = dirty \ (s .. e - 1)
          /\ wrapped' = (s < iterpos)
          /\ iterpos' = e
    BY <1>33 DEF TrackRead
  <2>2. /\ mpc = "track" /\ mpc' = "block" /\ xferred'
        /\ UNCHANGED <<call, niter>>
    BY <1>33 DEF TrackRead
  <2>3. Pending \subseteq Nat /\ ptr \in Nat /\ dirty \subseteq Pending
    <3>1. dirty \subseteq Cluster /\ ptr \in 0 .. N
      BY DEF CopyInv, TypeOK, NumbersOK
    <3>2. Cluster \subseteq Nat /\ ptr \in Nat
      BY <3>1, PCopyAssumption DEF Cluster
    <3>3. Pending \subseteq Cluster /\ dirty \subseteq Pending
      BY <3>1 DEF Pending
    <3> QED
      BY <3>2, <3>3
  <2>4. (\E c \in Pending : ptr <= c) => ptr <= s
    BY <2>1, <2>3 DEF IsNext
  <2>5. s < ptr => \A b \in dirty' : e <= b
    BY <2>1, <2>3, <2>4 DEF IsNext
  <2>6. (\A b \in dirty : ptr <= b) => \A b \in dirty' : e <= b
    BY <2>1, <2>3 DEF IsNext
  <2>7. CASE call # "stop"
    BY <2>2, <2>7
  <2>8. CASE call = "stop" /\ niter = 1
    <3>1. iterpos \in {0, ptr} /\ s \in Nat
      BY <2>1, <2>2, <2>3, <2>8
    <3>2. s < iterpos => s < ptr
      BY <2>3, <3>1
    <3> QED
      BY <2>1, <2>2, <2>5, <2>8, <3>2
  <2>9. CASE call = "stop" /\ niter = 2
    <3>1. ptr <= s
      BY PCopyAssumption, <2>1, <2>2, <2>3, <2>9
      DEF CopyInv, Positions, TypeOK, NumbersOK, Quiet
    <3>2. iterpos \in {0, ptr} /\ s \in Nat
      BY <2>1, <2>2, <2>3, <2>9
    <3>3. ~ (s < iterpos)
      BY <2>3, <3>1, <3>2
    <3> QED
      BY <2>1, <2>2, <2>6, <2>9, <3>3
  <2>10. CASE call = "stop" /\ niter = 3
    BY <2>1, <2>2, <2>10
  <2> QED
    BY <2>2, <2>7, <2>8, <2>9, <2>10
<1> QED
  BY <1>1, <1>2, <1>3, <1>4, <1>5, <1>6, <1>7, <1>8, <1>9, <1>10, <1>11,
     <1>12, <1>13, <1>14, <1>15, <1>16, <1>17, <1>18, <1>19, <1>20, <1>21,
     <1>22, <1>23, <1>24, <1>25, <1>26, <1>27, <1>28, <1>29, <1>30, <1>31,
     <1>32, <1>33
  DEF Next, Caller, Sender, Client

\* ploop_copy_stop never gives up with SYSEXIT_LOOP on a frozen device:
\* three iterations are always enough.
THEOREM ThreeIterations == Spec => []NeverLooped
<1>1. Init => LoopInv
  BY DEF Init, LoopInv, InStop
<1>2. LoopInv => NeverLooped
  BY DEF LoopInv, NeverLooped
<1> QED
  BY <1>1, <1>2, NextLoop, Invariance, PTL DEF Spec

-----------------------------------------------------------------------------
(***************************************************************************)
(* The refinement of LiveCopy.                                             *)
(***************************************************************************)

\* Steps inside a call, of the sender and of the environment change nothing
\* that LiveCopy sees.
LEMMA InnerStutters ==
  ASSUME CopyInv,
         \/ SetPos \/ ReadBlock \/ SendAsync \/ SendRefused \/ WaitTaken
         \/ Sent \/ WaitSender \/ Sync \/ TrackRead \/ TrackEmpty
         \/ ExtentBlock \/ Iterated \/ SendHeader \/ HeaderCancelled
         \/ TrackStop \/ SendClose \/ Join \/ Sender \/ CopyStart
         \/ NextIteration \/ CopyStop \/ SendBufFails \/ CallFails
         \/ CancelSender
  PROVE  UNCHANGED Live!liveVars
<1>1. src' = src /\ frozen' = frozen
  BY DEF SetPos, ReadBlock, SendAsync, SendRefused, WaitTaken, Sent,
     WaitSender, Sync, TrackRead, TrackEmpty, ExtentBlock, Iterated,
     SendHeader, HeaderCancelled, TrackStop, SendClose, Join, Sender,
     SenderWait, SenderTakes, Notify, SendBuf, SendBufCancelled, CopyStart,
     NextIteration, CopyStop, SendBufFails, CallFails, CancelSender, image,
     kernel
<1>2. \/ mpc' = mpc
      \/ {mpc, mpc'} \cap {"done", "closed", "failed", "gone"} = {}
  BY DEF SetPos, ReadBlock, SendAsync, SendRefused, WaitTaken, Sent,
     WaitSender, Sync, TrackRead, TrackEmpty, ExtentBlock, Iterated,
     BeginIteration, SendHeader, HeaderCancelled, TrackStop, SendClose, Join,
     Sender, SenderWait, SenderTakes, Notify, WaitMutexFree, SendBuf,
     SendBufCancelled, CopyStart, NextIteration, CopyStop, SendBufFails,
     CallFails, CancelSender
<1>3. mpc \in {"done", "closed"} => copy' = copy
  <2>1. mpc \in {"done", "closed"} => ~ SendBuf
    BY DEF CopyInv, Handshake, SendBuf
  <2> QED
    BY <2>1 DEF SetPos, ReadBlock, SendAsync, SendRefused, WaitTaken, Sent,
       WaitSender, Sync, TrackRead, TrackEmpty, ExtentBlock, Iterated,
       SendHeader, HeaderCancelled, TrackStop, SendClose, Join, Sender,
       SenderWait, SenderTakes, Notify, SendBufCancelled, CopyStart,
       NextIteration, CopyStop, SendBufFails, CallFails, CancelSender,
       output
<1> QED
  BY <1>1, <1>2, <1>3 DEF Live!liveVars

\* Every step of the copy is a step of LiveCopy or a stuttering step: the
\* device is frozen once, and thawed together with the outcome.
LEMMA StepRefines ==
  CopyInv /\ CopyInv' /\ [Next]_vars => [Live!Next]_(Live!liveVars)
<1> SUFFICES ASSUME CopyInv, CopyInv', [Next]_vars
             PROVE  Live!Next \/ UNCHANGED Live!liveVars
  OBVIOUS
<1>1. CASE Freeze
  <2>1. Live!Freeze
    BY <1>1 DEF Freeze, BeginIteration, CopyInv, Stopping, Live!Freeze,
       image, output
  <2> QED
    BY <2>1 DEF Live!Next
<1>2. CASE Release /\ ~ ret
  <2>1. Live!Finish
    BY <1>2 DEF Release, CopyInv, Stopping, Live!Finish, image, output
  <2> QED
    BY <2>1 DEF Live!Next
<1>3. CASE Release /\ ret
  <2>1. Live!Fail
    BY <1>3 DEF Release, Live!Fail, image, output
  <2> QED
    BY <2>1 DEF Live!Next
<1>4. CASE Deinit /\ mpc \in {"new", "ready", "looped"}
  <2>1. Live!Fail
    BY <1>4 DEF Deinit, Live!Fail, image, output
  <2> QED
    BY <2>1 DEF Live!Next
<1>5. CASE Deinit /\ mpc \in {"done", "failed"}
  <2>1. UNCHANGED <<src, copy>> /\ ~ frozen /\ ~ frozen'
    BY <1>5 DEF Deinit, CopyInv, Stopping, image, output
  <2>2. frozen' = frozen
    BY <2>1 DEF CopyInv, TypeOK, FlagsOK
  <2>3. CASE mpc = "done"
    BY <1>5, <2>1, <2>2, <2>3 DEF Deinit, Live!liveVars
  <2>4. CASE mpc = "failed"
    BY <1>5, <2>1, <2>2, <2>4 DEF Deinit, Live!liveVars
  <2> QED
    BY <1>5, <2>3, <2>4
<1>6. CASE \E b \in Cluster : GuestWrite(b)
  <2>1. Live!Write
    BY <1>6 DEF GuestWrite, Live!Write, CopyInv, TypeOK, ContentsOK, output
  <2> QED
    BY <2>1 DEF Live!Next
<1>7. CASE UNCHANGED vars
  <2>1. UNCHANGED <<src, frozen, copy, mpc>>
    BY <1>7 DEF vars, image, kernel, output
  <2> QED
    BY <2>1 DEF Live!liveVars
<1>8. CASE \/ SetPos \/ ReadBlock \/ SendAsync \/ SendRefused \/ WaitTaken
           \/ Sent \/ WaitSender \/ Sync \/ TrackRead \/ TrackEmpty
           \/ ExtentBlock \/ Iterated \/ SendHeader \/ HeaderCancelled
           \/ TrackStop \/ SendClose \/ Join \/ Sender \/ CopyStart
           \/ NextIteration \/ CopyStop \/ SendBufFails \/ CallFails
           \/ CancelSender
  BY <1>8, InnerStutters
<1>9. Deinit => mpc \in {"new", "ready", "looped", "done", "failed"}
  BY DEF Deinit
<1> QED
  BY <1>1, <1>2, <1>3, <1>4, <1>5, <1>6, <1>7, <1>8, <1>9
  DEF Next, Caller, Client

\* The detailed copy implements what it promises: the threads, the tracker
\* and the iterations of ploop-copy.c refine LiveCopy.
THEOREM Refinement == Spec => LiveSpec
<1>1. Init => Live!Init
  <2> SUFFICES ASSUME Init PROVE Live!Init
    OBVIOUS
  <2>1. src \in [Cluster -> Value]
    BY InitInv DEF CopyInv, TypeOK, ContentsOK
  <2> QED
    BY <2>1 DEF Init, Live!Init
<1> QED
  BY <1>1, Invariance, StepRefines, PTL DEF Spec, LiveSpec, Live!Spec
=============================================================================
