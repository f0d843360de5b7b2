-------------------------------- MODULE PCopy --------------------------------
(***************************************************************************)
(* Live copy of the top delta of a running device to a local file          *)
(* (lib/ploop-copy.c): ploop_copy_start sends every cluster once,          *)
(* ploop_copy_next_iteration sends what the kernel's write tracker reports *)
(* as modified, and ploop_copy_stop freezes the file system and iterates   *)
(* until nothing is left.  Clusters are read by the calling thread into    *)
(* one of two buffers and written by a second thread; the two meet through *)
(* a pair of condition variables that have no predicate.                   *)
(* Spec assumes that pthread_cond_wait does not return spuriously.         *)
(*                                                                         *)
(* The thread of sender_thread holds sd.mutex whenever it is not waiting   *)
(* on sd.cond; the caller holds sd.wait_mutex whenever it is not waiting   *)
(* on sd.wait_cond (from ploop_copy_init on).  The two mutexes are         *)
(* therefore functions of the program counters mpc and spc.                *)
(***************************************************************************)
EXTENDS Integers, FiniteSets

CONSTANTS N,          \* bound on the size of the image file, in clusters
          MaxWrites,  \* bound on the number of guest writes
          MaxFail,    \* bound on failed system calls
          Cancels,    \* whether the cleanup hook cancel_sender may run
          Raw         \* the image is raw and has no header

ASSUME PCopyAssumption == /\ N \in Nat \ {0}
                          /\ MaxWrites \in Nat
                          /\ MaxFail \in Nat
                          /\ Cancels \in BOOLEAN
                          /\ Raw \in BOOLEAN

Cluster == 0 .. N - 1

Absent == -1    \* a cluster behind the end of the file

VARIABLES
  src,        \* the image file of the top delta
  eof,        \* its size
  writes,     \* number of guest writes so far
  frozen,     \* the device or its file system is frozen
  tracking,   \* the kernel's write tracker is on
  dirty,      \* clusters it has seen written below trackpos
  trackpos,   \* clusters from here on count as not yet copied
  ptr,        \* where PLOOP_IOC_TRACK_READ goes on
  copy,       \* the output file
  clean,      \* the output's header says that the disk is not in use
  mpc,        \* where the calling thread is
  call,       \* which function it is in
  ret,        \* it is about to return an error
  pos,        \* next cluster to send
  end,        \* end of the extent being sent
  trackend,   \* end of the image as far as the copy knows
  iterpos,    \* end of the last extent of this iteration
  wrapped,    \* the tracker started again from the beginning
  xferred,    \* something was sent in this iteration
  niter,      \* iterations of ploop_copy_stop
  cur,        \* h->cur_iobuf
  buf,        \* the two buffers
  spc,        \* where the sender is
  sd,         \* the packet handed over
  sret,       \* sd->ret: a write failed
  cancelled,  \* h->cancelled
  fails       \* number of failed system calls so far

image == <<src, eof, writes>>
kernel == <<frozen, tracking, dirty, trackpos, ptr>>
output == <<copy, clean>>
loop == <<call, ret, pos, end, trackend, iterpos, wrapped, xferred, niter>>
buffers == <<cur, buf>>
sender == <<spc, sd, sret>>
faults == <<cancelled, fails>>

vars == <<image, kernel, output, mpc, loop, buffers, sender, faults>>

Init ==
  /\ eof \in 1 .. N
  /\ src = [b \in Cluster |-> IF b < eof THEN 0 ELSE Absent]
  /\ writes = 0
  /\ frozen = FALSE
  /\ tracking = FALSE
  /\ dirty = {}
  /\ trackpos = 0
  /\ ptr = 0
  /\ copy = [b \in Cluster |-> Absent]
  /\ clean = FALSE
  /\ mpc = "new"
  /\ call = "none"
  /\ ret = FALSE
  /\ pos = 0
  /\ end = 0
  /\ trackend = 0
  /\ iterpos = 0
  /\ wrapped = FALSE
  /\ xferred = FALSE
  /\ niter = 0
  /\ cur = 0
  /\ buf = [k \in {0, 1} |-> Absent]
  /\ spc = "none"
  /\ sd = [buf |-> 0, pos |-> 0, last |-> TRUE]
  /\ sret = FALSE
  /\ cancelled = FALSE
  /\ fails = 0

MutexFree == spc \notin {"hold", "notify", "sending"}

WaitMutexFree == mpc \in {"wait", "cwait"}

\* what the tracker has to report: written since it was read, or not yet
\* passed by PLOOP_IOC_TRACK_SETPOS
Pending == dirty \cup {b \in Cluster : trackpos <= b /\ b < eof}

-----------------------------------------------------------------------------
(* ploop_copy_start.                                                       *)

\* the sender thread is created and the barrier passed, which it reaches
\* with sd.mutex held; the tracker is switched on
CopyStart ==
  /\ mpc = "new"
  /\ mpc' = "first"
  /\ call' = "start"
  /\ spc' = "hold"
  /\ tracking' = TRUE
  /\ trackend' = eof
  /\ pos' = 0
  /\ UNCHANGED <<image, frozen, dirty, trackpos, ptr, output, ret, end,
                 iterpos, wrapped, xferred, niter, buffers, sd, sret, faults>>

\* mutant: the tracker is told one cluster late
SetPosLate ==
  /\ mpc = "first"
  /\ IF pos <= trackend
     THEN mpc' = "read" /\ trackpos' = pos
     ELSE mpc' = "drain" /\ UNCHANGED trackpos
  /\ UNCHANGED <<image, frozen, tracking, dirty, ptr, output, loop, buffers,
                 sender, faults>>

\* the loop of the first pass: the tracker is told before the cluster is
\* read that it is about to be copied
SetPos ==
  /\ mpc = "first"
  /\ IF pos <= trackend
     THEN mpc' = "read" /\ trackpos' = pos + 1
     ELSE mpc' = "drain" /\ UNCHANGED trackpos
  /\ UNCHANGED <<image, frozen, tracking, dirty, ptr, output, loop, buffers,
                 sender, faults>>

\* mutant: one buffer only
ReadBlockSame ==
  /\ mpc = "read"
  /\ IF pos < eof
     THEN /\ buf' = [buf EXCEPT ![cur] = src[pos]]
          /\ mpc' = "lock"
          /\ UNCHANGED ret
     ELSE /\ mpc' = IF call = "start" THEN "drain" ELSE "release"
          /\ ret' = (call # "start")
          /\ UNCHANGED buf
  /\ UNCHANGED <<image, kernel, output, call, pos, end, trackend, iterpos,
                 wrapped, xferred, niter, cur, sender, faults>>

\* send_image_block: get_free_iobuf and pread; at the end of the file the
\* first pass is over, an iteration fails with a short read
ReadBlock ==
  /\ mpc = "read"
  /\ cur' = 1 - cur
  /\ IF pos < eof
     THEN /\ buf' = [buf EXCEPT ![1 - cur] = src[pos]]
          /\ mpc' = "lock"
          /\ UNCHANGED ret
     ELSE /\ mpc' = IF call = "start" THEN "drain" ELSE "release"
          /\ ret' = (call # "start")
          /\ UNCHANGED buf
  /\ UNCHANGED <<image, kernel, output, call, pos, end, trackend, iterpos,
                 wrapped, xferred, niter, sender, faults>>

-----------------------------------------------------------------------------
(* send_async.                                                             *)

\* pthread_cond_signal has an effect only on a sender that is waiting
Signalled == IF spc = "wait" THEN "woken" ELSE spc

SendAsync ==
  /\ mpc = "lock"
  /\ MutexFree
  /\ ~ sret
  /\ sd' = [buf |-> cur, pos |-> pos, last |-> FALSE]
  /\ spc' = Signalled
  /\ mpc' = "enter"
  /\ UNCHANGED <<image, kernel, output, loop, buffers, sret, faults>>

\* an earlier write failed
SendRefused ==
  /\ mpc = "lock"
  /\ MutexFree
  /\ sret
  /\ ret' = TRUE
  /\ mpc' = "release"
  /\ UNCHANGED <<image, kernel, output, call, pos, end, trackend, iterpos,
                 wrapped, xferred, niter, buffers, sender, faults>>

\* pthread_cond_wait(wait_cond) releases wait_mutex
WaitTaken ==
  /\ mpc \in {"enter", "center"}
  /\ mpc' = IF mpc = "enter" THEN "wait" ELSE "cwait"
  /\ UNCHANGED <<image, kernel, output, loop, buffers, sender, faults>>

\* back in the loop of the first pass or of an iteration
Sent ==
  /\ mpc = "sent"
  /\ pos' = pos + 1
  /\ mpc' = IF call = "start" THEN "first" ELSE "block"
  /\ UNCHANGED <<image, kernel, output, call, ret, end, trackend, iterpos,
                 wrapped, xferred, niter, buffers, sender, faults>>

-----------------------------------------------------------------------------
(* The end of a pass: wait_sender, then PCOPY_CMD_SYNC.                    *)

WaitSender ==
  /\ mpc = "drain"
  /\ MutexFree
  /\ mpc' = "sync"
  /\ UNCHANGED <<image, kernel, output, loop, buffers, sender, faults>>

Sync ==
  /\ mpc = "sync"
  /\ mpc' = IF call = "stop" THEN "iterated" ELSE "ready"
  /\ UNCHANGED <<image, kernel, output, loop, buffers, sender, faults>>

-----------------------------------------------------------------------------
(* ploop_copy_next_iteration.                                              *)

BeginIteration ==
  /\ mpc' = "track"
  /\ iterpos' = 0
  /\ wrapped' = FALSE
  /\ xferred' = FALSE

NextIteration ==
  /\ mpc = "ready"
  /\ BeginIteration
  /\ call' = "iter"
  /\ UNCHANGED <<image, kernel, output, ret, pos, end, trackend, niter,
                 buffers, sender, faults>>

\* b is the first pending cluster from ptr on, or the first one of all
\* when none is left there
IsNext(b) ==
  LET ahead == {c \in Pending : c >= ptr}
      from == IF ahead # {} THEN ahead ELSE Pending
  IN  b \in from /\ \A c \in from : b <= c

\* PLOOP_IOC_TRACK_READ reports an extent of pending clusters, or EAGAIN
TrackRead ==
  /\ mpc = "track"
  /\ \E s \in Pending, e \in 1 .. N :
       /\ IsNext(s)
       /\ s < e
       /\ s .. e - 1 \subseteq Pending
       /\ pos' = s
       /\ end' = e
       /\ dirty' = dirty \ (s .. e - 1)
       /\ ptr' = e
       /\ trackend' = IF e > trackend THEN e ELSE trackend
       /\ wrapped' = (s < iterpos)
       /\ iterpos' = e
  /\ xferred' = TRUE
  /\ mpc' = "block"
  /\ UNCHANGED <<image, frozen, tracking, trackpos, output, call, ret, niter,
                 buffers, sender, faults>>

TrackEmpty ==
  /\ mpc = "track"
  /\ Pending = {}
  /\ mpc' = "drain"
  /\ UNCHANGED <<image, kernel, output, loop, buffers, sender, faults>>

\* mutant: every extent ends the iteration, wrapped or not
ExtentAlone ==
  /\ mpc = "block"
  /\ IF pos < end
     THEN /\ mpc' = "read"
          /\ trackpos' = IF pos + 1 > trackpos THEN pos + 1 ELSE trackpos
     ELSE mpc' = "drain" /\ UNCHANGED trackpos
  /\ UNCHANGED <<image, frozen, tracking, dirty, ptr, output, loop, buffers,
                 sender, faults>>

\* the loop over the extent, and the end of the loop over extents
ExtentBlock ==
  /\ mpc = "block"
  /\ IF pos < end
     THEN /\ mpc' = "read"
          /\ trackpos' = IF pos + 1 > trackpos THEN pos + 1 ELSE trackpos
     ELSE /\ mpc' = IF wrapped THEN "drain" ELSE "track"
          /\ UNCHANGED trackpos
  /\ UNCHANGED <<image, frozen, tracking, dirty, ptr, output, loop, buffers,
                 sender, faults>>

-----------------------------------------------------------------------------
(* ploop_copy_stop.                                                        *)

CopyStop ==
  /\ mpc = "ready"
  /\ mpc' = "freeze"
  /\ call' = "stop"
  /\ UNCHANGED <<image, kernel, output, ret, pos, end, trackend, iterpos,
                 wrapped, xferred, niter, buffers, sender, faults>>

\* PLOOP_IOC_FREEZE, or FIFREEZE on the mount point, then PLOOP_IOC_SYNC
Freeze ==
  /\ mpc = "freeze"
  /\ frozen' = TRUE
  /\ niter' = 1
  /\ BeginIteration
  /\ UNCHANGED <<image, tracking, dirty, trackpos, ptr, output, call, ret,
                 pos, end, trackend, buffers, sender, faults>>

\* an iteration that sent nothing is the last one; a third one that sent
\* something gives up with SYSEXIT_LOOP, the device still frozen
Iterated ==
  /\ mpc = "iterated"
  /\ IF xferred
     THEN /\ niter' = niter + 1
          /\ IF niter > 2
             THEN mpc' = "looped" /\ UNCHANGED <<iterpos, wrapped, xferred>>
             ELSE BeginIteration
     ELSE mpc' = "header" /\ UNCHANGED <<niter, iterpos, wrapped, xferred>>
  /\ UNCHANGED <<image, kernel, output, call, ret, pos, end, trackend,
                 buffers, sender, faults>>

\* the header goes out once more, by the calling thread, with m_DiskInUse
\* cleared
SendHeader ==
  /\ mpc = "header"
  /\ Raw \/ ~ cancelled
  /\ IF Raw
     THEN UNCHANGED <<cur, buf, clean>>
     ELSE /\ cur' = 1 - cur
          /\ buf' = [buf EXCEPT ![1 - cur] = src[0]]
          /\ clean' = TRUE
  /\ mpc' = "trackstop"
  /\ UNCHANGED <<image, kernel, copy, loop, sender, faults>>

HeaderCancelled ==
  /\ mpc = "header"
  /\ ~ Raw /\ cancelled
  /\ ret' = TRUE
  /\ mpc' = "release"
  /\ UNCHANGED <<image, kernel, output, call, pos, end, trackend, iterpos,
                 wrapped, xferred, niter, buffers, sender, faults>>

TrackStop ==
  /\ mpc = "trackstop"
  /\ tracking' = FALSE
  /\ mpc' = "close"
  /\ UNCHANGED <<image, frozen, dirty, trackpos, ptr, output, loop, buffers,
                 sender, faults>>

\* mutant: the closing packet carries the position of the last cluster
SendCloseAt ==
  /\ mpc = "close"
  /\ MutexFree
  /\ IF sret
     THEN mpc' = "join" /\ UNCHANGED <<sd, spc>>
     ELSE /\ sd' = [buf |-> 0, pos |-> pos, last |-> TRUE]
          /\ spc' = Signalled
          /\ mpc' = "center"
  /\ UNCHANGED <<image, kernel, output, loop, buffers, sret, faults>>

\* send_async(h, NULL, 0, 0), its result ignored
SendClose ==
  /\ mpc = "close"
  /\ MutexFree
  /\ IF sret
     THEN mpc' = "join" /\ UNCHANGED <<sd, spc>>
     ELSE /\ sd' = [buf |-> 0, pos |-> 0, last |-> TRUE]
          /\ spc' = Signalled
          /\ mpc' = "center"
  /\ UNCHANGED <<image, kernel, output, loop, buffers, sret, faults>>

\* pthread_join
Join ==
  /\ mpc = "join"
  /\ spc = "exited"
  /\ mpc' = "release"
  /\ UNCHANGED <<image, kernel, output, loop, buffers, sender, faults>>

\* mutant: the error is forgotten
ReleaseOk ==
  /\ mpc = "release"
  /\ frozen' = FALSE
  /\ tracking' = FALSE
  /\ mpc' = "done"
  /\ UNCHANGED <<image, dirty, trackpos, ptr, output, loop, buffers, sender,
                 faults>>

\* mutant: the device is not thawed
ReleaseFrozen ==
  /\ mpc = "release"
  /\ tracking' = FALSE
  /\ mpc' = IF ret THEN "failed" ELSE "done"
  /\ UNCHANGED <<image, frozen, dirty, trackpos, ptr, output, loop, buffers,
                 sender, faults>>

\* ploop_copy_release and the return to the caller
Release ==
  /\ mpc = "release"
  /\ frozen' = FALSE
  /\ tracking' = FALSE
  /\ mpc' = IF ret THEN "failed" ELSE "done"
  /\ UNCHANGED <<image, dirty, trackpos, ptr, output, loop, buffers, sender,
                 faults>>

\* ploop_copy_deinit: wait_mutex is released, a sender that is still there
\* is cancelled
Deinit ==
  /\ mpc \in {"new", "ready", "done", "failed", "looped"}
  /\ mpc' = IF mpc = "done" THEN "closed" ELSE "gone"
  /\ frozen' = FALSE
  /\ tracking' = FALSE
  /\ spc' = IF spc \in {"none", "exited"} THEN spc ELSE "exited"
  /\ UNCHANGED <<image, dirty, trackpos, ptr, output, loop, buffers, sd,
                 sret, faults>>

-----------------------------------------------------------------------------
(* sender_thread.                                                          *)

SenderWait ==
  /\ spc = "hold"
  /\ spc' = "wait"
  /\ UNCHANGED <<image, kernel, output, mpc, loop, buffers, sd, sret, faults>>

\* pthread_cond_wait returns with sd.mutex taken again
SenderTakes ==
  /\ spc = "woken"
  /\ spc' = "notify"
  /\ UNCHANGED <<image, kernel, output, mpc, loop, buffers, sd, sret, faults>>

\* mutant: wait_cond is signalled without wait_mutex
NotifyUnlocked ==
  /\ spc = "notify"
  /\ spc' = "sending"
  /\ mpc' = CASE mpc = "wait" -> "sent"
              [] mpc = "cwait" -> "join"
              [] OTHER -> mpc
  /\ UNCHANGED <<image, kernel, output, loop, buffers, sd, sret, faults>>

\* wakeup(&sd->wait_mutex, &sd->wait_cond)
Notify ==
  /\ spc = "notify"
  /\ WaitMutexFree
  /\ spc' = "sending"
  /\ mpc' = IF mpc = "wait" THEN "sent" ELSE "join"
  /\ UNCHANGED <<image, kernel, output, loop, buffers, sd, sret, faults>>

SenderNext == IF sd.last THEN "exited" ELSE "wait"

\* send_buf: pwrite, or fsync for the closing packet
SendBuf ==
  /\ spc = "sending"
  /\ ~ cancelled
  /\ copy' = IF sd.last THEN copy ELSE [copy EXCEPT ![sd.pos] = buf[sd.buf]]
  /\ clean' = (clean /\ (sd.last \/ sd.pos # 0))
  /\ sret' = FALSE
  /\ spc' = SenderNext
  /\ UNCHANGED <<image, kernel, mpc, loop, buffers, sd, faults>>

SendBufCancelled ==
  /\ spc = "sending"
  /\ cancelled
  /\ sret' = TRUE
  /\ spc' = SenderNext
  /\ UNCHANGED <<image, kernel, output, mpc, loop, buffers, sd, faults>>

-----------------------------------------------------------------------------
(* The guest, failures and the cleanup hook.                               *)

\* a write into the image file, or one that makes it grow by a cluster
GuestWrite(b) ==
  /\ ~ frozen
  /\ writes < MaxWrites
  /\ b <= eof
  /\ writes' = writes + 1
  /\ src' = [src EXCEPT ![b] = writes + 1]
  /\ eof' = IF b = eof THEN eof + 1 ELSE eof
  /\ dirty' = IF tracking /\ b < trackpos THEN dirty \cup {b} ELSE dirty
  /\ UNCHANGED <<frozen, tracking, trackpos, ptr, output, mpc, loop, buffers,
                 sender, faults>>

Failing == fails < MaxFail /\ fails' = fails + 1

\* pwrite or fsync fails in the sender
SendBufFails ==
  /\ spc = "sending"
  /\ Failing
  /\ sret' = TRUE
  /\ spc' = SenderNext
  /\ UNCHANGED <<image, kernel, output, mpc, loop, buffers, sd, cancelled>>

\* an ioctl, pread, pthread_create or the sync of an iteration fails; the
\* sync of the first pass is not looked at
CallFails ==
  /\ mpc \in {"new", "first", "read", "sync", "track", "block", "freeze",
              "header", "trackstop"}
  /\ Failing
  /\ IF mpc = "sync" /\ call = "start"
     THEN mpc' = "ready" /\ UNCHANGED ret
     ELSE mpc' = "release" /\ ret' = TRUE
  /\ UNCHANGED <<image, kernel, output, call, pos, end, trackend, iterpos,
                 wrapped, xferred, niter, buffers, sender, cancelled>>

\* the cleanup hook, run by a signal handler of the application
CancelSender ==
  /\ Cancels
  /\ ~ cancelled
  /\ mpc \notin {"gone", "closed"}
  /\ cancelled' = TRUE
  /\ UNCHANGED <<image, kernel, output, mpc, loop, buffers, sender, fails>>

-----------------------------------------------------------------------------

\* a step inside a call; the calls themselves are up to the client
Caller ==
  \/ SetPos \/ ReadBlock \/ SendAsync \/ SendRefused \/ WaitTaken \/ Sent
  \/ WaitSender \/ Sync \/ TrackRead \/ TrackEmpty \/ ExtentBlock
  \/ Freeze \/ Iterated \/ SendHeader \/ HeaderCancelled \/ TrackStop
  \/ SendClose \/ Join \/ Release

Sender ==
  \/ SenderWait \/ SenderTakes \/ Notify \/ SendBuf \/ SendBufCancelled

Client == CopyStart \/ NextIteration \/ CopyStop \/ Deinit

Next ==
  \/ Caller \/ Sender \/ Client
  \/ \E b \in Cluster : GuestWrite(b)
  \/ SendBufFails \/ CallFails \/ CancelSender

Spec == Init /\ [][Next]_vars

(* Both threads are scheduled; system calls return.                        *)
FairSpec == Spec /\ WF_vars(Caller) /\ WF_vars(Sender)

-----------------------------------------------------------------------------
(* Properties.                                                             *)

Value == Nat \cup {Absent}

Mpcs == {"new", "first", "read", "lock", "enter", "wait", "sent", "drain",
         "sync", "ready", "track", "block", "freeze", "iterated", "header",
         "trackstop", "close", "center", "cwait", "join", "release", "done",
         "failed", "looped", "closed", "gone"}

Spcs == {"none", "hold", "wait", "woken", "notify", "sending", "exited"}

NumbersOK ==
  /\ eof \in 0 .. N
  /\ writes \in Nat
  /\ dirty \in SUBSET Cluster
  /\ trackpos \in Nat
  /\ ptr \in 0 .. N
  /\ pos \in Nat
  /\ end \in 0 .. N
  /\ trackend \in 0 .. N
  /\ iterpos \in 0 .. N
  /\ niter \in Nat
  /\ cur \in {0, 1}
  /\ fails \in Nat

ContentsOK ==
  /\ src \in [Cluster -> Value]
  /\ copy \in [Cluster -> Value]
  /\ buf \in [{0, 1} -> Value]
  /\ sd \in [buf : {0, 1}, pos : Cluster, last : BOOLEAN]

FlagsOK ==
  /\ frozen \in BOOLEAN
  /\ tracking \in BOOLEAN
  /\ clean \in BOOLEAN
  /\ ret \in BOOLEAN
  /\ wrapped \in BOOLEAN
  /\ xferred \in BOOLEAN
  /\ sret \in BOOLEAN
  /\ cancelled \in BOOLEAN

ControlOK ==
  /\ mpc \in Mpcs
  /\ call \in {"none", "start", "iter", "stop"}
  /\ spc \in Spcs

\* Every variable keeps its type: in particular the tracker, the extents
\* and the packets handed to the sender stay inside the image file.
TypeOK == NumbersOK /\ ContentsOK /\ FlagsOK /\ ControlOK

\* When ploop_copy_stop is about to return success, the device is still
\* frozen, the output is the image cluster by cluster, and the output's
\* header says that the disk is not in use: no write of the guest between
\* two iterations, no buffer reuse and no failed write of the sender is
\* lost on the way.
CopyComplete ==
  mpc = "release" /\ ~ ret => frozen /\ copy = src /\ (Raw \/ clean)

\* The calling thread never reads into the buffer that the sender is
\* writing out.
BufferStable ==
  [][spc = "sending" /\ spc' = "sending" /\ ~ sd.last
       => buf'[sd.buf] = buf[sd.buf]]_vars

\* The tracker walks in a circle, so that three iterations on a frozen
\* device always reach one that sends nothing: SYSEXIT_LOOP, which returns
\* without thawing, is never taken.
NeverLooped == mpc # "looped"

\* Every call returns: the two threads never wait for each other forever,
\* and no wakeup is lost, whatever call fails; only after a failed write of
\* the sender may ploop_copy_stop join a thread that nobody wakes.
Returned == {"new", "ready", "done", "failed", "closed", "gone"}

CallReturns == mpc \notin Returned ~> (mpc \in Returned \/ sret)

\* A device that ploop_copy_stop froze is thawed again, also when a call
\* fails or the copy is cancelled, with the same exception.
Thawed == frozen ~> (~ frozen \/ sret)

\* The copy implements what LiveCopy promises: the outcome is decided when
\* ploop_copy_release thaws the device, and the result is the output file.
Live == INSTANCE LiveCopy WITH
          Image <- [Cluster -> Value],
          image <- src,
          frozen <- frozen,
          result <- IF mpc \in {"done", "closed"} THEN {copy} ELSE {},
          outcome <- CASE mpc \in {"done", "closed"} -> "copied"
                       [] mpc \in {"failed", "gone"} -> "failed"
                       [] OTHER -> "pending"

LiveSpec == Live!Spec

-----------------------------------------------------------------------------
(***************************************************************************)
(* The inductive invariant behind CopyComplete.  Every cluster is copied,  *)
(* or still known to the tracker, or on its way: to be read by the caller, *)
(* in the caller's buffer, or in the buffer the sender writes out.         *)
(***************************************************************************)
InPass == {"first", "read", "lock", "enter", "wait", "sent", "track", "block"}

Quiet == {"sync", "ready", "freeze", "iterated", "header", "trackstop",
          "close"}

Closing == {"center", "cwait", "join"}

InFlight == spc \in {"woken", "notify", "sending"}

\* the two threads: who can be where at the same time, and which buffer
\* is whose
Handshake ==
  /\ mpc = "new" => spc = "none"
  /\ mpc \in {"first", "read", "lock", "sent", "track", "block", "drain"}
       => spc \in {"hold", "wait", "sending"} /\ (spc = "sending" => ~ sd.last)
  /\ mpc \in {"enter", "wait"}
       => /\ spc \in {"woken", "notify"}
          /\ sd = [buf |-> cur, pos |-> pos, last |-> FALSE]
  /\ mpc \in Quiet => spc \in {"hold", "wait"}
  /\ mpc \in {"center", "cwait"} => spc \in {"woken", "notify"} /\ sd.last
  /\ mpc = "join" => \/ spc \in {"hold", "wait"} /\ sret
                     \/ spc \in {"sending", "exited"} /\ sd.last
  /\ mpc = "release" /\ ~ ret => spc = "exited"
  /\ mpc \in {"done", "closed"} => spc = "exited"
  /\ spc = "sending" /\ mpc \in {"first", "read", "sent", "track", "block"}
       => sd.buf = cur
  /\ spc = "sending" /\ mpc = "lock" => sd.buf = 1 - cur
  /\ InFlight => ~ sret

\* positions: the tracker has been told of every cluster before it is read,
\* and no cluster is skipped
Positions ==
  /\ mpc \in {"new"} => trackpos = 0 /\ ptr = 0
  /\ mpc \in {"first", "read", "lock", "enter", "wait", "sent"}
       /\ call = "start"
       => trackpos = (IF mpc = "first" THEN pos ELSE pos + 1) /\ ptr = 0
  /\ mpc \in InPass \ {"first", "track"} /\ call # "start"
       => pos <= end /\ end <= eof /\ ptr = end
  /\ mpc \in {"read", "lock", "enter", "wait", "sent"} /\ call # "start"
       => pos < end /\ pos < trackpos
  /\ mpc = "block" => pos <= trackpos
  /\ mpc \in {"lock", "enter", "wait"} => pos < eof /\ pos < trackpos
  /\ mpc \in Quiet \cup {"track", "drain"} => ptr <= trackpos
  /\ mpc \in {"track", "block"} => call # "start"
  /\ mpc = "first" => call = "start"
  /\ mpc \in {"freeze", "iterated"} => call = "stop"
  /\ \A b \in dirty : b < eof
  /\ mpc \in InPass \cup {"drain", "sync", "ready", "freeze", "iterated",
                          "header", "trackstop"} => tracking
  /\ InFlight /\ ~ sd.last => sd.pos < eof /\ sd.pos < trackpos

\* the frozen part of ploop_copy_stop
Stopping ==
  /\ mpc \in {"iterated", "header", "trackstop", "close"} \cup Closing
       => frozen
  /\ mpc = "release" /\ ~ ret => frozen
  /\ mpc \in InPass \cup {"drain", "sync"} => (frozen <=> call = "stop")
  /\ mpc \in {"new", "ready", "freeze", "done", "failed", "closed", "gone"}
       => ~ frozen
  /\ mpc \in InPass \ {"first", "track"} /\ call # "start" => xferred
  /\ mpc \in {"drain", "sync", "iterated"} /\ call = "stop" /\ ~ xferred
       => Pending = {}
  /\ mpc \in {"header", "trackstop", "close"} \cup Closing => Pending = {}
  /\ mpc \in {"trackstop", "close"} \cup Closing => Raw \/ clean
  /\ mpc = "release" /\ ~ ret => (Raw \/ clean) /\ copy = src
  /\ mpc \notin {"failed", "gone", "done", "closed", "looped"}
       => (ret => mpc = "release")
  /\ mpc \in {"done", "closed"} => ~ ret
  /\ mpc = "failed" => ret

\* cluster b has been taken from the tracker and not yet been handed over
CallerHas(b) ==
  \/ mpc = "read" /\ pos = b
  \/ mpc = "lock" /\ pos = b /\ buf[cur] = src[b]
  \/ mpc = "block" /\ pos <= b /\ b < end
  \/ mpc \in {"read", "lock", "enter", "wait", "sent"} /\ call # "start"
       /\ pos < b /\ b < end

\* what the output holds for b, or will hold after the write under way, is
\* right, and no other content of b is about to be handed over
Delivered(b) ==
  /\ ~ (mpc = "lock" /\ pos = b)
  /\ IF InFlight /\ ~ sd.last /\ sd.pos = b THEN buf[sd.buf] = src[b]
                                              ELSE copy[b] = src[b]

NothingLost ==
  \/ sret /\ spc # "exited"
  \/ ret
  \/ mpc \in {"done", "closed", "failed", "gone", "looped"}
  \/ \A b \in Cluster : b \in Pending \/ CallerHas(b) \/ Delivered(b)

FileEnd == \A b \in Cluster : b >= eof => src[b] = Absent /\ copy[b] = Absent

\* The invariant: the two threads are in step, the tracker is ahead of the
\* reader, and no cluster is lost.
CopyInv == /\ TypeOK
           /\ Handshake
           /\ Positions
           /\ Stopping
           /\ FileEnd
           /\ NothingLost

(***************************************************************************)
(* The invariant behind NeverLooped: on the frozen device the first        *)
(* iteration ends with nothing left, or just after the tracker wrapped,    *)
(* with what is left ahead of it; the second one finds the rest without    *)
(* wrapping; the third finds nothing.                                      *)
(***************************************************************************)
InStop == call = "stop" /\ mpc \in InPass \cup {"drain", "sync", "iterated"}

LoopInv ==
  /\ mpc # "looped"
  /\ InStop => niter \in 1 .. 3 /\ iterpos \in {0, ptr}
  /\ InStop /\ (niter = 2 \/ (niter = 1 /\ wrapped))
       => \A b \in dirty : ptr <= b
  /\ InStop /\ niter = 2 => ~ wrapped
  /\ InStop /\ niter = 3 => Pending = {} /\ ~ xferred /\ ~ wrapped
  /\ InStop /\ mpc \notin InPass /\ ~ wrapped => Pending = {}
=============================================================================
