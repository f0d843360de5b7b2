--------------------------- MODULE BalloonProofs ---------------------------
(* No maintenance state of the kernel is left behind and no discard request *)
(* is left without an answer, for any number of callers, calls and faults.  *)
(*                                                                          *)
(* The invariant has two layers.  ControlInv says what holds whatever       *)
(* happened: which operation may be where, which holds which lock, and      *)
(* which state of the kernel goes with a list of free blocks, with the      *)
(* discard mode and with a caller that took the balloon.  Attended says     *)
(* that each state of the kernel has a caller, or a child, that will end    *)
(* it; it holds as long as no window was met.  Both are kept by every step, *)
(* which the lemmas below show action by action.                            *)
EXTENDS Balloon, TLAPS

-----------------------------------------------------------------------------
(* The inductive invariant.                                                *)

States == {"OFF", "BALLOON", "FBLOADED", "RELOC", "TRACK", "DISCARD"}
Sized == {"inflate", "deflate", "clear", "check", "repair"}
Relocating == {"x_get", "x_plan", "x_reloc", "x_move"}
Discards == {"d_fork", "d_wait", "d_lock", "d_abort"}

Children == {"none", "trim", "sent", "stop", "killed", "done", "dead"}

\* A call is a record with these fields.
IsCall(c) == c = [op |-> c.op, pc |-> c.pc, type |-> c.type, fm |-> c.fm, ah |-> c.ah,
                  plan |-> c.plan, new |-> c.new, then |-> c.then, else |-> c.else]

\* What the operation of a call says about where it is and where it goes on.
CallOK(c) ==
  /\ IsCall(c)
  /\ c.pc \in {"b_ctl", "b_trunc", "b_alloc", "b_load", "b_free", "b_drop"} => c.op \in Sized
  /\ c.pc = "b_trunc" => c.op = "deflate"
  /\ c.pc \in {"b_alloc", "b_load", "b_free"} => c.op # "deflate"
  /\ c.pc \in {"t_begin", "t_end"} => c.op = "track"
  /\ c.pc = "c_state" => c.op = "running"
  /\ c.pc \in Discards \cup {"d_reap"} => c.op = "discard"
  /\ c.pc \in Discards => c.then = "d_wait" /\ c.else = "d_abort"
  /\ \/ c.then \in {"ok", "fail"} /\ c.else = "fail"
     \/ /\ c.then = "d_wait" /\ c.else = "d_abort" /\ c.op = "discard"
        /\ c.pc \notin {"c_fini", "c_ctl"}
  /\ c.pc \in {"idle", "ok", "fail", "b_ctl", "b_trunc", "b_alloc", "b_load", "b_free", "b_drop", "t_begin", "t_end",
               "c_state", "c_fini", "c_ctl", "d_reap"} \cup Discards \cup Relocating

Shape == /\ mntn \in States /\ disc \in BOOLEAN
         /\ trim \in [Proc -> Children]
         /\ call = [p \in Proc |-> call[p]] /\ \A p \in Proc : CallOK(call[p])

\* The locks are exclusive, and belong to the operations that need them.
Holders == \A p \in Proc :
  /\ call[p].op \in Sized \cup {"complete"} => flock = p
  /\ call[p].op \in {"running", "track"} => lock = p

\* the call has put the kernel into the state of ballooning; a deflation drops a
\* state it did not take
Ballooning(c) == \/ c.pc \in {"b_load", "b_free"}
                 \/ c.pc = "b_drop" /\ c.op # "deflate"
                 \/ c.pc = "b_alloc" /\ c.type = "BALLOON"

Busy == {"DISCARD", "FBLOADED", "RELOC"}

\* The kernel's state, whatever happened.
Kernel == /\ fb # {} => mntn \in Busy
          /\ disc => mntn \in Busy
          /\ mntn = "DISCARD" => disc
          /\ \A p \in Proc : /\ Ballooning(call[p]) => mntn = "BALLOON"
                             /\ call[p].pc = "t_end" => mntn = "TRACK"

ControlInv == Shape /\ Holders /\ Kernel

\* the call answers discards, or is about to end the mode
Parent(c) == \/ c.pc \in Discards \cup {"c_fini"}
             \/ c.pc \in Relocating /\ c.then = "d_wait"

\* p has a child that trims, or is about to have one
Child(p) == call[p].pc = "d_fork" \/ trim[p] \in {"trim", "sent", "stop"}

\* the call will relocate what is loaded, and the kernel will accept it
Loader(c) == \/ c.pc \in {"c_fini", "c_ctl", "d_abort"}
             \/ c.pc \in {"x_get", "x_plan", "x_reloc"} /\ (fb = {} \/ c.ah = head)
             \/ c.pc \in {"x_get", "x_plan", "x_reloc"} /\ c.then = "d_wait"

\* the call will wait for the relocation
Mover(c) == c.pc \in {"c_fini", "c_ctl", "x_reloc", "x_move"}

\* Every state of the kernel but OFF has somebody who ends it.
Attended ==
  /\ mntn = "BALLOON" => \E p \in Proc : Ballooning(call[p])
  /\ mntn = "TRACK" => \E p \in Proc : call[p].pc = "t_end"
  /\ mntn = "RELOC" => \E p \in Proc : Mover(call[p])
  /\ mntn = "FBLOADED" /\ ~ disc => \E p \in Proc : Loader(call[p])
  /\ disc => \E p \in Proc : Parent(call[p])
  /\ disc => \E p \in Proc : Child(p)

AttendedInv == windows = {} => Attended

-----------------------------------------------------------------------------
(* Calls as records.                                                        *)

\* A caller that is in no call is where CallOK allows it to be.
LEMMA IdleCall == CallOK(Idle) /\ Idle.pc = "idle" /\ Idle.op = "idle" /\ Idle.then = "ok"
                  /\ Idle.else = "fail" /\ Idle.type = "OFF"
<1>1. IsCall(Idle)
  BY DEF Idle, IsCall
<1> QED
  BY <1>1 DEF Idle, CallOK, Discards, Relocating, Sized

\* A call of these fields.
Rec(o, v, t, f, a, s, n, y, z) ==
  [op |-> o, pc |-> v, type |-> t, fm |-> f, ah |-> a, plan |-> s, new |-> n, then |-> y, else |-> z]

\* A call made of these fields has them.
LEMMA RecCall ==
  ASSUME NEW o, NEW v, NEW t, NEW f, NEW a, NEW s, NEW n, NEW y, NEW z
  PROVE  LET c == Rec(o, v, t, f, a, s, n, y, z)
         IN  IsCall(c) /\ c.op = o /\ c.pc = v /\ c.type = t /\ c.ah = a /\ c.then = y /\ c.else = z
<1> DEFINE c == Rec(o, v, t, f, a, s, n, y, z)
<1>1. c = [op |-> o, pc |-> v, type |-> t, fm |-> f, ah |-> a, plan |-> s, new |-> n,
           then |-> y, else |-> z]
  BY DEF Rec
<1> HIDE DEF c
<1>2. IsCall(c) /\ c.op = o /\ c.pc = v /\ c.type = t /\ c.ah = a /\ c.then = y /\ c.else = z
  BY <1>1 DEF IsCall
<1> QED
  BY <1>2 DEF c

\* Set(p, c) puts p into c and leaves all other callers alone.
LEMMA SetCall == ASSUME Shape, NEW p \in Proc, NEW c, Set(p, c)
                 PROVE  /\ call' = [q \in Proc |-> call'[q]] /\ call'[p] = c
                        /\ \A q \in Proc : q # p => call'[q] = call[q]
<1>1. call' = [call EXCEPT ![p] = c] /\ call = [q \in Proc |-> call[q]]
  BY DEF Set, Shape
<1>2. call' = [q \in Proc |-> IF q = p THEN c ELSE call[q]]
  BY <1>1
<1> QED
  BY <1>2

-----------------------------------------------------------------------------
(* What the steps of all callers have in common.                            *)

\* A step of one caller keeps ControlInv if its own call stays in order, it
\* takes no lock from another, and it ends the states BALLOON and TRACK only
\* under the lock that whoever took them holds.
LEMMA ControlStep ==
  ASSUME ControlInv, NEW p \in Proc, call' = [q \in Proc |-> call'[q]],
         \A q \in Proc : q # p => call'[q] = call[q],
         CallOK(call'[p]), mntn' \in States, disc' \in BOOLEAN, trim' \in [Proc -> Children],
         \A q \in Proc : q # p => (flock = q => flock' = q) /\ (lock = q => lock' = q),
         call'[p].op \in Sized \cup {"complete"} => flock' = p,
         call'[p].op \in {"running", "track"} => lock' = p,
         fb' # {} \/ disc' => mntn' \in Busy,
         mntn' = "DISCARD" => disc',
         (mntn = "BALLOON" => mntn' = "BALLOON") \/ call[p].op \in Sized,
         (mntn = "TRACK" => mntn' = "TRACK") \/ call[p].op \in {"running", "track"},
         Ballooning(call'[p]) => mntn' = "BALLOON",
         call'[p].pc = "t_end" => mntn' = "TRACK"
  PROVE  ControlInv'
<1>1. Shape'
  <2>1. \A q \in Proc : CallOK(call'[q])
    BY DEF ControlInv, Shape
  <2> QED
    BY <2>1 DEF Shape
<1>2. Holders'
  <2> SUFFICES ASSUME NEW q \in Proc
               PROVE  /\ call'[q].op \in Sized \cup {"complete"} => flock' = q
                      /\ call'[q].op \in {"running", "track"} => lock' = q
    BY DEF Holders
  <2> QED
    BY DEF ControlInv, Holders
<1>3. Kernel'
  <2>1. ASSUME NEW q \in Proc
        PROVE  /\ Ballooning(call'[q]) => mntn' = "BALLOON"
               /\ call'[q].pc = "t_end" => mntn' = "TRACK"
    <3>1. CASE q = p
      BY <3>1
    <3>2. CASE q # p
      <4>1. call'[q] = call[q] /\ CallOK(call[q])
        BY <3>2 DEF ControlInv, Shape
      <4>2. Ballooning(call[q]) => mntn = "BALLOON" /\ call[q].op \in Sized
        BY <4>1 DEF ControlInv, Kernel, Ballooning, CallOK
      <4>3. call[q].pc = "t_end" => mntn = "TRACK" /\ call[q].op = "track"
        BY <4>1 DEF ControlInv, Kernel, CallOK
      <4>4. call[q].op \in Sized => call[p].op \notin Sized
        BY <3>2 DEF ControlInv, Holders
      <4>5. call[q].op = "track" => call[p].op \notin {"running", "track"}
        BY <3>2 DEF ControlInv, Holders
      <4>6. Ballooning(call'[q]) => mntn' = "BALLOON"
        BY <4>1, <4>2, <4>4
      <4>7. call'[q].pc = "t_end" => mntn' = "TRACK"
        BY <4>1, <4>3, <4>5
      <4> QED
        BY <4>6, <4>7
    <3> QED
      BY <3>1, <3>2
  <2> QED
    BY <2>1 DEF Kernel
<1> QED
  BY <1>1, <1>2, <1>3 DEF ControlInv

\* A step of one caller keeps Attended if it attends to each state it brings
\* about or was itself attending to.
LEMMA AttendStep ==
  ASSUME ControlInv, Attended, NEW p \in Proc,
         \A q \in Proc : q # p => call'[q] = call[q] /\ trim'[q] = trim[q],
         mntn' = "BALLOON" => \/ Ballooning(call'[p])
                              \/ mntn = "BALLOON" /\ ~ Ballooning(call[p]),
         mntn' = "TRACK" => \/ call'[p].pc = "t_end"
                            \/ mntn = "TRACK" /\ call[p].pc # "t_end",
         mntn' = "RELOC" => \/ Mover(call'[p])
                            \/ mntn = "RELOC" /\ ~ Mover(call[p]),
         mntn' = "FBLOADED" /\ ~ disc' => \/ Loader(call[p])'
                                          \/ /\ mntn = "FBLOADED" /\ ~ disc /\ ~ Loader(call[p])
                                             /\ UNCHANGED <<fb, head>>,
         disc' => \/ Parent(call'[p])
                  \/ disc /\ ~ Parent(call[p]),
         disc' => \/ Child(p)'
                  \/ disc /\ ~ Child(p)
  PROVE  Attended'
<1>1. mntn' = "BALLOON" => \E q \in Proc : Ballooning(call'[q])
  BY DEF Attended
<1>2. mntn' = "TRACK" => \E q \in Proc : call'[q].pc = "t_end"
  BY DEF Attended
<1>3. mntn' = "RELOC" => \E q \in Proc : Mover(call'[q])
  BY DEF Attended
<1>4. mntn' = "FBLOADED" /\ ~ disc' => \E q \in Proc : Loader(call[q])'
  <2> SUFFICES ASSUME mntn' = "FBLOADED", ~ disc', ~ Loader(call[p])'
               PROVE  \E q \in Proc : Loader(call[q])'
    OBVIOUS
  <2>1. mntn = "FBLOADED" /\ ~ disc /\ ~ Loader(call[p]) /\ UNCHANGED <<fb, head>>
    OBVIOUS
  <2>2. PICK q \in Proc : Loader(call[q])
    BY <2>1 DEF Attended
  <2>3. call'[q] = call[q]
    BY <2>1, <2>2
  <2>4. Loader(call[q])'
    BY <2>1, <2>2, <2>3 DEF Loader
  <2> QED
    BY <2>4
<1>5. disc' => \E q \in Proc : Parent(call'[q])
  BY DEF Attended
<1>6. disc' => \E q \in Proc : Child(q)'
  <2> SUFFICES ASSUME disc', ~ Child(p)' PROVE \E q \in Proc : Child(q)'
    OBVIOUS
  <2>1. PICK q \in Proc : Child(q) /\ q # p
    BY DEF Attended
  <2>2. Child(q)'
    BY <2>1 DEF Child
  <2> QED
    BY <2>2
<1> QED
  BY <1>1, <1>2, <1>3, <1>4, <1>5, <1>6 DEF Attended

-----------------------------------------------------------------------------
(* Calls begin, return and are killed.                                      *)

Kept == ControlInv' /\ (Attended /\ windows' = {} => Attended')

\* What ControlInv says of one caller.
LEMMA Caller == ASSUME ControlInv, NEW p \in Proc
                PROVE  /\ CallOK(call[p]) /\ IsCall(call[p]) /\ Shape
                       /\ mntn \in States /\ disc \in BOOLEAN /\ trim \in [Proc -> Children]
                       /\ call = [q \in Proc |-> call[q]]
                       /\ (fb # {} \/ disc => mntn \in Busy) /\ (mntn = "DISCARD" => disc)
                       /\ call[p].op \in Sized \cup {"complete"} => flock = p
                       /\ call[p].op \in {"running", "track"} => lock = p
                       /\ Ballooning(call[p]) => mntn = "BALLOON"
                       /\ call[p].pc = "t_end" => mntn = "TRACK"
  BY DEF ControlInv, Shape, Holders, Kernel, CallOK

\* The locals of a call that begins.
LEMMA BegunCall ==
  ASSUME NEW o, NEW v
  PROVE  LET c == [Idle EXCEPT !.op = o, !.pc = v]
         IN  IsCall(c) /\ c.op = o /\ c.pc = v /\ c.then = "ok" /\ c.else = "fail"
<1> DEFINE c == [Idle EXCEPT !.op = o, !.pc = v]
           d == Idle
<1>1. c = [d EXCEPT !.op = o, !.pc = v]
  OBVIOUS
<1>2. IsCall(d)
  BY IdleCall DEF CallOK
<1> HIDE DEF c, d
<1>3. c = Rec(o, v, d.type, d.fm, d.ah, d.plan, d.new, d.then, d.else)
  BY <1>1, <1>2 DEF IsCall, Rec
<1>4. IsCall(c) /\ c.op = o /\ c.pc = v /\ c.then = d.then /\ c.else = d.else
  BY <1>3, RecCall
<1> QED
  BY <1>4, IdleCall DEF c, d

\* get_balloon: a caller with the lock of the balloon has taken nothing yet.
LEMMA GetBalloonKept == ASSUME ControlInv, NEW p \in Proc, get_balloon(p) PROVE Kept
<1>1. PICK op \in {"inflate", "deflate", "clear", "check", "repair", "complete"} :
        Begin(p, [Idle EXCEPT !.op = op, !.pc = IF op = "complete" THEN "c_fini" ELSE "b_ctl"])
  BY DEF get_balloon
<1> DEFINE v == IF op = "complete" THEN "c_fini" ELSE "b_ctl"
           c == [Idle EXCEPT !.op = op, !.pc = v]
<1>2. /\ flock = None /\ flock' = p /\ lock' = lock /\ UNCHANGED <<mntn, disc, fb, trim>>
      /\ call[p] = Idle /\ Set(p, c) /\ UNCHANGED <<map, own, head, windows>>
  BY <1>1 DEF get_balloon, Begin, kernel, image
<1>3. IsCall(c) /\ c.op = op /\ c.pc = v /\ c.then = "ok" /\ c.else = "fail"
  <2> HIDE DEF v
  <2> QED
    BY BegunCall
<1>4. /\ call' = [q \in Proc |-> call'[q]] /\ call'[p] = c
      /\ \A q \in Proc : q # p => call'[q] = call[q]
  BY <1>2, Caller, SetCall
<1> HIDE DEF c
<1>5. CallOK(call'[p]) /\ ~ Ballooning(call'[p]) /\ call'[p].pc # "t_end"
  BY <1>3, <1>4 DEF CallOK, Sized, Discards, Relocating, Ballooning
<1>6. call'[p].op \notin {"running", "track"}
  BY <1>3, <1>4
<1>7. \A q \in Proc : q # None
  BY BalloonAssumption
<1>8. ControlInv'
  BY <1>2, <1>4, <1>5, <1>6, <1>7, Caller, ControlStep
<1>9. call[p].pc = "idle"
  BY <1>2, IdleCall
<1>10. ASSUME Attended PROVE Attended'
  <2>1. ~ Ballooning(call[p]) /\ ~ Mover(call[p]) /\ ~ Loader(call[p]) /\ ~ Parent(call[p])
    BY <1>9 DEF Ballooning, Mover, Loader, Parent, Discards, Relocating
  <2>2. Child(p) => Child(p)'
    BY <1>2, <1>9 DEF Child
  <2> QED
    BY <1>2, <1>4, <1>9, <1>10, <2>1, <2>2, AttendStep
<1> QED
  BY <1>8, <1>10 DEF Kept

\* ploop_lock_dd: nor has one with the lock of the descriptor.
LEMMA LockDdKept == ASSUME ControlInv, NEW p \in Proc, ploop_lock_dd(p) PROVE Kept
<1>1. PICK op \in {"running", "track"} :
        Begin(p, [Idle EXCEPT !.op = op, !.pc = IF op = "running" THEN "c_state" ELSE "t_begin"])
  BY DEF ploop_lock_dd
<1> DEFINE v == IF op = "running" THEN "c_state" ELSE "t_begin"
           c == [Idle EXCEPT !.op = op, !.pc = v]
<1>2. /\ lock = None /\ lock' = p /\ flock' = flock /\ UNCHANGED <<mntn, disc, fb, trim>>
      /\ call[p] = Idle /\ Set(p, c) /\ UNCHANGED <<map, own, head, windows>>
  BY <1>1 DEF ploop_lock_dd, Begin, kernel, image
<1>3. IsCall(c) /\ c.op = op /\ c.pc = v /\ c.then = "ok" /\ c.else = "fail"
  <2> HIDE DEF v
  <2> QED
    BY BegunCall
<1>4. /\ call' = [q \in Proc |-> call'[q]] /\ call'[p] = c
      /\ \A q \in Proc : q # p => call'[q] = call[q]
  BY <1>2, Caller, SetCall
<1> HIDE DEF c
<1>5. CallOK(call'[p]) /\ ~ Ballooning(call'[p]) /\ call'[p].pc # "t_end"
  BY <1>3, <1>4 DEF CallOK, Sized, Discards, Relocating, Ballooning
<1>6. call'[p].op \notin Sized \cup {"complete"}
  BY <1>3, <1>4 DEF Sized
<1>7. \A q \in Proc : q # None
  BY BalloonAssumption
<1>8. ControlInv'
  BY <1>2, <1>4, <1>5, <1>6, <1>7, Caller, ControlStep
<1>9. call[p].pc = "idle"
  BY <1>2, IdleCall
<1>10. ASSUME Attended PROVE Attended'
  <2>1. ~ Ballooning(call[p]) /\ ~ Mover(call[p]) /\ ~ Loader(call[p]) /\ ~ Parent(call[p])
    BY <1>9 DEF Ballooning, Mover, Loader, Parent, Discards, Relocating
  <2>2. Child(p) => Child(p)'
    BY <1>2, <1>9 DEF Child
  <2> QED
    BY <1>2, <1>4, <1>9, <1>10, <2>1, <2>2, AttendStep
<1> QED
  BY <1>8, <1>10 DEF Kept

\* PLOOP_IOC_DISCARD_INIT: its caller answers, and is about to have a child.
LEMMA DiscardKept == ASSUME ControlInv, NEW p \in Proc, __ploop_discard(p) PROVE Kept
<1>1. PICK t \in {"dd", "dev"} :
        Begin(p, [Idle EXCEPT !.op = "discard", !.pc = "d_fork", !.type = t,
                              !.then = "d_wait", !.else = "d_abort"])
  BY DEF __ploop_discard
<1> DEFINE c == [Idle EXCEPT !.op = "discard", !.pc = "d_fork", !.type = t,
                              !.then = "d_wait", !.else = "d_abort"]
<1>2. /\ UNCHANGED <<lock, flock, trim, head, windows>> /\ fb' = {}
      /\ mntn = "OFF" /\ mntn' = "DISCARD" /\ disc' = TRUE
      /\ call[p] = Idle /\ Set(p, c)
  BY <1>1 DEF __ploop_discard, Begin, Locks, image
<1>3. IsCall(c) /\ c.op = "discard" /\ c.pc = "d_fork" /\ c.then = "d_wait" /\ c.else = "d_abort"
  <2> DEFINE d == Idle
  <2>1. c = [d EXCEPT !.op = "discard", !.pc = "d_fork", !.type = t,
                      !.then = "d_wait", !.else = "d_abort"]
    OBVIOUS
  <2>2. IsCall(d)
    BY IdleCall DEF CallOK
  <2> HIDE DEF c, d
  <2>3. c = Rec("discard", "d_fork", t, d.fm, d.ah, d.plan, d.new, "d_wait", "d_abort")
    BY <2>1, <2>2 DEF IsCall, Rec
  <2> QED
    BY <2>3, RecCall
<1>4. /\ call' = [q \in Proc |-> call'[q]] /\ call'[p] = c
      /\ \A q \in Proc : q # p => call'[q] = call[q]
  BY <1>2, Caller, SetCall
<1> HIDE DEF c
<1>5. CallOK(call'[p]) /\ ~ Ballooning(call'[p]) /\ call'[p].pc # "t_end"
  BY <1>3, <1>4 DEF CallOK, Sized, Discards, Relocating, Ballooning
<1>6. call'[p].op \notin Sized \cup {"complete", "running", "track"}
  BY <1>3, <1>4 DEF Sized
<1>7. mntn' \in States /\ mntn' \in Busy
  BY <1>2 DEF States, Busy
<1>8. ControlInv'
  BY <1>2, <1>4, <1>5, <1>6, <1>7, Caller, ControlStep
<1>9. Parent(call'[p]) /\ Child(p)'
  BY <1>3, <1>4 DEF Parent, Child, Discards
<1>10. ASSUME Attended PROVE Attended'
  BY <1>2, <1>4, <1>9, <1>10, AttendStep
<1> QED
  BY <1>8, <1>10 DEF Kept

\* A caller that returns attends to nothing any more, and its child stays.
LEMMA ReplyKept == ASSUME ControlInv, NEW p \in Proc, Reply(p) PROVE Kept
<1>1. /\ call[p].pc \in {"ok", "fail"} /\ Set(p, Idle)
      /\ lock' = (IF lock = p THEN None ELSE lock)
      /\ flock' = (IF flock = p THEN None ELSE flock)
      /\ UNCHANGED <<mntn, disc, fb, head, windows>>
      /\ trim' = [trim EXCEPT ![p] = IF @ \in {"done", "dead"} THEN "none" ELSE @]
  BY DEF Reply, Quiet, image, kernel
<1>2. /\ call' = [q \in Proc |-> call'[q]] /\ call'[p] = Idle
      /\ \A q \in Proc : q # p => call'[q] = call[q]
  BY <1>1, Caller, SetCall
<1>3. /\ trim' \in [Proc -> Children] /\ \A q \in Proc : q # p => trim'[q] = trim[q]
      /\ trim[p] \in {"trim", "sent", "stop"} => trim'[p] = trim[p]
  BY <1>1, Caller DEF Children
<1>4. CallOK(call'[p]) /\ ~ Ballooning(call'[p]) /\ call'[p].pc # "t_end"
  BY <1>2, IdleCall DEF Ballooning
<1>5. call'[p].op \notin Sized \cup {"complete", "running", "track"}
  BY <1>2, IdleCall DEF Sized
<1>6. \A q \in Proc : q # None
  BY BalloonAssumption
<1>7. ControlInv'
  BY <1>1, <1>2, <1>3, <1>4, <1>5, <1>6, Caller, ControlStep
<1>8. ASSUME Attended PROVE Attended'
  <2>1. ~ Ballooning(call[p]) /\ ~ Mover(call[p]) /\ ~ Loader(call[p]) /\ ~ Parent(call[p])
    BY <1>1 DEF Ballooning, Mover, Loader, Parent, Discards, Relocating
  <2>2. Child(p) => Child(p)'
    BY <1>1, <1>3 DEF Child
  <2> QED
    BY <1>1, <1>2, <1>3, <1>8, <2>1, <2>2, AttendStep
<1> QED
  BY <1>7, <1>8 DEF Kept

\* A caller that is killed opens a window; the locks are free again.
LEMMA KillKept == ASSUME ControlInv, NEW p \in Proc, Kill(p) PROVE Kept
<1>1. /\ Set(p, Idle) /\ windows' # {}
      /\ lock' = (IF lock = p THEN None ELSE lock)
      /\ flock' = (IF flock = p THEN None ELSE flock)
      /\ UNCHANGED <<mntn, disc, fb>>
      /\ trim' = [trim EXCEPT ![p] = IF @ \in {"done", "dead"} THEN "none" ELSE @]
  BY DEF Kill, FaultAt, kernel
<1>2. /\ call' = [q \in Proc |-> call'[q]] /\ call'[p] = Idle
      /\ \A q \in Proc : q # p => call'[q] = call[q]
  BY <1>1, Caller, SetCall
<1>3. trim' \in [Proc -> Children]
  BY <1>1, Caller DEF Children
<1>4. CallOK(call'[p]) /\ ~ Ballooning(call'[p]) /\ call'[p].pc # "t_end"
  BY <1>2, IdleCall DEF Ballooning
<1>5. call'[p].op \notin Sized \cup {"complete", "running", "track"}
  BY <1>2, IdleCall DEF Sized
<1>6. \A q \in Proc : q # None
  BY BalloonAssumption
<1>7. ControlInv'
  BY <1>1, <1>2, <1>3, <1>4, <1>5, <1>6, Caller, ControlStep
<1> QED
  BY <1>1, <1>7 DEF Kept

-----------------------------------------------------------------------------
(* Steps of a call.                                                         *)

\* p goes on to v, in the call it is in, and the others stay where they are.
Turned(p, v) ==
  /\ call' = [q \in Proc |-> call'[q]]
  /\ \A q \in Proc : q # p => call'[q] = call[q]
  /\ IsCall(call'[p]) /\ call'[p].pc = v
  /\ call'[p].op = call[p].op /\ call'[p].else = call[p].else

\* A step that sets some of the locals of its call.
LEMMA RecStep ==
  ASSUME ControlInv, NEW p \in Proc, NEW c, Set(p, c), NEW v, NEW t, NEW f, NEW a, NEW s, NEW n, NEW y,
         c = Rec(call[p].op, v, t, f, a, s, n, y, call[p].else)
  PROVE  Turned(p, v) /\ call'[p].type = t /\ call'[p].ah = a /\ call'[p].then = y
<1>1. /\ call' = [q \in Proc |-> call'[q]] /\ call'[p] = c
      /\ \A q \in Proc : q # p => call'[q] = call[q]
  BY Caller, SetCall
<1>2. /\ IsCall(c) /\ c.op = call[p].op /\ c.pc = v /\ c.type = t /\ c.ah = a /\ c.then = y
      /\ c.else = call[p].else
  BY RecCall
<1> QED
  BY <1>1, <1>2 DEF Turned

\* A step that sets none but the place.
LEMMA GoStep ==
  ASSUME ControlInv, NEW p \in Proc, NEW v, Go(p, v)
  PROVE  /\ Turned(p, v) /\ call'[p].type = call[p].type /\ call'[p].ah = call[p].ah
         /\ call'[p].then = call[p].then
<1> DEFINE d == call[p]
           c == [d EXCEPT !.pc = v]
<1>1. Set(p, c) /\ IsCall(d)
  BY Caller DEF Go
<1>2. c = [d EXCEPT !.pc = v]
  OBVIOUS
<1> HIDE DEF d, c
<1>3. c = Rec(d.op, v, d.type, d.fm, d.ah, d.plan, d.new, d.then, d.else)
  BY <1>1, <1>2 DEF IsCall, Rec
<1>4. c = Rec(call[p].op, v, d.type, d.fm, d.ah, d.plan, d.new, d.then, call[p].else)
  BY <1>3 DEF d
<1>5. Turned(p, v) /\ call'[p].type = d.type /\ call'[p].ah = d.ah /\ call'[p].then = d.then
  BY <1>1, <1>4, RecStep
<1> QED
  BY <1>5 DEF d

\* A step after which the locals are of no use.
LEMMA OverStep ==
  ASSUME ControlInv, NEW p \in Proc, NEW v, Over(p, v)
  PROVE  Turned(p, v) /\ call'[p].then = call[p].then
<1> DEFINE d == Idle
           e == call[p]
           t == IF e.op = "discard" THEN e.type ELSE d.type
           c == [d EXCEPT !.op = e.op, !.pc = v, !.new = e.new, !.type = t, !.then = e.then, !.else = e.else]
<1>1. Set(p, c)
  BY DEF Over
<1>2. IsCall(d)
  BY IdleCall DEF CallOK
<1>3. c = [d EXCEPT !.op = e.op, !.pc = v, !.new = e.new, !.type = t, !.then = e.then, !.else = e.else]
  OBVIOUS
<1> HIDE DEF c, d, e, t
<1>4. c = Rec(e.op, v, t, d.fm, d.ah, d.plan, e.new, e.then, e.else)
  BY <1>2, <1>3 DEF IsCall, Rec
<1>5. c = Rec(call[p].op, v, t, d.fm, d.ah, d.plan, e.new, e.then, call[p].else)
  BY <1>4 DEF e
<1>6. /\ IsCall(c) /\ c.op = call[p].op /\ c.pc = v /\ c.then = e.then /\ c.else = call[p].else
  BY <1>5, RecCall
<1>7. /\ call' = [q \in Proc |-> call'[q]] /\ call'[p] = c
      /\ \A q \in Proc : q # p => call'[q] = call[q]
  BY <1>1, Caller, SetCall
<1> QED
  BY <1>6, <1>7 DEF e, Turned

\* A caller that attends to nothing.
Unattending(c) ==
  ~ Ballooning(c) /\ ~ Mover(c) /\ ~ Loader(c) /\ ~ Parent(c) /\ c.pc \notin {"t_end", "d_fork"}

\* A caller that attends to nothing may do whatever leaves the kernel alone.
LEMMA IdleStep ==
  ASSUME ControlInv, NEW p \in Proc, NEW v, Turned(p, v), CallOK(call'[p]),
         v \notin {"t_end", "b_load", "b_free", "b_alloc"}, v = "b_drop" => call[p].op = "deflate",
         Unattending(call[p]), UNCHANGED <<mntn, disc, fb, head, trim, lock, flock>>
  PROVE  Kept
<1>1. ~ Ballooning(call'[p]) /\ call'[p].pc # "t_end"
  BY DEF Turned, Ballooning
<1>2. ControlInv'
  BY <1>1, Caller, ControlStep DEF Turned
<1>3. ASSUME Attended PROVE Attended'
  <2>1. Child(p) => Child(p)'
    BY DEF Child, Unattending
  <2> QED
    BY <1>3, <2>1, AttendStep DEF Turned, Unattending
<1> QED
  BY <1>2, <1>3 DEF Kept

\* do_truncate leaves the kernel alone until the state is dropped.
LEMMA TruncateKept == ASSUME ControlInv, NEW p \in Proc, do_truncate(p) PROVE Kept
<1>1. PICK r \in {"ok", "fail"} : ToDrop(p, r) /\ call[p].pc = "b_trunc"
  BY DEF do_truncate, At
<1>2. UNCHANGED <<mntn, disc, fb, head, trim, lock, flock>>
  BY DEF do_truncate, image, kernel, Locks
<1>3. call[p].op = "deflate" /\ call[p].else = "fail"
  BY <1>1, Caller DEF CallOK, Sized
<1>4. Turned(p, "b_drop") /\ call'[p].type = Idle.type /\ call'[p].ah = Idle.ah /\ call'[p].then = r
  <2> DEFINE d == Idle
             o == call[p].op
             c == [d EXCEPT !.op = o, !.pc = "b_drop", !.then = r]
  <2>1. Set(p, c) /\ IsCall(d) /\ d.else = "fail"
    BY <1>1, IdleCall DEF ToDrop, CallOK
  <2>2. c = [d EXCEPT !.op = o, !.pc = "b_drop", !.then = r]
    OBVIOUS
  <2> HIDE DEF c, d
  <2>3. c = Rec(o, "b_drop", d.type, d.fm, d.ah, d.plan, d.new, r, d.else)
    BY <2>1, <2>2 DEF IsCall, Rec
  <2>4. c = Rec(call[p].op, "b_drop", d.type, d.fm, d.ah, d.plan, d.new, r, call[p].else)
    BY <1>3, <2>1, <2>3
  <2>5. /\ IsCall(c) /\ c.op = call[p].op /\ c.pc = "b_drop" /\ c.type = d.type /\ c.ah = d.ah
        /\ c.then = r /\ c.else = call[p].else
    BY <2>4, RecCall
  <2>6. /\ call' = [q \in Proc |-> call'[q]] /\ call'[p] = c
        /\ \A q \in Proc : q # p => call'[q] = call[q]
    BY <2>1, Caller, SetCall
  <2> QED
    BY <2>5, <2>6 DEF d, Turned
<1>5. CallOK(call'[p])
  BY <1>3, <1>4 DEF CallOK, Sized, Discards, Relocating, Turned
<1>6. Unattending(call[p])
  BY <1>1 DEF Unattending, Ballooning, Mover, Loader, Parent, Discards, Relocating
<1> QED
  BY <1>2, <1>3, <1>4, <1>5, <1>6, IdleStep

\* wait_pid leaves the kernel alone.
LEMMA ReapKept == ASSUME ControlInv, NEW p \in Proc, wait_pid(p) PROVE Kept
<1>1. PICK v \in {"ok", "fail"} : Go(p, v) /\ call[p].pc = "d_reap"
  BY DEF wait_pid, At
<1>2. UNCHANGED <<mntn, disc, fb, head, trim, lock, flock>>
  BY DEF wait_pid, image, kernel, Locks
<1>3. Turned(p, v) /\ call'[p].then = call[p].then
  BY <1>1, GoStep
<1>4. CallOK(call'[p])
  BY <1>1, <1>3, Caller DEF CallOK, Sized, Discards, Relocating, Turned
<1>5. Unattending(call[p])
  BY <1>1 DEF Unattending, Ballooning, Mover, Loader, Parent, Discards, Relocating
<1> QED
  BY <1>1, <1>2, <1>3, <1>4, <1>5, IdleStep

-----------------------------------------------------------------------------
(* The guest, and the state asked for.                                      *)

\* A write of the guest may use up the list, and then moves the end of the
\* file: a relocation that waits is still accepted.
LEMMA WriteKept == ASSUME ControlInv, NEW x \in Clu, Write(x) PROVE Kept
<1>1. UNCHANGED <<mntn, disc, lock, flock, call, trim, windows>>
  BY DEF Write
<1>2. fb' # {} => fb # {}
  BY DEF Write
<1>3. mntn = "FBLOADED" /\ fb # {} => head' = head
  BY DEF Write
<1>4. ControlInv'
  BY <1>1, <1>2 DEF ControlInv, Shape, Holders, Kernel, Ballooning, CallOK, IsCall
<1>5. ASSUME Attended PROVE Attended'
  <2>1. ASSUME NEW q \in Proc, Loader(call[q]), mntn = "FBLOADED" PROVE Loader(call[q])'
    BY <1>1, <1>2, <1>3, <2>1 DEF Loader
  <2>2. mntn' = "FBLOADED" /\ ~ disc' => \E q \in Proc : Loader(call[q])'
    BY <1>1, <1>5, <2>1 DEF Attended
  <2>3. /\ \A q \in Proc : Ballooning(call[q])' = Ballooning(call[q])
        /\ \A q \in Proc : Mover(call[q])' = Mover(call[q])
        /\ \A q \in Proc : Parent(call[q])' = Parent(call[q])
        /\ \A q \in Proc : Child(q)' = Child(q)
    BY <1>1 DEF Child
  <2> QED
    BY <1>1, <1>5, <2>2, <2>3 DEF Attended
<1> QED
  BY <1>4, <1>5 DEF Kept

\* No second caller is in the state BALLOON, because of the lock of the balloon.
LEMMA OneBallooner == ASSUME ControlInv, NEW p \in Proc, call[p].op \in Sized, ~ Ballooning(call[p])
                      PROVE  Attended => mntn # "BALLOON"
<1> SUFFICES ASSUME Attended, mntn = "BALLOON" PROVE FALSE
  OBVIOUS
<1>1. PICK q \in Proc : Ballooning(call[q])
  BY DEF Attended
<1>2. call[q].op \in Sized
  BY <1>1, Caller DEF Ballooning, CallOK
<1>3. flock = p /\ flock = q
  BY <1>2, Caller
<1> QED
  BY <1>1, <1>3

\* PLOOP_IOC_BALLOON: whoever takes BALLOON goes on to where it is dropped or
\* loaded; one that only asks, or finds the kernel busy, takes nothing.
LEMMA BalloonCtlKept == ASSUME ControlInv, NEW p \in Proc, BalloonCtl(p) PROVE Kept
<1> DEFINE o == call[p].op
           t == BalloonIoctl(o \notin {"deflate", "clear"}, FALSE)
           v == CASE o = "clear" -> IF t = "OFF" THEN "ok" ELSE "fail"
                  [] o = "deflate" -> "b_trunc"
                  [] o = "inflate" -> "b_alloc"
                  [] OTHER -> IF t = "BALLOON" THEN "b_load" ELSE "fail"
           n == {c \in Clu : use[c] = "balloon"}
<1>1. /\ call[p].pc = "b_ctl" /\ mntn' = t /\ Set(p, [call[p] EXCEPT !.type = t, !.pc = v, !.new = n])
      /\ UNCHANGED <<disc, fb, head, trim, lock, flock, windows>>
  BY DEF BalloonCtl, At, Quiet, Locks, image
<1>2. o \in Sized
  BY <1>1, Caller DEF CallOK
<1>3. /\ v \in {"ok", "fail", "b_trunc", "b_alloc", "b_load"} /\ (v = "b_load" => t = "BALLOON")
      /\ (t = "BALLOON" => (v = "b_load" \/ v = "b_alloc") \/ o \in {"clear", "deflate"})
      /\ (v = "b_trunc" => o = "deflate") /\ (v \in {"b_alloc", "b_load"} => o # "deflate")
  BY <1>2 DEF Sized
<1>4. /\ t \in {"FBLOADED", "OFF", "BALLOON", mntn} /\ (t = "FBLOADED" => mntn \in {"DISCARD", "FBLOADED"})
      /\ (mntn = "DISCARD" \/ t = mntn \/ mntn \in {"OFF", "BALLOON"})
      /\ (t = "BALLOON" => o \notin {"clear", "deflate"})
      /\ (mntn = "DISCARD" => t \in {"DISCARD", "FBLOADED"})
      /\ (t \in {"RELOC", "DISCARD", "TRACK"} => mntn = t)
  BY Caller DEF BalloonIoctl, States
<1> HIDE DEF o, t, v, n
<1>5. /\ Turned(p, v) /\ call'[p].type = t /\ call'[p].ah = call[p].ah
     /\ call'[p].then = call[p].then
  <2> DEFINE d == call[p]
             c == [d EXCEPT !.type = t, !.pc = v, !.new = n]
  <2>1. Set(p, c) /\ IsCall(d)
    BY <1>1, Caller
  <2>2. c = [d EXCEPT !.type = t, !.pc = v, !.new = n]
    OBVIOUS
  <2> HIDE DEF c, d
  <2>3. c = Rec(d.op, v, t, d.fm, d.ah, d.plan, n, d.then, d.else)
    BY <2>1, <2>2 DEF IsCall, Rec
  <2>4. /\ IsCall(c) /\ c.op = d.op /\ c.pc = v /\ c.type = t /\ c.ah = d.ah
       /\ c.then = d.then /\ c.else = d.else
    BY <2>3, RecCall
  <2>5. /\ call' = [q \in Proc |-> call'[q]] /\ call'[p] = c
       /\ \A q \in Proc : q # p => call'[q] = call[q]
    BY <2>1, Caller, SetCall
  <2> QED
    BY <2>4, <2>5 DEF d, Turned
<1>6. CallOK(call'[p])
  BY <1>2, <1>3, <1>5, Caller DEF o, CallOK, Sized, Discards, Relocating, Turned
<1>7. /\ Ballooning(call'[p]) => t = "BALLOON"
      /\ t = "BALLOON" => Ballooning(call'[p])
      /\ call'[p].pc # "t_end"
  BY <1>3, <1>4, <1>5 DEF Ballooning, Turned
<1>8. mntn' \in States /\ (fb' # {} \/ disc' => mntn' \in Busy) /\ (mntn' = "DISCARD" => disc')
  BY <1>1, <1>4, Caller DEF States, Busy
<1>9. ControlInv'
  <2>1. (mntn = "BALLOON" => mntn' = "BALLOON") \/ call[p].op \in Sized
    BY <1>2 DEF o
  <2>2. (mntn = "TRACK" => mntn' = "TRACK")
    BY <1>1, <1>4
  <2> QED
    BY <1>1, <1>5, <1>6, <1>7, <1>8, <2>1, <2>2, Caller, ControlStep DEF Turned
<1>10. ASSUME Attended PROVE Attended'
  <2>1. ~ Ballooning(call[p]) /\ ~ Mover(call[p]) /\ ~ Loader(call[p]) /\ ~ Parent(call[p])
    BY <1>1 DEF Ballooning, Mover, Loader, Parent, Discards, Relocating
  <2>2. Child(p) => Child(p)'
    BY <1>1 DEF Child
  <2>3. mntn' = "FBLOADED" /\ ~ disc' => mntn = "FBLOADED" /\ ~ disc
    BY <1>1, <1>4, Caller
  <2> QED
    BY <1>1, <1>4, <1>5, <1>7, <1>10, <2>1, <2>2, <2>3, AttendStep DEF Turned
<1> QED
  BY <1>9, <1>10 DEF Kept

-----------------------------------------------------------------------------
(* A change of the balloon.                                                 *)

\* do_inflate goes on with the state, drops it, or opens a window.
LEMMA InflateKept == ASSUME ControlInv, NEW p \in Proc, do_inflate(p) PROVE Kept
<1>1. /\ call[p].pc = "b_alloc" /\ UNCHANGED <<mntn, disc, fb, head, trim, lock, flock>>
  BY DEF do_inflate, At, Locks, image, kernel
<1>2. call[p].op \in Sized /\ call[p].op # "deflate" /\ call[p].then \in {"ok", "fail"} /\ call[p].else = "fail"
  BY <1>1, Caller DEF CallOK, Sized
<1>3. CASE Go(p, "fail") /\ (call[p].type = "BALLOON" => windows' # {})
  <2>1. Turned(p, "fail") /\ call'[p].then = call[p].then
    BY <1>3, GoStep
  <2>2. CallOK(call'[p]) /\ ~ Ballooning(call'[p])
    BY <1>2, <2>1 DEF Ballooning, CallOK, Sized, Discards, Relocating, Turned
  <2>3. ControlInv'
    BY <1>1, <2>1, <2>2, Caller, ControlStep DEF Turned
  <2>4. ASSUME Attended, windows' = {} PROVE Attended'
    <3>1. ~ Ballooning(call[p]) /\ ~ Mover(call[p]) /\ ~ Loader(call[p]) /\ ~ Parent(call[p])
      BY <1>1, <1>3, <2>4 DEF Ballooning, Mover, Loader, Parent, Discards, Relocating
    <3>2. Child(p) => Child(p)'
      BY <1>1 DEF Child
    <3> QED
      BY <1>1, <2>1, <2>4, <3>1, <3>2, AttendStep DEF Turned
  <2> QED
    BY <2>3, <2>4 DEF Kept
<1>4. ASSUME call[p].type = "BALLOON", NEW v \in {"b_load", "b_drop"}, Turned(p, v),
             call'[p].then \in {"ok", "fail"}
      PROVE  Kept
  <2>1. CallOK(call'[p]) /\ Ballooning(call'[p])
    BY <1>2, <1>4 DEF Ballooning, CallOK, Sized, Discards, Relocating, Turned
  <2>2. mntn = "BALLOON" /\ ~ disc
    BY <1>1, <1>4, Caller DEF Ballooning, Busy
  <2>3. ControlInv'
    BY <1>1, <1>4, <2>1, <2>2, Caller, ControlStep DEF Turned
  <2>4. ASSUME Attended PROVE Attended'
    BY <1>1, <1>4, <2>1, <2>2, <2>4, AttendStep DEF Turned
  <2> QED
    BY <2>3, <2>4 DEF Kept
<1>5. CASE /\ \E S : Set(p, [call[p] EXCEPT !.pc = "b_load", !.new = S, !.type = "OFF"])
           /\ call[p].type = "BALLOON"
  <2>1. PICK S : Set(p, [call[p] EXCEPT !.pc = "b_load", !.new = S, !.type = "OFF"])
    BY <1>5
  <2>2. /\ Turned(p, "b_load") /\ call'[p].type = "OFF" /\ call'[p].ah = call[p].ah
       /\ call'[p].then = call[p].then
    <3> DEFINE d == call[p]
               c == [d EXCEPT !.pc = "b_load", !.new = S, !.type = "OFF"]
    <3>1. Set(p, c) /\ IsCall(d)
      BY <2>1, Caller
    <3>2. c = [d EXCEPT !.pc = "b_load", !.new = S, !.type = "OFF"]
      OBVIOUS
    <3> HIDE DEF c, d
    <3>3. c = Rec(d.op, "b_load", "OFF", d.fm, d.ah, d.plan, S, d.then, d.else)
      BY <3>1, <3>2 DEF IsCall, Rec
    <3>4. /\ IsCall(c) /\ c.op = d.op /\ c.pc = "b_load" /\ c.type = "OFF" /\ c.ah = d.ah
         /\ c.then = d.then /\ c.else = d.else
      BY <3>3, RecCall
    <3>5. /\ call' = [q \in Proc |-> call'[q]] /\ call'[p] = c
         /\ \A q \in Proc : q # p => call'[q] = call[q]
      BY <3>1, Caller, SetCall
    <3> QED
      BY <3>4, <3>5 DEF d, Turned
  <2> QED
    BY <1>2, <1>4, <1>5, <2>2
<1>6. CASE Set(p, [call[p] EXCEPT !.pc = "b_drop", !.then = "fail"]) /\ call[p].type = "BALLOON"
  <2>1. /\ Turned(p, "b_drop") /\ call'[p].type = call[p].type /\ call'[p].ah = call[p].ah
       /\ call'[p].then = "fail"
    <3> DEFINE d == call[p]
               c == [d EXCEPT !.pc = "b_drop", !.then = "fail"]
    <3>1. Set(p, c) /\ IsCall(d)
      BY <1>6, Caller
    <3>2. c = [d EXCEPT !.pc = "b_drop", !.then = "fail"]
      OBVIOUS
    <3> HIDE DEF c, d
    <3>3. c = Rec(d.op, "b_drop", d.type, d.fm, d.ah, d.plan, d.new, "fail", d.else)
      BY <3>1, <3>2 DEF IsCall, Rec
    <3>4. /\ IsCall(c) /\ c.op = d.op /\ c.pc = "b_drop" /\ c.type = d.type /\ c.ah = d.ah
         /\ c.then = "fail" /\ c.else = d.else
      BY <3>3, RecCall
    <3>5. /\ call' = [q \in Proc |-> call'[q]] /\ call'[p] = c
         /\ \A q \in Proc : q # p => call'[q] = call[q]
      BY <3>1, Caller, SetCall
    <3> QED
      BY <3>4, <3>5 DEF d, Turned
  <2> QED
    BY <1>4, <1>6, <2>1
<1> QED
  BY <1>3, <1>5, <1>6 DEF do_inflate, FaultAt

\* A caller that loads, and still does, or drops or leaves what it took.
LEMMA LoadStep ==
  ASSUME ControlInv, NEW p \in Proc, call[p].pc \in {"b_load", "b_free"},
         NEW v \in {"b_free", "b_drop", "fail"}, Turned(p, v), call'[p].then \in {"ok", "fail"},
         call[p].op # "deflate", v = "fail" => windows' # {},
         UNCHANGED <<mntn, disc, fb, head, trim, lock, flock>>
  PROVE  Kept
<1>1. /\ call[p].op \in Sized /\ call[p].else = "fail"
      /\ mntn = "BALLOON" /\ disc = FALSE /\ fb = {}
  BY Caller DEF CallOK, Sized, Ballooning, Busy
<1>2. CallOK(call'[p]) /\ (Ballooning(call'[p]) \/ windows' # {})
  BY <1>1 DEF Ballooning, CallOK, Sized, Discards, Relocating, Turned
<1>3. ControlInv'
  BY <1>1, <1>2, Caller, ControlStep DEF Turned
<1>4. ASSUME Attended, windows' = {} PROVE Attended'
  BY <1>1, <1>2, <1>4, AttendStep DEF Turned
<1> QED
  BY <1>3, <1>4 DEF Kept

\* An error drops the state, or opens a window.
LEMMA LoadFailsKept ==
  ASSUME ControlInv, NEW p \in Proc, call[p].pc \in {"b_load", "b_free"}, call[p].op # "deflate",
         LoadFails(p), UNCHANGED <<mntn, disc, fb, head, trim, lock, flock>>
  PROVE  Kept
<1> DEFINE w == IF call[p].op # "inflate" THEN "b_drop" ELSE "fail"
           d == call[p]
           c == [d EXCEPT !.pc = w, !.then = "fail"]
<1>1. Set(p, c) /\ IsCall(d) /\ w \in {"b_drop", "fail"} /\ (w = "fail" => windows' # {})
  BY Caller DEF LoadFails, FaultAt
<1>2. c = [d EXCEPT !.pc = w, !.then = "fail"]
  OBVIOUS
<1> HIDE DEF c, d, w
<1>3. c = Rec(d.op, w, d.type, d.fm, d.ah, d.plan, d.new, "fail", d.else)
  BY <1>1, <1>2 DEF IsCall, Rec
<1>4. c = Rec(call[p].op, w, d.type, d.fm, d.ah, d.plan, d.new, "fail", call[p].else)
  BY <1>3 DEF d
<1>5. Turned(p, w) /\ call'[p].type = d.type /\ call'[p].ah = d.ah /\ call'[p].then = "fail"
  BY <1>1, <1>4, RecStep, SMTT(30)
<1> QED
  BY <1>1, <1>5, LoadStep

\* fiemap_build_rmap: whoever looks for blocks goes on to load them or drops the
\* state.
LEMMA RmapKept == ASSUME ControlInv, NEW p \in Proc, fiemap_build_rmap(p) PROVE Kept
<1>1. /\ call[p].pc = "b_load" /\ UNCHANGED <<mntn, disc, fb, head, trim, lock, flock>>
  BY DEF fiemap_build_rmap, At, Locks, image, kernel
<1>2. call[p].then \in {"ok", "fail"} /\ call[p].op # "deflate"
  BY <1>1, Caller DEF CallOK, Sized
<1>3. ASSUME NEW v \in {"b_free", "b_drop"}, NEW f, Set(p, [call[p] EXCEPT !.pc = v, !.fm = f])
      PROVE  Kept
  <2> DEFINE d == call[p]
             c == [d EXCEPT !.pc = v, !.fm = f]
  <2>1. Set(p, c) /\ IsCall(d)
    BY <1>3, Caller
  <2>2. c = [d EXCEPT !.pc = v, !.fm = f]
    OBVIOUS
  <2> HIDE DEF c, d
  <2>3. c = Rec(d.op, v, d.type, f, d.ah, d.plan, d.new, d.then, d.else)
    BY <2>1, <2>2 DEF IsCall, Rec
  <2>4. /\ IsCall(c) /\ c.op = d.op /\ c.pc = v /\ c.type = d.type /\ c.ah = d.ah
        /\ c.then = d.then /\ c.else = d.else
    BY <2>3, RecCall
  <2>5. /\ call' = [q \in Proc |-> call'[q]] /\ call'[p] = c
        /\ \A q \in Proc : q # p => call'[q] = call[q]
    BY <2>1, Caller, SetCall
  <2>6. Turned(p, v) /\ call'[p].then = call[p].then
    BY <2>4, <2>5 DEF d, Turned
  <2> QED
    BY <1>1, <1>2, <2>6, LoadStep
<1> DEFINE f == rmap2freemap(Fiemap(call[p].new), 0, Rlen)
           w == IF f = <<>> \/ call[p].op = "check" THEN "b_drop" ELSE "b_free"
<1>4. Set(p, [call[p] EXCEPT !.pc = w, !.fm = f]) \/ LoadFails(p)
  BY DEF fiemap_build_rmap
<1>5. w \in {"b_free", "b_drop"}
  OBVIOUS
<1> HIDE DEF f, w
<1> QED
  BY <1>1, <1>2, <1>3, <1>4, <1>5, LoadFailsKept

\* PLOOP_IOC_FREEBLKS: whoever loads a list has the end of the file it was
\* loaded for, so that its relocation is accepted.
LEMMA FreeBlksKept == ASSUME ControlInv, NEW p \in Proc, FreeBlks(p) PROVE Kept
<1>1. /\ call[p].pc = "b_free" /\ UNCHANGED <<disc, head, trim, lock, flock>>
  BY DEF FreeBlks, At, Locks, image
<1>2. /\ call[p].op \in Sized /\ call[p].op # "deflate" /\ call[p].then \in {"ok", "fail"} /\ call[p].else = "fail"
      /\ mntn = "BALLOON" /\ disc = FALSE /\ fb = {}
  BY <1>1, Caller DEF CallOK, Sized, Ballooning, Busy
<1>3. ASSUME Set(p, [call[p] EXCEPT !.pc = "x_plan", !.ah = head]), mntn' = "FBLOADED"
      PROVE  Kept
  <2>1. /\ Turned(p, "x_plan") /\ call'[p].type = call[p].type /\ call'[p].ah = head
       /\ call'[p].then = call[p].then
    <3> DEFINE d == call[p]
               c == [d EXCEPT !.pc = "x_plan", !.ah = head]
    <3>1. Set(p, c) /\ IsCall(d)
      BY <1>3, Caller
    <3>2. c = [d EXCEPT !.pc = "x_plan", !.ah = head]
      OBVIOUS
    <3> HIDE DEF c, d
    <3>3. c = Rec(d.op, "x_plan", d.type, d.fm, head, d.plan, d.new, d.then, d.else)
      BY <3>1, <3>2 DEF IsCall, Rec
    <3>4. /\ IsCall(c) /\ c.op = d.op /\ c.pc = "x_plan" /\ c.type = d.type /\ c.ah = head
         /\ c.then = d.then /\ c.else = d.else
      BY <3>3, RecCall
    <3>5. /\ call' = [q \in Proc |-> call'[q]] /\ call'[p] = c
         /\ \A q \in Proc : q # p => call'[q] = call[q]
      BY <3>1, Caller, SetCall
    <3> QED
      BY <3>4, <3>5 DEF d, Turned
  <2>2. CallOK(call'[p]) /\ ~ Ballooning(call'[p]) /\ call'[p].pc # "t_end" /\ Loader(call[p])'
    BY <1>1, <1>2, <2>1 DEF Loader, Ballooning, CallOK, Sized, Discards, Relocating, Turned
  <2>3. mntn' \in States /\ mntn' \in Busy
    BY <1>3 DEF States, Busy
  <2>4. ControlInv'
    BY <1>1, <1>2, <1>3, <2>1, <2>2, <2>3, Caller, ControlStep DEF Turned
  <2>5. ASSUME Attended PROVE Attended'
    BY <1>1, <1>2, <1>3, <2>1, <2>2, <2>5, AttendStep DEF Turned
  <2> QED
    BY <2>4, <2>5 DEF Kept
<1>4. CASE LoadFails(p) /\ UNCHANGED <<mntn, fb>>
  BY <1>1, <1>2, <1>4, LoadFailsKept
<1> QED
  BY <1>3, <1>4 DEF FreeBlks

\* What was taken is given back; a deflation, which took nothing, at most finds
\* the list of a discard loaded.
LEMMA DropKept == ASSUME ControlInv, NEW p \in Proc, DropState(p) PROVE Kept
<1>1. /\ call[p].pc = "b_drop" /\ UNCHANGED <<disc, fb, head, trim, lock, flock>>
      /\ mntn' = BalloonIoctl(FALSE, FALSE) /\ Go(p, call[p].then)
  BY DEF DropState, At, Locks, image
<1>2. call[p].op \in Sized /\ call[p].then \in {"ok", "fail"} /\ call[p].else = "fail"
  BY <1>1, Caller DEF CallOK, Sized
<1>3. /\ mntn' \in {"FBLOADED", "OFF", mntn} /\ (mntn' = "FBLOADED" => mntn \in {"DISCARD", "FBLOADED"})
      /\ (mntn \in {"OFF", "BALLOON"} => mntn' = "OFF")
      /\ (mntn \notin {"OFF", "BALLOON", "DISCARD"} => mntn' = mntn)
      /\ (mntn = "DISCARD" => mntn' \in {"DISCARD", "FBLOADED"})
  BY <1>1, Caller DEF BalloonIoctl, States
<1> DEFINE v == call[p].then
<1>4. Turned(p, v) /\ call'[p].then = v
  BY <1>1, GoStep
<1> HIDE DEF v
<1>5. v \in {"ok", "fail"}
  BY <1>2 DEF v
<1>6. CallOK(call'[p]) /\ ~ Ballooning(call'[p]) /\ call'[p].pc # "t_end"
  BY <1>2, <1>4, <1>5 DEF Ballooning, CallOK, Sized, Discards, Relocating, Turned
<1>7. mntn' \in States /\ (fb' # {} \/ disc' => mntn' \in Busy) /\ (mntn' = "DISCARD" => disc')
  BY <1>1, <1>3, Caller DEF States, Busy
<1>8. ControlInv'
  BY <1>1, <1>2, <1>3, <1>4, <1>6, <1>7, Caller, ControlStep DEF Turned
<1>9. ASSUME Attended PROVE Attended'
  <2>1. ~ Mover(call[p]) /\ ~ Loader(call[p]) /\ ~ Parent(call[p]) /\ call[p].pc \notin {"t_end", "d_fork"}
    BY <1>1 DEF Mover, Loader, Parent, Discards, Relocating
  <2>2. Child(p) => Child(p)'
    BY <1>1 DEF Child
  <2>3. mntn' # "BALLOON"
    BY <1>3
  <2>4. mntn' = "FBLOADED" /\ ~ disc' => mntn = "FBLOADED" /\ ~ disc
    BY <1>1, <1>3, Caller
  <2> QED
    BY <1>1, <1>3, <1>4, <1>9, <2>1, <2>2, <2>3, <2>4, AttendStep DEF Turned
<1> QED
  BY <1>8, <1>9 DEF Kept

-----------------------------------------------------------------------------
(* Relocation.                                                              *)

\* What a relocation returns to tells whether a discard is waiting for it.
LEMMA RelocCall ==
  ASSUME ControlInv, NEW p \in Proc, call[p].pc \in Relocating
  PROVE  /\ (call[p].then \in {"ok", "fail"} /\ call[p].else = "fail")
              \/ (call[p].then = "d_wait" /\ call[p].else = "d_abort" /\ call[p].op = "discard")
         /\ ~ Ballooning(call[p]) /\ call[p].pc \notin {"t_end", "d_fork"}
         /\ (Parent(call[p]) <=> call[p].then = "d_wait")
<1>1. (call[p].then \in {"ok", "fail"} /\ call[p].else = "fail")
              \/ (call[p].then = "d_wait" /\ call[p].else = "d_abort" /\ call[p].op = "discard")
  BY Caller DEF CallOK
<1> QED
  BY <1>1 DEF Parent, Ballooning, Relocating, Discards

\* A relocation that is done gives up the lock only for a discard.
LEMMA DoneLocks ==
  ASSUME ControlInv, NEW p \in Proc, NEW v, Done(p, v)
  PROVE  /\ Turned(p, v) /\ call'[p].then = call[p].then /\ flock' = flock
         /\ \A q \in Proc : q # p => (lock = q => lock' = q)
         /\ call[p].op # "discard" => lock' = lock
  BY OverStep DEF Done

\* A relocation that goes on within itself keeps its list and the end of the
\* file it was loaded for.
LEMMA RelocatingStep ==
  ASSUME ControlInv, NEW p \in Proc, call[p].pc \in Relocating,
         NEW v \in Relocating, Turned(p, v), call'[p].then = call[p].then,
         UNCHANGED <<lock, flock, trim, disc, fb, head>>,
         mntn' = mntn \/ (mntn = "FBLOADED" /\ mntn' = "RELOC"),
         mntn' = "RELOC" /\ Mover(call[p]) => Mover(call'[p]),
         mntn' = "RELOC" => mntn = "RELOC" \/ Mover(call'[p]),
         mntn' = "FBLOADED" /\ Loader(call[p]) => Loader(call[p])'
  PROVE  Kept
<1>1. /\ (call[p].then \in {"ok", "fail"} /\ call[p].else = "fail")
              \/ (call[p].then = "d_wait" /\ call[p].else = "d_abort" /\ call[p].op = "discard")
      /\ ~ Ballooning(call[p]) /\ call[p].pc \notin {"t_end", "d_fork"}
      /\ (Parent(call[p]) <=> call[p].then = "d_wait")
  BY RelocCall
<1>2. CallOK(call'[p]) /\ ~ Ballooning(call'[p]) /\ call'[p].pc # "t_end"
  BY <1>1 DEF Ballooning, CallOK, Sized, Discards, Relocating, Turned
<1>3. Parent(call[p]) => Parent(call'[p])
  BY <1>1 DEF Parent, Turned
<1>4. mntn' \in States /\ (mntn' \in Busy <=> mntn \in Busy) /\ (mntn' = "DISCARD" => mntn = "DISCARD")
      /\ (mntn' = "BALLOON" <=> mntn = "BALLOON") /\ (mntn' = "TRACK" <=> mntn = "TRACK")
      /\ (mntn' = "FBLOADED" => mntn = "FBLOADED")
  BY Caller DEF States, Busy
<1>5. ControlInv'
  BY <1>2, <1>4, Caller, ControlStep DEF Turned
<1>6. ASSUME Attended PROVE Attended'
  <2>1. Child(p) => Child(p)'
    BY <1>1 DEF Child
  <2> QED
    BY <1>1, <1>3, <1>4, <1>6, <2>1, AttendStep DEF Turned
<1> QED
  BY <1>5, <1>6 DEF Kept

\* A relocation that is refused was not the one that would be accepted; one
\* that fails opens a window.
LEMMA RelocEnds ==
  ASSUME ControlInv, NEW p \in Proc, call[p].pc \in Relocating, Done(p, call[p].else),
         UNCHANGED <<mntn, disc, fb, head, trim>>,
         \/ windows' # {}
         \/ (mntn = "RELOC" => ~ Mover(call[p])) /\ (mntn = "FBLOADED" => ~ Accepted(call[p].ah) /\ call[p].pc = "x_reloc")
  PROVE  Kept
<1>1. /\ (call[p].then \in {"ok", "fail"} /\ call[p].else = "fail")
              \/ (call[p].then = "d_wait" /\ call[p].else = "d_abort" /\ call[p].op = "discard")
      /\ ~ Ballooning(call[p]) /\ call[p].pc \notin {"t_end", "d_fork"}
      /\ (Parent(call[p]) <=> call[p].then = "d_wait")
  BY RelocCall
<1> DEFINE v == call[p].else
<1>2. /\ Turned(p, v) /\ call'[p].then = call[p].then /\ flock' = flock
      /\ \A q \in Proc : q # p => (lock = q => lock' = q)
      /\ call[p].op # "discard" => lock' = lock
  BY DoneLocks
<1> HIDE DEF v
<1>3. v \in {"fail", "d_abort"} /\ v = call[p].else
      /\ (call[p].then = "d_wait" <=> v = "d_abort")
  BY <1>1 DEF v
<1>4. CallOK(call'[p]) /\ ~ Ballooning(call'[p]) /\ call'[p].pc # "t_end"
  BY <1>1, <1>2, <1>3 DEF Ballooning, CallOK, Sized, Discards, Relocating, Turned
<1>5. ControlInv'
  <2>1. call'[p].op \in {"running", "track"} => lock' = p
    BY <1>2, Caller DEF Turned
  <2>2. call'[p].op \in Sized \cup {"complete"} => flock' = p
    BY <1>2, Caller DEF Turned
  <2> QED
    BY <1>2, <1>4, <2>1, <2>2, Caller, ControlStep DEF Turned
<1>6. ASSUME Attended, windows' = {} PROVE Attended'
  <2>1. Child(p) => Child(p)'
    BY <1>1 DEF Child
  <2>2. Parent(call[p]) => Parent(call'[p])
    BY <1>1, <1>2, <1>3 DEF Parent, Discards, Turned
  <2>3. mntn = "FBLOADED" /\ Loader(call[p]) => Loader(call[p])'
    BY <1>1, <1>2, <1>3, <1>6 DEF Loader, Accepted, Turned
  <2> QED
    BY <1>1, <1>2, <1>6, <2>1, <2>2, <2>3, AttendStep DEF Turned
<1> QED
  BY <1>5, <1>6 DEF Kept

\* PLOOP_IOC_FBGET.
LEMMA FbGetKept == ASSUME ControlInv, NEW p \in Proc, FbGet(p) PROVE Kept
<1>1. call[p].pc = "x_get" /\ UNCHANGED <<mntn, disc, fb, head, trim>>
  BY DEF FbGet, At, image, kernel
<1>2. call[p].pc \in Relocating
  BY <1>1 DEF Relocating
<1>3. CASE Done(p, call[p].else) /\ mntn # "FBLOADED" /\ windows' = windows
  <2>1. ~ Mover(call[p])
    BY <1>1 DEF Mover
  <2> QED
    BY <1>1, <1>2, <1>3, <2>1, RelocEnds
<1>4. CASE RelocFails(p)
  BY <1>1, <1>2, <1>4, RelocEnds DEF RelocFails, FaultAt
<1>5. ASSUME NEW v \in {"x_reloc", "x_plan"}, NEW f, NEW s, mntn = "FBLOADED", Locks,
             Set(p, [call[p] EXCEPT !.pc = v, !.fm = f, !.plan = s])
      PROVE  Kept
  <2>1. /\ Turned(p, v) /\ call'[p].type = call[p].type /\ call'[p].ah = call[p].ah
       /\ call'[p].then = call[p].then
    <3> DEFINE d == call[p]
               c == [d EXCEPT !.pc = v, !.fm = f, !.plan = s]
    <3>1. Set(p, c) /\ IsCall(d)
      BY <1>5, Caller
    <3>2. c = [d EXCEPT !.pc = v, !.fm = f, !.plan = s]
      OBVIOUS
    <3> HIDE DEF c, d
    <3>3. c = Rec(d.op, v, d.type, f, d.ah, s, d.new, d.then, d.else)
      BY <3>1, <3>2 DEF IsCall, Rec
    <3>4. /\ IsCall(c) /\ c.op = d.op /\ c.pc = v /\ c.type = d.type /\ c.ah = d.ah
         /\ c.then = d.then /\ c.else = d.else
      BY <3>3, RecCall
    <3>5. /\ call' = [q \in Proc |-> call'[q]] /\ call'[p] = c
         /\ \A q \in Proc : q # p => call'[q] = call[q]
      BY <3>1, Caller, SetCall
    <3> QED
      BY <3>4, <3>5 DEF d, Turned
  <2>2. Loader(call[p]) => Loader(call[p])'
    BY <1>1, <2>1 DEF Loader, Turned
  <2>3. v \in Relocating
    BY DEF Relocating
  <2> QED
    BY <1>1, <1>2, <1>5, <2>1, <2>2, <2>3, RelocatingStep DEF Locks
<1> QED
  BY <1>3, <1>4, <1>5 DEF FbGet, Quiet

\* The end of the file is matched with the list.
LEMMA PlanKept == ASSUME ControlInv, NEW p \in Proc, Plan(p) PROVE Kept
<1>1. call[p].pc = "x_plan" /\ UNCHANGED <<mntn, disc, fb, head, trim>>
  BY DEF Plan, At, image, kernel
<1>2. call[p].pc \in Relocating
  BY <1>1 DEF Relocating
<1>3. CASE RelocFails(p)
  BY <1>1, <1>2, <1>3, RelocEnds DEF RelocFails, FaultAt
<1>4. ASSUME NEW s, Locks, Set(p, [call[p] EXCEPT !.pc = "x_reloc", !.plan = s])
      PROVE  Kept
  <2>1. /\ Turned(p, "x_reloc") /\ call'[p].type = call[p].type /\ call'[p].ah = call[p].ah
       /\ call'[p].then = call[p].then
    <3> DEFINE d == call[p]
               c == [d EXCEPT !.pc = "x_reloc", !.plan = s]
    <3>1. Set(p, c) /\ IsCall(d)
      BY <1>4, Caller
    <3>2. c = [d EXCEPT !.pc = "x_reloc", !.plan = s]
      OBVIOUS
    <3> HIDE DEF c, d
    <3>3. c = Rec(d.op, "x_reloc", d.type, d.fm, d.ah, s, d.new, d.then, d.else)
      BY <3>1, <3>2 DEF IsCall, Rec
    <3>4. /\ IsCall(c) /\ c.op = d.op /\ c.pc = "x_reloc" /\ c.type = d.type /\ c.ah = d.ah
         /\ c.then = d.then /\ c.else = d.else
      BY <3>3, RecCall
    <3>5. /\ call' = [q \in Proc |-> call'[q]] /\ call'[p] = c
         /\ \A q \in Proc : q # p => call'[q] = call[q]
      BY <3>1, Caller, SetCall
    <3> QED
      BY <3>4, <3>5 DEF d, Turned
  <2>2. Loader(call[p]) => Loader(call[p])'
    BY <1>1, <2>1 DEF Loader, Turned
  <2>3. "x_reloc" \in Relocating /\ Mover(call'[p])
    BY <2>1 DEF Relocating, Mover, Turned
  <2> QED
    BY <1>1, <1>2, <1>4, <2>1, <2>2, <2>3, RelocatingStep DEF Locks
<1> QED
  BY <1>3, <1>4 DEF Plan

\* PLOOP_IOC_RELOCBLKS: whoever begins the relocation waits for its end.
LEMMA RelocBlksKept == ASSUME ControlInv, NEW p \in Proc, RelocBlks(p) PROVE Kept
<1>1. call[p].pc = "x_reloc" /\ UNCHANGED <<disc, fb, head, trim>>
  BY DEF RelocBlks, At, image
<1>2. call[p].pc \in Relocating
  BY <1>1 DEF Relocating
<1>3. CASE RelocFails(p) /\ UNCHANGED mntn
  BY <1>1, <1>2, <1>3, RelocEnds DEF RelocFails, FaultAt
<1>4. CASE ~ Accepted(call[p].ah) /\ Done(p, call[p].else) /\ UNCHANGED mntn
  <2>1. mntn # "RELOC"
    BY <1>4 DEF Accepted
  <2> QED
    BY <1>1, <1>2, <1>4, <2>1, RelocEnds
<1>5. CASE Accepted(call[p].ah) /\ mntn' = "RELOC" /\ Over(p, "x_move") /\ Locks
  <2>1. Turned(p, "x_move") /\ call'[p].then = call[p].then
    BY <1>5, OverStep
  <2>2. mntn \in {"RELOC", "FBLOADED"}
    BY <1>5 DEF Accepted
  <2>3. "x_move" \in Relocating /\ Mover(call'[p])
    BY <2>1 DEF Relocating, Mover, Turned
  <2> QED
    BY <1>1, <1>2, <1>5, <2>1, <2>2, <2>3, RelocatingStep DEF Locks
<1> QED
  BY <1>3, <1>4, <1>5 DEF RelocBlks

\* The end of a relocation ends RELOC; while the mode lasts the state is
\* DISCARD again, and a discard goes back to waiting.
LEMMA RelocateKept == ASSUME ControlInv, NEW p \in Proc, Relocate(p) PROVE Kept
<1>1. /\ call[p].pc = "x_move" /\ Done(p, call[p].then) /\ UNCHANGED <<disc, trim>>
      /\ IF mntn = "RELOC" THEN fb' = {} /\ mntn' = IF disc THEN "DISCARD" ELSE "OFF"
         ELSE UNCHANGED <<mntn, fb, head>>
  BY DEF Relocate, At, image, kernel, Relocated
<1>2. call[p].pc \in Relocating
  BY <1>1 DEF Relocating
<1>3. /\ (call[p].then \in {"ok", "fail"} /\ call[p].else = "fail")
              \/ (call[p].then = "d_wait" /\ call[p].else = "d_abort" /\ call[p].op = "discard")
      /\ ~ Ballooning(call[p]) /\ call[p].pc \notin {"t_end", "d_fork"}
      /\ (Parent(call[p]) <=> call[p].then = "d_wait")
  BY <1>2, RelocCall
<1> DEFINE v == call[p].then
<1>4. /\ Turned(p, v) /\ call'[p].then = call[p].then /\ flock' = flock
      /\ \A q \in Proc : q # p => (lock = q => lock' = q)
      /\ call[p].op # "discard" => lock' = lock
  BY <1>1, DoneLocks
<1> HIDE DEF v
<1>5. v \in {"ok", "fail", "d_wait"} /\ v = call[p].then
  BY <1>3 DEF v
<1>6. CallOK(call'[p]) /\ ~ Ballooning(call'[p]) /\ call'[p].pc # "t_end"
  BY <1>3, <1>4, <1>5 DEF Ballooning, CallOK, Sized, Discards, Relocating, Turned
<1>7. /\ mntn' \in States /\ (fb' # {} \/ disc' => mntn' \in Busy) /\ (mntn' = "DISCARD" => disc')
      /\ (mntn' = mntn \/ mntn = "RELOC") /\ mntn' # "RELOC"
      /\ (mntn' \in {"BALLOON", "TRACK", "FBLOADED"} => mntn' = mntn)
  BY <1>1, Caller DEF States, Busy
<1>8. ControlInv'
  <2>1. call'[p].op \in {"running", "track"} => lock' = p
    BY <1>4, Caller DEF Turned
  <2>2. call'[p].op \in Sized \cup {"complete"} => flock' = p
    BY <1>4, Caller DEF Turned
  <2> QED
    BY <1>1, <1>4, <1>6, <1>7, <2>1, <2>2, Caller, ControlStep DEF Turned
<1>9. ASSUME Attended PROVE Attended'
  <2>1. Child(p) => Child(p)'
    BY <1>1, <1>3 DEF Child
  <2>2. Parent(call[p]) => Parent(call'[p])
    BY <1>3, <1>4, <1>5 DEF Parent, Discards, Turned
  <2>3. ~ Loader(call[p])
    BY <1>1 DEF Loader
  <2>4. mntn' = "FBLOADED" => mntn = "FBLOADED" /\ UNCHANGED <<fb, head>>
    BY <1>1, <1>7
  <2> QED
    BY <1>1, <1>3, <1>4, <1>7, <1>9, <2>1, <2>2, <2>3, <2>4, AttendStep DEF Turned
<1> QED
  BY <1>8, <1>9 DEF Kept

-----------------------------------------------------------------------------
(* Completion.                                                              *)

\* A tracked copy ends the state it began; nobody else ends it, because of the
\* lock of the descriptor.
LEMMA MaintainKept == ASSUME ControlInv, NEW p \in Proc, Maintain(p) PROVE Kept
<1>1. UNCHANGED <<disc, fb, head, trim, lock, flock>>
  BY DEF Maintain, image, Locks
<1>2. ASSUME NEW v \in {"ok", "fail", "t_end"}, Go(p, v), call[p].pc \in {"t_begin", "t_end"},
             mntn' \in States, v = "t_end" => mntn' = "TRACK" /\ mntn = "OFF",
             v = "fail" => mntn' = mntn /\ call[p].pc = "t_begin",
             v = "ok" => mntn' = "OFF" /\ mntn = "TRACK"
      PROVE  Kept
  <2>1. Turned(p, v) /\ call'[p].then = call[p].then
    BY <1>2, GoStep
  <2>2. call[p].op = "track"
    BY <1>2, Caller DEF CallOK
  <2>3. CallOK(call'[p]) /\ ~ Ballooning(call'[p]) /\ (call'[p].pc = "t_end" <=> v = "t_end")
    BY <1>2, <2>1, <2>2, Caller DEF Ballooning, CallOK, Sized, Discards, Relocating, Turned
  <2>4. /\ fb' # {} \/ disc' => mntn' \in Busy /\ mntn' = mntn
        /\ mntn' = "DISCARD" => disc'
    BY <1>1, <1>2, Caller DEF Busy
  <2>5. ControlInv'
    BY <1>1, <1>2, <2>1, <2>2, <2>3, <2>4, Caller, ControlStep DEF Turned
  <2>6. ASSUME Attended PROVE Attended'
    <3>1. ~ Ballooning(call[p]) /\ ~ Mover(call[p]) /\ ~ Loader(call[p]) /\ ~ Parent(call[p])
      BY <1>2 DEF Ballooning, Mover, Loader, Parent, Discards, Relocating
    <3>2. Child(p) => Child(p)'
      BY <1>1, <1>2 DEF Child
    <3> QED
      BY <1>1, <1>2, <2>1, <2>3, <2>4, <2>6, <3>1, <3>2, AttendStep DEF Turned
  <2> QED
    BY <2>5, <2>6 DEF Kept
<1>3. CASE call[p].pc = "t_end" /\ mntn' = "OFF" /\ Go(p, "ok")
  <2>1. mntn = "TRACK" /\ mntn' \in States
    BY <1>3, Caller DEF States
  <2> QED
    BY <1>2, <1>3, <2>1
<1>4. CASE call[p].pc = "t_begin" /\ mntn = "OFF" /\ mntn' = "TRACK" /\ Go(p, "t_end")
  <2>1. mntn' \in States
    BY <1>4 DEF States
  <2> QED
    BY <1>2, <1>4, <2>1
<1>5. CASE call[p].pc = "t_begin" /\ UNCHANGED mntn /\ Go(p, "fail")
  <2>1. mntn' \in States
    BY <1>5, Caller
  <2> QED
    BY <1>2, <1>5, <2>1
<1> QED
  BY <1>3, <1>4, <1>5 DEF Maintain, At

\* PLOOP_IOC_BALLOON that only asks still turns requests into a loaded list.
LEMMA Asked == ASSUME ControlInv, NEW t, t = BalloonIoctl(FALSE, TRUE)
               PROVE  /\ t \in States /\ (fb # {} \/ disc => t \in Busy) /\ (t = "DISCARD" => disc)
                      /\ t = mntn \/ (mntn = "DISCARD" /\ disc /\ t = "FBLOADED")
<1>1. t = mntn \/ (mntn = "DISCARD" /\ t = "FBLOADED")
  BY DEF BalloonIoctl
<1>2. /\ mntn \in States /\ (fb # {} \/ disc => mntn \in Busy) /\ (mntn = "DISCARD" => disc)
  BY DEF ControlInv, Shape, Kernel
<1> QED
  BY <1>1, <1>2 DEF States, Busy

\* complete_running_operation ends a state TRACK nobody is in, and hands all
\* others to ploop_balloon_complete.
LEMMA RunningKept == ASSUME ControlInv, NEW p \in Proc, complete_running_operation(p) PROVE Kept
<1> DEFINE t == BalloonIoctl(FALSE, TRUE)
           v == IF t \in {"RELOC", "FBLOADED", "DISCARD"} THEN "c_fini" ELSE "ok"
<1>1. /\ call[p].pc = "c_state" /\ mntn' = (IF t = "TRACK" THEN "OFF" ELSE t) /\ Go(p, v)
      /\ UNCHANGED <<disc, fb, head, trim, lock, flock>>
  BY DEF complete_running_operation, At, image, Locks
<1>2. /\ t \in States /\ (fb # {} \/ disc => t \in Busy) /\ (t = "DISCARD" => disc)
      /\ t = mntn \/ (mntn = "DISCARD" /\ disc /\ t = "FBLOADED")
  BY Asked
<1>3. v \in {"c_fini", "ok"}
  OBVIOUS
<1> HIDE DEF t, v
<1>4. Turned(p, v) /\ call'[p].then = call[p].then
  BY <1>1, GoStep
<1>5. call[p].op = "running"
  BY <1>1, Caller DEF CallOK
<1>6. CallOK(call'[p]) /\ ~ Ballooning(call'[p]) /\ call'[p].pc # "t_end"
  BY <1>3, <1>4, <1>5, Caller DEF Ballooning, CallOK, Sized, Discards, Relocating, Turned
<1>7. /\ mntn' \in States /\ (fb' # {} \/ disc' => mntn' \in Busy) /\ (mntn' = "DISCARD" => disc')
      /\ (mntn = "BALLOON" <=> mntn' = "BALLOON") /\ mntn' # "TRACK"
      /\ (mntn' = "RELOC" => mntn = "RELOC") /\ (mntn' = "FBLOADED" /\ ~ disc' => mntn = "FBLOADED")
  BY <1>1, <1>2 DEF States, Busy
<1>8. ControlInv'
  BY <1>1, <1>4, <1>5, <1>6, <1>7, Caller, ControlStep DEF Turned
<1>9. ASSUME Attended PROVE Attended'
  <2>1. ~ Ballooning(call[p]) /\ ~ Mover(call[p]) /\ ~ Loader(call[p]) /\ ~ Parent(call[p])
    BY <1>1 DEF Ballooning, Mover, Loader, Parent, Discards, Relocating
  <2>2. Child(p) => Child(p)'
    BY <1>1 DEF Child
  <2> QED
    BY <1>1, <1>4, <1>7, <1>9, <2>1, <2>2, AttendStep DEF Turned
<1> QED
  BY <1>8, <1>9 DEF Kept

\* PLOOP_IOC_DISCARD_FINI drops requests, but not a loaded list.
LEMMA FiniState ==
  ASSUME ControlInv, DiscardFini
  PROVE  /\ mntn' \in States /\ disc' = FALSE /\ (fb' # {} => mntn' \in Busy) /\ mntn' # "DISCARD"
         /\ mntn' = mntn \/ mntn' = "OFF"
         /\ (mntn = "BALLOON" => mntn' = "BALLOON") /\ (mntn = "TRACK" => mntn' = "TRACK")
<1>1. /\ mntn \in States /\ (fb # {} \/ disc => mntn \in Busy) /\ (mntn = "DISCARD" => disc)
  BY DEF ControlInv, Shape, Kernel
<1> QED
  BY <1>1 DEF DiscardFini, States, Busy

\* ploop_balloon_complete ends the mode and will look for what is loaded.
LEMMA CompleteFiniKept == ASSUME ControlInv, NEW p \in Proc, CompleteFini(p) PROVE Kept
<1>1. call[p].pc = "c_fini" /\ UNCHANGED <<head, trim, lock, flock>>
  BY DEF CompleteFini, At, image, Locks
<1>2. call[p].then \in {"ok", "fail"} /\ call[p].else = "fail"
  BY <1>1, Caller DEF CallOK
<1>3. CASE DiscardFini /\ Go(p, "c_ctl")
  <2>1. Turned(p, "c_ctl") /\ call'[p].then = call[p].then
    BY <1>3, GoStep
  <2>2. CallOK(call'[p]) /\ ~ Ballooning(call'[p]) /\ call'[p].pc # "t_end"
    BY <1>2, <2>1 DEF Ballooning, CallOK, Sized, Discards, Relocating, Turned
  <2>3. /\ mntn' \in States /\ disc' = FALSE /\ (fb' # {} => mntn' \in Busy) /\ mntn' # "DISCARD"
        /\ mntn' = mntn \/ mntn' = "OFF"
        /\ (mntn = "BALLOON" => mntn' = "BALLOON") /\ (mntn = "TRACK" => mntn' = "TRACK")
    BY <1>3, FiniState
  <2>4. ControlInv'
    BY <1>1, <2>1, <2>2, <2>3, Caller, ControlStep DEF Turned
  <2>5. ASSUME Attended PROVE Attended'
    <3>1. Loader(call[p])' /\ Mover(call'[p]) /\ ~ Ballooning(call[p])
      BY <1>1, <2>1 DEF Loader, Mover, Turned, Ballooning
    <3> QED
      BY <1>1, <2>1, <2>3, <2>5, <3>1, AttendStep DEF Turned
  <2> QED
    BY <2>4, <2>5 DEF Kept
<1>4. CASE windows' # {} /\ Go(p, "fail") /\ UNCHANGED <<mntn, disc, fb>>
  <2>1. Turned(p, "fail") /\ call'[p].then = call[p].then
    BY <1>4, GoStep
  <2>2. CallOK(call'[p]) /\ ~ Ballooning(call'[p]) /\ call'[p].pc # "t_end"
    BY <1>2, <2>1 DEF Ballooning, CallOK, Sized, Discards, Relocating, Turned
  <2>3. ControlInv'
    BY <1>1, <1>4, <2>1, <2>2, Caller, ControlStep DEF Turned
  <2> QED
    BY <1>4, <2>3 DEF Kept
<1> QED
  BY <1>3, <1>4 DEF CompleteFini, FaultAt, kernel

\* It relocates what is loaded, for the end of the file as it is now.
LEMMA CompleteCtlKept == ASSUME ControlInv, NEW p \in Proc, CompleteCtl(p) PROVE Kept
<1> DEFINE t == BalloonIoctl(FALSE, TRUE)
           v == Towards(t, IF t = "DISCARD" THEN call[p].else ELSE call[p].then)
<1>1. /\ call[p].pc = "c_ctl" /\ mntn' = t /\ Set(p, [call[p] EXCEPT !.ah = head, !.pc = v])
      /\ UNCHANGED <<disc, fb, head, trim, lock, flock>>
  BY DEF CompleteCtl, At, image, Locks
<1>2. /\ t \in States /\ (fb # {} \/ disc => t \in Busy) /\ (t = "DISCARD" => disc)
      /\ t = mntn \/ (mntn = "DISCARD" /\ disc /\ t = "FBLOADED")
  BY Asked
<1>3. call[p].then \in {"ok", "fail"} /\ call[p].else = "fail"
  BY <1>1, Caller DEF CallOK
<1>4. /\ v \in {"x_reloc", "x_get", "ok", "fail"}
      /\ (t = "RELOC" => v = "x_reloc") /\ (t = "FBLOADED" => v = "x_get")
  BY <1>3 DEF Towards
<1> HIDE DEF t, v
<1>5. /\ Turned(p, v) /\ call'[p].type = call[p].type /\ call'[p].ah = head
     /\ call'[p].then = call[p].then
  <2> DEFINE d == call[p]
             c == [d EXCEPT !.ah = head, !.pc = v]
  <2>1. Set(p, c) /\ IsCall(d)
    BY <1>1, Caller
  <2>2. c = [d EXCEPT !.ah = head, !.pc = v]
    OBVIOUS
  <2> HIDE DEF c, d
  <2>3. c = Rec(d.op, v, d.type, d.fm, head, d.plan, d.new, d.then, d.else)
    BY <2>1, <2>2 DEF IsCall, Rec
  <2>4. /\ IsCall(c) /\ c.op = d.op /\ c.pc = v /\ c.type = d.type /\ c.ah = head
       /\ c.then = d.then /\ c.else = d.else
    BY <2>3, RecCall
  <2>5. /\ call' = [q \in Proc |-> call'[q]] /\ call'[p] = c
       /\ \A q \in Proc : q # p => call'[q] = call[q]
    BY <2>1, Caller, SetCall
  <2> QED
    BY <2>4, <2>5 DEF d, Turned
<1>6. CallOK(call'[p]) /\ ~ Ballooning(call'[p]) /\ call'[p].pc # "t_end"
  BY <1>3, <1>4, <1>5 DEF Ballooning, CallOK, Sized, Discards, Relocating, Turned
<1>7. /\ (mntn = "BALLOON" <=> t = "BALLOON") /\ (mntn = "TRACK" <=> t = "TRACK")
  BY <1>2
<1>8. ControlInv'
  BY <1>1, <1>2, <1>5, <1>6, <1>7, Caller, ControlStep DEF Turned
<1>9. ASSUME Attended PROVE Attended'
  <2>1. ~ Ballooning(call[p]) /\ ~ Parent(call[p])
    BY <1>1 DEF Ballooning, Mover, Loader, Parent, Discards, Relocating
  <2>2. Child(p) => Child(p)'
    BY <1>1 DEF Child
  <2>3. t = "RELOC" => Mover(call'[p])
    BY <1>4, <1>5 DEF Mover, Turned
  <2>4. t = "FBLOADED" => Loader(call[p])'
    BY <1>1, <1>4, <1>5 DEF Loader, Turned
  <2> QED
    BY <1>1, <1>5, <1>7, <1>9, <2>1, <2>2, <2>3, <2>4, AttendStep DEF Turned
<1> QED
  BY <1>8, <1>9 DEF Kept

-----------------------------------------------------------------------------
(* Discard.                                                                 *)

\* A step that ends the mode and attends to nothing is safe while no list is
\* loaded; otherwise a window is open.
LEMMA FiniStep ==
  ASSUME ControlInv, NEW p \in Proc, call' = [q \in Proc |-> call'[q]],
         \A q \in Proc : q # p => call'[q] = call[q] /\ trim'[q] = trim[q],
         CallOK(call'[p]), trim' \in [Proc -> Children],
         call'[p].op = call[p].op, UNCHANGED <<lock, flock, head>>, DiscardFini, Finalized,
         Ballooning(call'[p]) <=> Ballooning(call[p]), call'[p].pc = "t_end" <=> call[p].pc = "t_end"
  PROVE  Kept
<1>1. /\ mntn' \in States /\ disc' = FALSE /\ (fb' # {} => mntn' \in Busy) /\ mntn' # "DISCARD"
      /\ mntn' = mntn \/ mntn' = "OFF"
      /\ (mntn = "BALLOON" => mntn' = "BALLOON") /\ (mntn = "TRACK" => mntn' = "TRACK")
  BY FiniState
<1>2. ControlInv'
  BY <1>1, Caller, ControlStep
<1>3. ASSUME Attended, windows' = {} PROVE Attended'
  <2>1. mntn' \notin {"FBLOADED", "RELOC"}
    BY <1>1, <1>3 DEF Finalized, FiniOk
  <2> QED
    BY <1>1, <1>3, <2>1, AttendStep
<1> QED
  BY <1>2, <1>3 DEF Kept

\* fork: the child is there, or the mode has ended.
LEMMA ForkKept == ASSUME ControlInv, NEW p \in Proc, Fork(p) PROVE Kept
<1>1. call[p].pc = "d_fork" /\ UNCHANGED <<head, lock, flock>>
  BY DEF Fork, At, image, Locks
<1>2. call[p].op = "discard" /\ call[p].then = "d_wait" /\ call[p].else = "d_abort"
  BY <1>1, Caller DEF CallOK, Discards
<1>3. CASE trim' = [trim EXCEPT ![p] = "trim"] /\ Go(p, "d_wait") /\ UNCHANGED <<mntn, disc, fb>>
  <2>1. Turned(p, "d_wait") /\ call'[p].then = call[p].then
    BY <1>3, GoStep
  <2>2. CallOK(call'[p]) /\ ~ Ballooning(call'[p]) /\ call'[p].pc # "t_end"
    BY <1>2, <2>1 DEF Ballooning, CallOK, Sized, Discards, Relocating, Turned
  <2>3. /\ trim' \in [Proc -> Children] /\ trim'[p] = "trim"
        /\ \A q \in Proc : q # p => trim'[q] = trim[q]
    BY <1>3, Caller DEF Children
  <2>4. ControlInv'
    BY <1>1, <1>3, <2>1, <2>2, <2>3, Caller, ControlStep DEF Turned
  <2>5. ASSUME Attended PROVE Attended'
    <3>1. ~ Ballooning(call[p]) /\ ~ Mover(call[p]) /\ ~ Loader(call[p]) /\ Parent(call'[p]) /\ Child(p)'
      BY <1>1, <2>1, <2>3 DEF Child, Turned, Ballooning, Mover, Loader, Parent, Discards, Relocating
    <3> QED
      BY <1>1, <1>3, <2>1, <2>3, <2>5, <3>1, AttendStep DEF Turned
  <2> QED
    BY <2>4, <2>5 DEF Kept
<1>4. ASSUME NEW v \in {"d_wait", "fail"}, Go(p, v), DiscardFini, Finalized, UNCHANGED trim PROVE Kept
  <2>1. Turned(p, v) /\ call'[p].then = call[p].then
    BY <1>4, GoStep
  <2>2. CallOK(call'[p]) /\ ~ Ballooning(call'[p]) /\ call'[p].pc # "t_end" /\ ~ Ballooning(call[p])
    BY <1>1, <1>2, <1>4, <2>1 DEF Ballooning, CallOK, Sized, Discards, Relocating, Turned
  <2> QED
    BY <1>1, <1>4, <2>1, <2>2, Caller, FiniStep DEF Turned
<1> DEFINE v == IF FiniOk THEN "d_wait" ELSE "fail"
<1>5. CASE Go(p, v) /\ DiscardFini /\ Finalized /\ UNCHANGED trim
  <2>1. v \in {"d_wait", "fail"}
    OBVIOUS
  <2> HIDE DEF v
  <2> QED
    BY <1>4, <1>5, <2>1
<1> QED
  BY <1>3, <1>5 DEF Fork, kernel

\* DISCARD_WAIT and FBFILTER: the caller goes on answering while the mode lasts.
LEMMA WaitKept == ASSUME ControlInv, NEW p \in Proc, DiscardWait(p) PROVE Kept
<1>1. call[p].pc = "d_wait" /\ UNCHANGED <<head, lock, flock, trim, mntn, disc>>
  BY DEF DiscardWait, At, image, kernel, Locks
<1>2. call[p].op = "discard" /\ call[p].then = "d_wait" /\ call[p].else = "d_abort"
  BY <1>1, Caller DEF CallOK, Discards
<1>3. ~ Ballooning(call[p]) /\ ~ Mover(call[p]) /\ ~ Loader(call[p])
  BY <1>1 DEF Ballooning, Mover, Loader, Parent, Discards, Relocating
<1>4. Child(p) => trim[p] \in {"trim", "sent", "stop"}
  BY <1>1 DEF Child
<1>5. ASSUME NEW v \in {"d_reap", "d_lock", "d_abort"}, Go(p, v), fb' = fb, v = "d_reap" => ~ disc
      PROVE  Kept
  <2>1. Turned(p, v) /\ call'[p].then = call[p].then
    BY <1>5, GoStep
  <2>2. CallOK(call'[p]) /\ ~ Ballooning(call'[p]) /\ call'[p].pc # "t_end"
    BY <1>2, <1>5, <2>1 DEF Ballooning, CallOK, Sized, Discards, Relocating, Turned
  <2>3. ControlInv'
    BY <1>1, <1>5, <2>1, <2>2, Caller, ControlStep DEF Turned
  <2>4. ASSUME Attended PROVE Attended'
    <3>1. disc => Parent(call'[p])
      BY <1>5, <2>1 DEF Parent, Discards, Turned
    <3>2. Child(p) => Child(p)'
      BY <1>1, <1>4 DEF Child
    <3> QED
      BY <1>1, <1>3, <1>5, <2>1, <2>4, <3>1, <3>2, AttendStep DEF Turned
  <2> QED
    BY <2>3, <2>4 DEF Kept
<1>6. CASE fb' = {} /\ mntn = "DISCARD" /\ disc /\ UNCHANGED call
  <2>1. ControlInv'
    BY <1>1, <1>6, Caller, ControlStep
  <2>2. ASSUME Attended PROVE Attended'
    <3>1. Parent(call'[p])
      BY <1>1, <1>6 DEF Parent, Discards
    <3>2. Child(p) => Child(p)'
      BY <1>1, <1>4 DEF Child
    <3> QED
      BY <1>1, <1>6, <2>2, <3>1, <3>2, AttendStep
  <2> QED
    BY <2>1, <2>2 DEF Kept
<1> QED
  BY <1>5, <1>6 DEF DiscardWait, kernel

\* The state is asked for under the lock: a list is relocated, anything else
\* aborts the discard, which ends the mode.
LEMMA LockKept == ASSUME ControlInv, NEW p \in Proc, DiscardLock(p) PROVE Kept
<1> DEFINE t == BalloonIoctl(FALSE, TRUE)
           v == Towards(t, "d_abort")
           s == {}
<1>1. call[p].pc = "d_lock" /\ UNCHANGED <<head, flock>>
  BY DEF DiscardLock, At, image
<1>2. call[p].op = "discard" /\ call[p].then = "d_wait" /\ call[p].else = "d_abort"
  BY <1>1, Caller DEF CallOK, Discards
<1>3. ~ Ballooning(call[p]) /\ ~ Mover(call[p]) /\ ~ Loader(call[p])
  BY <1>1 DEF Ballooning, Mover, Loader, Parent, Discards, Relocating
<1>4. Child(p) => trim[p] \in {"trim", "sent", "stop"}
  BY <1>1 DEF Child
<1>5. CASE Go(p, "d_abort") /\ UNCHANGED <<mntn, disc, fb, lock, trim>>
  <2>1. Turned(p, "d_abort") /\ call'[p].then = call[p].then
    BY <1>5, GoStep
  <2>2. CallOK(call'[p]) /\ ~ Ballooning(call'[p]) /\ call'[p].pc # "t_end"
    BY <1>2, <2>1 DEF Ballooning, CallOK, Sized, Discards, Relocating, Turned
  <2>3. ControlInv'
    BY <1>1, <1>5, <2>1, <2>2, Caller, ControlStep DEF Turned
  <2>4. ASSUME Attended PROVE Attended'
    <3>1. Parent(call'[p])
      BY <2>1 DEF Parent, Discards, Turned
    <3>2. Child(p) => Child(p)'
      BY <1>4, <1>5 DEF Child
    <3> QED
      BY <1>1, <1>3, <1>5, <2>1, <2>4, <3>1, <3>2, AttendStep DEF Turned
  <2> QED
    BY <2>3, <2>4 DEF Kept
<1>6. CASE /\ call[p].type = "dev" \/ lock = None
           /\ mntn' = t /\ lock' = (IF v = "d_abort" \/ call[p].type = "dev" THEN lock ELSE p)
           /\ Set(p, [call[p] EXCEPT !.ah = head, !.plan = s, !.pc = v])
           /\ \/ UNCHANGED <<disc, trim>>
              \/ /\ v # "d_abort" /\ disc' = FALSE
                 /\ trim' = [trim EXCEPT ![p] = IF @ \in {"trim", "sent"} THEN "stop" ELSE @]
           /\ UNCHANGED fb
  <2>1. /\ t \in States /\ (fb # {} \/ disc => t \in Busy) /\ (t = "DISCARD" => disc)
        /\ t = mntn \/ (mntn = "DISCARD" /\ disc /\ t = "FBLOADED")
    BY Asked
  <2>2. /\ v \in {"x_reloc", "x_get", "d_abort"} /\ (v # "d_abort" => t \in {"RELOC", "FBLOADED"})
        /\ (t = "RELOC" => v = "x_reloc") /\ (t = "FBLOADED" => v = "x_get")
    BY DEF Towards
  <2> HIDE DEF t, v, s
  <2>3. /\ Turned(p, v) /\ call'[p].type = call[p].type /\ call'[p].ah = head
       /\ call'[p].then = call[p].then
    <3> DEFINE d == call[p]
               c == [d EXCEPT !.ah = head, !.plan = s, !.pc = v]
    <3>1. Set(p, c) /\ IsCall(d)
      BY <1>6, Caller
    <3>2. c = [d EXCEPT !.ah = head, !.plan = s, !.pc = v]
      OBVIOUS
    <3> HIDE DEF c, d
    <3>3. c = Rec(d.op, v, d.type, d.fm, head, s, d.new, d.then, d.else)
      BY <3>1, <3>2 DEF IsCall, Rec
    <3>4. /\ IsCall(c) /\ c.op = d.op /\ c.pc = v /\ c.type = d.type /\ c.ah = head
         /\ c.then = d.then /\ c.else = d.else
      BY <3>3, RecCall
    <3>5. /\ call' = [q \in Proc |-> call'[q]] /\ call'[p] = c
         /\ \A q \in Proc : q # p => call'[q] = call[q]
      BY <3>1, Caller, SetCall
    <3> QED
      BY <3>4, <3>5 DEF d, Turned
  <2>4. CallOK(call'[p]) /\ ~ Ballooning(call'[p]) /\ call'[p].pc # "t_end"
    BY <1>2, <2>2, <2>3 DEF Ballooning, CallOK, Sized, Discards, Relocating, Turned
  <2>5. /\ trim' \in [Proc -> Children] /\ disc' \in BOOLEAN /\ (disc' => disc /\ trim' = trim)
        /\ \A q \in Proc : q # p => trim'[q] = trim[q]
    <3>1. trim \in [Proc -> Children] /\ disc \in BOOLEAN
      BY Caller
    <3>2. CASE UNCHANGED <<disc, trim>>
      BY <3>1, <3>2
    <3>3. CASE /\ disc' = FALSE
               /\ trim' = [trim EXCEPT ![p] = IF @ \in {"trim", "sent"} THEN "stop" ELSE @]
      BY <3>1, <3>3 DEF Children
    <3> QED
      BY <1>6, <3>2, <3>3
  <2>6. \A q \in Proc : q # p => (lock = q => lock' = q)
    BY <1>6, BalloonAssumption
  <2>7. /\ (mntn = "BALLOON" <=> t = "BALLOON") /\ (mntn = "TRACK" <=> t = "TRACK")
        /\ (fb' # {} \/ disc' => t \in Busy)
    BY <1>6, <2>1, <2>5
  <2>8. t = "DISCARD" => disc'
    BY <1>6, <2>1, <2>2
  <2>9. ControlInv'
    <3>1. call'[p].op \notin Sized \cup {"complete", "running", "track"}
      BY <1>2, <2>3 DEF Sized, Turned
    <3>2. mntn' = t /\ flock' = flock
      BY <1>1, <1>6
    <3> QED
      BY <2>1, <2>3, <2>4, <2>5, <2>6, <2>7, <2>8, <3>1, <3>2, ControlStep DEF Turned
  <2>10. ASSUME Attended PROVE Attended'
    <3>1. Parent(call'[p])
      BY <1>2, <2>2, <2>3 DEF Parent, Discards, Relocating, Turned
    <3>2. disc' /\ Child(p) => Child(p)'
      BY <1>4, <2>5 DEF Child
    <3>3. t = "RELOC" => Mover(call'[p])
      BY <2>2, <2>3 DEF Mover, Turned
    <3>4. t = "FBLOADED" => Loader(call[p])'
      BY <1>1, <2>2, <2>3 DEF Loader, Turned
    <3> QED
      BY <1>1, <1>3, <1>6, <2>3, <2>5, <2>7, <2>10, <3>1, <3>2, <3>3, <3>4, AttendStep DEF Turned
  <2> QED
    BY <2>9, <2>10 DEF Kept
<1> QED
  BY <1>5, <1>6 DEF DiscardLock, kernel

\* The discard gives up: the mode ends and the child is killed.
LEMMA AbortKept == ASSUME ControlInv, NEW p \in Proc, DiscardAbort(p) PROVE Kept
<1>1. /\ call[p].pc = "d_abort" /\ UNCHANGED <<head, lock, flock>> /\ DiscardFini /\ Finalized
      /\ Go(p, "d_reap")
      /\ trim' = [trim EXCEPT ![p] = IF @ \in {"trim", "sent", "stop"} THEN "killed" ELSE @]
  BY DEF DiscardAbort, At, image, Locks
<1>2. call[p].op = "discard" /\ call[p].then = "d_wait" /\ call[p].else = "d_abort"
  BY <1>1, Caller DEF CallOK, Discards
<1>3. Turned(p, "d_reap") /\ call'[p].then = call[p].then
  BY <1>1, GoStep
<1>4. CallOK(call'[p]) /\ ~ Ballooning(call'[p]) /\ call'[p].pc # "t_end" /\ ~ Ballooning(call[p])
  BY <1>1, <1>2, <1>3 DEF Ballooning, CallOK, Sized, Discards, Relocating, Turned
<1>5. trim' \in [Proc -> Children] /\ \A q \in Proc : q # p => trim'[q] = trim[q]
  BY <1>1, Caller DEF Children
<1> QED
  BY <1>1, <1>3, <1>4, <1>5, FiniStep DEF Turned

\* cancel_discard turns the call into a completion, which attends to everything.
LEMMA CancelKept == ASSUME ControlInv, NEW p \in Proc, cancel_discard(p) PROVE Kept
<1> DEFINE c == [Idle EXCEPT !.op = "discard", !.pc = "c_fini", !.then = "fail"]
<1>1. /\ call[p].op = "discard" /\ call[p].pc # "d_fork" /\ call[p].pc # "t_end" /\ Set(p, c)
      /\ UNCHANGED <<mntn, disc, fb, head, trim, lock, flock>>
      /\ ~ Ballooning(call[p])
  BY DEF cancel_discard, image, kernel, Locks, Ballooning
<1>2. IsCall(c) /\ c.op = "discard" /\ c.pc = "c_fini" /\ c.then = "fail" /\ c.else = "fail"
  <2> DEFINE d == Idle
  <2>1. c = [d EXCEPT !.op = "discard", !.pc = "c_fini", !.then = "fail"]
    OBVIOUS
  <2>2. IsCall(d)
    BY IdleCall DEF CallOK
  <2>3. d.else = "fail"
    BY IdleCall
  <2> HIDE DEF c, d
  <2>4. c = Rec("discard", "c_fini", d.type, d.fm, d.ah, d.plan, d.new, "fail", d.else)
    BY <2>1, <2>2 DEF IsCall, Rec
  <2> QED
    BY <2>3, <2>4, RecCall
<1> HIDE DEF c
<1>3. /\ call' = [q \in Proc |-> call'[q]] /\ call'[p] = c
      /\ \A q \in Proc : q # p => call'[q] = call[q]
  BY <1>1, Caller, SetCall
<1>4. CallOK(call'[p]) /\ ~ Ballooning(call'[p]) /\ call'[p].pc # "t_end"
  BY <1>2, <1>3 DEF CallOK, Sized, Discards, Relocating, Ballooning
<1>5. ControlInv'
  BY <1>1, <1>2, <1>3, <1>4, Caller, ControlStep
<1>6. ASSUME Attended PROVE Attended'
  <2>1. Parent(call'[p]) /\ Mover(call'[p]) /\ Loader(call[p])'
    BY <1>2, <1>3 DEF Parent, Mover, Loader
  <2>2. Child(p) => Child(p)'
    BY <1>1 DEF Child
  <2> QED
    BY <1>1, <1>3, <1>6, <2>1, <2>2, AttendStep
<1> QED
  BY <1>5, <1>6 DEF Kept

\* FITRIM sends a request; its child goes on.
LEMMA TrimKept == ASSUME ControlInv, NEW p \in Proc, ploop_trim(p) PROVE Kept
<1>1. /\ mntn = "DISCARD" /\ disc /\ trim' = [trim EXCEPT ![p] = "sent"]
      /\ UNCHANGED <<mntn, disc, head, call, lock, flock>>
  BY DEF ploop_trim, image
<1>2. trim' \in [Proc -> Children] /\ trim'[p] = "sent" /\ \A q \in Proc : q # p => trim'[q] = trim[q]
  BY <1>1, Caller DEF Children
<1>3. mntn \in Busy
  BY <1>1 DEF Busy
<1>4. ControlInv'
  BY <1>1, <1>2, <1>3, Caller, ControlStep
<1>5. ASSUME Attended PROVE Attended'
  <2>1. Child(p)' /\ Parent(call'[p]) = Parent(call[p])
    BY <1>1, <1>2 DEF Child
  <2> QED
    BY <1>1, <1>2, <1>5, <2>1, AttendStep
<1> QED
  BY <1>4, <1>5 DEF Kept

\* The child exits: it ends the mode, which may be that of a later discard, or
\* was killed by its parent, who ended it before.
LEMMA TrimEndKept == ASSUME ControlInv, NEW p \in Proc, TrimEnd(p) PROVE Kept
<1>1. UNCHANGED <<head, call, lock, flock>>
  BY DEF TrimEnd, image, Locks
<1>2. ASSUME NEW v \in Children, trim' = [trim EXCEPT ![p] = v]
      PROVE  trim' \in [Proc -> Children] /\ \A q \in Proc : q # p => trim'[q] = trim[q]
  BY <1>2, Caller
<1>3. \A v \in {"done", "dead", "none"} : v \in Children
  BY DEF Children
<1>4. CASE /\ DiscardFini /\ Finalized
           /\ trim' = [trim EXCEPT ![p] = IF call[p].op = "discard" THEN "done" ELSE "none"]
  <2>1. trim' \in [Proc -> Children] /\ \A q \in Proc : q # p => trim'[q] = trim[q]
    BY <1>2, <1>3, <1>4
  <2>2. CallOK(call'[p]) /\ call' = [q \in Proc |-> call'[q]]
    BY <1>1, Caller
  <2> QED
    BY <1>1, <1>4, <2>1, <2>2, FiniStep
<1>5. CASE /\ trim[p] = "killed" /\ UNCHANGED <<mntn, disc, fb>>
           /\ trim' = [trim EXCEPT ![p] = IF call[p].op = "discard" THEN "dead" ELSE "none"]
  <2>1. trim' \in [Proc -> Children] /\ \A q \in Proc : q # p => trim'[q] = trim[q]
    BY <1>2, <1>3, <1>5
  <2>2. ControlInv'
    BY <1>1, <1>5, <2>1, Caller, ControlStep
  <2>3. ASSUME Attended PROVE Attended'
    <3>1. Child(p) => Child(p)'
      BY <1>1, <1>5 DEF Child
    <3>2. Loader(call[p]) => Loader(call[p])'
      BY <1>1, <1>5 DEF Loader
    <3> QED
      BY <1>1, <1>5, <2>1, <2>3, <3>1, <3>2, AttendStep
  <2> QED
    BY <2>2, <2>3 DEF Kept
<1> QED
  BY <1>4, <1>5 DEF TrimEnd, kernel

\* The child is lost, which opens a window.
LEMMA TrimKilledKept == ASSUME ControlInv, NEW p \in Proc, TrimKilled(p) PROVE Kept
<1>1. /\ UNCHANGED <<head, call, lock, flock, mntn, disc, fb>> /\ windows' # {}
      /\ trim' = [trim EXCEPT ![p] = IF call[p].op = "discard" THEN "dead" ELSE "none"]
  BY DEF TrimKilled, image, kernel, Locks, FaultAt
<1>2. trim' \in [Proc -> Children]
  BY <1>1, Caller DEF Children
<1>3. ControlInv'
  BY <1>1, <1>2, Caller, ControlStep
<1> QED
  BY <1>1, <1>3 DEF Kept

Inv == ControlInv /\ AttendedInv

\* A window stays open.
LEMMA WindowsGrow == ASSUME Next PROVE windows \subseteq windows'
<1>1. ASSUME NEW c \in Clu, Write(c) PROVE windows \subseteq windows'
  BY <1>1 DEF Write
<1>2. ASSUME NEW p \in Proc, get_balloon(p) \/ ploop_lock_dd(p) \/ __ploop_discard(p)
      PROVE  windows \subseteq windows'
  BY <1>2 DEF get_balloon, ploop_lock_dd, __ploop_discard, Begin
<1>3. ASSUME NEW p \in Proc, BalloonCtl(p) \/ do_truncate(p) \/ do_inflate(p)
             \/ fiemap_build_rmap(p) \/ FreeBlks(p) \/ DropState(p)
      PROVE  windows \subseteq windows'
  BY <1>3 DEF BalloonCtl, do_truncate, do_inflate, fiemap_build_rmap, FreeBlks, LoadFails, DropState, Quiet, FaultAt
<1>4. ASSUME NEW p \in Proc, FbGet(p) \/ Plan(p) \/ RelocBlks(p) \/ Relocate(p)
      PROVE  windows \subseteq windows'
  BY <1>4 DEF FbGet, Plan, RelocBlks, Relocate, RelocFails, Quiet, FaultAt
<1>5. ASSUME NEW p \in Proc, Maintain(p) \/ complete_running_operation(p) \/ CompleteFini(p) \/ CompleteCtl(p)
      PROVE  windows \subseteq windows'
  BY <1>5 DEF Maintain, complete_running_operation, CompleteFini, CompleteCtl, Quiet, FaultAt
<1>6. ASSUME NEW p \in Proc, Fork(p) \/ DiscardWait(p) \/ DiscardLock(p) \/ DiscardAbort(p)
      PROVE  windows \subseteq windows'
  BY <1>6 DEF Fork, DiscardWait, DiscardLock, DiscardAbort, Quiet, Finalized
<1>7. ASSUME NEW p \in Proc, wait_pid(p) \/ Reply(p) \/ TrimEnd(p)
      PROVE  windows \subseteq windows'
  BY <1>7 DEF wait_pid, Reply, TrimEnd, Quiet, Finalized
<1>8. ASSUME NEW p \in Proc, ploop_trim(p) \/ TrimKilled(p) \/ cancel_discard(p) \/ Kill(p)
      PROVE  windows \subseteq windows'
  BY <1>8 DEF ploop_trim, TrimKilled, cancel_discard, Kill, FaultAt
<1> QED
  BY <1>1, <1>2, <1>3, <1>4, <1>5, <1>6, <1>7, <1>8 DEF Next, Step

\* All steps keep the invariant.
LEMMA NextKept == ASSUME ControlInv, Next PROVE Kept
<1>1. ASSUME NEW c \in Clu, Write(c) PROVE Kept
  BY <1>1, WriteKept
<1>2. ASSUME NEW p \in Proc, get_balloon(p) \/ ploop_lock_dd(p) \/ __ploop_discard(p) PROVE Kept
  BY <1>2, GetBalloonKept, LockDdKept, DiscardKept
<1>3. ASSUME NEW p \in Proc, Step(p) PROVE Kept
  BY <1>3, BalloonCtlKept, TruncateKept, InflateKept, RmapKept, FreeBlksKept, DropKept, FbGetKept, PlanKept,
     RelocBlksKept, RelocateKept, MaintainKept, RunningKept, CompleteFiniKept, CompleteCtlKept,
     ForkKept, WaitKept, LockKept, AbortKept, ReapKept, ReplyKept, TrimEndKept DEF Step
<1>4. ASSUME NEW p \in Proc, ploop_trim(p) \/ TrimKilled(p) \/ cancel_discard(p) \/ Kill(p) PROVE Kept
  BY <1>4, TrimKept, TrimKilledKept, CancelKept, KillKept
<1> QED
  BY <1>1, <1>2, <1>3, <1>4 DEF Next

\* Inv is inductive.
LEMMA StepInv == Inv /\ [Next]_vars => Inv'
<1> SUFFICES ASSUME Inv, [Next]_vars PROVE Inv'
  OBVIOUS
<1>1. CASE Next
  <2>1. Kept /\ windows \subseteq windows'
    BY <1>1, NextKept, WindowsGrow DEF Inv
  <2>2. windows' = {} => windows = {}
    BY <2>1
  <2>3. windows' = {} => Attended'
    BY <2>1, <2>2 DEF Inv, AttendedInv, Kept
  <2> QED
    BY <2>1, <2>3 DEF Inv, AttendedInv, Kept
<1>2. CASE UNCHANGED vars
  <2>1. UNCHANGED <<mntn, disc, fb, head, call, trim, lock, flock, windows>>
    BY <1>2 DEF vars, image, kernel
  <2>2. ControlInv'
    BY <2>1 DEF Inv, ControlInv, Shape, Holders, Kernel, CallOK, IsCall, Ballooning
  <2>3. Attended => Attended'
    BY <2>1 DEF Attended, Ballooning, Mover, Loader, Parent, Child
  <2> QED
    BY <2>1, <2>2, <2>3 DEF Inv, AttendedInv
<1> QED
  BY <1>1, <1>2

\* Inv holds in the beginning.
LEMMA InitInv == Init => Inv
<1> SUFFICES ASSUME Init PROVE Inv
  OBVIOUS
<1>1. /\ mntn = "OFF" /\ disc = FALSE /\ fb = {} /\ lock = None /\ flock = None
      /\ call = [p \in Proc |-> Idle] /\ trim = [p \in Proc |-> "none"]
  BY DEF Init
<1>2. \A p \in Proc : call[p] = Idle /\ CallOK(Idle) /\ Idle.pc = "idle" /\ Idle.op = "idle"
  BY <1>1, IdleCall
<1>3. Shape
  BY <1>1, <1>2 DEF Shape, States, Children
<1>4. Holders
  BY <1>2 DEF Holders, Sized
<1>5. Kernel
  BY <1>1, <1>2 DEF Kernel, Ballooning, Busy
<1>6. Attended
  BY <1>1 DEF Attended
<1> QED
  BY <1>3, <1>4, <1>5, <1>6 DEF Inv, ControlInv, AttendedInv

\* For any callers, device, bounds and faults: the control and the kernel agree
\* in every state, and as long as nobody was killed and no step failed that
\* leaves its state behind, every maintenance state the kernel is in has a
\* caller that will end it.
THEOREM Attentive == Spec => []Inv
  BY InitInv, StepInv, PTL DEF Spec

\* When nobody is left to attend to a state, there is none.
LEMMA InvNothing == Inv => NothingStuck
<1> SUFFICES ASSUME Inv, \A p \in Proc : call[p] = Idle /\ trim[p] = "none", windows = {}
             PROVE  mntn = "OFF" /\ ~ disc /\ fb = {}
  BY DEF NothingStuck
<1>1. \A p \in Proc : call[p].pc = "idle" /\ trim[p] = "none"
  BY IdleCall
<1>2. Attended
  BY DEF Inv, AttendedInv
<1>3. \A p \in Proc : /\ ~ Ballooning(call[p]) /\ ~ Mover(call[p]) /\ ~ Loader(call[p])
                      /\ ~ Parent(call[p]) /\ call[p].pc # "t_end"
  BY <1>1 DEF Ballooning, Mover, Loader, Parent, Discards, Relocating
<1>4. ~ disc /\ mntn \notin {"BALLOON", "TRACK", "RELOC"} /\ mntn # "FBLOADED"
  BY <1>2, <1>3 DEF Attended
<1>5. mntn \in States /\ (mntn = "DISCARD" => disc) /\ (fb # {} => mntn \in Busy)
  BY DEF Inv, ControlInv, Shape, Kernel
<1> QED
  BY <1>4, <1>5 DEF States, Busy

\* Whoever attends to the mode, or to a list, will answer what waits for it.
LEMMA InvAnswered == Inv => DiscardAnswered
<1> SUFFICES ASSUME Inv, windows = {}
             PROVE  /\ disc /\ Answered /\ (\E p \in Proc : At(p, "d_wait"))
                         => \E q \in Proc : trim[q] \in {"trim", "sent", "stop"} \/ call[q].pc \in Answering
                    /\ ~ Answered => \E q \in Proc : call[q].pc \in Answering \cup {"d_wait"}
  BY DEF DiscardAnswered
<1>1. Attended
  BY DEF Inv, AttendedInv
<1>2. ASSUME disc PROVE \E q \in Proc : trim[q] \in {"trim", "sent", "stop"} \/ call[q].pc \in Answering
  BY <1>1, <1>2 DEF Attended, Child, Answering
<1>3. ASSUME ~ Answered PROVE \E q \in Proc : call[q].pc \in Answering \cup {"d_wait"}
  <2>1. mntn \in Busy /\ (mntn = "DISCARD" => disc)
    BY <1>3 DEF Answered, Inv, ControlInv, Kernel, Busy
  <2>2. CASE disc
    <3>1. PICK q \in Proc : Parent(call[q])
      BY <1>1, <2>2 DEF Attended
    <3> QED
      BY <3>1 DEF Parent, Answering, Discards, Relocating
  <2>3. CASE mntn = "RELOC"
    <3>1. PICK q \in Proc : Mover(call[q])
      BY <1>1, <2>3 DEF Attended
    <3> QED
      BY <3>1 DEF Mover, Answering
  <2>4. CASE mntn = "FBLOADED" /\ ~ disc
    <3>1. PICK q \in Proc : Loader(call[q])
      BY <1>1, <2>4 DEF Attended
    <3> QED
      BY <3>1 DEF Loader, Answering
  <2> QED
    BY <2>1, <2>2, <2>3, <2>4 DEF Busy
<1> QED
  BY <1>2, <1>3

\* Whatever callers inflate, deflate, repair, discard, complete, cancel or track,
\* in whatever order, when all of them and their children are gone the kernel is
\* in no maintenance state and holds no list, unless one was killed or a step of
\* it failed after the state was taken (balloon.c).
THEOREM NothingLeftBehind == Spec => []NothingStuck
  BY Attentive, InvNothing, PTL

\* A discard that waits has a child that sends requests or ends the mode, and
\* requests that wait have a caller that will answer them: no parent and child
\* of __ploop_discard wait for each other, unless a child was lost or the mode
\* was ended under a loaded list.
THEOREM RequestsAnswered == Spec => []DiscardAnswered
  BY Attentive, InvAnswered, PTL
=============================================================================
