------------------------------ MODULE LiveCopy ------------------------------
(***************************************************************************)
(* What a live copy of an image promises to its caller, with no threads,   *)
(* no write tracker and no iterations: the guest goes on writing until the *)
(* image is frozen; the copy either succeeds, and then the result is the   *)
(* image as it was at that moment, still frozen, or it fails; either way   *)
(* the image is thawed, and the result no longer changes.                  *)
(***************************************************************************)
CONSTANT Image   \* possible contents of the image

VARIABLES image,    \* the image the guest writes to
          frozen,   \* no writes reach the image
          result,   \* {} until the copy is finished, then {the copy}
          outcome   \* how the copy ended

liveVars == <<image, frozen, result, outcome>>

Init == /\ image \in Image
        /\ frozen = FALSE
        /\ result = {}
        /\ outcome = "pending"

Write == /\ ~ frozen
         /\ image' \in Image
         /\ UNCHANGED <<frozen, result, outcome>>

Freeze == /\ outcome = "pending"
          /\ ~ frozen
          /\ frozen' = TRUE
          /\ UNCHANGED <<image, result, outcome>>

Finish == /\ outcome = "pending"
          /\ frozen
          /\ result' = {image}
          /\ outcome' = "copied"
          /\ frozen' = FALSE
          /\ UNCHANGED image

Fail == /\ outcome = "pending"
        /\ outcome' = "failed"
        /\ frozen' = FALSE
        /\ UNCHANGED <<image, result>>

Next == Write \/ Freeze \/ Finish \/ Fail

Spec == Init /\ [][Next]_liveVars
=============================================================================
