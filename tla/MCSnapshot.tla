----------------------------- MODULE MCSnapshot -----------------------------
(* Snapshot operations on small instances.                                 *)
EXTENDS Snapshot, TLC

\* snapshots a client names, in a tree, on a device that comes and goes
TreeOps == {"create", "delete", "merge", "mount", "umount", "switch"}

\* all that a client of a healthy image calls, read-only devices included
RoOps == TreeOps \cup {"tsnap", "merge_all", "mount_ro"}

\* temporary snapshots with read-only devices over them, in a chain
TempOps == {"create", "tsnap", "delete", "delete_top", "merge_all", "mount",
            "umount"}

\* the flags and options the tools seldom use
OptionOps == {"create", "create_offline", "merge_new", "switch_keep",
              "mount", "umount"}

\* merging into a new delta alone, with a fault
NewDeltaOps == {"create", "merge_new"}

\* uuids are interchangeable
GuidSymmetry == Permutations(Guid)
=============================================================================
