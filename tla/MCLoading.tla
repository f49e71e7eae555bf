----------------------------- MODULE MCLoading -----------------------------
(***************************************************************************)
(* Three invocations of two calls each, on both kinds of kernels.            *)
(***************************************************************************)
EXTENDS Loading, TLC

CONSTANTS p1, p2, p3
MCProcs == {p1, p2, p3}
MCStyles == {"procfs", "filesystem"}
MCFaults == {"filesystems", "modprobe", "directory", "mount", "status",
             "fusermount", "umount"}
Alike == Permutations(MCProcs)
=============================================================================
