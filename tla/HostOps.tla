------------------------------ MODULE HostOps ------------------------------
(***************************************************************************)
(* The host operations of the node agent (node-agent/pkg/disk/disk.go).    *)
(*                                                                         *)
(* A request names an operation and the mount point it is about. Its       *)
(* outcomes are the pairs of a verdict and a set of mounted paths that the *)
(* operation can leave behind: the verdict is what executeOperation        *)
(* reports, and a failing operation may still have changed the host.       *)
(***************************************************************************)
EXTENDS Naturals

CONSTANTS DiskMounts,  \* mount points of disks (Disk.spec.mountPoint)
          PoolMounts   \* mount points of mergerfs pools (Pool.spec.mountPoint)

(* A pool is not mounted over a disk. The CRDs do not enforce it.          *)
ASSUME MountsAssumption == DiskMounts \cap PoolMounts = {}

Targets == DiskMounts \cup PoolMounts

DiskRequests == [kind : {"mount", "unmount"}, target : DiskMounts]
PoolRequests == [kind : {"mergerfs-mount"}, target : PoolMounts]
Requests     == DiskRequests \cup PoolRequests

Ok(paths)   == [ok |-> TRUE,  mounted |-> paths]
Fail(paths) == [ok |-> FALSE, mounted |-> paths]

(* An already mounted path is left alone and reported as done. The mount   *)
(* can fail, and so can the fstab entry written after a mount succeeded.   *)
MountDevice(t, mounted) ==
    {Ok(mounted \cup {t}), Fail(mounted), Fail(mounted \cup {t})}

(* Nothing to do for a path that is not mounted.                           *)
UnmountDevice(t, mounted) ==
    IF t \in mounted
    THEN {Ok(mounted \ {t}), Fail(mounted)}
    ELSE {Ok(mounted)}

(* The old union mount is detached first, whatever that returns; if the    *)
(* new one then fails, the pool may be left without any mount.             *)
MountMergerFS(t, mounted) ==
    {Ok(mounted \cup {t}), Fail(mounted \ {t}), Fail(mounted)}

(* The switch of executeOperation.                                         *)
Outcomes(r, mounted) ==
    CASE r.kind = "mount"          -> MountDevice(r.target, mounted)
      [] r.kind = "unmount"        -> UnmountDevice(r.target, mounted)
      [] r.kind = "mergerfs-mount" -> MountMergerFS(r.target, mounted)

(* What the poster of a request wants to be true of its target.            *)
Intended(r, mounted) == (r.target \in mounted) = (r.kind # "unmount")
=============================================================================
