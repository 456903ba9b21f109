---------------------------- MODULE CachedObject ----------------------------
(***************************************************************************)
(* One Kubernetes object that a reconciler maintains: what the API server  *)
(* holds and what the informer cache of the reconciler shows of it. The    *)
(* write of a reconciler is Get from the cache, then Create of an object   *)
(* the cache does not show or Update with the resourceVersion of the one   *)
(* it shows. An object is [data, seen, fresh]: its content, None when it   *)
(* does not exist; whether the cache shows it; and whether the cache shows *)
(* the latest version.                                                     *)
(***************************************************************************)
CONSTANT None   \* the content of an object that does not exist

Missing == [data |-> None, seen |-> FALSE, fresh |-> TRUE]

CachedObjects(Contents) ==
    [data : Contents \cup {None}, seen : BOOLEAN, fresh : BOOLEAN]

(* Create answers AlreadyExists to a cache that has not seen the object    *)
(* yet, Update answers Conflict or NotFound to one that is behind.         *)
Accepts(o) == IF o.seen THEN o.fresh ELSE o.data = None

(* A write that changes nothing makes no new version.                      *)
Written(o, content) ==
    [o EXCEPT !.data = content, !.fresh = @ /\ o.data = content]

Removed(o) == [o EXCEPT !.data = None, !.fresh = FALSE]

Synced(o) == [o EXCEPT !.seen = (o.data # None), !.fresh = TRUE]
=============================================================================
