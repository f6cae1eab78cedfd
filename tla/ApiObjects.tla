------------------------------ MODULE ApiObjects ------------------------------
(***************************************************************************)
(* Objects of the Kubernetes API server as the controller-runtime client   *)
(* of src/cmd/main.go sees them: a write goes to the API server, a read is *)
(* answered by an informer cache that learns of the writes later and in    *)
(* order (mgr.GetClient(), src/internal/yacehandler/manager.go).           *)
(*                                                                         *)
(* An object is a non-empty sequence of versions, the oldest first: the    *)
(* first is the one the cache holds, the last is the one the API server    *)
(* stores, and those in between are watch events on their way.  An object  *)
(* that does not exist has the version NoObject.                           *)
(***************************************************************************)
EXTENDS Naturals, Sequences, Functions

CONSTANT NoObject

Versions(Object) == Seq(Object \cup {NoObject}) \ {<<>>}

Cached(versions) == Head(versions)

Stored(versions) == versions[Len(versions)]

(* The cache holds what the API server stores, so an Update that carries   *)
(* the cached resourceVersion is accepted.                                 *)
UpToDate(versions) == Len(versions) = 1

Written(versions, version) == Append(versions, version)

Delivered(versions) == Tail(versions)

(* A new informer starts from a list of what the API server stores.        *)
Relisted(versions) == <<Stored(versions)>>
===============================================================================
