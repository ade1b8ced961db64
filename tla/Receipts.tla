------------------------------ MODULE Receipts ------------------------------
(***************************************************************************)
(* server/internal/receipts/receipts.go: the attachment library, a         *)
(* directory that List enumerates, Has looks into and ETag summarises.     *)
(*                                                                         *)
(* A library is a set of entries with different names; an entry has its    *)
(* modification time and is a file or a directory.  List is what is on     *)
(* offer; its order, by name, and the sizes are left out.                  *)
(***************************************************************************)
EXTENDS Integers, FiniteSets

CONSTANT Skipped  (* the names that begin with a dot, and README.md        *)

List(library) == {e \in library : ~e.dir /\ e.name \notin Skipped}

(* Has does not skip, and refuses the empty name (and names with a slash). *)
Has(library, name) == name # "" /\ \E e \in library : e.name = name /\ ~e.dir

Newest(list) ==
  IF list = {} THEN 0
  ELSE CHOOSE t \in {e.time : e \in list} : \A e \in list : e.time <= t

Mut_ETag(list) == <<0, Newest(list)>>

ETag(list) == <<Cardinality(list), Newest(list)>>
=============================================================================
