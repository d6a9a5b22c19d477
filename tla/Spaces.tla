------------------------------- MODULE Spaces -------------------------------
(***************************************************************************)
(* The operations of a memtx space (box.space.<name>) that the stored      *)
(* procedures of tarantool_backend/app use.  A space is a partial function *)
(* from its primary keys to its tuples.  The engine itself is external:    *)
(* only what the procedures rely on is stated here.                        *)
(*                                                                         *)
(* No procedure opens a transaction (box.begin), so every statement        *)
(* commits on its own: its effect is visible to the other fibers at once   *)
(* and the calling fiber yields until the WAL write is done.  Reads do not *)
(* yield.  In the modules that use these operators an action is therefore  *)
(* everything from one yield to the next: reads, then ONE statement.       *)
(***************************************************************************)

\* space:replace{key, ...} and space:insert{key, ...} of an absent key.
Put(space, key, tuple) ==
    [k \in DOMAIN space \cup {key} |-> IF k = key THEN tuple ELSE space[k]]

\* space:delete(key); deleting an absent key changes nothing.
Drop(space, key) == [k \in DOMAIN space \ {key} |-> space[k]]

\* space is a space with keys in K and tuples in T.
IsSpace(space, K, T) ==
    /\ space = [k \in DOMAIN space |-> space[k]]
    /\ DOMAIN space \subseteq K
    /\ \A k \in DOMAIN space : space[k] \in T

\* A space with no tuples.
EmptySpace == [k \in {} |-> k]
=============================================================================
