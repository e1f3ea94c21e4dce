--------------------------- MODULE MCCacheServer ---------------------------
(***************************************************************************)
(* CacheServer for TLC. Timeouts of one or two ticks are enough to have    *)
(* lists and the whole cache on either side of them; two changes of the    *)
(* database let one happen between two steps of a reload and one after it. *)
(***************************************************************************)
EXTENDS CacheServer, TLC

\* Stored e-mails without wildcards and blanks: each matches itself.
LikeItself == [e \in Email |-> {e}]

\* One requested e-mail contains the wildcard _ and matches all stored ones.
LikeWildcard ==
    LET wild == CHOOSE e \in Email : TRUE
    IN  [e \in Email |-> IF e = wild THEN Email ELSE {e}]

Symmetry == Permutations(Customer)
=============================================================================
