------------------------------ MODULE MCMaglev ------------------------------
EXTENDS Maglev

CONSTANTS k1, k2

Least(S) == CHOOSE b \in S : \A c \in S : b <= c
Greatest(S) == CHOOSE b \in S : \A c \in S : b >= c

(* Two keys that prefer opposite ends of the list of backends. *)
MCOwner == [S \in SUBSET Backends \ {{}} |->
             [k \in Keys |-> IF k = k1 THEN Least(S) ELSE Greatest(S)]]
=============================================================================
