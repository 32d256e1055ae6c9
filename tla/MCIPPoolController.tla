-------------------------- MODULE MCIPPoolController ---------------------------
(***************************************************************************)
(* Small instances of IPPoolController.                                    *)
(***************************************************************************)
EXTENDS IPPoolController

CONSTANTS p1, a1, a2

\* A pool grows, shrinks or is given another address.
Contents == {{1}, {2}, {1, 2}}

\* One allocation names the pool, the other names none.
OneNamed == [a \in Alloc |-> IF a = a1 THEN p1 ELSE NoName]
=============================================================================
