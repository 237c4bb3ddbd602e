---------------------- MODULE MCGenericExceptionMapper ----------------------
(***************************************************************************)
(* Three request threads, the exception of the router and one other.       *)
(***************************************************************************)
EXTENDS GenericExceptionMapper, TLC

CONSTANTS t1, t2, t3

MCThreads == {t1, t2, t3}
MCErrors == {NotFoundException, "SQLException"}

Symmetry == Permutations(MCThreads)
=============================================================================
