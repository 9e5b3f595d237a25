-------------------------------- MODULE Sums --------------------------------
(***************************************************************************)
(* Sums of the values of a function, over some or all of its arguments:    *)
(* the totals that samplers add up over processes and clients.             *)
(***************************************************************************)
EXTENDS FiniteSetsExt

SumOver(f, S) == MapThenSumSet(LAMBDA x : f[x], S)
SumOf(f) == SumOver(f, DOMAIN f)
=============================================================================
