---------------------------- MODULE MCRainHost ----------------------------
(* Small instances of RainHost. *)
EXTENDS RainHost, TLC

CONSTANTS c1, c2

\* Module filters that turn an allowed command into a forbidden one.
MCFilters == {<<"GET", "BLMOVE">>, <<"GET", "SELECT">>, <<"SELECT", "GET">>}

\* c1 may not run GET.
MCNoPerm == {<<c1, "GET">>}

Symmetry == Permutations(Tcp)
=============================================================================
