---------------------------- MODULE MCTryLowering ----------------------------
(***************************************************************************)
(* Two exceptions, one of a subclass: a clause for the subclass catches    *)
(* sub, a clause for the superclass catches both.                          *)
(***************************************************************************)
EXTENDS TryLowering

CONSTANTS sub, other, v

MCExceptions == {sub, other}
MCValues == {v}
MCClauseLists == {<< >>, <<{sub}>>, <<{sub}, {sub, other}>>}
=============================================================================
