---------------------------- MODULE MCBuildCache ----------------------------
(***************************************************************************)
(* Two classes: A, whose bodies may come to use B or which may extend B,   *)
(* and B, whose definition may change between d1 and d2.                   *)
(***************************************************************************)
EXTENDS BuildAndLink, TLC

CONSTANTS A, B, d0, d1, d2

MCClasses == {A, B}

Text(d, s, u) == [def |-> d, super |-> s, uses |-> u]

MCTexts ==
    A :> {Text(d0, None, {}), Text(d0, None, {B}), Text(d0, B, {})}
        @@ B :> {Text(d1, None, {}), Text(d2, None, {})}

\* Histories begin with A using B.
MCInit == LinkInit /\ src[A] = Text(d0, None, {B})

MCSpec == MCInit /\ [][LinkNext]_<<vars, linkVars>>

\* The two definitions of B are interchangeable.
Symmetric == Permutations({d1, d2})
=============================================================================
