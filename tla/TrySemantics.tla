---------------------------- MODULE TrySemantics ----------------------------
(***************************************************************************)
(* The abstract specification of a method with try statements: every part  *)
(* may enter the try that stands in it, any number of times, and end in    *)
(* any way.                                                                *)
(***************************************************************************)
EXTENDS TryStatement

VARIABLES shape, s

vars == <<shape, s>>

Init == shape \in Shapes /\ s = Start

Enter(k, part) ==
    /\ s.at = <<k, part>>
    /\ k < Depth
    /\ shape.where[k + 1] = part
    /\ s' = InPart(s, k + 1, "body", Normal, None)
    /\ UNCHANGED shape

End(k, part, c) ==
    /\ s.at = <<k, part>>
    /\ s' = Complete(shape, s, k, part, c)
    /\ UNCHANGED shape

Next ==
    \E k \in Levels, part \in Parts :
        Enter(k, part) \/ \E c \in Completions : End(k, part, c)

Spec == Init /\ [][Next]_vars
=============================================================================
