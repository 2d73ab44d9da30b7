---------------------------- MODULE TryStatement ----------------------------
(***************************************************************************)
(* What the try statement of L means: a method made of nested try          *)
(* statements, and where control goes when a part of one of them (its      *)
(* body, a catch clause, its finally clause) ends normally, by an          *)
(* exception or by a return.                                               *)
(*                                                                         *)
(* Level 1 is the outermost try; the try of level k+1 stands in one part   *)
(* of the try of level k.  A catch clause is the set of the exceptions     *)
(* that are instances of its class.                                        *)
(***************************************************************************)
EXTENDS Integers, Sequences, FiniteSetsExt

CONSTANTS Depth,        \* levels of nesting
          Exceptions,   \* exception objects
          Values,       \* values the method may return
          ClauseLists,  \* lists of catch clauses a try may have
          None

ASSUME TryAssumption ==
    /\ Depth \in Nat \ {0}
    /\ ClauseLists \subseteq Seq(SUBSET Exceptions)
    /\ None \notin Exceptions \cup Values
    /\ Exceptions \cap Values = {}

Levels == 1 .. Depth
Parts == {"body", "catch", "finally"}

\* A try has a catch or a finally clause, and the part another try stands in.
Shapes ==
    {h \in [clauses : [Levels -> ClauseLists], fin : [Levels -> BOOLEAN],
            where : [Levels -> Parts]] :
        /\ \A k \in Levels : h.clauses[k] # << >> \/ h.fin[k]
        /\ h.where[1] = "body"
        /\ \A k \in Levels \ {1} :
            /\ h.where[k] = "catch" => h.clauses[k - 1] # << >>
            /\ h.where[k] = "finally" => h.fin[k - 1]}

\* How a part or a method can end.
Normal == [how |-> "normal", what |-> None]
Throw(e) == [how |-> "throw", what |-> e]
Return(v) == [how |-> "return", what |-> v]
Completions == {Normal} \cup {Throw(e) : e \in Exceptions} \cup {Return(v) : v \in Values}

\* The part of the try of level j in which <<k, part>> lies.
PartOf(h, k, part, j) == IF j = k THEN part ELSE h.where[j + 1]

\* The first clause of level j for exception e, 0 if there is none.
FirstClause(h, j, e) ==
    LET fit == {n \in DOMAIN h.clauses[j] : e \in h.clauses[j][n]}
    IN  IF fit = {} THEN 0 ELSE Min(fit)

(***************************************************************************)
(* The state s of a method: where it is, how the parts whose finally       *)
(* clauses are running ended, the exceptions and clauses of the running    *)
(* catch clauses, and how the method ended.                                *)
(***************************************************************************)
Outside == <<0, "outside">>

InPart(s, k, part, c, x) ==
    [at |-> <<k, part>>,
     comp |-> [j \in Levels |-> IF j < k THEN s.comp[j] ELSE IF j = k THEN c ELSE Normal],
     caught |-> [j \in Levels |-> IF j < k THEN s.caught[j] ELSE IF j = k THEN x ELSE None],
     result |-> None]

Ended(c) ==
    [at |-> Outside, comp |-> [j \in Levels |-> Normal],
     caught |-> [j \in Levels |-> None], result |-> c]

Start == InPart(Ended(None), 1, "body", Normal, None)

\* A try that ended normally: the part it stands in goes on.
Resume(h, s, k) ==
    IF k = 1 THEN Ended(Normal)
    ELSE InPart(s, k - 1, h.where[k], s.comp[k - 1], s.caught[k - 1])

\* A throw or a return goes to the innermost enclosing try that has a clause
\* for it, or else a finally clause to run first; or leaves the method.
Abrupt(h, s, k, part, c) ==
    LET In(j) == PartOf(h, k, part, j)
        clause(j) == IF c.how = "throw" /\ In(j) = "body" THEN FirstClause(h, j, c.what) ELSE 0
        stops == {j \in 1 .. k : clause(j) # 0 \/ (h.fin[j] /\ In(j) # "finally")}
        j == Max(stops)
    IN  IF stops = {} THEN Ended(c)
        ELSE IF clause(j) # 0 THEN InPart(s, j, "catch", Normal, <<c.what, clause(j)>>)
        ELSE InPart(s, j, "finally", c, None)

\* A part that ends: after a body or a catch clause comes the finally clause,
\* after the finally clause whatever it interrupted.
Complete(h, s, k, part, c) ==
    IF c # Normal THEN Abrupt(h, s, k, part, c)
    ELSE IF part # "finally" /\ h.fin[k] THEN InPart(s, k, "finally", Normal, None)
    ELSE IF part = "finally" /\ s.comp[k] # Normal THEN Abrupt(h, s, k, part, s.comp[k])
    ELSE Resume(h, s, k)
=============================================================================
