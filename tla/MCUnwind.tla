------------------------------ MODULE MCUnwind ------------------------------
(***************************************************************************)
(* Methods for TLC.  "run" is the entry point; "guard" has a try statement *)
(* with a finally clause, far enough from its start that numbers take two  *)
(* and three bytes; "twice" has two try statements with catch clauses one  *)
(* directly after the other, so that the return address of the first call  *)
(* belongs to the second; "plain" has none and no call-site table.  As     *)
(* LLVM does it, calls outside try statements are covered by entries       *)
(* without a landing pad.                                                  *)
(***************************************************************************)
EXTENDS Unwind

Point(kind, at, size, pad) ==
    [kind |-> kind, at |-> at, size |-> size, pad |-> pad, clause |-> FALSE]
ClausePoint(at) == [kind |-> "call", at |-> at, size |-> 5, pad |-> 0, clause |-> TRUE]
Site(start, length, pad) == [start |-> start, length |-> length, pad |-> pad]

MCMethods == {"run", "plain", "guard", "twice"}

MCCode ==
    [m \in MCMethods |->
        CASE m = "run" ->
               [points |-> <<Point("load", 12, 3, 60), Point("call", 20, 5, 60),
                             ClausePoint(70)>>,
                sites  |-> <<Site(20, 5, 60), Site(25, 60, 0)>>,
                pads   |-> 60 :> "match"]
          [] m = "plain" ->
               [points |-> <<Point("call", 10, 5, 0), Point("load", 15, 3, 0)>>,
                sites  |-> <<>>,
                pads   |-> <<>>]
          [] m = "guard" ->
               [points |-> <<Point("call", 100, 5, 0), Point("load", 128, 2, 16500),
                             Point("call", 130, 6, 16500), ClausePoint(16600)>>,
                sites  |-> <<Site(0, 130, 0), Site(130, 6, 16500), Site(136, 17000, 0)>>,
                pads   |-> 16500 :> "finally"]
          [] m = "twice" ->
               [points |-> <<Point("call", 40, 5, 90), Point("call", 45, 5, 140),
                             Point("load", 50, 2, 0), ClausePoint(100)>>,
                sites  |-> <<Site(0, 40, 0), Site(40, 5, 90), Site(45, 5, 140),
                             Site(50, 120, 0)>>,
                pads   |-> 90 :> "match" @@ 140 :> "match"]]
=============================================================================
