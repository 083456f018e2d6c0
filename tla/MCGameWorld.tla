----------------------------- MODULE MCGameWorld -----------------------------
(* GameWorld with two characters.  Character a plays in both sessions, and *)
(* the first of these logs in again as b, which C_LOGIN does not refuse.   *)
(* Of the three places two share a cell.                                   *)
EXTENDS GameWorld

CONSTANTS a, b, s1, s2, a1, a2, b1, north, south, coast

MCCellOf == north :> 1 @@ south :> 2 @@ coast :> 2

MCIdOf == a1 :> a @@ a2 :> a @@ b1 :> b

MCSessionOf == a1 :> s1 @@ a2 :> s2 @@ b1 :> s1

(* Bound: a third player does not come where AutoSave runs.                *)
Few == autoSaves = 0 \/ Cardinality({o \in Objects : stage[o] # "none"}) <= 2

=============================================================================
