------------------------------ MODULE MCImage ------------------------------
(* Two scenes: a spot at the lower right, and a slope.                      *)
EXTENDS Image

Scene(Value(_, _)) == [l \in 0 .. HiHeight - 1 |-> [c \in 0 .. HiWidth - 1 |-> Value(l, c)]]

Spot(l, c) == IF l >= 1 /\ c >= 1 THEN 7 ELSE 1
Slope(l, c) == l + c

MCScenes == {Scene(Spot), Scene(Slope)}
=============================================================================
