------------------------------ MODULE MCDefer ------------------------------
(* Instances of Defer: two items of a type that sorts by group and one of a    *)
(* type that does not and takes one item at a time.                            *)
EXTENDS Defer

CONSTANTS i1, i2, i3, attr, free

ItemTypes == [i \in Items |-> IF i = i3 THEN attr ELSE free]
Limits == [t \in Types |-> IF t = attr THEN 1 ELSE 0]
ItemGroups == [i \in Items |-> IF i = i1 THEN 2 ELSE IF i = i2 THEN 1 ELSE 0]
=============================================================================
