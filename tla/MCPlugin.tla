------------------------------ MODULE MCPlugin ------------------------------
(* Instances of Plugin for TLC.  The sender and the heap dumps share      *)
(* nothing but onDisable: each alone with the most that happens to it, and *)
(* both with less.                                                         *)
EXTENDS Plugin
CONSTANTS d1, d2

EachAndBoth == {[events |-> 1..Events, dumps |-> {}], [events |-> {}, dumps |-> {d1, d2}],
                [events |-> {1}, dumps |-> {d1}]}
=============================================================================
