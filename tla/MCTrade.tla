------------------------------ MODULE MCTrade ------------------------------
(* One commodity traded at two islands half a range apart, and a third out of reach. *)
EXTENDS Trade

CONSTANTS corn, east, west, far

MCCommodities == {corn}
MCIslands == {east, west, far}
MCNear == [i \in MCIslands |-> [j \in MCIslands |->
             IF i = j THEN 2 ELSE IF far \in {i, j} THEN 0 ELSE 1]]
MCWave == [c \in MCCommodities |->
             [i \in MCIslands |-> IF i = east THEN 50 ELSE IF i = west THEN 75 ELSE 0]]
MCFloor == [c \in MCCommodities |-> 3]
MCCeiling == [c \in MCCommodities |-> 7]
=============================================================================
