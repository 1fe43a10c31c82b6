-------------------------------- MODULE MCKmap --------------------------------
(***************************************************************************)
(* Kmap on every function of one left and two right inputs, where one      *)
(* column occurs more often than the others, and some terms never occur.   *)
(***************************************************************************)
EXTENDS Kmap

Count == [i \in Rows |-> [j \in Columns |-> IF j = 0 THEN 3 ELSE (i + j) % 3]]

MCMaps == [kmap : [Rows -> [Columns -> BOOLEAN]], count : {Count}]
=============================================================================
