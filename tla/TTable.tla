-------------------------------- MODULE TTable --------------------------------
(***************************************************************************)
(* The two-input truth tables of common/ttable.h.  A table is the set of   *)
(* the indices whose bit is set, where in1 counts 1 and in2 counts 2.      *)
(***************************************************************************)
EXTENDS Naturals

Bit(b, w) == IF b THEN w ELSE 0
Index(in1, in2) == Bit(in1, 1) + Bit(in2, 2)

AND_TABLE        == {Index(TRUE, TRUE)}
XOR_TABLE        == {Index(TRUE, FALSE), Index(FALSE, TRUE)}
OR_TABLE         == {Index(TRUE, FALSE), Index(FALSE, TRUE), Index(TRUE, TRUE)}
LEFT_RELA_TABLE  == {Index(TRUE, FALSE), Index(TRUE, TRUE)}
RIGHT_RELA_TABLE == {Index(FALSE, TRUE), Index(TRUE, TRUE)}
ALL_IRR_TABLE_0  == {}
ALL_IRR_TABLE_1  == 0..3

\* operator~
Not(table) == (0..3) \ table

LeftTables  == {LEFT_RELA_TABLE, Not(LEFT_RELA_TABLE)}
RightTables == {RIGHT_RELA_TABLE, Not(RIGHT_RELA_TABLE)}
ConstTables == {ALL_IRR_TABLE_0, ALL_IRR_TABLE_1}

\* The table of the same gate when in1 or in2 is complemented before it.
FlipBinaryTTableInput(table, rev1, rev2) ==
  {Index(p[1], p[2]) : p \in
     {q \in BOOLEAN \X BOOLEAN : Index(q[1] # rev1, q[2] # rev2) \in table}}
=============================================================================
