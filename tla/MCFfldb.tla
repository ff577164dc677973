------------------------------ MODULE MCFfldb ------------------------------
(***************************************************************************)
(* Three blocks, of which two fill a file, and one key that is put and     *)
(* deleted.                                                                *)
(***************************************************************************)
EXTENDS Ffldb

CONSTANTS key, v1, v2, b1, b2, b3

MCSize == [x \in {b1, b2, b3} |-> IF x = b2 THEN 1 ELSE 2]

Put(value) == [Nothing EXCEPT ![key] = value]
Script(p, d, blocks, prune) == [puts |-> p, dels |-> d, blocks |-> blocks, prune |-> prune]

MCScripts ==
    {Script(Put(v1), {}, <<>>, FALSE), Script(Put(v2), {}, <<b1>>, FALSE),
     Script(Nothing, {key}, <<b2>>, FALSE), Script(Nothing, {}, <<b2, b3>>, FALSE),
     Script(Put(v1), {}, <<>>, TRUE)}

Plan(t, l, f, r, cr, p, u) ==
    [txs |-> t, flushes |-> l, fails |-> f, reads |-> r, crashes |-> cr, power |-> p, badUndo |-> u]

MCPlans ==
    {Plan(4, 1, 2, 0, 1, 0, TRUE), Plan(3, 2, 1, 0, 0, 1, TRUE),
     Plan(3, 2, 0, 1, 0, 1, FALSE), Plan(4, 2, 1, 0, 1, 0, FALSE),
     Plan(3, 2, 0, 1, 1, 0, FALSE)}
=============================================================================
