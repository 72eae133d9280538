----------------------------- MODULE MCTodoStore -----------------------------
(* Two fresh ids and a third that a file edited by hand holds twice.       *)
EXTENDS TodoStore

CONSTANTS t1, t2, t3

Seeds == {<<[id |-> t3, val |-> 0], [id |-> NoId, val |-> 1], [id |-> t3, val |-> 1]>>}
=============================================================================
