------------------------------ MODULE MCExpenses ------------------------------
(* Model checking of the expense tracker. *)
EXTENDS Expenses, TLC
===============================================================================
