--------------------------------- MODULE MCLsm ---------------------------------
(* Model checking of the storage engine on small instances. *)
EXTENDS LsmProps, TLC

\* Which keys and which values are used does not matter to any property.
Interchangeable == Permutations(Keys) \cup Permutations(Values)
===============================================================================
