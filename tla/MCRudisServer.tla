----------------------------- MODULE MCRudisServer -----------------------------
(* Model checking of the event loop on small instances. *)
EXTENDS RudisServer, TLC

CONSTANTS c1, c2

TwoClients == {c1, c2}

\* One client pipelines two requests, the other sends one.
TwoAndOne == c1 :> 2 @@ c2 :> 1
===============================================================================
