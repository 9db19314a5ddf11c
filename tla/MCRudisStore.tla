----------------------------- MODULE MCRudisStore -----------------------------
(* Model checking of the keyspace on small instances. *)
EXTENDS RudisStore

CONSTANT Other  \* the second key, if any

\* The second key comes in the first instants only, with the one value and deadline.
Within ==
    \A m \in {map, buf, saved, file.recs} :
       Other \in DOMAIN m =>
          /\ now <= 1 /\ m[Other].val \in {Text, 1} /\ m[Other].exp \in {0, 1, Never}
          /\ \A k \in DOMAIN m : m[k].val \in {0, 1, Text} /\ m[k].exp \in {0, 1, Never}

MCNext == Next /\ Within'

MCSpec == Init /\ [][MCNext]_vars /\ SF_vars(PurgeExpired) /\ WF_vars(SaveEnds)
===============================================================================
