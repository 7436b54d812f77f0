--------------------------------- MODULE Herds ---------------------------------
(***************************************************************************)
(* The two single-flight groups side by side: cache/tiered's, in front of  *)
(* the origin, and the entity cache's, in front of the database.           *)
(***************************************************************************)
EXTENDS TieredCache, EntityCache

\* A herd of misses is one load, of GetOrLoad and of the entity's Get alike: both
\* single-flight groups let one caller through and let all the others go, around
\* teardowns, errors and expiries.
HerdsCollapse == SingleFlight /\ GroupSound
================================================================================
