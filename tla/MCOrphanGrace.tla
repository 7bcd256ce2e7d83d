---------------------------- MODULE MCOrphanGrace -----------------------------
\* OrphanGrace on small instances.
EXTENDS OrphanGrace
===============================================================================
