------------------------ MODULE MCProjectionRegistry ------------------------
\* ProjectionRegistry on small instances.
EXTENDS ProjectionRegistry, TLC
=============================================================================
