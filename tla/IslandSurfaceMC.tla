--------------------------- MODULE IslandSurfaceMC ---------------------------
\* An instance of IslandSurface: the editor and the build, a P1 and a P2 card, an
\* approval and a question with cards, an approval without.
EXTENDS IslandSurface

CONSTANTS tool, done

Priorities == [c \in Card |-> IF c = tool THEN 1 ELSE 2]
=============================================================================
