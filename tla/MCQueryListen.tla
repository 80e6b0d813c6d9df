--------------------------- MODULE MCQueryListen ---------------------------
EXTENDS QueryListen
CONSTANTS wall, closed, g1, g2, g3, page

\* wall is read twice and watched, closed is refused.
MCQueryOf == (g1 :> wall) @@ (g2 :> wall) @@ (g3 :> closed) @@ (page :> wall)

\* One get after the other; a get beside a listener; beside a refused get.
MCVisits == {{g1, g2}, {g1, page}, {g1, g3}}
=============================================================================
