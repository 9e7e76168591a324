--------------------------- MODULE RoutePatterns ---------------------------
(***************************************************************************)
(* Paths and route patterns (fast_router.v, router.v).  A path is the      *)
(* sequence of its segments; a pattern may hold parameters (":") and       *)
(* wildcards ("*").  The names of parameters and the characters of a       *)
(* segment do not matter to which route answers and are left out.          *)
(***************************************************************************)
EXTENDS Naturals, Sequences, SequencesExt, FiniteSets

Param    == ":"
Wildcard == "*"

Count(pat, seg) == Cardinality({i \in DOMAIN pat : pat[i] = seg})

is_static_path(pat) == Count(pat, Param) = 0 /\ Count(pat, Wildcard) = 0

\* '/a/b' splits into three pieces; the first is empty.
calculate_route_complexity(pat) ==
    10 * Count(pat, Param) + 20 * Count(pat, Wildcard) + Len(pat) + 1

\* A segment pattern [^/]+ against a segment.
SegMatches(p, s) == p = Param \/ p = s

Anchored(pat, path) ==
    /\ Len(pat) = Len(path)
    /\ \A i \in DOMAIN pat : SegMatches(pat[i], path[i])

\* FastRouter leaves '*' in the regular expression, where it repeats the slash
\* before it: the wildcard segment itself matches nothing.
fast_matches(pat, path) == Anchored(SelectSeq(pat, LAMBDA s : s # Wildcard), path)

\* The hybrid router translates '*' to [^/]* without an anchor at the end, and
\* leaves parameters of such a pattern untranslated.
hybrid_matches(pat, path) ==
    IF Count(pat, Wildcard) = 0 THEN Anchored(pat, path)
    ELSE /\ Len(pat) <= Len(path)
         /\ \A i \in DOMAIN pat : pat[i] \in {Wildcard, path[i]}
============================================================================
