--------------------------- MODULE MCDependentsCount ---------------------------
(***************************************************************************)
(* Dependency graphs of three libraries and one that is not installed.     *)
(***************************************************************************)
EXTENDS DependentsCount, Naturals, FiniteSets

CONSTANTS a, b, c, x, preloaded, editor

MCLib == {a, b, c}
MCType == {preloaded, editor}

Targets(m) == MCType \X (MCLib \ {m})

\* A longer cycle, on which the code does not return.
Ring(g) == \E p, q, r \in MCLib : /\ Cardinality({p, q, r}) = 3
                                  /\ DependsOn(g, p, q) /\ DependsOn(g, q, r) /\ DependsOn(g, r, p)

Few(E) == {S \in SUBSET E : Cardinality(S) <= 2}

\* All graphs without a ring and with at most two dependencies of a library, a
\* being the only one that may depend on the missing library.
NoRings ==
  {g \in {[m \in MCLib |-> CASE m = a -> ga [] m = b -> gb [] m = c -> gc] :
            ga \in Few(Targets(a) \cup {<<preloaded, x>>}),
            gb \in Few(Targets(b)), gc \in Few(Targets(c))} : ~Ring(g)}

\* a needs b, b needs c, c needs a.
OneRing ==
  {[m \in MCLib |-> {<<preloaded, CASE m = a -> b [] m = b -> c [] m = c -> a>>}]}
=================================================================================
