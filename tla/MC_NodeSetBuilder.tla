------------------------- MODULE MC_NodeSetBuilder -------------------------
(* An address space with a shared child (c under a and b), a cycle back to *)
(* a, and a reference whose node class is invalid (d).                    *)
EXTENDS NodeSetBuilder, TLC

CONSTANTS r, a, b, c, d

MCNodes == {r, a, b, c, d}
MCRefs == (r :> {a, b}) @@ (a :> {c, d}) @@ (b :> {c, a}) @@ (c :> {a}) @@ (d :> {})
MCNodeClassOf == (r :> "Object") @@ (a :> "Object") @@ (b :> "Variable")
                 @@ (c :> "Method") @@ (d :> "Unspecified")
=============================================================================
