------------------------------ MODULE MCEngine ------------------------------
(* Model checking of Engine and of the service it implements.              *)
EXTENDS EngineRefinement

\* Every configuration of the models, and the default one of the application.
\* Furigana is enabled, since the code never looks at that flag.
ModelFlags == {f \in [{"sequential", "keep", "furigana"} -> BOOLEAN] : f["furigana"]}
OneFlags   == {f \in ModelFlags : f["sequential"] /\ ~f["keep"]}

=============================================================================
