----------------------------- MODULE MCPipeline -----------------------------
(* Model-checking instances of Pipeline.                                   *)
EXTENDS Pipeline

EveryRecipe == DOMAIN Recipes
SetupOnly == {"setup"}
Writing == {FALSE}
Dry == {TRUE}
Both == BOOLEAN
=============================================================================
