---------------------------- MODULE MCRecipeIndex ----------------------------
(***************************************************************************)
(* A small instance of RecipeIndex for TLC: one recipe posted with two     *)
(* checkout paths, another one with the same name and revision, and three  *)
(* whose names and revisions have the digest of the first in them.  Parts  *)
(* of texts are model values, or of a digest.                              *)
(***************************************************************************)
EXTENDS RecipeIndex, TLC

CONSTANTS c1, c2, tool, v1

Input(body, path) == [name |-> <<tool>>, revision |-> <<v1>>, body |-> body, path |-> path]

First == Input("x", "here")

\* The digest of the first is the revision of one, which has the same name; it is the tag of
\* the next, and the name of the third begins with the name of the first, its tag ends with
\* the digest.
Lookalike == [Input("y", "here") EXCEPT !.revision = Digest(First)]
Homonym == [Input("y", "here") EXCEPT !.name = <<"sha256">>, !.revision = <<Hex(First)>>]
Split == [Homonym EXCEPT !.name = <<tool, "sha256">>]

MCInputs ==
    {First, Input("x", "there"), Input("y", "here"), Lookalike, Homonym, Split}

=============================================================================
