--------------------------- MODULE MCDependencies ---------------------------
(***************************************************************************)
(* Small instances of Dependencies for TLC.                                *)
(***************************************************************************)
EXTENDS Dependencies, TLC

(* A package with two dependencies one of which depends on the other, and a
   cycle with a dependent. *)
MCGraphs ==
    {"base" :> {} @@ "mid" :> {"base"} @@ "top" :> {"base", "mid"},
     "base" :> {"mid"} @@ "mid" :> {"base"} @@ "top" :> {"mid"}}
=============================================================================
