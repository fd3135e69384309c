--------------------------- MODULE MCAutoUpgrade ---------------------------
(***************************************************************************)
(* Small instances of AutoUpgrade for TLC.                                 *)
(***************************************************************************)
EXTENDS AutoUpgrade, TLC

(* Three versions and a prerelease, in one repository. *)
MCSemver == {"1.0.0", "1.1.0", "2.0.0-rc.1", "v2.0.0"}
MCRank == "1.0.0" :> 1 @@ "1.1.0" :> 2 @@ "2.0.0-rc.1" :> 3 @@ "v2.0.0" :> 4
MCPrerelease == "1.0.0" :> FALSE @@ "1.1.0" :> FALSE @@ "2.0.0-rc.1" :> TRUE @@ "v2.0.0" :> FALSE
MCRepository == "1.0.0" :> "a" @@ "1.1.0" :> "a" @@ "2.0.0-rc.1" :> "a" @@ "v2.0.0" :> "a"

(* No constraint, and "<2.0.0". *)
MCConstraints == {1..4, 1..2}
=============================================================================
