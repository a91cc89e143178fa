----------------------------- MODULE MCDatabase -----------------------------
(* The releases a small instance of Database begins with. *)
EXTENDS Database, TLC

CONSTANTS s, t

(* A database of schema 800 with a pending alert whose due time is          *)
(* malformed, and one of a newer release.                                   *)
LiveAtFirst ==
    {Released(800, None, None, None, "malformed", FALSE),
     [Released(Current, s, "current", "current", None, FALSE) EXCEPT !.version = 903]}

(* An artifact of schema 900 at the destination. *)
ArtifactsAtFirst == {Released(900, t, None, "previous", "canonical", FALSE)}

Symmetry == Permutations(Backups)
=============================================================================
