--------------------------- MODULE MCPreviewReload ---------------------------
(* Instances of PreviewReload for TLC: a root, a directory and one below it. *)
EXTENDS PreviewReload

Tree == {"root", "sub", "deep"}
TreeParent == [d \in {"sub", "deep"} |-> IF d = "sub" THEN "root" ELSE "sub"]
=============================================================================
