--------------------------- MODULE MCSurfaceTree ---------------------------
(* Instances of SurfaceTree for TLC. *)
EXTENDS SurfaceTree

CONSTANTS root, left, right, cb

(* Two subsurfaces of one surface. *)
Siblings == {<<left, root>>, <<right, root>>} \cap (Surface \X Surface)

(* A subsurface of a subsurface. *)
Chain == {<<left, root>>, <<right, left>>} \cap (Surface \X Surface)
=============================================================================
