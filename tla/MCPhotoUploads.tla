--------------------------- MODULE MCPhotoUploads ---------------------------
(***************************************************************************)
(* An instance of PhotoUploads for TLC: p1 is a photo whose file does not  *)
(* decode, and p2 its second reservation, with a good file, once a cleanup *)
(* has removed p1.                                                         *)
(***************************************************************************)
EXTENDS PhotoUploads

CONSTANTS p1, p2, photo, a1, a2, c1

MCRequestOf(p) == photo
MCDecodes(p) == p = p2
=============================================================================
