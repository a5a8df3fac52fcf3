------------------------------ MODULE MCBitmap ------------------------------
(***************************************************************************)
(* Bitmap for TLC.                                                         *)
(***************************************************************************)
EXTENDS BitmapProps, TLC

Threads == Permutations(Thread)
=============================================================================
