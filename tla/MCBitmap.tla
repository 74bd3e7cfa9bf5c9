------------------------------- MODULE MCBitmap -------------------------------
(* An instance of Bitmap for TLC.                                          *)
EXTENDS Bitmap

(* Two words of which the second is half used; the bits behind the end of  *)
(* these masks are set, cleared and mixed.                                 *)
MCOthers == {[k \in 0..1 |-> IF k = 0 THEN a ELSE b] :
                a \in {{0, 3}, {0, 1, 2, 3}}, b \in {{}, {0, 2}, {1, 2, 3}}}
=============================================================================
