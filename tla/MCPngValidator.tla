--------------------------- MODULE MCPngValidator ---------------------------
(* Instances of PngValidator for TLC: limits 3 x 3 and 4 pixels, Pillow's  *)
(* own ceiling 7.                                                          *)
EXTENDS PngValidator, TLC

Png(w, h) == [header |-> TRUE, sound |-> TRUE, decodes |-> TRUE, mode |-> TRUE,
              width |-> w, height |-> h]

(* Fine; over the limit and under the threshold this process sets; over    *)
(* that and under Pillow's default; broken where verify() sees it; broken  *)
(* where only load() does; not a PNG at all; and one that only the checks  *)
(* after the decode refuse.                                                *)
MCUploads ==
  {Png(2, 2), Png(2, 3), Png(3, 3), [Png(1, 2) EXCEPT !.sound = FALSE],
   [Png(2, 1) EXCEPT !.decodes = FALSE], [Png(1, 1) EXCEPT !.header = FALSE],
   [Png(4, 1) EXCEPT !.mode = FALSE]}

Sym == Permutations(Workers)
=============================================================================
