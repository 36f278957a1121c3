---------------------------- MODULE MCStegoImage ----------------------------
(* Instances of StegoImage for TLC: bytes of two bits, a header of five    *)
(* bytes, a tag of one.                                                    *)
EXTENDS StegoImage, Sequences, TLC

MCFieldOf ==
  [i \in 0..9 |-> <<"magic", "version", "kdf_id", "n", "r", "p", "salt", "nonce",
                    "length", "length">>[i + 1]]

(* In order and reversed, so that two calls scatter differently.           *)
MCOrder(e, n) ==
  LET size == n - 10 IN
  [k \in 0..(size - 1) |->
     10 + (IF e = CHOOSE x \in Envelopes : TRUE THEN k ELSE size - 1 - k)]

Png(w, h, m) == [width |-> w, height |-> h, mode |-> m]

(* Too small for a header; room for an empty payload; for one byte.        *)
MCCarriers == {Png(3, 1, "RGB"), Png(2, 2, "L"), Png(3, 1, "RGBA"), Png(5, 1, "P"),
               Png(2, 2, "RGBA")}
=============================================================================
