------------------------------ MODULE MCUpdate ------------------------------
(* Instances of Update for TLC.  "old" is an image both checks accept,     *)
(* "new" one built with -iromchksum whose .irom0.text does not sum to 0,   *)
(* "big" one longer than a slot, "bad" one without .irom0.text, damaged    *)
(* before it was sent.  The first block of "big" before the second one of  *)
(* "old" passes rboot_verify_image and not check_image.                    *)
EXTENDS Update

MCSize == [i \in Images |-> CASE i = "big" -> 3 [] i = "bad" -> 1 [] OTHER -> 2]
MCIrom == [i \in Images |-> IF i = "bad" THEN 0 ELSE 1]
MCOdd == {<<"big", 1>>, <<"bad", 1>>, <<"new", 1>>, <<"new", 2>>}
=============================================================================
