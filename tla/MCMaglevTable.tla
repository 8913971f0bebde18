--------------------------- MODULE MCMaglevTable ---------------------------
EXTENDS MaglevTable

(* A backend one and a half times as heavy as the others: rounded to two.  *)
WeightsRounded == [b \in Backends |-> IF b = 0 THEN 3 ELSE 2]
=============================================================================
