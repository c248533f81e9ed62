---- MODULE MCLink ----
(* SerialLink on small instances. *)
EXTENDS SerialLink
====
