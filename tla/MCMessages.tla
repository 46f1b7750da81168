------------------------------ MODULE MCMessages ------------------------------
(* Values for TLC: empty and nonempty bytes. *)
EXTENDS Messages

MCDatas == {<< >>, <<1>>}
=============================================================================
