-------------------------- MODULE MCUpdateProgress --------------------------
(* With words of 21 bits: an image that takes more than 256 reports for one   *)
(* cell, one that fills cells at once, and two whose size times 100 does not  *)
(* fit in a word.                                                             *)
EXTENDS UpdateProgress

MCDownloads == {[total |-> 13001, fragment |-> 1], [total |-> 7, fragment |-> 2],
                [total |-> 25000, fragment |-> 300], [total |-> 50000, fragment |-> 999]}
=============================================================================
