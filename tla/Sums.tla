-------------------------------- MODULE Sums --------------------------------
(***************************************************************************)
(* Sums of the values of a function over 1..n, the form every total of the *)
(* ledger takes: Go maps keyed by an address become functions on the ranks *)
(* 1..n of the addresses, slices become sequences.                         *)
(***************************************************************************)
EXTENDS Naturals

SumTo(f, n) ==
    LET s[i \in 0..n] == IF i = 0 THEN 0 ELSE s[i-1] + f[i]
    IN  s[n]
=============================================================================
