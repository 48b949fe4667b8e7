------------------------------ MODULE Options ------------------------------
(* Option<T> is a sequence of at most one T. *)
EXTENDS Integers, Sequences

None == <<>>
Some(x) == <<x>>
Get(option) == option[1]

IsOption(option) == option = None \/ option = Some(Get(option))

\* The larger of an optional number and a number.
MaxWith(option, n) == IF option = None \/ n > Get(option) THEN Some(n) ELSE option
=============================================================================
