-------------------------------- MODULE Call --------------------------------
(***************************************************************************)
(* The one variable of the modules whose code is a pure function: the call *)
(* being evaluated, [fn: the function, ...its arguments].  A property of   *)
(* such a function is an invariant over the calls of a run.                *)
(*                                                                         *)
(* An optional value is a set of at most one element, and a result is      *)
(* [err, got].                                                             *)
(***************************************************************************)
EXTENDS Sequences

VARIABLE call

NoCall == [fn |-> "none"]

Calling(fn) == call.fn = fn

OrElse(a, b) == IF a # {} THEN a ELSE b

(* The first element of s that satisfies Test, as a set of at most one.     *)
FirstOf(s, Test(_)) == LET hits == SelectSeq(s, Test) IN IF hits = <<>> THEN {} ELSE {Head(hits)}

Fail == [err |-> TRUE, got |-> {}]
Ok(S) == [err |-> FALSE, got |-> S]

(* JSON's null: a JSON value is a record with its type t.                   *)
Null == [t |-> "null"]

=============================================================================
