------------------------------- MODULE Words -------------------------------
(***************************************************************************)
(* uint64 as the readers use it.  A reader that may refuse its input       *)
(* returns a set: what it read, or nothing when it reports an error.       *)
(***************************************************************************)
EXTENDS Integers

CONSTANT MaxWord     \* bound: math.MaxUint64

ASSUME WordConstants == MaxWord \in Nat

Word == 0..MaxWord
Plus(a, b) == (a + b) % (MaxWord + 1)
Minus(a, b) == (a + (MaxWord + 1) - b) % (MaxWord + 1)
Times(a, b) == (a * b) % (MaxWord + 1)

(* checkedMultiply.                                                        *)
CheckedMultiply(left, right) ==
  IF right # 0 /\ left > MaxWord \div right THEN {} ELSE {Times(left, right)}
=============================================================================
