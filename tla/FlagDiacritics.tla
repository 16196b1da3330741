---------------------------- MODULE FlagDiacritics ----------------------------
(***************************************************************************)
(* Flag diacritics: libhfst/src/HfstFlagDiacritics.h                       *)
(*                                                                         *)
(* FdState keeps one value per feature: 0 is neutral, a positive number is *)
(* a value (FdTable numbers the values from 2) and a negative one says     *)
(* "anything but that value".                                              *)
(***************************************************************************)
EXTENDS Integers

CONSTANT Features   \* the features some diacritic of the table mentions

\* FdOperation.  The value 0 stands for a diacritic without one.
Operations == [op : {"P", "N", "R", "D", "C", "U"}, feature : Features, value : Nat]

\* The values of a new FdState.
Neutral == [f \in Features |-> 0]

\* apply_operation returns true.
Allows(o, values) ==
    LET v == values[o.feature]
    IN  CASE o.op \in {"P", "N", "C"} -> TRUE
          [] o.op = "R" -> IF o.value = 0 THEN v # 0 ELSE v = o.value
          [] o.op = "D" -> IF o.value = 0 THEN v = 0 ELSE v # o.value
          [] o.op = "U" -> v = 0 \/ v = o.value \/ (v < 0 /\ -v # o.value)

\* What apply_operation leaves in the values.
Applied(o, values) ==
    [values EXCEPT ![o.feature] =
        CASE o.op = "P" -> o.value
          [] o.op = "N" -> -o.value
          [] o.op = "C" -> 0
          [] o.op = "U" /\ Allows(o, values) -> o.value
          [] OTHER -> @]
==============================================================================
