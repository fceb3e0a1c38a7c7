------------------------------- MODULE Verdicts -------------------------------
(***************************************************************************)
(* How the programs modelled here refuse: a list of checks made in order,  *)
(* each with the code it refuses with.  The caller sees the first that     *)
(* failed; a program that collects its errors reports all of them.         *)
(***************************************************************************)
EXTENDS Integers, Sequences

Check(fails, code) == [fails |-> fails, code |-> code]

(* The refusal a caller sees is the first condition that failed. *)
FirstRefusal(checks) ==
    IF \E k \in DOMAIN checks : checks[k].fails
    THEN checks[CHOOSE k \in DOMAIN checks :
                    /\ checks[k].fails
                    /\ \A j \in DOMAIN checks : checks[j].fails => k <= j].code
    ELSE "Permit"

Passes(checks) == \A k \in DOMAIN checks : ~checks[k].fails

(* A program that goes on after a failed check reports every one of them. *)
AllRefusals(checks) == {checks[k].code : k \in {j \in DOMAIN checks : checks[j].fails}}

IsOption(x) == \A a, b \in x : a = b

=============================================================================
