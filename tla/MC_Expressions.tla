---------------------------- MODULE MC_Expressions ----------------------------
(***************************************************************************)
(* Instances of ExpressionsProps for TLC.                                  *)
(***************************************************************************)
EXTENDS ExpressionsProps

AllTypes == {"int", "string", "object"}
Numbers  == {"int"}

\* Everything can be done with references.
AllUses   == Uses

===============================================================================
