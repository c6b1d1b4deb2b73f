----------------------------- MODULE MCSettings ------------------------------
(***************************************************************************)
(* Instances of Credentials and of RuleStore for TLC.  The two have no     *)
(* variable in common, and no step of one depends on the other, so that a  *)
(* behaviour of both shows nothing that the behaviours of each do not.     *)
(* Here either may move as long as the other has not begun.                *)
(*                                                                         *)
(* Updates change one column at a time, which is how two of them go past   *)
(* each other's validation, or several.                                    *)
(***************************************************************************)
EXTENDS Credentials, RuleStore, TLC

Edit(p, t, a) == [pattern |-> p, type |-> t, active |-> a]

SomeEdits == {Edit("broken", None, None), Edit(None, "regex", None), Edit(None, None, TRUE),
              Edit("plain", "string", FALSE)}

Symmetry == Permutations(Slots) \cup Permutations(RuleIds)

SettingsInit == CredInit /\ StoreInit

SettingsNext ==
    \/ StoreInit /\ CredNext /\ UNCHANGED storeVars
    \/ CredInit /\ StoreNext /\ UNCHANGED credVars

SettingsSpec == SettingsInit /\ [][SettingsNext]_<<credVars, storeVars>>
=============================================================================
