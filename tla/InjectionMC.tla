----------------------------- MODULE InjectionMC -----------------------------
(***************************************************************************)
(* An instance of Injection: messages of an ordered vnet to one            *)
(* destination or two, through three VCs.                                  *)
(***************************************************************************)
EXTENDS Injection

OrderedVnet == {0}
=============================================================================
