-------------------------------- MODULE Stores --------------------------------
(***************************************************************************)
(* The tables of internal/store that hold value, cards and money.  They    *)
(* name the same orders, but no call of the store touches both, so a       *)
(* behaviour shows the calls on one of them: which one is chosen at the    *)
(* start and stays.  Storefront is where a request uses both.              *)
(***************************************************************************)
EXTENDS CardVault, Accounts

VARIABLE side     \* the tables this behaviour is about

storesVars == <<vaultVars, accountVars, side>>

StoresInit == VaultInit /\ AccountsInit /\ side \in {"cards", "money"}

StoresNext ==
  /\ \/ side = "cards" /\ VaultNext /\ UNCHANGED accountVars
     \/ side = "money" /\ AccountsNext /\ UNCHANGED vaultVars
  /\ UNCHANGED side

StoresSpec == StoresInit /\ [][StoresNext]_storesVars
=============================================================================
