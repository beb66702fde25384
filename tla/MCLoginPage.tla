---------------------------- MODULE MCLoginPage ----------------------------
(* Small instances of the path of a customer who buys.                     *)
EXTENDS LoginPage, TLC

CONSTANTS nom, nomPort, lan, lanPort  \* a name and an address in figures, with and without a port

MCSansPort == (nom :> nom) @@ (nomPort :> nom) @@ (lan :> lan) @@ (lanPort :> lan)

Symetrie == Permutations(Requetes) \union Permutations(Dossiers)
=============================================================================
