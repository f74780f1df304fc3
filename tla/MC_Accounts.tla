------------------------------ MODULE MC_Accounts ------------------------------
(***************************************************************************)
(* Instances of Accounts and of SignIn for TLC, side by side: the first    *)
(* state says which of the two moves.                                      *)
(***************************************************************************)
EXTENDS Accounts, SignIn, TLC

VARIABLE part

accountParts == <<part, vars, signInVars>>

AccountsInit ==
    /\ part \in {"server", "desktop"}
    /\ Init /\ SignInInit
    /\ part # "server" => users = [e \in Emails |-> NoUser]
    /\ part # "desktop" => accounts = [e \in People |-> "none"]

AccountsNext ==
    /\ UNCHANGED part
    /\ \/ part = "server" /\ Next
       \/ part = "desktop" /\ SignInNext
    /\ IF part = "server" THEN UNCHANGED signInVars ELSE UNCHANGED vars

AccountsSpec == AccountsInit /\ [][AccountsNext]_accountParts

Symmetry == Permutations(Requests) \cup Permutations(Emails)
                                   \cup Permutations(Names)

===============================================================================
