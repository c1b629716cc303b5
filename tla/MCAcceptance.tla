----------------------------- MODULE MCAcceptance -----------------------------
(* Acceptance on a small instance: ids of rows and acceptors of a kind are alike. *)
EXTENDS Acceptance, TLC

\* A user leaves source and origin of a service out, which resets them.
EditedRows == {[origin |-> None, source |-> "manual", ref |-> None]}

RowSymmetry ==
    Permutations(Discovered) \cup Permutations(Services) \cup Permutations(Bookmarks)
        \cup Permutations(Requests) \cup Permutations(Names)
=============================================================================
