------------------------------ MODULE MCMembers ------------------------------
(* Members of a namespace for TLC: users and handlers are model values. *)
EXTENDS Members, TLC

UserSymmetry == Permutations(Users)
HandlerSymmetry == Permutations(Handlers)
BothSymmetries == UserSymmetry \cup HandlerSymmetry

=============================================================================
