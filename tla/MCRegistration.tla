--------------------------- MODULE MCRegistration ---------------------------
(* Requests and ids may be exchanged; users may not, as one is an admin.     *)
EXTENDS Registration, TLC

RegistrationSymmetry == Permutations(Ids) \cup Permutations(Requests)
=============================================================================
