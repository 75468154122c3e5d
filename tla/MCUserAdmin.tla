---------------------------- MODULE MCUserAdmin ----------------------------
(* Small instances of UserAdmin for TLC. *)
EXTENDS UserAdmin, TLC

\* A careful admin, and two that take liberties.
AllRegimes == {{}, {"cert_only"}, {"failing_change", "same_name"}}

\* Certificates are interchangeable, and so are names.
CertAndNameSymmetry == Permutations(Certs) \cup Permutations(Names)
=============================================================================
