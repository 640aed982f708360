----------------------------- MODULE MCAccounts -----------------------------
(* TLC instance of DirectoryProperties: three registrations of which any two    *)
(* may share an e-mail, an account number or both, or some of them beside       *)
(* payments and reads.                                                          *)
EXTENDS DirectoryProperties, TLC
=============================================================================
