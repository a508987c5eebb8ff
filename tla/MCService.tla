------------------------------- MODULE MCService -------------------------------
(* The service for TLC. *)
EXTENDS AutoHibernateService, TLC

UserSymmetry == Permutations(Users)
===============================================================================
