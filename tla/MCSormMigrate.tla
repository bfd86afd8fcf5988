---------------------------- MODULE MCSormMigrate ----------------------------
(* SormMigrate for TLC: a session by hand, a transaction and a migration.    *)
EXTENDS SormMigrate, TLC

CONSTANTS s1, t1, m1

MCMaxWrites == (s1 :> 1) @@ (t1 :> 1) @@ (m1 :> 3)
=============================================================================
