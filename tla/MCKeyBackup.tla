---------------------------- MODULE MCKeyBackup ----------------------------
(* Instances of KeyBackup: sessions are model values. *)
EXTENDS KeyBackup

CONSTANTS s1, s2, s3
==============================================================================
