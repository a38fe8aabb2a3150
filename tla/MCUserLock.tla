----------------------------- MODULE MCUserLock ----------------------------
(* Small instances of UserLock for TLC.                                    *)
EXTENDS UserLock, TLC

=============================================================================
