---------------------------- MODULE MCWalletLock ----------------------------
(* The instance of WalletLock that TLC checks. *)
EXTENDS WalletLock
=============================================================================
