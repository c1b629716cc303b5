------------------------------ MODULE Prefixes ------------------------------
(* Addresses as numbers and prefixes as blocks of them, which is what the code  *)
(* takes from package net/netip.  The power is a function because the provers   *)
(* know nothing of the operator ^ and can work this one out.                    *)
EXTENDS Integers

TwoTo[n \in Nat] == IF n = 0 THEN 1 ELSE 2 * TwoTo[n - 1]

(* Prefix.Masked: the first address of the block around an address.             *)
FirstOf(address, size) == address - (address % size)
=============================================================================
