----------------------------- MODULE MCAddrMap -----------------------------
(* Values of AddrMap's constants for TLC. *)
EXTENDS AddrMap

\* Any process may get any address: address spaces are separate.
AnyAddr == [p \in Procs |-> Addrs]
=============================================================================
