-------------------------- MODULE MCServerReassembly --------------------------
(* Small instances of ServerReassembly for TLC. *)
EXTENDS ServerReassembly, TLC

\* Payloads are interchangeable: nothing orders or names one of them.
Symmetry == Permutations(Payloads)
===============================================================================
