----------------------------- MODULE MCAcpSession -----------------------------
(* The ACP child over exchangeable request keys and call ids.              *)
EXTENDS AcpSession, TLC

Symmetry == Permutations(Keys) \cup Permutations(CallIds)
===============================================================================
