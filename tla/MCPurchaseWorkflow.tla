-------------------------- MODULE MCPurchaseWorkflow --------------------------
(***************************************************************************)
(* Instances of PurchaseWorkflow for TLC.                                  *)
(***************************************************************************)
EXTENDS PurchaseWorkflow, TLC

(* Handlers are interchangeable, and so are the texts of notes.            *)
MCSymmetry == Permutations(Workers) \cup Permutations(Notes)
===============================================================================
