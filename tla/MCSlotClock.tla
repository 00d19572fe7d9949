----------------------------- MODULE MCSlotClock -----------------------------
(* The product's timing is one of those the theorems of SlotClock are about. *)
EXTENDS SlotClock

ASSUME BudgetAssumption == TimingBudget
=============================================================================
