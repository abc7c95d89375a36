------------------------------- MODULE MC_Mmu -------------------------------
(* A table of 6 sections: two one-section arm-io ranges below DRAM, and   *)
(* 3 sections of DRAM at section 2 that ALIGN_UP rounds to 4.             *)
EXTENDS Mmu

MC_IoRanges == << [bus |-> 0, size |-> 1], [bus |-> 1, size |-> 1] >>

(* Entry states: caches and translation off; the data cache on; the       *)
(* previous stage's translation with the cache; and alignment checking.   *)
MC_InitSctlr == { {}, {"C"}, {"M", "C", "I"}, {"A", "M"} }

(* The instance satisfies the hypothesis of Mmu_proofs' LiveTableCorrect. *)
ASSUME MC_IoOutsideDram == IoOutsideDram
=============================================================================
