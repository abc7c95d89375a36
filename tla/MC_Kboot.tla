------------------------------ MODULE MC_Kboot ------------------------------
(* Kboot for TLC: 32 pages of address space, phys_base at page 2, three    *)
(* names for a two-slot chosen table, trees of 1 or 2 pages plus 1 page of *)
(* room, a one-page log buffer and up to four requests.                    *)
EXTENDS Kboot

CONSTANTS n1, n2, n3, v1, nul

MC_Names == {n1, n2, n3}
MC_Values == {v1}
=============================================================================
