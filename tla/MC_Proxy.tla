------------------------------ MODULE MC_Proxy ------------------------------
(* Small instance of Proxy: two cells of which one is mapped, so every     *)
(* touching case meets both a good and a faulting address, and a bulk      *)
(* request of two units runs off the mapped cell.                          *)
EXTENDS Proxy

MC_NAddr == 2
MC_Mapped == {0}
(* GUARD_OFF, GUARD_SKIP and GUARD_MARK | GUARD_SILENT.                    *)
MC_GuardArgs == {0, 1, 258}
MC_MaxUnits == 2
=============================================================================
