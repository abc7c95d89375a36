------------------------------ MODULE MC_MemOps ------------------------------
(* Sizes up to 17 bytes cover two whole 8-byte units plus a remainder for  *)
(* every width; two pointers 12 bytes apart let copies overlap and not.    *)
EXTENDS MemOps

MC_NBytes == 48
MC_Offsets == {0, 12}
MC_MaxSize == 17
=============================================================================
