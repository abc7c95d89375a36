---------------------------- MODULE MC_CacheRange ----------------------------
(* Four-byte lines; starts over three lines and lengths over two, so that  *)
(* aligned and unaligned starts and ends all occur.                        *)
EXTENDS CacheRange

MC_LineSize == 4
MC_MaxAddr == 11
MC_MaxLength == 9
=============================================================================
