------------------------- MODULE MC_DescriptorCheck -------------------------
(* verify_descriptor on every byte string of up to four bytes below five: *)
(* long enough for three blocks, an overshooting length and a zero byte.  *)
EXTENDS DescriptorCheck

MCMaxLen == 4
MCMaxByte == 4
=============================================================================
