---------------------------- MODULE MCMemoryMap -----------------------------
(* MemoryMap with the files, addresses and bytes of MCCartridge. *)
EXTENDS MemoryMap, MCCartridge
=============================================================================
