------------------------------- MODULE MCV2Packet -------------------------------
(***************************************************************************)
(* Strings of 0, 3 and 60 bytes, one of them with a NUL, and file sizes    *)
(* that put the packet on both sides of the one, two and three byte        *)
(* lengths and of the policy limit: with a file name of 3 bytes and        *)
(* nothing else the base length is 11 bytes more than the number and the   *)
(* content.                                                                *)
(***************************************************************************)
EXTENDS V2Packet, FiniteSetsExt

CONSTANTS empty, short, long

MCOctets == [s \in Strings |-> IF s = empty THEN 0 ELSE IF s = short THEN 3 ELSE 60]
MCTagOctets == [tags \in SUBSET Strings |-> MapThenSumSet(LAMBDA s : Octets[s] + 1, tags)]
MCFileSizes == {0, 50, 51, 52, 16367, 16368, 16369, 16370, 4194285, 4194286, 4194287}
===============================================================================
