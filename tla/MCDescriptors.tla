--------------------------- MODULE MCDescriptors ---------------------------
(***************************************************************************)
(* Words with the bit at an end of a field, with none and with all, and    *)
(* one call before or after gdt_init, so that a descriptor is made from    *)
(* nothing and over an old one.                                            *)
(***************************************************************************)
EXTENDS Descriptors

Edges == {15, 16, 19, 20, 23, 24}
Words == {{}, 0..31} \cup {{b} : b \in Edges}
MCTypes == {{}, {0}, {3}, SEGMENT_DATA_TYPE_RDWR, SEGMENT_CODE_TYPE_EXRD}
MCFlags == {{}, {13, 14}, FlatFlags, FlagBits}
MCSelectors == {{}, {3}, 0..15}
MCLevels == {{}, {0}, {1}, 0..15}
MCGates == {0, 32}
=============================================================================
