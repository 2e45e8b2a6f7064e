---------------------------- MODULE MCStructures ----------------------------
(***************************************************************************)
(* The parts that the others stand on and that work each for itself: the   *)
(* buddy system, bitmaps, lists and hash maps, page tables, traps, symbol  *)
(* tables and formatted output.  A behaviour is one of one of them,        *)
(* "subject"; the others stay in their first states.                       *)
(***************************************************************************)
EXTENDS OsMemoryPage, OsBitmap, OsHashmap, OsMmu, OsTrap, OsDebug, OsIo, TLC

CONSTANT Subject  \* the parts looked at

VARIABLE subject

structVars == <<subject, pageVars, bitmap, hashVars, listVars, mmuVars, trapVars, symtab, call>>

StructInit ==
  /\ subject \in Subject
  /\ PageInit /\ BitmapInit /\ ListInit /\ HashmapInit /\ MmuInit /\ TrapInit
  /\ SymbolInit /\ IoInit

StructNext ==
  /\ UNCHANGED subject
  /\ \/ /\ subject = "pages" /\ PageNext
        /\ UNCHANGED <<bitmap, hashVars, listVars, mmuVars, trapVars, symtab, call>>
     \/ /\ subject = "bitmap" /\ BitmapNext
        /\ UNCHANGED <<pageVars, hashVars, listVars, mmuVars, trapVars, symtab, call>>
     \/ /\ subject = "list" /\ ListNext
        /\ UNCHANGED <<pageVars, bitmap, hashVars, mmuVars, trapVars, symtab, call>>
     \/ /\ subject = "hashmap" /\ HashmapNext
        /\ UNCHANGED <<pageVars, bitmap, listVars, mmuVars, trapVars, symtab, call>>
     \/ /\ subject = "mmu" /\ MmuNext
        /\ UNCHANGED <<pageVars, bitmap, hashVars, listVars, trapVars, symtab, call>>
     \/ /\ subject = "trap" /\ TrapNext
        /\ UNCHANGED <<pageVars, bitmap, hashVars, listVars, mmuVars, symtab, call>>
     \/ /\ subject = "symbols" /\ SymbolNext
        /\ UNCHANGED <<pageVars, bitmap, hashVars, listVars, mmuVars, trapVars, call>>
     \/ /\ subject = "printf" /\ IoNext
        /\ UNCHANGED <<pageVars, bitmap, hashVars, listVars, mmuVars, trapVars, symtab>>

StructSymmetry == Permutations(UserVtable) \cup Permutations(TrapTask)

ASSUME HeapEndsAligned

MCFieldWidth == {-4, -1, 3, 6}
MCFieldPrecision == {-1, 0, 1, 3}

StructSpec == StructInit /\ [][StructNext]_structVars
=============================================================================
