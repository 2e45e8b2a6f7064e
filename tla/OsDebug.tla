------------------------------- MODULE OsDebug -------------------------------
(***************************************************************************)
(* The symbols of a crash dump: the tables tools/osdebugsupport writes     *)
(* into the kernel image, and their search by src/os_debug.c.              *)
(*                                                                         *)
(* The tables follow each other behind their header, and both loops of     *)
(* find_symbol_table that pass over equal addresses read the item before   *)
(* the first: the last of the table before, or the header.                 *)
(***************************************************************************)
EXTENDS Integers, Sequences, FiniteSets, SequencesExt, FiniteSetsExt

CONSTANTS
  STACK_SIZE,   \* the value of this symbol of the linker script, 16K
  TextAddress,  \* where functions are
  DataAddress,  \* where objects are, behind them
  SymbolSize,   \* sizes of symbols; 0 for those of assembly code
  IntHalf,      \* an int is one of -IntHalf..(IntHalf - 1)
  MaxSymbols    \* bound of the model: symbols of an image

\* The comparison's result is an int: a difference of addresses loses its upper half.
os_symtab_item_cmpfunc(a, b) == ((a.address - b.address + IntHalf) % (2 * IntHalf)) - IntHalf

\* An image has an entry, the linker script puts data behind text, and image addresses are
\* less than 2 GiB apart.  STACK_SIZE lies 128 GiB before them; the lower halves of their
\* addresses, from 0x00200000 on, keep it before them in the comparison.
ASSUME SymbolAssumption ==
  /\ STACK_SIZE \in Nat \ {0} /\ IntHalf \in Nat \ {0} /\ SymbolSize \subseteq Nat
  /\ TextAddress \subseteq Nat /\ DataAddress \subseteq Nat /\ TextAddress # {}
  /\ \A t \in TextAddress, d \in DataAddress : t < d
  /\ \A a, b \in TextAddress \cup DataAddress : a - b < IntHalf
  /\ \A a \in TextAddress \cup DataAddress :
       STACK_SIZE < a /\ os_symtab_item_cmpfunc([address |-> a], [address |-> STACK_SIZE]) > 0

VARIABLE symtab  \* NoTables, or "function", "object", "general" -> sequence of address, size

NoTables == [k \in {} |-> <<>>]

\* What the string table's offset in the header reads as, taken for an address.
HeaderWord == 0

Before(kind) ==
  CASE kind = "function" -> HeaderWord
    [] kind = "object" -> IF symtab["function"] = <<>> THEN HeaderWord
                          ELSE Last(symtab["function"]).address
    [] kind = "general" -> Last(symtab["object"]).address

\* sym_table[i].address, from i = -1 on.
SymAddress(kind, i) == IF i = -1 THEN Before(kind) ELSE symtab[kind][i + 1].address

SymbolAt(addresses) == [address : addresses, size : SymbolSize]

\* Two symbols of the linker script: a number, and where the image starts.
stack_size == [address |-> STACK_SIZE, size |-> 0]
start == [address |-> Min(TextAddress), size |-> 0]

\* generate_file starts.  A kernel has an object, and its general symbols are those of
\* linker script and assembly code, STACK_SIZE and the entry of the image among them.  No
\* table begins with the address before it.
CreateTables(object) ==
  /\ symtab = NoTables
  /\ symtab' = [function |-> <<>>, object |-> <<object>>,
                general |-> <<stack_size, start>>]

\* Every symbol goes to the table of its type, and qsort leaves symbols at one address in
\* any order.
AddSymbol(kind, symbol) ==
  /\ symtab # NoTables /\ Len(symtab[kind]) < MaxSymbols
  /\ \E i \in 1..(Len(symtab[kind]) + 1) :
       LET t == InsertAt(symtab[kind], i, symbol)
       IN /\ \A j \in 1..(Len(t) - 1) : os_symtab_item_cmpfunc(t[j], t[j + 1]) <= 0
          /\ symtab' = [symtab EXCEPT ![kind] = t]

SymbolInit == symtab = NoTables

SymbolNext ==
  \/ \E s \in SymbolAt(DataAddress) : CreateTables(s) \/ AddSymbol("object", s)
  \/ \E s \in SymbolAt(TextAddress) : AddSymbol("function", s)
  \/ \E s \in SymbolAt(TextAddress \cup DataAddress) : s.size = 0 /\ AddSymbol("general", s)

-----------------------------------------------------------------------------
\* Mutant: the item itself will do.
FirstOfGroup_Itself(kind, i) == i

\* Down to the first of the items with the address of item i; -1: past the table.
FirstOfGroup(kind, i) ==
  IF i = Len(symtab[kind]) THEN i
  ELSE Max({-1} \cup {k \in 0..i : /\ \A j \in (k + 1)..i : SymAddress(kind, j) = SymAddress(kind, j - 1)
                                   /\ SymAddress(kind, k) # SymAddress(kind, k - 1)})

\* Behind the last of the items with the address of item i.
BehindGroup(kind, i) ==
  1 + Max({k \in i..(Len(symtab[kind]) - 1) : SymAddress(kind, k) = SymAddress(kind, i)})

NoSymbol == -1
WildRead == -2

\* What is left to search: from left up to, not including, right.
Span(kind) == [left : 0..Len(symtab[kind]), right : 0..Len(symtab[kind])]

find_symbol_table(kind, address) ==
  LET search[s \in Span(kind)] ==
        LET mid == (s.left + s.right) \div 2
            lower == FirstOfGroup(kind, mid)
        IN IF s.left >= s.right THEN s.left - 1
           ELSE IF address = SymAddress(kind, mid) THEN mid
           ELSE IF address > SymAddress(kind, mid) THEN search[[s EXCEPT !.left = BehindGroup(kind, mid)]]
           ELSE IF lower = -1 THEN WildRead ELSE search[[s EXCEPT !.right = lower]]
      found == search[[left |-> 0, right |-> Len(symtab[kind])]]
  IN IF found \in {NoSymbol, WildRead} THEN found
     ELSE IF FirstOfGroup(kind, found) = -1 THEN WildRead ELSE FirstOfGroup(kind, found)

\* Mutant: the symbol before the address is the one it lies in.
Matches_AnySize(kind, address) ==
  LET i == find_symbol_table(kind, address) IN IF i < 0 THEN <<>> ELSE <<<<kind, i>>>>

\* What print_symbol_info prints of one table; the loops end after their first round.
Matches(kind, address) ==
  LET i == find_symbol_table(kind, address)
  IN IF i < 0 THEN <<>>
     ELSE IF kind = "general" \/ symtab[kind][i + 1].address + symtab[kind][i + 1].size > address
     THEN <<<<kind, i>>>> ELSE <<>>

print_symbol_info(address, function) ==
  LET first == IF function THEN "function" ELSE "object"
      last == IF function THEN "object" ELSE "function"
  IN IF Matches(first, address) # <<>> THEN Matches(first, address)
     ELSE Matches("general", address) \o Matches(last, address)

-----------------------------------------------------------------------------
\* The first of the symbols with the greatest address that is not behind the given one.
Nearest(kind, address) ==
  LET at == {i \in 0..(Len(symtab[kind]) - 1) : SymAddress(kind, i) <= address}
      top == {i \in at : \A j \in at : SymAddress(kind, j) <= SymAddress(kind, i)}
  IN IF at = {} THEN NoSymbol ELSE Min(top)

\* The address is one of a symbol's own.
LiesIn(kind, i, address) ==
  SymAddress(kind, i) <= address /\ address < SymAddress(kind, i) + symtab[kind][i + 1].size

\* And no other symbol of the kind is nearer, or as near.
OnlyNearest(kind, i, address) ==
  \A j \in 0..(Len(symtab[kind]) - 1) :
    j # i => SymAddress(kind, j) < SymAddress(kind, i) \/ address < SymAddress(kind, j)

Asked(function) == IF function THEN "function" ELSE "object"

\* The search finds the nearest symbol, among any number at one address and next to any
\* other table.  A dump names the addresses from the least symbol's on, each by functions
\* and objects whose extent it lies in only, and by the function asked for alone if it
\* lies in one that is the only nearest; a symbol of the other kind is named, too, unless
\* one of the kind asked for was.
DumpNamesAddresses ==
  symtab # NoTables => \A address \in 0..(Max(DataAddress) + 1) :
    /\ \A kind \in DOMAIN symtab : find_symbol_table(kind, address) = Nearest(kind, address)
    /\ \A function \in BOOLEAN :
         LET named == ToSet(print_symbol_info(address, function))
         IN /\ named # {} <=> address >= STACK_SIZE
            /\ \A n \in named : IF n[1] = "general" THEN SymAddress(n[1], n[2]) <= address
                                ELSE LiesIn(n[1], n[2], address)
            /\ \A kind \in {"function", "object"} : \A i \in 0..(Len(symtab[kind]) - 1) :
                 LiesIn(kind, i, address) /\ OnlyNearest(kind, i, address) =>
                   IF kind = Asked(function) THEN named = {<<kind, i>>}
                   ELSE <<kind, i>> \in named \/ \E n \in named : n[1] = Asked(function)
=============================================================================
