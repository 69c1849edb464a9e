---------------------------- MODULE MachoReader ----------------------------
(***************************************************************************)
(* binfmt.macho.read_macho.  A Mach-O file is                              *)
(*   sniffed    it has the four bytes a magic takes                        *)
(*   fat        it is a universal binary; fatRaises: its header raises     *)
(*   declared   how many architectures its header declares                 *)
(*   arches     the entries of its table: there, inside (the file), and    *)
(*              the slice each one names                                   *)
(*   slices     the slices, in the order the table first names them        *)
(*   large, beyond, strings   as ReaderContract has them                   *)
(* A slice has a header that parses or not, the number of load commands it *)
(* declares, and the commands: whether the command's own header can be     *)
(* trusted (fits), what it is, the name in it and whether that can be read *)
(* (there), and of LC_SYMTAB the two tables: rows and names, each at a     *)
(* byte, the bytes each declares, and the bytes that are there.            *)
(***************************************************************************)
EXTENDS ReaderContract, Functions

CONSTANT MaxFatSlices   \* _MAX_FAT_SLICES

ASSUME SlicesAssumption == MaxFatSlices \in Nat \ {0}

Least(S) == {n \in S : \A k \in S : n <= k}

----------------------------------------------------------------------------
(* The slices of a file (_list_fat_slices).                                *)

\* The entries walked: as many as declared, to the cap, while they are there.
Declared(file) == {i \in DOMAIN file.arches : i <= file.declared /\ i <= MaxFatSlices}
ArchesWalked(file) == {i \in Declared(file) : \A j \in 1..i : file.arches[j].there}

\* Two entries naming one slice describe one slice.
SlicesOf(file) ==
  IF file.fat THEN {file.arches[i].slice : i \in {j \in ArchesWalked(file) : file.arches[j].inside}}
  ELSE DOMAIN file.slices

\* Architectures that were named and not examined.
FatReasons(file) ==
  file.fat /\ \/ file.declared > MaxFatSlices
              \/ Cardinality(ArchesWalked(file)) < file.declared /\ Cardinality(ArchesWalked(file)) < MaxFatSlices
              \/ \E i \in ArchesWalked(file) : ~file.arches[i].inside

\* _read_slice_header raises _Unreadable.
Parsed(file) == {k \in SlicesOf(file) : file.slices[k].header}
SliceUnread(file) == Parsed(file) # SlicesOf(file) \/ FatReasons(file)

----------------------------------------------------------------------------
(* The load commands of a slice (_read_thin).                              *)

\* The walk stops at the first command whose header cannot be trusted, and
\* after as many as are declared.
Reached(slice) ==
  {i \in DOMAIN slice.commands : i <= slice.declared /\ \A j \in 1..i : slice.commands[j].fits}
WalkTruncated(slice) == Reached(slice) # DOMAIN slice.commands \/ slice.declared > Len(slice.commands)

CommandsOf(slice, type) == {i \in Reached(slice) : slice.commands[i].type = type}
NamesOf(slice, type) ==
  {slice.commands[i].name : i \in {j \in CommandsOf(slice, type) : slice.commands[j].there}}
StringUnread(slice) ==
  \E type \in {"needed", "soname", "rpath"} : \E i \in CommandsOf(slice, type) : ~slice.commands[i].there

\* More than one of what there can be one of: neither is trusted.
AmbiguousCommand(slice, type) == Cardinality(CommandsOf(slice, type)) > 1
SliceAmbiguous(slice) == AmbiguousCommand(slice, "soname") \/ AmbiguousCommand(slice, "symtab")

\* _Symtab: the tables, where there is one command and it is long enough.
SymtabOf(slice) ==
  IF AmbiguousCommand(slice, "symtab") THEN {}
  ELSE {slice.commands[i] : i \in {j \in CommandsOf(slice, "symtab") : slice.commands[j].there}}

\* Whether an LC_ID_DYLIB gives this slice a name.
SonameOf(slice) == IF AmbiguousCommand(slice, "soname") THEN {} ELSE NamesOf(slice, "soname")

Lists(slice) ==
  Both(Found({Item("needed", n) : n \in NamesOf(slice, "needed")}
             \cup {Item("rpath", n) : n \in NamesOf(slice, "rpath")}),
       Together({IF StringUnread(slice) THEN Lost("macho_load_command_string_unread") ELSE Nothing,
                 IF WalkTruncated(slice) THEN Lost("macho_load_command_walk_truncated") ELSE Nothing,
                 IF SliceAmbiguous(slice) THEN Lost("macho_load_command_ambiguous") ELSE Nothing}))

----------------------------------------------------------------------------
(* The symbol table of a slice (_read_symbols, _iter_symbols).             *)

\* _available: never more than declared, than the budget, than is there.
Available(declared, there) ==
  IF declared <= MaxStringsBytes /\ declared <= there THEN declared
  ELSE IF MaxStringsBytes <= there THEN MaxStringsBytes ELSE there

RowsHeld(t) == {r \in t.rows : r.at <= Available(t.rowBytes, t.rowsThere)}
NamesHeld(t) == {n.name : n \in {x \in t.names : x.at <= Available(t.nameBytes, t.namesThere)}}
TableTruncated(t) ==
  \/ Available(t.rowBytes, t.rowsThere) # t.rowBytes
  \/ Available(t.nameBytes, t.namesThere) # t.nameBytes

\* A row whose index is 0 resolves to no name.
RowResolves(t, r) ==
  IF r.named THEN ~r.spent /\ r.name \in NamesHeld(t) ELSE Available(t.nameBytes, t.namesThere) > 0
RowsResolved(t) == {r \in RowsHeld(t) : RowResolves(t, r)}

\* An alias names its target, which this object does not carry; a debug entry
\* describes a file or a line, and is neither named nor read.
Aliases(t) == {r.alias : r \in {x \in RowsResolved(t) : ~x.debug /\ ~x.aliasSpent /\ x.alias \in NamesHeld(t)}}
NamedRows(t) == {r \in RowsResolved(t) : r.named /\ ~r.debug}
MachoSymbolOf(r) == Item(IF r.undefined THEN "imported" ELSE "defined", r.name)
TableSymbols(t) == {MachoSymbolOf(r) : r \in NamedRows(t)} \cup {Item("imported", n) : n \in Aliases(t)}

\* Mutant: a debug entry accounts for the name it spells.
UnderstatesButDebug(t) == NamesHeld(t) \ ({r.name : r \in RowsResolved(t)} \cup Aliases(t)) # {}

\* Why the table fell short, the cheapest question first.
Understates(t) == NamesHeld(t) \ ({r.name : r \in NamedRows(t)} \cup Aliases(t)) # {}
Shortfall(t) ==
  IF TableTruncated(t) THEN {"truncated"}
  ELSE IF RowsResolved(t) # RowsHeld(t) THEN {"unresolved"}
  ELSE IF Understates(t) THEN {"understated"}
  ELSE IF NamedRows(t) = {} /\ t.rowBytes > 0 THEN {"names no symbol"}
  ELSE {}

\* An absent table, and a stripped one, are incomplete and no error.
ReadTable(t) ==
  IF t.raises THEN Lost("macho_symtab_incomplete")
  ELSE Both(Found(TableSymbols(t)),
            IF Shortfall(t) = {"understated"}
            THEN Reading({}, {"macho_symtab_incomplete", "symtab_understates_rows"}, TRUE)
            ELSE IF Shortfall(t) # {} THEN Lost("macho_symtab_incomplete")
            ELSE IF NamedRows(t) = {} THEN LostQuietly("macho_symtab_incomplete") ELSE Nothing)

\* _read_slice_symbols
ReadSliceSymbols(slice) ==
  IF SymtabOf(slice) = {} THEN LostQuietly("macho_symtab_incomplete")
  ELSE Together({ReadTable(t) : t \in SymtabOf(slice)})

----------------------------------------------------------------------------
(* The file (read_macho).                                                  *)

\* The install name is the first that any slice gives, in the table's order.
FirstSoname(file) ==
  UNION {SonameOf(file.slices[k]) : k \in Least({j \in Parsed(file) : SonameOf(file.slices[j]) # {}})}

\* Slices merge: unions, and what any of them fell short of.
ReadSlices(file) ==
  Together({Lists(file.slices[k]) : k \in Parsed(file)}
           \cup {ReadSliceSymbols(file.slices[k]) : k \in Parsed(file)}
           \cup {Found({Item("soname", n) : n \in FirstSoname(file)}),
                 WholeStrings(file, file.strings),
                 IF SliceUnread(file) THEN Lost("macho_fat_slice_unread") ELSE Nothing})

ReadMacho(file) ==
  IF ~file.sniffed \/ (file.fat /\ file.fatRaises) \/ Parsed(file) = {}
  THEN [StringsOnly(file, file.strings, "macho_header_unread") EXCEPT !.erred = TRUE]
  ELSE ReadSlices(file)

\* What the file holds, damaged or not.
TablesOf(slice) == {slice.commands[i] : i \in {j \in DOMAIN slice.commands : slice.commands[j].type = "symtab"}}
SymbolRows(t) == {r \in t.rows : ~r.debug}
TableCarries(t) ==
  LET named == {r \in SymbolRows(t) : r.named}
      targets == {r.alias : r \in SymbolRows(t)} \cap {n.name : n \in t.names} IN
  {MachoSymbolOf(r) : r \in named} \cup {Item("imported", n) : n \in targets}
  \cup {Item("undeclared", n.name) : n \in {x \in t.names : x.name \notin targets /\ \A r \in named : x.name # r.name}}
SliceCarries(slice) ==
  {Item(slice.commands[i].type, slice.commands[i].name) :
     i \in {j \in DOMAIN slice.commands : slice.commands[j].type \in {"needed", "soname", "rpath"}}}
  \cup UNION {TableCarries(t) : t \in TablesOf(slice)}
SlicesNamed(file) ==
  IF file.fat THEN {file.arches[i].slice : i \in {j \in DOMAIN file.arches : j <= file.declared}}
  ELSE DOMAIN file.slices
MachoCarries(file) == file.strings \cup UNION {SliceCarries(file.slices[k]) : k \in SlicesNamed(file)}

\* What such a file is, however damaged.  Rows and names lie where their table
\* is declared to be; the target of an alias that the budget of names leaves
\* unread is not also defined here; and the slices have one install name.
TableFormed(t) ==
  /\ \A r \in t.rows : r.at <= t.rowBytes
  /\ \A n \in t.names : n.at <= t.nameBytes
  /\ \A r, s \in t.rows : r.aliasSpent /\ s.name = r.alias => s.undefined
MachoFormed(file) ==
  /\ IsSequence(file.slices) /\ IsSequence(file.arches) /\ file.declared \in Nat
  /\ \A i \in DOMAIN file.arches : file.arches[i].slice \in DOMAIN file.slices
  /\ \A k \in DOMAIN file.slices :
       /\ IsSequence(file.slices[k].commands)
       /\ \A t \in TablesOf(file.slices[k]) : TableFormed(t)
  /\ \A k, l \in DOMAIN file.slices :
       \A c \in Range(file.slices[k].commands), d \in Range(file.slices[l].commands) :
         c.type = "soname" /\ d.type = "soname" => c.name = d.name
  /\ \A item \in file.strings : item.kind = "strings"
=============================================================================
