------------------------------ MODULE ElfReader ------------------------------
(***************************************************************************)
(* binfmt.elf.read_elf.  An ELF file is                                    *)
(*   header     its header parses                                          *)
(*   table      its section header table: "fits", "cut", "absent"          *)
(*   counted    the number of sections can be read                         *)
(*   large      the file is larger than the strings budget, and beyond are *)
(*              the strings past it                                        *)
(*   sections   a sequence of section headers                              *)
(* and a section has what its header says (name, type, alloc, exec,        *)
(* compressed, size, link, addr), what reading it meets (header: its       *)
(* header can be read; raises; present: the bytes that are there), and     *)
(* what is in it: items of evidence, each at a byte; rows of a symbol      *)
(* table; the names a string table holds; the address in DT_STRTAB.        *)
(***************************************************************************)
EXTENDS ReaderContract

\* Mutant: the reason is added and the error forgotten.
ElfErrorUnsaid(reason) == LostQuietly(reason)

ElfError(reason) == Lost(reason)

\* What is in the bytes of a section that are there.
Present(s) == {h.item : h \in {x \in s.holds : x.at <= s.present}}
PresentIn(file, indices) == UNION {Present(file.sections[i]) : i \in indices}

\* _unparsed: the strings, and the error that says why there is no more.
Unparsed(file, reason) ==
  [StringsOnly(file, PresentIn(file, DOMAIN file.sections), reason) EXCEPT !.erred = TRUE]

\* The sections whose header can be read; a link names one of them or none.
Readable(file) == IF file.counted THEN {i \in DOMAIN file.sections : file.sections[i].header} ELSE {}
OfType(file, type) == {i \in Readable(file) : file.sections[i].type = type}
OfName(file, name) == {i \in Readable(file) : file.sections[i].name = name}

First(indices) == {i \in indices : \A j \in indices : i <= j}

\* _find_section_by_type: the one section of that type; several are ambiguous.
Ambiguous(file, type) == Cardinality(OfType(file, type)) > 1
ByType(file, type) == IF Cardinality(OfType(file, type)) = 1 THEN OfType(file, type) ELSE {}

\* Mutant: sections are found by type, and what is named like one is not asked.
TypeMismatchUnasked(file, name, type) == FALSE

\* _type_mismatch: a section of that name that cannot be trusted to be that type.
TypeMismatch(file, name, type) ==
  \/ Cardinality(OfName(file, name)) > 1
  \/ \E i \in OfName(file, name) : file.sections[i].type # type

SectionsUnread(file) == ~file.counted \/ Readable(file) # DOMAIN file.sections

\* What finding a section by its type and its name gives (read_elf).
Finding(file, name, type, reason) ==
  IF Ambiguous(file, type) THEN ElfError("elf_section_type_ambiguous")
  ELSE IF TypeMismatch(file, name, type) THEN ElfError(reason) ELSE Nothing

\* _validated_strtab: the section sh_link names, where .dynamic corroborates it.
LinkedStrtab(file, s) ==
  IF s.link \in Readable(file) /\ file.sections[s.link].type = "STRTAB" THEN {s.link} ELSE {}
ValidatedStrtab(file, s, address) ==
  {i \in LinkedStrtab(file, s) : address # "none" /\ file.sections[i].addr = address}

\* The address DT_STRTAB gives, once .dynamic's tags have been read.
DtStrtab(file) ==
  LET readable == {i \in ByType(file, "DYNAMIC") : ~file.sections[i].raises} IN
  IF readable = {} THEN "none" ELSE file.sections[CHOOSE i \in readable : TRUE].dtStrtab

\* .dynamic: everything it names, or nothing.
Dynamic(file) ==
  Together({Finding(file, ".dynamic", "DYNAMIC", "elf_dynamic_unread")} \cup
    {LET s == file.sections[i] IN
       IF s.raises \/ ValidatedStrtab(file, s, s.dtStrtab) = {}
       THEN ElfError("elf_dynamic_unread")
       ELSE Found(OfKind({h.item : h \in s.holds}, {"needed", "soname", "rpath"})) : i \in ByType(file, "DYNAMIC")})

\* _bounded_section_data refuses what declares more than the budget.
OverBudget(s, budget) == s.size > budget

\* _symbol_bytes: either read refused, or raising.
BytesUnread(file, i, strtab) == \E j \in {i} \cup strtab : OverBudget(file.sections[j], MaxStringsBytes)
Raises(file, i, strtab) == \E j \in {i} \cup strtab : file.sections[j].raises

\* _iter_symbols: a row whose index is 0 has no name; another is resolved when
\* the string table holds it and the budget for names is not spent, and a table
\* of NULs resolves it to no name at all.
RowResolved(file, row, strtab) ==
  \/ ~row.named
  \/ ~row.spent /\ \E j \in strtab : row.name \in file.sections[j].names \/ file.sections[j].nul
NameRead(file, row, strtab) ==
  row.named /\ ~row.spent /\ \E j \in strtab : row.name \in file.sections[j].names
Unresolved(file, i, strtab) == \E row \in file.sections[i].rows : ~RowResolved(file, row, strtab)
NamesRead(file, i, strtab) ==
  {row.name : row \in {r \in file.sections[i].rows : NameRead(file, r, strtab)}}

\* The symbols of the rows whose names were read.  A pseudo-symbol, which only
\* .symtab has, is none.
SymbolOf(row) == Item(IF row.undefined THEN "imported" ELSE "defined", row.name)
SymbolsRead(file, i, strtab) ==
  {SymbolOf(row) : row \in {r \in file.sections[i].rows : NameRead(file, r, strtab)}}
CodeSymbolsRead(file, i, strtab) ==
  {SymbolOf(row) : row \in {r \in file.sections[i].rows : NameRead(file, r, strtab) /\ ~r.pseudo}}

\* holds_a_name_not_read
HoldsNotRead(names, read) == names \ read # {}

\* _any_strtab_holds_a_name_not_read: every string table of the object, in
\* order, one over the budget counting as a hit; the first that hits or raises.
Hits(s, read) == OverBudget(s, MaxStringsBytes) \/ (~s.raises /\ HoldsNotRead(s.names, read))
Telling(file, read) ==
  {j \in OfType(file, "STRTAB") : Hits(file.sections[j], read) \/ file.sections[j].raises}
AnyStrtabHoldsNotRead(file, read) ==
  \E j \in Telling(file, read) :
    j \in First(Telling(file, read)) /\ Hits(file.sections[j], read)
StrtabRaises(file, read) == Telling(file, read) # {} /\ ~AnyStrtabHoldsNotRead(file, read)

\* What reading a symbol table may add to what its rows gave.
Understated(reason) == Reading({}, {reason, "symtab_understates_rows"}, TRUE)

\* .dynsym, through the string table that .dynamic corroborates.
DynsymStrtab(file, i) == ValidatedStrtab(file, file.sections[i], DtStrtab(file))
DynsymRows(file, i) ==
  LET strtab == DynsymStrtab(file, i) IN
  IF BytesUnread(file, i, strtab) \/ Raises(file, i, strtab) THEN ElfError("elf_dynsym_unread")
  ELSE Both(Found(SymbolsRead(file, i, strtab)),
            IF Unresolved(file, i, strtab) THEN ElfError("elf_dynsym_unread")
            ELSE IF \E j \in strtab : HoldsNotRead(file.sections[j].names, NamesRead(file, i, strtab))
                 THEN Understated("elf_dynsym_unread") ELSE Nothing)
Dynsym(file) ==
  Together({Finding(file, ".dynsym", "DYNSYM", "elf_dynsym_unread")} \cup
    {Both(DynsymRows(file, i),
          IF file.sections[i].miscounted THEN ElfError("elf_dynsym_unread") ELSE Nothing) :
       i \in ByType(file, "DYNSYM")})

\* Genuinely absent, rather than ambiguous, mistyped or out of sight.
DynsymAbsent(file) ==
  /\ OfType(file, "DYNSYM") = {} /\ ~TypeMismatch(file, ".dynsym", "DYNSYM")
  /\ ~SectionsUnread(file)

DynsymNames(file) ==
  UNION {IF BytesUnread(file, i, DynsymStrtab(file, i)) \/ Raises(file, i, DynsymStrtab(file, i))
         THEN {} ELSE NamesRead(file, i, DynsymStrtab(file, i)) : i \in ByType(file, "DYNSYM")}

\* Not through both tables that the names of .dynstr are claimed by.
ClaimsUnknown(file) ==
  {"elf_dynsym_unread", "elf_dynamic_unread"} \cap (Dynsym(file).why \cup Dynamic(file).why) # {}

\* .symtab's rows against every string table.
CrossCheck(file, read) ==
  IF AnyStrtabHoldsNotRead(file, read) THEN Understated("elf_symtab_unread")
  ELSE IF StrtabRaises(file, read) THEN ElfError("elf_symtab_unread") ELSE Nothing

\* .symtab beside a .dynsym: definitions only, and every string table is asked.
SupplementaryRows(file, i) ==
  LET strtab == LinkedStrtab(file, file.sections[i]) IN
  IF BytesUnread(file, i, strtab) \/ Raises(file, i, strtab) THEN ElfError("elf_symtab_unread")
  ELSE Both(Found(OfKind(CodeSymbolsRead(file, i, strtab), {"defined"})),
            IF Unresolved(file, i, strtab) THEN ElfError("elf_symtab_unread")
            ELSE IF ClaimsUnknown(file) THEN Nothing
            ELSE CrossCheck(file, DynsymNames(file) \cup NamesRead(file, i, strtab)))

\* .symtab as the only symbol table: imports too.
SoleRows(file, i) ==
  LET strtab == LinkedStrtab(file, file.sections[i]) IN
  IF BytesUnread(file, i, strtab) \/ Raises(file, i, strtab) THEN ElfError("elf_symtab_unread")
  ELSE Both(Found(CodeSymbolsRead(file, i, strtab)),
            IF Unresolved(file, i, strtab) THEN ElfError("elf_symtab_unread")
            ELSE CrossCheck(file, NamesRead(file, i, strtab)))

\* Neither mode where it cannot be told whether there is a .dynsym.
SymtabRows(file, i) ==
  IF ByType(file, "DYNSYM") # {} THEN SupplementaryRows(file, i)
  ELSE IF DynsymAbsent(file) THEN SoleRows(file, i) ELSE Nothing
Symtab(file) ==
  Together({Finding(file, ".symtab", "SYMTAB", "elf_symtab_unread")} \cup
    {Both(SymtabRows(file, i),
          IF file.sections[i].miscounted THEN ElfError("elf_symtab_unread") ELSE Nothing) :
       i \in ByType(file, "SYMTAB")})

Min2(a, b) == IF a <= b THEN a ELSE b

\* The bytes a bounded read hands back: all, a prefix of an ordinary section
\* over the budget, or none of another.
Kept(s, budget) ==
  IF ~OverBudget(s, budget) THEN Min2(s.size, s.present)
  ELSE IF s.compressed \/ s.type = "NOBITS" THEN 0 ELSE Min2(budget, s.present)
Before(s, bytes) == {h.item : h \in {x \in s.holds : x.at <= bytes}}

\* _collect_string_bytes: read-only data in header order while the budget lasts.
HoldsStrings(s) ==
  s.type # "NOBITS" /\ (s.name = ".comment" \/ (s.type = "PROGBITS" /\ s.alloc /\ ~s.exec))
StringSections(file) == {i \in Readable(file) : HoldsStrings(file.sections[i])}
AddStrings(s, pass) ==
  LET remaining == MaxStringsBytes - pass.bytes
      kept == Kept(s, remaining) IN
  IF pass.full THEN pass
  ELSE IF remaining <= 0 THEN [pass EXCEPT !.full = TRUE, !.cut = TRUE]
  ELSE IF s.raises THEN [pass EXCEPT !.unread = TRUE]
  ELSE [bytes |-> pass.bytes + kept, got |-> pass.got \cup Before(s, kept), full |-> FALSE,
        cut |-> IF OverBudget(s, remaining) /\ kept > 0 THEN kept >= remaining ELSE pass.cut,
        unread |-> pass.unread \/ (kept = 0 /\ s.size > 0)]
StringPass(file) ==
  LET pass[i \in 0..Len(file.sections)] ==
        IF i = 0 THEN [bytes |-> 0, got |-> {}, full |-> FALSE, cut |-> FALSE, unread |-> FALSE]
        ELSE IF i \in StringSections(file) THEN AddStrings(file.sections[i], pass[i - 1])
        ELSE pass[i - 1]
  IN pass[Len(file.sections)]
StringsRead(file) ==
  LET pass == StringPass(file) IN
  Together({Found(OfKind(pass.got, {"strings", "packed"})),
            IF pass.unread THEN ElfError("elf_section_data_unread") ELSE Nothing,
            IF pass.cut THEN LostQuietly("strings_bytes_unread") ELSE Nothing})

\* _collect_code_regions: executable sections within a budget of their own, and
\* nothing said of what is not read.
HoldsCode(s) == s.type = "PROGBITS" /\ s.alloc /\ s.exec
CodeSections(file) == {i \in Readable(file) : HoldsCode(file.sections[i])}
AddCode(s, pass) ==
  LET kept == IF s.raises \/ pass.remaining <= 0 THEN 0 ELSE Kept(s, pass.remaining) IN
  [remaining |-> pass.remaining - kept, got |-> pass.got \cup Before(s, kept)]
CodeRead(file) ==
  LET pass[i \in 0..Len(file.sections)] ==
        IF i = 0 THEN [remaining |-> MaxStringsBytes, got |-> {}]
        ELSE IF i \in CodeSections(file) THEN AddCode(file.sections[i], pass[i - 1]) ELSE pass[i - 1]
  IN Found(OfKind(pass[Len(file.sections)].got, {"code"}))

\* .go.buildinfo: the first section of that name, or the start of it.
GoBuildinfo(file) ==
  Together({LET s == file.sections[i] IN
              Both(Found(IF s.raises THEN {} ELSE OfKind(Before(s, Kept(s, MaxStringsBytes)), {"buildinfo"})),
                   IF s.raises \/ OverBudget(s, MaxStringsBytes)
                   THEN ElfError("elf_go_buildinfo_unread") ELSE Nothing) :
              i \in First(OfName(file, ".go.buildinfo"))})

\* read_elf
ReadSections(file) ==
  Together({IF SectionsUnread(file) THEN ElfError("elf_sections_unread") ELSE Nothing,
            Dynamic(file), Dynsym(file), Symtab(file),
            StringsRead(file), CodeRead(file), GoBuildinfo(file)})
ReadElf(file) ==
  IF ~file.header THEN Unparsed(file, "elf_header_unread")
  ELSE IF file.table = "cut" THEN Unparsed(file, "elf_section_table_truncated")
  ELSE IF file.counted /\ (file.table = "absent" \/ file.sections = <<>>) THEN Unparsed(file, "elf_section_table_absent")
  ELSE ReadSections(file)

\* What the file holds, damaged or not.  An object that has a .dynsym declares
\* every import in it, so .symtab's undefined rows are no evidence of their own.
Are(file, type, name) == {i \in DOMAIN file.sections :
                            file.sections[i].type = type \/ file.sections[i].name = name}
Dynsyms(file) == Are(file, "DYNSYM", ".dynsym")
Symtabs(file) == Are(file, "SYMTAB", ".symtab")
RowsOf(file, tables) == {r \in UNION {file.sections[i].rows : i \in tables} : r.named}
NamesBehind(file, tables) ==
  UNION {file.sections[j].names :
           j \in {k \in DOMAIN file.sections : \E i \in tables : file.sections[i].link = k}}
ElfCarries(file) ==
  LET declared == {SymbolOf(r) : r \in {x \in RowsOf(file, Dynsyms(file)) : ~x.pseudo}}
      local == {SymbolOf(r) : r \in {x \in RowsOf(file, Symtabs(file)) : ~x.pseudo}}
      tables == Dynsyms(file) \cup Symtabs(file) IN
  declared \cup (IF Dynsyms(file) = {} THEN local ELSE OfKind(local, {"defined"}))
  \cup {Item("undeclared", n) : n \in NamesBehind(file, tables) \ {r.name : r \in RowsOf(file, tables)}}
  \cup OfKind(PresentIn(file, Are(file, "DYNAMIC", ".dynamic")), {"needed", "soname", "rpath"})
  \cup OfKind(PresentIn(file, {i \in DOMAIN file.sections : HoldsStrings(file.sections[i])}),
              {"strings", "packed"})
  \cup OfKind(PresentIn(file, First({i \in DOMAIN file.sections : file.sections[i].name = ".go.buildinfo"})),
              {"buildinfo"})

\* Left open by the code (_validated_strtab, _any_strtab_holds_a_name_not_read):
\* a table of NULs in the very place of a string table, or in its stead and
\* every name it hides known from elsewhere;
StrtabReplaced(file) ==
  \E i \in DOMAIN file.sections : \E j \in DOMAIN file.sections :
    /\ file.sections[i].link = j /\ file.sections[j].nul
    /\ \/ file.sections[j].addr = DtStrtab(file)
       \/ \E r \in file.sections[i].rows :
            r.named /\ \A k \in OfType(file, "STRTAB") :
                         r.name \notin file.sections[k].names \ DynsymNames(file)

\* and a symbol table emptied of every named row, of which no row is left to
\* say that the strings its link names were never vouched for.
StrtabUnasked(file) ==
  \E i \in Dynsyms(file) \cup Symtabs(file) :
    /\ NamesBehind(file, {i}) # {} /\ \A r \in file.sections[i].rows : ~r.named
    /\ \/ i \in Dynsyms(file) /\ DynsymStrtab(file, i) = {}
       \/ i \in Symtabs(file) /\ LinkedStrtab(file, file.sections[i]) = {}

\* What such a file is, however damaged: a section has no more bytes than it
\* says, .dynamic raises where it is cut, a table of NULs spells no name, and
\* the pseudo-symbols are .symtab's.
SectionFormed(s) ==
  /\ s.size \in Nat /\ s.present \in 0..s.size
  /\ \A h \in s.holds : h.at \in Nat \ {0} /\ h.item.kind \in Kinds \cup {"code"}
  /\ s.type = "DYNAMIC" /\ ~s.raises => \A h \in s.holds : h.at <= s.present
  /\ s.nul => s.names = {}
  /\ \A r \in s.rows : r.pseudo => s.type = "SYMTAB"
ElfFormed(file) ==
  IsSequence(file.sections) /\ \A i \in DOMAIN file.sections : SectionFormed(file.sections[i])
=============================================================================
