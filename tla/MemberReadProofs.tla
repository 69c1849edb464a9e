-------------------------- MODULE MemberReadProofs --------------------------
(***************************************************************************)
(* Facts about the readers and the read of a member, for every file.       *)
(***************************************************************************)
EXTENDS MemberRead, FiniteSetTheorems, WellFoundedInduction, TLAPS

----------------------------------------------------------------------------
(* What every reading keeps to: its reasons are known, what it found is of *)
(* a kind, and an error and a reason come together.                        *)

Evidence == Kinds \cup {"code"}
OfEvidence(items) == \A i \in items : i.kind \in Evidence
Proper(r) == Agree(r) /\ r.why \subseteq Reasons /\ OfEvidence(r.got)

\* The reasons are these.
LEMMA ReasonsAre ==
  Reasons =
    {"no_structural_reader", "elf_header_unread", "elf_section_table_truncated",
     "elf_section_table_absent", "elf_section_type_ambiguous", "elf_sections_unread",
     "elf_section_data_unread", "elf_dynamic_unread", "elf_dynsym_unread", "elf_symtab_unread",
     "elf_go_buildinfo_unread", "macho_header_unread", "macho_symtab_incomplete",
     "macho_fat_slice_unread", "macho_load_command_string_unread",
     "macho_load_command_walk_truncated", "macho_load_command_ambiguous", "pe_header_unread",
     "pe_section_table_truncated", "pe_no_import_directory", "pe_import_incomplete",
     "pe_export_incomplete", "pe_ordinal_import", "pe_ordinal_export", "pe_delay_load",
     "symtab_understates_rows", "strings_bytes_unread", "ar_member_table_unread"}
  BY DEF Reasons, Costs

\* So is nothing at all, a loss with an error, one that is routine, and what was found.
LEMMA NothingIsProper == Proper(Nothing)
  BY DEF Proper, Agree, OfEvidence, Nothing, Reading

LEMMA LostIsProper ==
  ASSUME NEW reason \in Reasons
  PROVE  Proper(Lost(reason))
  BY DEF Proper, Agree, OfEvidence, Lost, Reading

LEMMA QuietIsProper ==
  ASSUME NEW reason \in Reasons \cap Quiet
  PROVE  Proper(LostQuietly(reason))
  BY DEF Proper, Agree, OfEvidence, LostQuietly, Reading

LEMMA FoundIsProper ==
  ASSUME NEW items, OfEvidence(items)
  PROVE  Proper(Found(items))
  BY DEF Proper, Agree, Found, Reading

LEMMA OfKindIsEvidence ==
  ASSUME NEW items, NEW kinds \in SUBSET Evidence
  PROVE  OfEvidence(OfKind(items, kinds))
  BY DEF OfEvidence, OfKind

LEMMA ItemsAreEvidence ==
  ASSUME NEW kind \in Evidence, NEW names
  PROVE  OfEvidence({Item(kind, n) : n \in names})
  BY DEF OfEvidence, Item

\* Putting proper readings together keeps them so.
LEMMA BothIsProper ==
  ASSUME NEW r, NEW s, Proper(r), Proper(s)
  PROVE  Proper(Both(r, s))
  BY DEF Proper, Agree, OfEvidence, Both, Reading

LEMMA TogetherIsProper ==
  ASSUME NEW readings, \A r \in readings : Proper(r)
  PROVE  Proper(Together(readings))
<1> DEFINE t == Together(readings)
<1>1. /\ t.got = UNION {r.got : r \in readings} /\ t.why = UNION {r.why : r \in readings}
      /\ t.erred = \E r \in readings : r.erred
  BY DEF Together, Reading
<1>2. t.why \subseteq Reasons /\ OfEvidence(t.got)
  BY <1>1 DEF Proper, OfEvidence
<1>3. t.erred => t.why # {}
  <2> SUFFICES ASSUME NEW r \in readings, r.erred
               PROVE  t.why # {}
    BY <1>1
  <2>1. r.why # {}
    BY DEF Proper, Agree
  <2> QED
    BY <1>1, <2>1
<1>4. t.why \subseteq Quiet \/ t.erred
  <2> SUFFICES ASSUME NEW reason \in t.why, reason \notin Quiet
               PROVE  t.erred
    OBVIOUS
  <2>1. PICK r \in readings : reason \in r.why
    BY <1>1
  <2>2. r.erred
    BY <2>1 DEF Proper, Agree
  <2> QED
    BY <1>1, <2>2
<1> QED
  BY <1>2, <1>3, <1>4 DEF Proper, Agree

LEMMA WholeStringsAreProper ==
  ASSUME NEW object, NEW strings
  PROVE  Proper(WholeStrings(object, strings))
<1>1. "strings_bytes_unread" \in Reasons \cap Quiet
  BY ReasonsAre DEF Quiet
<1>2. OfEvidence(OfKind(strings, {"strings"}))
  BY OfKindIsEvidence DEF Evidence, Kinds
<1> QED
  BY <1>1, <1>2 DEF WholeStrings, Proper, Agree, OfEvidence, Reading

\* A file of which only strings were read has the reason, and an error where it
\* is not routine.
LEMMA StringsOnlyAreProper ==
  ASSUME NEW object, NEW strings, NEW reason \in Reasons
  PROVE  /\ reason \in Quiet => Proper(StringsOnly(object, strings, reason))
         /\ Proper([StringsOnly(object, strings, reason) EXCEPT !.erred = TRUE])
<1> DEFINE r == WholeStrings(object, strings)
           s == StringsOnly(object, strings, reason)
<1>1. Proper(r)
  BY WholeStringsAreProper
<1>2. s = [got |-> r.got \cup {}, why |-> r.why \cup {reason}, erred |-> r.erred \/ FALSE]
  BY DEF StringsOnly, Both, LostQuietly, Reading
<1>3. ASSUME reason \in Quiet
      PROVE  Proper(s)
  BY <1>1, <1>3, BothIsProper, QuietIsProper DEF StringsOnly
<1>4. /\ [s EXCEPT !.erred = TRUE].got = r.got /\ [s EXCEPT !.erred = TRUE].why = r.why \cup {reason}
      /\ [s EXCEPT !.erred = TRUE].erred = TRUE
  BY <1>2
<1> QED
  BY <1>1, <1>3, <1>4 DEF Proper, Agree

\* A choice of two proper readings is one.
LEMMA ChoiceIsProper ==
  ASSUME NEW P \in BOOLEAN, NEW r, NEW s, Proper(r), Proper(s)
  PROVE  Proper(IF P THEN r ELSE s)
  OBVIOUS

----------------------------------------------------------------------------
(* ELF.                                                                    *)

LEMMA ElfErrorIsProper ==
  ASSUME NEW reason \in Reasons
  PROVE  Proper(ElfError(reason))
  BY LostIsProper DEF ElfError

LEMMA UnderstatedIsProper ==
  ASSUME NEW reason \in Reasons
  PROVE  Proper(Understated(reason))
  BY ReasonsAre DEF Proper, Agree, OfEvidence, Understated, Reading

LEMMA FindingIsProper ==
  ASSUME NEW object, NEW name, NEW type, NEW reason \in Reasons
  PROVE  Proper(Finding(object, name, type, reason))
<1>1. "elf_section_type_ambiguous" \in Reasons
  BY ReasonsAre
<1> QED
  BY <1>1, ElfErrorIsProper, NothingIsProper, Zenon DEF Finding

LEMMA SymbolsAreEvidence ==
  ASSUME NEW object, NEW i, NEW strtab
  PROVE  /\ OfEvidence(SymbolsRead(object, i, strtab))
         /\ OfEvidence(CodeSymbolsRead(object, i, strtab))
  BY DEF OfEvidence, SymbolsRead, CodeSymbolsRead, SymbolOf, Item, Evidence, Kinds, Structural, Symbols

LEMMA DynamicIsProper ==
  ASSUME NEW object
  PROVE  Proper(Dynamic(object))
<1> DEFINE tags(i) == OfKind({h.item : h \in object.sections[i].holds}, {"needed", "soname", "rpath"})
<1>1. "elf_dynamic_unread" \in Reasons
  BY ReasonsAre
<1>2. \A i : Proper(Found(tags(i)))
  BY FoundIsProper, OfKindIsEvidence DEF Evidence, Kinds, Structural
<1>3. \A i : Proper(IF \/ object.sections[i].raises
                       \/ ValidatedStrtab(object, object.sections[i], object.sections[i].dtStrtab) = {}
                    THEN ElfError("elf_dynamic_unread") ELSE Found(tags(i)))
  BY <1>1, <1>2, ElfErrorIsProper, Zenon
<1> DEFINE readings == {LET s == object.sections[i] IN
                          IF s.raises \/ ValidatedStrtab(object, s, s.dtStrtab) = {}
                          THEN ElfError("elf_dynamic_unread")
                          ELSE Found(OfKind({h.item : h \in s.holds}, {"needed", "soname", "rpath"}))
                          : i \in ByType(object, "DYNAMIC")}
<1>4. \A r \in readings : Proper(r)
  BY <1>3, Zenon
<1>5. Proper(Finding(object, ".dynamic", "DYNAMIC", "elf_dynamic_unread"))
  BY <1>1, FindingIsProper
<1>6. Dynamic(object) = Together({Finding(object, ".dynamic", "DYNAMIC", "elf_dynamic_unread")} \cup readings)
  BY Zenon DEF Dynamic
<1> HIDE DEF readings
<1> QED
  BY <1>4, <1>5, <1>6, TogetherIsProper

LEMMA DynsymIsProper ==
  ASSUME NEW object
  PROVE  Proper(Dynsym(object))
<1>1. "elf_dynsym_unread" \in Reasons
  BY ReasonsAre
<1>2. ASSUME NEW i
      PROVE  Proper(DynsymRows(object, i))
  <2>1. Proper(Found(SymbolsRead(object, i, DynsymStrtab(object, i))))
    BY FoundIsProper, SymbolsAreEvidence
  <2> QED
    BY <1>1, <2>1, ElfErrorIsProper, UnderstatedIsProper, NothingIsProper, BothIsProper, Zenon DEF DynsymRows
<1>3. \A i : Proper(Both(DynsymRows(object, i),
                         IF object.sections[i].miscounted THEN ElfError("elf_dynsym_unread") ELSE Nothing))
  BY <1>1, <1>2, ElfErrorIsProper, NothingIsProper, BothIsProper, Zenon
<1> QED
  BY <1>1, <1>3, FindingIsProper, TogetherIsProper DEF Dynsym

LEMMA SymtabIsProper ==
  ASSUME NEW object
  PROVE  Proper(Symtab(object))
<1>1. "elf_symtab_unread" \in Reasons
  BY ReasonsAre
<1>2. ASSUME NEW read
      PROVE  Proper(CrossCheck(object, read))
  BY <1>1, ElfErrorIsProper, UnderstatedIsProper, NothingIsProper, Zenon DEF CrossCheck
<1>3. ASSUME NEW i
      PROVE  Proper(SupplementaryRows(object, i)) /\ Proper(SoleRows(object, i))
  <2> DEFINE strtab == LinkedStrtab(object, object.sections[i])
  <2>1. /\ Proper(Found(CodeSymbolsRead(object, i, strtab)))
        /\ Proper(Found(OfKind(CodeSymbolsRead(object, i, strtab), {"defined"})))
    BY FoundIsProper, SymbolsAreEvidence, OfKindIsEvidence DEF Evidence, Kinds, Structural, Symbols
  <2> QED
    BY <1>1, <1>2, <2>1, ElfErrorIsProper, NothingIsProper, BothIsProper, Zenon
       DEF SupplementaryRows, SoleRows
<1>4. \A i : Proper(Both(SymtabRows(object, i),
                         IF object.sections[i].miscounted THEN ElfError("elf_symtab_unread") ELSE Nothing))
  BY <1>1, <1>3, ElfErrorIsProper, NothingIsProper, BothIsProper, Zenon DEF SymtabRows
<1> QED
  BY <1>1, <1>4, FindingIsProper, TogetherIsProper DEF Symtab

LEMMA ElfIsProper ==
  ASSUME NEW object
  PROVE  Proper(ReadElf(object))
<1>1. /\ {"elf_header_unread", "elf_section_table_truncated", "elf_section_table_absent",
          "elf_sections_unread", "elf_section_data_unread", "elf_go_buildinfo_unread"} \subseteq Reasons
      /\ "strings_bytes_unread" \in Reasons \cap Quiet
  BY ReasonsAre DEF Quiet
<1>2. \A reason \in Reasons : Proper(Unparsed(object, reason))
  BY StringsOnlyAreProper DEF Unparsed
<1>3. Proper(StringsRead(object))
  <2> DEFINE pass == StringPass(object)
  <2>1. Proper(Found(OfKind(pass.got, {"strings", "packed"})))
    BY FoundIsProper, OfKindIsEvidence DEF Evidence, Kinds, Structural
  <2>2. Proper(IF pass.unread THEN ElfError("elf_section_data_unread") ELSE Nothing)
    BY <1>1, ElfErrorIsProper, NothingIsProper, Zenon
  <2>3. Proper(IF pass.cut THEN LostQuietly("strings_bytes_unread") ELSE Nothing)
    BY <1>1, QuietIsProper, NothingIsProper, Zenon
  <2> QED
    BY <2>1, <2>2, <2>3, TogetherIsProper DEF StringsRead
<1>4. Proper(CodeRead(object))
  <2>1. \A items : Proper(Found(OfKind(items, {"code"})))
    BY FoundIsProper, OfKindIsEvidence DEF Evidence
  <2> QED
    BY <2>1, Zenon DEF CodeRead
<1>5. Proper(GoBuildinfo(object))
  <2> DEFINE s(i) == object.sections[i]
             found(i) == IF s(i).raises THEN {} ELSE OfKind(Before(s(i), Kept(s(i), MaxStringsBytes)), {"buildinfo"})
  <2>1. \A i : OfEvidence(found(i))
    BY OfKindIsEvidence DEF Evidence, Kinds, Structural, OfEvidence
  <2>2. \A i : Proper(Both(Found(found(i)),
                           IF s(i).raises \/ OverBudget(s(i), MaxStringsBytes)
                           THEN ElfError("elf_go_buildinfo_unread") ELSE Nothing))
    BY <1>1, <2>1, FoundIsProper, ElfErrorIsProper, NothingIsProper, BothIsProper, Zenon
  <2> QED
    BY <2>2, TogetherIsProper DEF GoBuildinfo
<1>6. Proper(IF SectionsUnread(object) THEN ElfError("elf_sections_unread") ELSE Nothing)
  BY <1>1, ElfErrorIsProper, NothingIsProper, Zenon
<1>7. Proper(ReadSections(object))
  BY <1>3, <1>4, <1>5, <1>6, DynamicIsProper, DynsymIsProper, SymtabIsProper, TogetherIsProper
     DEF ReadSections
<1> QED
  BY <1>1, <1>2, <1>7, Zenon DEF ReadElf

----------------------------------------------------------------------------
(* Mach-O and PE.                                                          *)

LEMMA SlicesAreProper ==
  ASSUME NEW slice
  PROVE  Proper(Lists(slice)) /\ Proper(ReadSliceSymbols(slice))
<1>1. /\ {"macho_load_command_string_unread", "macho_load_command_walk_truncated",
          "macho_load_command_ambiguous", "symtab_understates_rows"} \subseteq Reasons
      /\ "macho_symtab_incomplete" \in Reasons \cap Quiet
  BY ReasonsAre DEF Quiet
<1>2. Proper(Found({Item("needed", n) : n \in NamesOf(slice, "needed")}
                   \cup {Item("rpath", n) : n \in NamesOf(slice, "rpath")}))
  <2>1. OfEvidence({Item("needed", n) : n \in NamesOf(slice, "needed")}
                   \cup {Item("rpath", n) : n \in NamesOf(slice, "rpath")})
    BY DEF OfEvidence, Item, Evidence, Kinds, Structural
  <2> QED
    BY <2>1, FoundIsProper
<1>3. Proper(Lists(slice))
  BY <1>1, <1>2, LostIsProper, NothingIsProper, BothIsProper, TogetherIsProper DEF Lists
<1>4. ASSUME NEW t
      PROVE  Proper(ReadTable(t))
  <2>1. OfEvidence(TableSymbols(t))
    BY DEF OfEvidence, TableSymbols, MachoSymbolOf, Item, Evidence, Kinds, Structural, Symbols
  <2>2. Proper(Reading({}, {"macho_symtab_incomplete", "symtab_understates_rows"}, TRUE))
    BY <1>1 DEF Proper, Agree, OfEvidence, Reading
  <2> QED
    BY <1>1, <2>1, <2>2, FoundIsProper, LostIsProper, QuietIsProper, NothingIsProper, BothIsProper, Zenon
       DEF ReadTable
<1>5. Proper(ReadSliceSymbols(slice))
  <2>1. Proper(LostQuietly("macho_symtab_incomplete"))
    BY <1>1, QuietIsProper
  <2>2. Proper(Together({ReadTable(t) : t \in SymtabOf(slice)}))
    BY <1>4, TogetherIsProper
  <2> QED
    BY <2>1, <2>2, Zenon DEF ReadSliceSymbols
<1> QED
  BY <1>3, <1>5

LEMMA MachoIsProper ==
  ASSUME NEW object
  PROVE  Proper(ReadMacho(object))
<1>1. {"macho_fat_slice_unread", "macho_header_unread"} \subseteq Reasons
  BY ReasonsAre
<1>2. Proper(Found({Item("soname", n) : n \in FirstSoname(object)}))
  BY FoundIsProper, ItemsAreEvidence DEF Evidence, Kinds, Structural
<1>3. Proper(ReadSlices(object))
  BY <1>1, <1>2, SlicesAreProper, WholeStringsAreProper, LostIsProper, NothingIsProper, TogetherIsProper
     DEF ReadSlices
<1>4. Proper([StringsOnly(object, object.strings, "macho_header_unread") EXCEPT !.erred = TRUE])
  BY <1>1, StringsOnlyAreProper
<1> QED
  BY <1>3, <1>4, Zenon DEF ReadMacho

LEMMA ImportsAreProper ==
  ASSUME NEW object
  PROVE  Proper(Imports(object))
<1>1. /\ "pe_import_incomplete" \in Reasons
      /\ {"pe_no_import_directory", "pe_ordinal_import"} \subseteq Reasons \cap Quiet
  BY ReasonsAre DEF Quiet
<1>2. \A d : Proper(LET walk == ReadImports(d) IN
                    Together({Found({Item("needed", n) : n \in walk.dlls}
                                    \cup {Item("imported", n) : n \in walk.names}),
                              IF walk.dlls = {} THEN LostQuietly("pe_no_import_directory") ELSE Nothing,
                              IF walk.complete THEN Nothing ELSE Lost("pe_import_incomplete"),
                              IF walk.unnamed THEN LostQuietly("pe_ordinal_import") ELSE Nothing}))
  <2> SUFFICES ASSUME NEW d
               PROVE  LET walk == ReadImports(d) IN
                      Proper(Together({Found({Item("needed", n) : n \in walk.dlls}
                                             \cup {Item("imported", n) : n \in walk.names}),
                              IF walk.dlls = {} THEN LostQuietly("pe_no_import_directory") ELSE Nothing,
                              IF walk.complete THEN Nothing ELSE Lost("pe_import_incomplete"),
                              IF walk.unnamed THEN LostQuietly("pe_ordinal_import") ELSE Nothing}))
    OBVIOUS
  <2> DEFINE walk == ReadImports(d)
             found == {Item("needed", n) : n \in walk.dlls} \cup {Item("imported", n) : n \in walk.names}
  <2>1. OfEvidence(found)
    BY DEF OfEvidence, Item, Evidence, Kinds, Structural, Symbols
  <2>2. /\ Proper(Found(found))
        /\ Proper(IF walk.dlls = {} THEN LostQuietly("pe_no_import_directory") ELSE Nothing)
        /\ Proper(IF walk.complete THEN Nothing ELSE Lost("pe_import_incomplete"))
        /\ Proper(IF walk.unnamed THEN LostQuietly("pe_ordinal_import") ELSE Nothing)
    BY <1>1, <2>1, FoundIsProper, LostIsProper, QuietIsProper, NothingIsProper
  <2> QED
    BY <2>2, TogetherIsProper
<1>3. Proper(Lost("pe_import_incomplete")) /\ Proper(LostQuietly("pe_no_import_directory"))
  BY <1>1, LostIsProper, QuietIsProper
<1> DEFINE readings == {IF d.raises THEN Lost("pe_import_incomplete")
                        ELSE LET walk == ReadImports(d) IN
                             Together({Found({Item("needed", n) : n \in walk.dlls}
                                             \cup {Item("imported", n) : n \in walk.names}),
                                       IF walk.dlls = {} THEN LostQuietly("pe_no_import_directory") ELSE Nothing,
                                       IF walk.complete THEN Nothing ELSE Lost("pe_import_incomplete"),
                                       IF walk.unnamed THEN LostQuietly("pe_ordinal_import") ELSE Nothing})
                        : d \in object.imports}
<1>4. \A r \in readings : Proper(r)
  BY <1>2, <1>3, Zenon
<1>5. Imports(object) = IF object.imports = {} THEN LostQuietly("pe_no_import_directory") ELSE Together(readings)
  BY Zenon DEF Imports
<1> HIDE DEF readings
<1> QED
  BY <1>3, <1>4, <1>5, TogetherIsProper

LEMMA ExportsAreProper ==
  ASSUME NEW object
  PROVE  Proper(Exports(object))
<1>1. /\ "pe_export_incomplete" \in Reasons
      /\ {"pe_ordinal_import", "pe_ordinal_export"} \subseteq Reasons \cap Quiet
  BY ReasonsAre DEF Quiet
<1>2. \A kind \in {"needed", "imported", "defined"} : \A n : Proper(Found({Item(kind, n)}))
  BY FoundIsProper DEF OfEvidence, Item, Evidence, Kinds, Structural, Symbols
<1>3. ASSUME NEW slot
      PROVE  Proper(SlotReading(slot))
  <2>1. Proper(ForwardReading(slot))
    BY <1>1, <1>2, LostIsProper, QuietIsProper, BothIsProper DEF ForwardReading
  <2> QED
    BY <1>1, <1>2, <2>1, LostIsProper, NothingIsProper, BothIsProper DEF SlotReading
<1>4. ASSUME NEW d
      PROVE  Proper(ReadExports(d))
  <2> DEFINE named == IF d.nameThere THEN Found({Item("soname", n) : n \in d.name}) ELSE Lost("pe_export_incomplete")
             unread == IF \E s \in d.slots : (s.named /\ ~s.there) \/ ~s.slotThere
                       THEN Lost("pe_export_incomplete") ELSE Nothing
             unnamedSlots == IF Unnamed(d) THEN LostQuietly("pe_ordinal_export") ELSE Nothing
  <2>1. Proper(Found({Item("soname", n) : n \in d.name}))
    BY FoundIsProper, ItemsAreEvidence DEF Evidence, Kinds, Structural
  <2>2. Proper(named) /\ Proper(unread) /\ Proper(unnamedSlots) /\ Proper(Lost("pe_export_incomplete"))
    BY <1>1, <2>1, LostIsProper, QuietIsProper, NothingIsProper, Zenon
  <2>3. ReadExports(d) =
          IF ~d.header THEN Lost("pe_export_incomplete")
          ELSE IF d.count > MaxExportNames THEN Both(named, Lost("pe_export_incomplete"))
          ELSE Together({named} \cup {SlotReading(s) : s \in NamedSlots(d)} \cup {unread, unnamedSlots})
    BY Zenon DEF ReadExports
  <2> HIDE DEF named, unread, unnamedSlots
  <2>4. Proper(Together({named} \cup {SlotReading(s) : s \in NamedSlots(d)} \cup {unread, unnamedSlots}))
    BY <1>3, <2>2, TogetherIsProper
  <2> QED
    BY <2>2, <2>3, <2>4, BothIsProper, Zenon
<1>5. Proper(Lost("pe_export_incomplete"))
  BY <1>1, LostIsProper
<1> QED
  BY <1>4, <1>5, TogetherIsProper DEF Exports

LEMMA PeIsProper ==
  ASSUME NEW object
  PROVE  Proper(ReadPe(object))
<1>1. /\ {"pe_header_unread", "pe_section_table_truncated"} \subseteq Reasons
      /\ "pe_delay_load" \in Reasons \cap Quiet
  BY ReasonsAre DEF Quiet
<1>2. Proper([StringsOnly(object, object.strings, "pe_header_unread") EXCEPT !.erred = TRUE])
  BY <1>1, StringsOnlyAreProper
<1>3. /\ Proper(IF object.whole THEN Nothing ELSE Lost("pe_section_table_truncated"))
      /\ Proper(IF object.delayed = {} THEN Nothing ELSE LostQuietly("pe_delay_load"))
  BY <1>1, LostIsProper, QuietIsProper, NothingIsProper, Zenon
<1> QED
  BY <1>2, <1>3, WholeStringsAreProper, ImportsAreProper, ExportsAreProper, TogetherIsProper DEF ReadPe

----------------------------------------------------------------------------
(* The read of a member.                                                   *)

LEMMA BinaryIsProper ==
  ASSUME NEW object
  PROVE  Proper(ReadBinary(object))
<1>1. Proper(StringsOnly(object, object.strings, "no_structural_reader"))
  BY StringsOnlyAreProper, ReasonsAre DEF Quiet
<1> QED
  BY <1>1, ElfIsProper, MachoIsProper, PeIsProper DEF ReadBinary

\* The place of one of some positions among them.
Place(T, i) == Cardinality({k \in T : k <= i})

\* A position past those there are takes the next place, and moves none.
LEMMA PlaceOfNext ==
  ASSUME NEW n \in Nat \ {0}, NEW T \in SUBSET (1..(n - 1))
  PROVE  /\ IsFiniteSet(T) /\ Cardinality(T) \in Nat
         /\ Cardinality(T \cup {n}) = Cardinality(T) + 1
         /\ Place(T \cup {n}, n) = Cardinality(T) + 1
         /\ \A i \in T : Place(T \cup {n}, i) = Place(T, i) /\ Place(T, i) \in 1..Cardinality(T)
<1>1. IsFiniteSet(1..(n - 1))
  BY FS_Interval
<1>2. IsFiniteSet(T) /\ Cardinality(T) \in Nat
  BY <1>1, FS_Subset, FS_CardinalityType
<1>3. n \notin T
  OBVIOUS
<1>4. Cardinality(T \cup {n}) = Cardinality(T) + 1
  BY <1>2, <1>3, FS_AddElement
<1>5. {k \in T \cup {n} : k <= n} = T \cup {n}
  <2>1. \A k \in T \cup {n} : k <= n
    OBVIOUS
  <2> QED
    BY <2>1
<1>6. ASSUME NEW i \in T
      PROVE  Place(T \cup {n}, i) = Place(T, i) /\ Place(T, i) \in 1..Cardinality(T)
  <2> DEFINE P == {k \in T : k <= i}
  <2>1. {k \in T \cup {n} : k <= i} = P
    OBVIOUS
  <2>2. P \subseteq T /\ i \in P
    OBVIOUS
  <2>3. IsFiniteSet(P) /\ Cardinality(P) \in Nat /\ Cardinality(P) <= Cardinality(T)
    BY <1>2, <2>2, FS_Subset, FS_CardinalityType
  <2>4. Cardinality(P) # 0
    BY <2>2, <2>3, FS_EmptySet
  <2> QED
    BY <1>2, <2>1, <2>3, <2>4 DEF Place
<1> QED
  BY <1>2, <1>4, <1>5, <1>6 DEF Place

LEMMA SequencesAre ==
  ASSUME NEW s, IsSequence(s)
  PROVE  s \in Seq(Range(s)) /\ DOMAIN s = 1..Len(s) /\ Len(s) \in Nat
<1>1. Len(s) \in Nat /\ s = [i \in 1..Len(s) |-> s[i]]
  BY DEF IsSequence
<1>2. DOMAIN s = 1..Len(s) /\ \A i \in 1..Len(s) : s[i] \in Range(s)
  BY <1>1 DEF Range
<1> QED
  BY <1>1, <1>2

\* The file is one of those there are; of an archive, members and names are sequences.
FileInv == \E i \in DOMAIN Files : file \in Files[i]

LEMMA ArchivesAre ==
  ASSUME FileInv, IsArchive
  PROVE  /\ Len(file.members) \in Nat /\ DOMAIN file.members = 1..Len(file.members)
         /\ \A k \in DOMAIN file.members : IsSequence(file.members[k].name)
<1>1. IsSequence(file.members) /\ \A k \in DOMAIN file.members : IsSequence(file.members[k].name)
  BY FilesAssumption, Zenon DEF FileInv, IsArchive
<1>2. Len(file.members) \in Nat /\ DOMAIN file.members = 1..Len(file.members)
  BY <1>1, SequencesAre
<1> QED
  BY <1>1, <1>2

\* What a member may go by, and the path it has as the so many-th of its name.
BaseNames ==
  IF IsArchive THEN {file.members[k].name : k \in DOMAIN file.members} \cup {<<"member@", k>> : k \in DOMAIN file.members}
  ELSE {}
Numbered(name, count) == IF count = 1 THEN name ELSE name \o <<"#", count>>
Finds ==
  IF IsArchive THEN [path : {Numbered(name, count) : name \in BaseNames, count \in Nat},
                     object : {file.members[k].object : k \in DOMAIN file.members}]
  ELSE {}

\* The walk: where it is, and the members it took, in order.
WalkInv ==
  /\ at \in 1..(IF IsArchive THEN Len(file.members) + 1 ELSE 1)
  /\ stopped \in {"no", "table", "cap"} /\ unnamed \in BOOLEAN
  /\ real \in Seq(Finds) /\ Len(real) <= MaxMembers
  /\ stopped = "cap" => real # <<>>
  /\ IsArchive => /\ Len(real) = Cardinality(Taken)
                  /\ \A i \in Taken : real[Place(Taken, i)].object = file.members[i].object

\* The names used, and the paths made of them.
NamesInv ==
  /\ DOMAIN seen \subseteq BaseNames
  /\ \A name \in DOMAIN seen : seen[name] \in 1..Len(real)
  /\ \A j \in DOMAIN real : \E name \in DOMAIN seen : \E count \in 1..seen[name] :
       real[j].path = Numbered(name, count)

\* The records: of the file, or of the members in order, once they are all known.
RecordsInv ==
  /\ errors \subseteq {"table", "cap", "name"}
  /\ ~IsArchive => records \in {<<>>, <<Record(Own, ReadBinary(file))>>}
  /\ IsArchive /\ real = <<>> =>
       records \in {<<>>, <<Record(Own, StringsOnly(file, file.strings, "ar_member_table_unread"))>>}
  /\ IsArchive /\ real # <<>> =>
       \E n \in 0..Len(real) : records = [k \in 1..n |-> Record(real[k].path, ReadBinary(real[k].object))]
  /\ IsArchive /\ records # <<>> => Walked /\ (stopped # "no" => {"table", "cap"} \cap errors # {})

ReadInv == FileInv /\ WalkInv /\ NamesInv /\ RecordsInv

LEMMA InitReadInv == Init => ReadInv
<1> SUFFICES ASSUME Init
             PROVE  ReadInv
  OBVIOUS
<1> USE DEF Init
<1>1. FileInv
  BY DEF FileInv
<1>2. IsArchive => Len(file.members) \in Nat
  BY <1>1, ArchivesAre
<1>3. IsArchive => Taken = {}
  BY <1>1, <1>2, ArchivesAre DEF Taken
<1>4. WalkInv
  <2>1. real \in Seq(Finds) /\ Len(real) = 0
    OBVIOUS
  <2>2. at \in 1..(IF IsArchive THEN Len(file.members) + 1 ELSE 1)
    BY <1>2
  <2>3. Cardinality({}) = 0
    BY FS_EmptySet
  <2>4. Len(real) <= MaxMembers
    BY <2>1, MembersAssumption
  <2>5. IsArchive => /\ Len(real) = Cardinality(Taken)
                     /\ \A i \in Taken : real[Place(Taken, i)].object = file.members[i].object
    BY <1>3, <2>1, <2>3
  <2>6. stopped = "no" /\ unnamed = FALSE
    OBVIOUS
  <2> QED
    BY <2>1, <2>2, <2>4, <2>5, <2>6 DEF WalkInv
<1>5. NamesInv
  BY DEF NamesInv
<1>6. RecordsInv
  BY DEF RecordsInv
<1> QED
  BY <1>1, <1>4, <1>5, <1>6 DEF ReadInv

\* What is before the next header is what was before this one, and this one if
\* it is a member.
LEMMA TakenNext ==
  ASSUME FileInv, IsArchive, at \in 1..Len(file.members), UNCHANGED file, at' = at + 1
  PROVE  /\ Taken \in SUBSET (1..(at - 1))
         /\ Taken' = IF IsMember(Header) THEN Taken \cup {at} ELSE Taken
<1>1. Len(file.members) \in Nat /\ DOMAIN file.members = 1..Len(file.members)
  BY ArchivesAre
<1>2. Taken' = {i \in DOMAIN file.members : i < at + 1 /\ IsMember(file.members[i])}
  BY DEF Taken
<1>3. Taken \in SUBSET (1..(at - 1))
  BY <1>1 DEF Taken
<1> QED
  BY <1>1, <1>2, <1>3 DEF Taken, Header

LEMMA TakenSame ==
  ASSUME UNCHANGED <<file, at>>
  PROVE  Taken' = Taken
  BY DEF Taken, IsMember, IsPseudo

LEMMA StillFile ==
  ASSUME UNCHANGED file
  PROVE  /\ IsArchive' <=> IsArchive
         /\ BaseNames' = BaseNames /\ Finds' = Finds /\ FileInv' = FileInv
<1>1. IsArchive' <=> IsArchive
  BY DEF IsArchive
<1>2. BaseNames' = BaseNames
  BY <1>1 DEF BaseNames
<1>3. Finds' = Finds
  BY <1>1, <1>2 DEF Finds, Numbered
<1> QED
  BY <1>1, <1>2, <1>3 DEF FileInv

\* No step of the walk meets a record.
LEMMA NoRecordYet ==
  ASSUME ReadInv, Walking, errors' = errors, records' = records, file' = file, real' \in Seq(Finds)
  PROVE  records = <<>> /\ RecordsInv'
<1>1. records = <<>> /\ errors \subseteq {"table", "cap", "name"} /\ IsArchive /\ IsArchive'
  BY StillFile DEF ReadInv, RecordsInv, WalkInv, Walking, Walked
<1>2. 0 \in 0..Len(real')
  OBVIOUS
<1> QED
  BY <1>1, <1>2 DEF RecordsInv

\* A step that takes no member leaves the names and the paths.
LEMMA NamesStand ==
  ASSUME NamesInv, UNCHANGED <<file, seen, real>>
  PROVE  NamesInv'
  BY StillFile DEF NamesInv, Numbered

LEMMA StopWalkReads == ReadInv /\ StopWalk => ReadInv'
<1> SUFFICES ASSUME ReadInv, StopWalk
             PROVE  ReadInv'
  OBVIOUS
<1>1. WalkInv /\ UNCHANGED <<file, at, seen, real, unnamed, records, errors>> /\ stopped' = "table"
  BY DEF ReadInv, StopWalk
<1>2. WalkInv'
  BY <1>1, StillFile, TakenSame DEF WalkInv, Place
<1>3. RecordsInv'
  BY <1>1, NoRecordYet DEF StopWalk, WalkInv
<1> QED
  BY <1>1, <1>2, <1>3, StillFile, NamesStand DEF ReadInv

LEMMA PassingReads == ReadInv /\ (TakeNames \/ PassIndex) => ReadInv'
<1> SUFFICES ASSUME ReadInv, TakeNames \/ PassIndex
             PROVE  ReadInv'
  OBVIOUS
<1>1. /\ Walking /\ ~IsMember(Header) /\ at' = at + 1
      /\ UNCHANGED <<file, seen, real, stopped, unnamed, records, errors>>
  BY DEF TakeNames, PassIndex, IsMember
<1>2. IsArchive /\ at \in 1..Len(file.members) /\ FileInv /\ Len(file.members) \in Nat
  BY <1>1, ArchivesAre DEF ReadInv, WalkInv, Walking
<1>3. Taken' = Taken
  BY <1>1, <1>2, TakenNext
<1>4. WalkInv'
  BY <1>1, <1>2, <1>3, StillFile DEF ReadInv, WalkInv, Place
<1>5. RecordsInv'
  BY <1>1, NoRecordYet DEF ReadInv, WalkInv
<1> QED
  BY <1>1, <1>4, <1>5, StillFile, NamesStand DEF ReadInv

LEMMA StopAtCapReads == ReadInv /\ StopAtCap => ReadInv'
<1> SUFFICES ASSUME ReadInv, StopAtCap
             PROVE  ReadInv'
  OBVIOUS
<1>1. /\ WalkInv /\ Walking /\ UNCHANGED <<file, at, seen, real, unnamed, records, errors>>
      /\ stopped' = "cap" /\ Len(real) >= MaxMembers
  BY DEF ReadInv, StopAtCap, IsReal
<1>2. real # <<>>
  BY <1>1, MembersAssumption
<1>3. WalkInv'
  BY <1>1, <1>2, StillFile, TakenSame DEF WalkInv, Place
<1>4. RecordsInv'
  BY <1>1, NoRecordYet DEF WalkInv
<1> QED
  BY <1>1, <1>3, <1>4, StillFile, NamesStand DEF ReadInv

LEMMA TakeMemberReads == ReadInv /\ TakeMember => ReadInv'
<1> SUFFICES ASSUME ReadInv, TakeMember
             PROVE  ReadInv'
  OBVIOUS
<1> DEFINE name == NameOf(Header)
           found == [path |-> Dedupe(name), object |-> Header.object]
<1>1. /\ Walking /\ IsMember(Header) /\ Len(real) < MaxMembers /\ at' = at + 1
      /\ real' = Append(real, found) /\ seen' = UseOf(name)
      /\ unnamed' \in BOOLEAN /\ UNCHANGED <<file, stopped, records, errors>>
  BY DEF TakeMember, IsReal, ReadInv, WalkInv
<1>2. IsArchive /\ at \in 1..Len(file.members) /\ FileInv /\ stopped = "no"
  BY <1>1, ArchivesAre DEF ReadInv, WalkInv, Walking
<1>3. Len(file.members) \in Nat /\ DOMAIN file.members = 1..Len(file.members)
  BY <1>2, ArchivesAre
<1>4. name \in BaseNames /\ Header.object \in {file.members[k].object : k \in DOMAIN file.members}
  BY <1>2, <1>3 DEF NameOf, BaseNames, Header
<1>5. /\ Used(name) \in Nat /\ DOMAIN seen \subseteq BaseNames
      /\ \A n \in DOMAIN seen : seen[n] \in 1..Len(real)
      /\ Used(name) <= Len(real) /\ real \in Seq(Finds)
  BY DEF Used, ReadInv, NamesInv, WalkInv
<1> HIDE DEF name
<1>6. Dedupe(name) = Numbered(name, Used(name) + 1)
  BY <1>5 DEF Dedupe, Numbered
<1>7. found \in Finds
  BY <1>2, <1>4, <1>5, <1>6 DEF Finds
<1> HIDE DEF found
<1>8. /\ real' \in Seq(Finds) /\ Len(real') = Len(real) + 1 /\ DOMAIN real = 1..Len(real)
      /\ DOMAIN real' = 1..(Len(real) + 1)
      /\ real'[Len(real) + 1] = found /\ \A j \in 1..Len(real) : real'[j] = real[j]
  BY <1>1, <1>5, <1>7
<1>9. WalkInv'
  <2>1. Taken \in SUBSET (1..(at - 1)) /\ Taken' = Taken \cup {at}
    BY <1>1, <1>2, TakenNext
  <2>2. /\ Len(real) = Cardinality(Taken)
        /\ \A i \in Taken : real[Place(Taken, i)].object = file.members[i].object
    BY <1>2 DEF ReadInv, WalkInv
  <2>3. /\ Cardinality(Taken') = Cardinality(Taken) + 1 /\ Cardinality(Taken) \in Nat
        /\ Place(Taken', at) = Cardinality(Taken) + 1
        /\ \A i \in Taken : Place(Taken', i) = Place(Taken, i) /\ Place(Taken, i) \in 1..Cardinality(Taken)
    <3>1. at \in Nat \ {0}
      BY <1>2, <1>3
    <3> QED
      BY <2>1, <3>1, PlaceOfNext
  <2>4. found.object = file.members[at].object
    BY DEF found, Header
  <2>5. \A i \in Taken' : real'[Place(Taken', i)].object = file.members[i].object
    BY <1>8, <2>1, <2>2, <2>3, <2>4
  <2>6. Place(Taken, at)' = Place(Taken', at') /\ \A i : Place(Taken, i)' = Place(Taken', i)
    BY DEF Place
  <2>7. at' \in 1..(Len(file.members) + 1) /\ Len(real') <= MaxMembers /\ real' # <<>>
    BY <1>1, <1>2, <1>3, <1>5, <1>8, MembersAssumption
  <2> QED
    BY <1>1, <1>2, <1>8, <2>2, <2>3, <2>5, <2>6, <2>7, StillFile DEF WalkInv
<1>10. NamesInv'
  <2>a. seen' = [n \in DOMAIN seen \cup {name} |-> IF n = name THEN Used(name) + 1 ELSE seen[n]]
    BY <1>1, Zenon DEF UseOf
  <2>b. name \in DOMAIN seen => Used(name) = seen[name]
    BY DEF Used
  <2>1. /\ DOMAIN seen' = DOMAIN seen \cup {name} /\ seen'[name] = Used(name) + 1
        /\ \A n \in DOMAIN seen : seen'[n] = IF n = name THEN seen[n] + 1 ELSE seen[n]
    BY <2>a, <2>b
  <2>2. \A n \in DOMAIN seen' : seen'[n] \in 1..Len(real')
    BY <1>5, <1>8, <2>1
  <2>3. \E n \in DOMAIN seen' : \E count \in 1..seen'[n] : found.path = Numbered(n, count)
    BY <1>5, <1>6, <2>1 DEF found
  <2>4. ASSUME NEW j \in DOMAIN real
        PROVE  \E n \in DOMAIN seen' : \E count \in 1..seen'[n] : real[j].path = Numbered(n, count)
    <3>1. PICK n \in DOMAIN seen : \E count \in 1..seen[n] : real[j].path = Numbered(n, count)
      BY DEF ReadInv, NamesInv
    <3>2. n \in DOMAIN seen' /\ \A count \in 1..seen[n] : count \in 1..seen'[n]
      BY <1>5, <2>1
    <3> QED
      BY <3>1, <3>2
  <2>5. \A j \in DOMAIN real' : \E n \in DOMAIN seen' : \E count \in 1..seen'[n] : real'[j].path = Numbered(n, count)
    BY <1>8, <2>3, <2>4
  <2>6. DOMAIN seen' \subseteq BaseNames'
    BY <1>1, <1>4, <1>5, <2>1, StillFile
  <2> QED
    BY <2>2, <2>5, <2>6 DEF NamesInv, Numbered
<1>11. RecordsInv'
  BY <1>1, <1>8, NoRecordYet
<1> QED
  BY <1>1, <1>9, <1>10, <1>11, StillFile DEF ReadInv

LEMMA ReadObjectReads == ReadInv /\ ReadObject => ReadInv'
<1> SUFFICES ASSUME ReadInv, ReadObject
             PROVE  ReadInv'
  OBVIOUS
<1>1. ~IsArchive /\ records' = <<Record(Own, ReadBinary(file))>>
      /\ UNCHANGED <<file, at, seen, real, stopped, unnamed, errors>>
  BY DEF ReadObject
<1>2. WalkInv'
  BY <1>1, StillFile, TakenSame DEF ReadInv, WalkInv, Place
<1>3. records' = <<Record(Own, ReadBinary(file))>>'
  BY <1>1
<1>4. RecordsInv'
  BY <1>1, <1>3, StillFile DEF ReadInv, RecordsInv
<1> QED
  BY <1>1, <1>2, <1>4, StillFile, NamesStand DEF ReadInv

LEMMA ReadNoMemberReads == ReadInv /\ ReadNoMember => ReadInv'
<1> SUFFICES ASSUME ReadInv, ReadNoMember
             PROVE  ReadInv'
  OBVIOUS
<1> DEFINE strings == Record(Own, StringsOnly(file, file.strings, "ar_member_table_unread"))
<1>1. /\ Walked /\ IsArchive /\ real = <<>> /\ records' = <<strings>> /\ errors' = {"table"} \cap {stopped}
      /\ UNCHANGED <<file, at, seen, real, stopped, unnamed>>
  BY DEF ReadNoMember, Walked
<1>2. WalkInv'
  BY <1>1, StillFile, TakenSame DEF ReadInv, WalkInv, Place
<1>3. records' = <<strings>>'
  BY <1>1
<1>4. Walked'
  BY <1>1, StillFile DEF Walked
<1>5. stopped # "no" => stopped = "table"
  BY <1>1 DEF ReadInv, WalkInv
<1>6. errors' \subseteq {"table", "cap", "name"} /\ (stopped # "no" => {"table", "cap"} \cap errors' # {})
  BY <1>1, <1>5
<1> HIDE DEF strings
<1>7. RecordsInv'
  BY <1>1, <1>3, <1>4, <1>6, StillFile DEF RecordsInv, strings
<1> QED
  BY <1>1, <1>2, <1>7, StillFile, NamesStand DEF ReadInv

\* The records of the first so many members, and of one more.
LEMMA OneMoreRecord ==
  ASSUME NEW finds, NEW all, finds \in Seq(all), NEW n \in 0..Len(finds), n < Len(finds)
  PROVE  LET read(k) == [i \in 1..k |-> Record(finds[i].path, ReadBinary(finds[i].object))] IN
         Len(read(n)) = n
         /\ Append(read(n), Record(finds[n + 1].path, ReadBinary(finds[n + 1].object))) = read(n + 1)
<1> DEFINE r(i) == Record(finds[i].path, ReadBinary(finds[i].object))
           read(k) == [i \in 1..k |-> r(i)]
<1> HIDE DEF r
<1>1. read(n) \in Seq({r(i) : i \in 1..Len(finds)}) /\ Len(read(n)) = n
  OBVIOUS
<1> DEFINE S == {r(i) : i \in 1..Len(finds)}
           more == Append(read(n), r(n + 1))
<1>2. r(n + 1) \in S /\ read(n) \in Seq(S) /\ \A i \in 1..n : read(n)[i] = r(i)
  BY <1>1
<1> HIDE DEF read, S
<1>3. more \in Seq(S) /\ Len(more) = n + 1 /\ \A i \in 1..(n + 1) : more[i] = r(i)
  BY <1>1, <1>2
<1>4. more = [i \in 1..(n + 1) |-> r(i)]
  BY <1>3
<1> USE DEF read
<1> QED
  BY <1>1, <1>4 DEF r

LEMMA ReadMemberReads == ReadInv /\ ReadMember => ReadInv'
<1> SUFFICES ASSUME ReadInv, ReadMember
             PROVE  ReadInv'
  OBVIOUS
<1> DEFINE r(i) == Record(real[i].path, ReadBinary(real[i].object))
<1>1. /\ Walked /\ IsArchive /\ Len(records) < Len(real)
      /\ records' = Append(records, r(Len(records) + 1))
      /\ errors' = ({stopped} \ {"no"}) \cup (IF unnamed THEN {"name"} ELSE {})
      /\ UNCHANGED <<file, at, seen, real, stopped, unnamed>>
  BY DEF ReadMember, Walked
<1>2. real \in Seq(Finds) /\ stopped \in {"no", "table", "cap"} /\ real # <<>>
  <2>1. real \in Seq(Finds) /\ stopped \in {"no", "table", "cap"}
    BY DEF ReadInv, WalkInv
  <2>2. real = <<>> => Len(records) \in {0, 1}
    BY <1>1 DEF ReadInv, RecordsInv
  <2> QED
    BY <1>1, <2>1, <2>2
<1>3. PICK n \in 0..Len(real) : records = [k \in 1..n |-> r(k)]
  BY <1>1, <1>2 DEF ReadInv, RecordsInv
<1>4. Len(records) = n
  BY <1>2, <1>3
<1>5. records' = [k \in 1..(n + 1) |-> r(k)] /\ n + 1 \in 0..Len(real)
  BY <1>1, <1>2, <1>3, <1>4, OneMoreRecord
<1>6. WalkInv'
  BY <1>1, StillFile, TakenSame DEF ReadInv, WalkInv, Place
<1>7. Walked'
  BY <1>1, StillFile DEF Walked
<1>8. errors' \subseteq {"table", "cap", "name"} /\ (stopped # "no" => {"table", "cap"} \cap errors' # {})
  BY <1>1, <1>2
<1>9. \E k \in 0..Len(real') : records' = [i \in 1..k |-> Record(real'[i].path, ReadBinary(real'[i].object))]
  BY <1>1, <1>5
<1>10. RecordsInv'
  BY <1>1, <1>2, <1>7, <1>8, <1>9, StillFile DEF RecordsInv
<1> QED
  BY <1>1, <1>6, <1>10, StillFile, NamesStand DEF ReadInv

LEMMA StillReads == ReadInv /\ UNCHANGED vars => ReadInv'
<1> SUFFICES ASSUME ReadInv, UNCHANGED vars
             PROVE  ReadInv'
  OBVIOUS
<1>1. UNCHANGED <<file, at, seen, real, stopped, unnamed, records, errors>>
  BY DEF vars
<1>2. WalkInv'
  BY <1>1, StillFile, TakenSame DEF ReadInv, WalkInv, Place
<1>3. RecordsInv'
  BY <1>1, StillFile DEF ReadInv, RecordsInv, Walked
<1> QED
  BY <1>1, <1>2, <1>3, StillFile, NamesStand DEF ReadInv

LEMMA ReadInvHolds == Spec => []ReadInv
<1>1. Init => ReadInv
  BY InitReadInv
<1>2. ReadInv /\ [Next]_vars => ReadInv'
  BY ReadObjectReads, StopWalkReads, PassingReads, TakeMemberReads, StopAtCapReads, ReadNoMemberReads,
     ReadMemberReads, StillReads, Zenon DEF Next
<1> QED
  BY <1>1, <1>2, PTL DEF Spec

\* What every record is: of the file, of the members in order, or of the strings
\* of an archive that has none.
LEMMA RecordsAre ==
  ASSUME ReadInv, NEW i \in DOMAIN records
  PROVE  \/ records[i].reading = ReadBinary(ObjectOf(i))
         \/ /\ IsArchive /\ real = <<>>
            /\ records[i].reading = StringsOnly(file, file.strings, "ar_member_table_unread")
<1> DEFINE whole == ReadBinary(file)
           strings == StringsOnly(file, file.strings, "ar_member_table_unread")
           r(k) == Record(real[k].path, ReadBinary(real[k].object))
<1>1. CASE ~IsArchive
  <2>1. records[i] = Record(Own, whole) /\ real = <<>>
    <3>1. records = <<Record(Own, whole)>>
      BY <1>1 DEF ReadInv, RecordsInv
    <3>2. real \in Seq({})
      BY <1>1 DEF ReadInv, WalkInv, Finds
    <3> QED
      BY <3>1, <3>2
  <2> QED
    BY <2>1 DEF Record, ObjectOf
<1>2. CASE IsArchive /\ real = <<>>
  <2>1. records = <<Record(Own, strings)>>
    BY <1>2 DEF ReadInv, RecordsInv
  <2>2. records[i] = Record(Own, strings)
    BY <2>1
  <2> QED
    BY <1>2, <2>2 DEF Record
<1>3. CASE IsArchive /\ real # <<>>
  <2>1. \E n \in 0..Len(real) : records = [k \in 1..n |-> r(k)]
    BY <1>3 DEF ReadInv, RecordsInv
  <2>2. records[i] = r(i)
    BY <2>1
  <2> QED
    BY <1>3, <2>2 DEF Record, ObjectOf
<1> QED
  BY <1>1, <1>2, <1>3

LEMMA RecordsAreProper ==
  ASSUME ReadInv, NEW i \in DOMAIN records
  PROVE  Proper(records[i].reading)
<1>1. Proper(StringsOnly(file, file.strings, "ar_member_table_unread"))
  BY StringsOnlyAreProper, ReasonsAre DEF Quiet
<1> QED
  BY <1>1, RecordsAre, BinaryIsProper

\* Every variable keeps its type, whatever the file: reasons are of those
\* evidence.py names, evidence is of a kind, and an archive's members are no
\* more than the cap (read_ar_members, _MAX_MEMBERS).
THEOREM TypeCorrect == Spec => []TypeOK
<1>1. ReadInv => TypeOK
  <2> SUFFICES ASSUME ReadInv
               PROVE  TypeOK
    OBVIOUS
  <2>1. \A i \in DOMAIN records : /\ records[i].reading.why \subseteq Reasons
                                  /\ \A item \in records[i].reading.got : item.kind \in Kinds \cup {"code"}
    BY RecordsAreProper DEF Proper, OfEvidence, Evidence
  <2> QED
    BY <2>1 DEF ReadInv, WalkInv, NamesInv, RecordsInv, TypeOK
<1> QED
  BY <1>1, ReadInvHolds, PTL

\* However a file is damaged, cut or hidden, an error never stands without a
\* reason, nor a reason without an error but for the routine ones (record.py,
\* the comments on each PARTIAL_ constant).
THEOREM ErrorsAgree == Spec => []ErrorsAndReasonsAgree
<1>1. ReadInv => ErrorsAndReasonsAgree
  BY RecordsAreProper DEF Proper, ErrorsAndReasonsAgree
<1> QED
  BY <1>1, ReadInvHolds, PTL

\* Every object of an archive is read, in order and once each, or an error says
\* that the walk stopped before it (read_ar_members).
THEOREM NoObjectLost == Spec => []NoObjectIsLost
<1>1. ReadInv => NoObjectIsLost
  <2> SUFFICES ASSUME ReadInv, Read, IsArchive
               PROVE  /\ \/ {"table", "cap"} \cap errors # {}
                         \/ \A i \in DOMAIN file.members : file.members[i].role = "object" => i \in Taken
                      /\ Taken # {} => Len(records) = Cardinality(Taken)
                      /\ \A i \in Taken : records[Place(Taken, i)].reading = ReadBinary(file.members[i].object)
    BY Zenon DEF NoObjectIsLost, Place
  <2> DEFINE r(k) == Record(real[k].path, ReadBinary(real[k].object))
  <2>1. /\ FileInv /\ WalkInv /\ RecordsInv /\ records # <<>> /\ Len(records) >= Len(real)
        /\ Walked /\ (stopped # "no" => {"table", "cap"} \cap errors # {})
    BY DEF ReadInv, Read, RecordsInv
  <2>2. Len(file.members) \in Nat /\ DOMAIN file.members = 1..Len(file.members)
    BY <2>1, ArchivesAre
  <2>3. /\ at \in 1..(Len(file.members) + 1) /\ real \in Seq(Finds) /\ Len(real) = Cardinality(Taken)
        /\ \A i \in Taken : real[Place(Taken, i)].object = file.members[i].object
    BY <2>1 DEF WalkInv
  <2>4. ASSUME stopped = "no", NEW i \in DOMAIN file.members, file.members[i].role = "object"
        PROVE  i \in Taken
    <3>1. at > Len(file.members)
      BY <2>1, <2>4 DEF Walked
    <3> QED
      BY <2>2, <2>3, <2>4, <3>1 DEF Taken, IsMember, IsPseudo
  <2>5. ASSUME NEW i \in Taken
        PROVE  /\ Place(Taken, i) \in 1..Len(real) /\ Len(records) = Len(real)
               /\ records[Place(Taken, i)].reading = ReadBinary(file.members[i].object)
    <3>1. Taken \in SUBSET (1..(at - 1)) /\ at \in Nat \ {0}
      BY <2>2, <2>3 DEF Taken
    <3>2. Place(Taken, i) \in 1..Len(real)
      BY <2>3, <3>1, PlaceOfNext
    <3>3. \E n \in 0..Len(real) : records = [k \in 1..n |-> r(k)]
      BY <2>1, <2>3, <3>2 DEF RecordsInv
    <3>4. records = [k \in 1..Len(real) |-> r(k)]
      BY <2>1, <2>3, <3>3
    <3>5. records[Place(Taken, i)] = r(Place(Taken, i)) /\ Len(records) = Len(real)
      BY <2>3, <3>2, <3>4
    <3> QED
      BY <2>3, <3>2, <3>5 DEF Record
  <2> QED
    BY <2>1, <2>3, <2>4, <2>5
<1> QED
  BY <1>1, ReadInvHolds, PTL

\* Names that are not spelled like a numbered one.
Plainly == IsArchive => \A i \in DOMAIN file.members : ~IsNumbered(file.members[i].name)

\* Different members then have different paths.
PathsInv == Plainly => \A i, j \in DOMAIN real : real[i].path = real[j].path => i = j

\* A numbered name is told from every other, and from those without a number.
LEMMA NumbersAreTold ==
  ASSUME FileInv, Plainly, IsArchive, NEW n \in BaseNames, NEW m \in BaseNames,
         NEW c \in Nat, NEW d \in Nat, Numbered(n, c) = Numbered(m, d)
  PROVE  n = m /\ c = d
<1>1. \A x \in BaseNames : x \in Seq(Range(x)) /\ ~IsNumbered(x)
  <2> SUFFICES ASSUME NEW x \in BaseNames
               PROVE  x \in Seq(Range(x)) /\ ~IsNumbered(x)
    OBVIOUS
  <2>1. CASE \E k \in DOMAIN file.members : x = file.members[k].name
    BY <2>1, ArchivesAre, SequencesAre DEF Plainly
  <2>2. CASE \E k \in DOMAIN file.members : x = <<"member@", k>>
    <3>1. PICK k \in DOMAIN file.members : x = <<"member@", k>>
      BY <2>2
    <3>2. DOMAIN x = {1, 2} /\ x[1] = "member@" /\ x[2] = k /\ Len(x) = 2
      BY <3>1
    <3>3. Range(x) = {"member@", k}
      BY <3>2 DEF Range
    <3>4. x \in Seq({"member@", k})
      BY <3>1
    <3>5. ~IsNumbered(x)
      BY <3>2 DEF IsNumbered
    <3> QED
      BY <3>3, <3>4, <3>5
  <2> QED
    BY <2>1, <2>2 DEF BaseNames
<1> DEFINE S == Range(n) \cup Range(m) \cup {"#", c, d}
           nc == n \o <<"#", c>>
           md == m \o <<"#", d>>
<1>2. /\ n \in Seq(S) /\ m \in Seq(S) /\ <<"#", c>> \in Seq(S) /\ <<"#", d>> \in Seq(S)
      /\ Len(n) \in Nat /\ Len(m) \in Nat
  BY <1>1
<1> HIDE DEF S
<1>3. /\ Len(nc) = Len(n) + 2 /\ \A i \in 1..Len(n) : nc[i] = n[i]
      /\ nc[Len(n) + 1] = "#" /\ nc[Len(n) + 2] = c
  BY <1>2
<1>4. /\ Len(md) = Len(m) + 2 /\ \A i \in 1..Len(m) : md[i] = m[i]
      /\ md[Len(m) + 1] = "#" /\ md[Len(m) + 2] = d
  BY <1>2
<1> HIDE DEF nc, md
<1>5. IsNumbered(nc) /\ IsNumbered(md)
  <2>1. Len(nc) >= 2 /\ Len(nc) - 1 = Len(n) + 1 /\ Len(md) >= 2 /\ Len(md) - 1 = Len(m) + 1
    BY <1>2, <1>3, <1>4
  <2> QED
    BY <1>3, <1>4, <2>1 DEF IsNumbered
<1>6. Numbered(n, c) = (IF c = 1 THEN n ELSE nc) /\ Numbered(m, d) = (IF d = 1 THEN m ELSE md)
  BY DEF Numbered, nc, md
<1>7. CASE c = 1 \/ d = 1
  <2>1. c = 1 /\ d = 1
    BY <1>1, <1>5, <1>6, <1>7
  <2> QED
    BY <1>6, <2>1
<1>8. CASE c # 1 /\ d # 1
  <2>1. nc = md
    BY <1>6, <1>8
  <2>2. Len(n) = Len(m) /\ c = d
    BY <1>2, <1>3, <1>4, <2>1
  <2>3. \A i \in 1..Len(n) : n[i] = m[i]
    BY <1>3, <1>4, <2>1, <2>2
  <2> QED
    BY <1>2, <2>2, <2>3
<1> QED
  BY <1>7, <1>8

\* A member that is taken makes a path that no member before it has.
LEMMA TakeMemberPaths == ReadInv /\ PathsInv /\ TakeMember => PathsInv'
<1> SUFFICES ASSUME ReadInv, PathsInv, TakeMember
             PROVE  PathsInv'
  OBVIOUS
<1> DEFINE name == NameOf(Header)
           found == [path |-> Dedupe(name), object |-> Header.object]
<1>1. Walking /\ file' = file /\ real' = Append(real, found)
  BY DEF TakeMember, IsReal
<1>2. IsArchive /\ at \in 1..Len(file.members) /\ FileInv /\ real \in Seq(Finds)
  BY <1>1, ArchivesAre DEF ReadInv, WalkInv, Walking
<1>3. Len(file.members) \in Nat /\ DOMAIN file.members = 1..Len(file.members)
  BY <1>2, ArchivesAre
<1>4. name \in BaseNames /\ Header.object \in {file.members[k].object : k \in DOMAIN file.members}
  BY <1>2, <1>3 DEF NameOf, BaseNames, Header
<1>5. Used(name) \in Nat /\ DOMAIN seen \subseteq BaseNames /\ \A n \in DOMAIN seen : seen[n] \in Nat
  BY DEF Used, ReadInv, NamesInv, WalkInv
<1> HIDE DEF name
<1>6. Dedupe(name) = Numbered(name, Used(name) + 1)
  BY <1>5 DEF Dedupe, Numbered
<1>7. found \in Finds
  BY <1>2, <1>4, <1>5, <1>6 DEF Finds
<1>8. found.path = Numbered(name, Used(name) + 1)
  BY <1>6
<1> HIDE DEF found
<1>9. /\ DOMAIN real = 1..Len(real) /\ DOMAIN real' = 1..(Len(real) + 1) /\ Len(real) \in Nat
      /\ real'[Len(real) + 1] = found /\ \A j \in 1..Len(real) : real'[j] = real[j]
  BY <1>1, <1>2, <1>7
<1>10. ASSUME Plainly, NEW j \in DOMAIN real, real[j].path = found.path
       PROVE  FALSE
  <2>1. PICK n \in DOMAIN seen : \E count \in 1..seen[n] : real[j].path = Numbered(n, count)
    BY <1>10 DEF ReadInv, NamesInv
  <2>2. PICK count \in 1..seen[n] : real[j].path = Numbered(n, count)
    BY <2>1
  <2>3. n \in BaseNames /\ count \in Nat /\ count <= seen[n] /\ seen[n] \in Nat
    BY <1>5
  <2>4. n = name /\ count = Used(name) + 1
    BY <1>2, <1>4, <1>5, <1>8, <1>10, <2>2, <2>3, NumbersAreTold
  <2> QED
    BY <2>3, <2>4 DEF Used
<1>11. Plainly' <=> Plainly
  BY <1>1, StillFile DEF Plainly
<1> QED
  BY <1>9, <1>10, <1>11 DEF PathsInv

LEMMA PathsInvHolds == Spec => []PathsInv
<1>1. Init => PathsInv
  BY DEF Init, PathsInv
<1>2. ASSUME ReadInv, PathsInv, [Next]_vars
      PROVE  PathsInv'
  <2>1. CASE UNCHANGED <<file, real>>
    BY <1>2, <2>1, StillFile DEF PathsInv, Plainly
  <2>2. CASE TakeMember
    BY <1>2, <2>2, TakeMemberPaths
  <2>3. UNCHANGED <<file, real>> \/ TakeMember
    BY <1>2 DEF Next, vars, ReadObject, StopWalk, TakeNames, PassIndex, StopAtCap, ReadNoMember, ReadMember
  <2> QED
    BY <2>1, <2>2, <2>3
<1> QED
  BY <1>1, <1>2, ReadInvHolds, PTL DEF Spec

\* In an archive no name of which is spelled like a numbered one, however often
\* a name comes again, no two records share a path (_dedupe).
THEOREM PathsUnique == Spec => []PathsAreUnique
<1>1. ReadInv /\ PathsInv => PathsAreUnique
  <2> SUFFICES ASSUME ReadInv, PathsInv, Plainly, NEW i \in DOMAIN records, NEW j \in DOMAIN records,
                      records[i].path = records[j].path
               PROVE  i = j
    BY DEF PathsAreUnique, Plainly
  <2> DEFINE r(k) == Record(real[k].path, ReadBinary(real[k].object))
             whole == Record(Own, ReadBinary(file))
             strings == Record(Own, StringsOnly(file, file.strings, "ar_member_table_unread"))
  <2>1. CASE IsArchive /\ real # <<>>
    <3>1. PICK n \in 0..Len(real) : records = [k \in 1..n |-> r(k)]
      BY <2>1 DEF ReadInv, RecordsInv
    <3>2. records[i].path = real[i].path /\ records[j].path = real[j].path
      BY <3>1 DEF Record
    <3>3. DOMAIN real = 1..Len(real) /\ Len(real) \in Nat
      BY DEF ReadInv, WalkInv
    <3>4. i \in DOMAIN real /\ j \in DOMAIN real
      BY <3>1, <3>3
    <3> QED
      BY <3>2, <3>4 DEF PathsInv
  <2>2. CASE ~(IsArchive /\ real # <<>>)
    <3>1. records \in {<<>>, <<whole>>, <<strings>>}
      BY <2>2 DEF ReadInv, RecordsInv
    <3> HIDE DEF whole, strings
    <3>2. i = 1 /\ j = 1
      BY <3>1
    <3> QED
      BY <3>2
  <2> QED
    BY <2>1, <2>2
<1> QED
  BY <1>1, ReadInvHolds, PathsInvHolds, PTL

LEMMA SomeIsLeast ==
  ASSUME NEW S \in SUBSET Nat, S # {}
  PROVE  \E i \in S : \A j \in S : i <= j
<1>1. PICK i \in S : \A j \in S : ~ (<<j, i>> \in OpToRel(<, Nat))
  BY NatLessThanWellFounded, WFMin
<1>2. ASSUME NEW j \in S
      PROVE  i <= j
  <2>1. i \in Nat /\ j \in Nat
    OBVIOUS
  <2>2. j < i => <<j, i>> \in OpToRel(<, Nat)
    BY <2>1, Zenon DEF OpToRel
  <2>3. ~ (j < i)
    BY <1>1, <2>2, Zenon
  <2> QED
    BY <2>1, <2>3
<1> QED
  BY <1>2

LEMMA CountOfInterval ==
  ASSUME NEW n \in Nat
  PROVE  IsFiniteSet(1..n) /\ Cardinality(1..n) = n
<1>1. IsFiniteSet(1..n) /\ Cardinality(1..n) = IF 1 > n THEN 0 ELSE n - 1 + 1
  BY FS_Interval
<1> QED
  BY <1>1

----------------------------------------------------------------------------
(* What a record holds of a file, and accounts for.                        *)

\* A piece of evidence is in the record or a reason accounts for it.
Covers(r, x) == x \in r.got \/ \E reason \in r.why : x.kind \in Costs[reason]

\* A record without a reason has nothing that is not there.
Exact(r, carried) == r.why = {} => OfKind(r.got, Kinds) \subseteq carried

LEMMA ToldIsCovering ==
  ASSUME NEW carried, NEW r
  PROVE  Told(carried, r) <=> \A x \in carried : Covers(r, x)
  BY DEF Told, Covers

LEMMA BothCovers ==
  ASSUME NEW r, NEW s, NEW x, Covers(r, x) \/ Covers(s, x)
  PROVE  Covers(Both(r, s), x)
  BY DEF Covers, Both, Reading

LEMMA TogetherCovers ==
  ASSUME NEW readings, NEW r \in readings, NEW x, Covers(r, x)
  PROVE  Covers(Together(readings), x)
<1> DEFINE t == Together(readings)
<1>1. t.got = UNION {s.got : s \in readings} /\ t.why = UNION {s.why : s \in readings}
  BY DEF Together, Reading
<1>2. r.got \subseteq t.got /\ r.why \subseteq t.why
  BY <1>1
<1> QED
  BY <1>2 DEF Covers

LEMMA LostCovers ==
  ASSUME NEW reason, NEW x, x.kind \in Costs[reason]
  PROVE  Covers(Lost(reason), x) /\ Covers(LostQuietly(reason), x)
  BY DEF Covers, Lost, LostQuietly, Reading

LEMMA FoundCovers ==
  ASSUME NEW items, NEW x \in items
  PROVE  Covers(Found(items), x)
  BY DEF Covers, Found, Reading

LEMMA BothIsExact ==
  ASSUME NEW r, NEW s, NEW carried, Exact(r, carried), Exact(s, carried)
  PROVE  Exact(Both(r, s), carried)
  BY DEF Exact, Both, Reading, OfKind

LEMMA TogetherIsExact ==
  ASSUME NEW readings, NEW carried, \A r \in readings : Exact(r, carried)
  PROVE  Exact(Together(readings), carried)
<1> DEFINE t == Together(readings)
<1>1. t.got = UNION {s.got : s \in readings} /\ t.why = UNION {s.why : s \in readings}
  BY DEF Together, Reading
<1> SUFFICES ASSUME t.why = {}, NEW x \in OfKind(t.got, Kinds)
             PROVE  x \in carried
  BY DEF Exact
<1>2. PICK r \in readings : x \in r.got
  BY <1>1 DEF OfKind
<1>3. r.why = {}
  BY <1>1
<1> QED
  BY <1>2, <1>3 DEF Exact, OfKind

LEMMA NothingFoundIsExact ==
  ASSUME NEW carried, NEW reason
  PROVE  Exact(Nothing, carried) /\ Exact(Lost(reason), carried) /\ Exact(LostQuietly(reason), carried)
  BY DEF Exact, OfKind, Nothing, Lost, LostQuietly, Reading

LEMMA FoundIsExact ==
  ASSUME NEW items, NEW carried, items \subseteq carried
  PROVE  Exact(Found(items), carried)
  BY DEF Exact, OfKind, Found, Reading

\* The strings of an object: those beyond the budget are accounted for.
LEMMA StringsAreCovered ==
  ASSUME NEW f, NEW strings, NEW x \in strings, x.kind = "strings"
  PROVE  Covers(WholeStrings(f, strings), x)
<1>1. "strings" \in Costs["strings_bytes_unread"]
  BY DEF Costs
<1>2. x \in OfKind(strings, {"strings"})
  BY DEF OfKind
<1> QED
  BY <1>1, <1>2 DEF Covers, WholeStrings, Reading

LEMMA StringsAreExact ==
  ASSUME NEW f, NEW strings, NEW carried, strings \subseteq carried
  PROVE  Exact(WholeStrings(f, strings), carried)
  BY DEF Exact, WholeStrings, Reading, OfKind

\* Strings alone, and the reason why: they account for every kind.
LEMMA StringsOnlyCover ==
  ASSUME NEW f, NEW strings, NEW reason, Structural \subseteq Costs[reason],
         NEW x, x.kind \in Kinds, x.kind = "strings" => x \in strings
  PROVE  Covers(StringsOnly(f, strings, reason), x)
<1>1. CASE x.kind = "strings"
  BY <1>1, StringsAreCovered, BothCovers DEF StringsOnly
<1>2. CASE x.kind # "strings"
  <2>1. x.kind \in Costs[reason]
    BY <1>2 DEF Kinds
  <2> QED
    BY <2>1, LostCovers, BothCovers DEF StringsOnly
<1> QED
  BY <1>1, <1>2

----------------------------------------------------------------------------
(* Mach-O.                                                                 *)

LEMMA MachoCosts ==
  /\ Structural \subseteq Costs["macho_header_unread"]
  /\ Symbols \subseteq Costs["macho_symtab_incomplete"]
  /\ Kinds \subseteq Costs["macho_fat_slice_unread"]
  /\ {"needed", "soname", "rpath"} \subseteq Costs["macho_load_command_string_unread"]
  /\ {"needed", "soname", "rpath"} \cup Symbols \subseteq Costs["macho_load_command_walk_truncated"]
  /\ {"soname"} \cup Symbols \subseteq Costs["macho_load_command_ambiguous"]
  BY DEF Costs

LEMMA SymbolItems ==
  ASSUME NEW t, NEW x \in TableCarries(t)
  PROVE  x.kind \in Symbols
  BY DEF TableCarries, MachoSymbolOf, Item, Symbols

\* A table with no shortfall was read to the last row, and every name in it
\* is a row's or an alias's.
LEMMA TableRead ==
  ASSUME NEW t, TableFormed(t), Shortfall(t) = {}
  PROVE  /\ RowsHeld(t) = t.rows /\ RowsResolved(t) = t.rows
         /\ NamesHeld(t) = {n.name : n \in t.names}
         /\ NamesHeld(t) \subseteq {r.name : r \in NamedRows(t)} \cup Aliases(t)
<1>1. ~TableTruncated(t) /\ RowsResolved(t) = RowsHeld(t) /\ ~Understates(t)
  BY DEF Shortfall
<1>2. Available(t.rowBytes, t.rowsThere) = t.rowBytes /\ Available(t.nameBytes, t.namesThere) = t.nameBytes
  BY <1>1 DEF TableTruncated
<1>3. RowsHeld(t) = t.rows
  BY <1>2 DEF RowsHeld, TableFormed
<1>4. NamesHeld(t) = {n.name : n \in t.names}
  <2>1. {x \in t.names : x.at <= Available(t.nameBytes, t.namesThere)} = t.names
    BY <1>2 DEF TableFormed
  <2> QED
    BY <2>1 DEF NamesHeld
<1> QED
  BY <1>1, <1>3, <1>4 DEF Understates

LEMMA TableCovers ==
  ASSUME NEW t, TableFormed(t), NEW x \in TableCarries(t)
  PROVE  Covers(ReadTable(t), x)
<1> DEFINE named == {r \in SymbolRows(t) : r.named}
           targets == {r.alias : r \in SymbolRows(t)} \cap {n.name : n \in t.names}
           found == Found(TableSymbols(t))
           short == IF Shortfall(t) = {"understated"}
                    THEN Reading({}, {"macho_symtab_incomplete", "symtab_understates_rows"}, TRUE)
                    ELSE IF Shortfall(t) # {} THEN Lost("macho_symtab_incomplete")
                    ELSE IF NamedRows(t) = {} THEN LostQuietly("macho_symtab_incomplete") ELSE Nothing
<1>1. x.kind \in Costs["macho_symtab_incomplete"]
  BY SymbolItems, MachoCosts
<1>2. CASE t.raises
  BY <1>1, <1>2, LostCovers DEF ReadTable
<1>3. CASE ~t.raises /\ Shortfall(t) # {}
  <2>1. Covers(short, x)
    BY <1>1, <1>3 DEF Covers, Lost, Reading
  <2> QED
    BY <1>3, <2>1, BothCovers, Zenon DEF ReadTable
<1>4. CASE ~t.raises /\ Shortfall(t) = {}
  <2>1. /\ RowsResolved(t) = t.rows /\ NamesHeld(t) = {n.name : n \in t.names}
        /\ NamesHeld(t) \subseteq {r.name : r \in NamedRows(t)} \cup Aliases(t)
    BY <1>4, TableRead
  <2>2. NamedRows(t) = named
    BY <2>1 DEF NamedRows, SymbolRows
  <2>3. Aliases(t) \subseteq targets
    BY <2>1 DEF Aliases, SymbolRows
  <2>4. x \in TableSymbols(t)
    <3>1. CASE x \in {MachoSymbolOf(r) : r \in named}
      BY <2>2, <3>1 DEF TableSymbols
    <3>2. CASE x \in {Item("imported", n) : n \in targets}
      <4>1. PICK r \in SymbolRows(t) : x = Item("imported", r.alias) /\ r.alias \in NamesHeld(t)
        BY <2>1, <3>2
      <4>2. r \in t.rows /\ ~r.debug
        BY DEF SymbolRows
      <4>3. CASE r.alias \in Aliases(t)
        BY <4>1, <4>3 DEF TableSymbols
      <4>4. CASE r.alias \notin Aliases(t)
        <5>1. r.aliasSpent
          BY <2>1, <4>1, <4>2, <4>4 DEF Aliases
        <5>2. PICK s \in NamedRows(t) : s.name = r.alias
          BY <2>1, <4>1, <4>4
        <5>3. s \in t.rows
          BY <2>1 DEF NamedRows
        <5>4. s.undefined
          BY <4>2, <5>1, <5>2, <5>3 DEF TableFormed
        <5>5. MachoSymbolOf(s) = x
          BY <4>1, <5>2, <5>4 DEF MachoSymbolOf
        <5> QED
          BY <5>5 DEF TableSymbols
      <4> QED
        BY <4>3, <4>4
    <3>3. CASE x \in {Item("undeclared", n.name) : n \in {y \in t.names : y.name \notin targets /\ \A r \in named : y.name # r.name}}
      <4>1. PICK n \in t.names : n.name \notin targets /\ \A r \in named : n.name # r.name
        BY <3>3
      <4> QED
        BY <2>1, <2>2, <2>3, <4>1
    <3> QED
      BY <3>1, <3>2, <3>3 DEF TableCarries
  <2>5. Covers(found, x)
    BY <2>4, FoundCovers
  <2> QED
    BY <1>4, <2>5, BothCovers, Zenon DEF ReadTable
<1> QED
  BY <1>2, <1>3, <1>4

LEMMA TableIsExact ==
  ASSUME NEW t
  PROVE  Exact(ReadTable(t), TableCarries(t))
<1> DEFINE named == {r \in SymbolRows(t) : r.named}
           targets == {r.alias : r \in SymbolRows(t)} \cap {n.name : n \in t.names}
<1>1. NamedRows(t) \subseteq named
  BY DEF NamedRows, RowsResolved, RowsHeld, SymbolRows
<1>2. Aliases(t) \subseteq targets
  BY DEF Aliases, RowsResolved, RowsHeld, SymbolRows, NamesHeld
<1>3. TableSymbols(t) \subseteq TableCarries(t)
  BY <1>1, <1>2 DEF TableSymbols, TableCarries
<1>4. Exact(Found(TableSymbols(t)), TableCarries(t))
  BY <1>3, FoundIsExact
<1>5. Exact(Reading({}, {"macho_symtab_incomplete", "symtab_understates_rows"}, TRUE), TableCarries(t))
  BY DEF Exact, Reading
<1> QED
  BY <1>4, <1>5, BothIsExact, NothingFoundIsExact DEF ReadTable

\* A slice's evidence is accounted for by what its commands and its symbol
\* table gave, but for its install name.
LEMMA CommandsCover ==
  ASSUME NEW slice, NEW i \in DOMAIN slice.commands,
         slice.commands[i].type \in {"needed", "soname", "rpath"},
         NEW x, x = Item(slice.commands[i].type, slice.commands[i].name)
  PROVE  Covers(Lists(slice), x) \/ (x.kind = "soname" /\ x.name \in SonameOf(slice))
<1> DEFINE found == Found({Item("needed", n) : n \in NamesOf(slice, "needed")}
                          \cup {Item("rpath", n) : n \in NamesOf(slice, "rpath")})
           unread == IF StringUnread(slice) THEN Lost("macho_load_command_string_unread") ELSE Nothing
           cut == IF WalkTruncated(slice) THEN Lost("macho_load_command_walk_truncated") ELSE Nothing
           twice == IF SliceAmbiguous(slice) THEN Lost("macho_load_command_ambiguous") ELSE Nothing
           c == slice.commands[i]
<1>1. Lists(slice) = Both(found, Together({unread, cut, twice}))
  BY Zenon DEF Lists
<1>2. x.kind = c.type /\ x.name = c.name
  BY DEF Item
<1>3. (Covers(found, x) \/ Covers(unread, x) \/ Covers(cut, x) \/ Covers(twice, x)) => Covers(Lists(slice), x)
  BY <1>1, BothCovers, TogetherCovers
<1>4. CASE WalkTruncated(slice)
  <2>1. x.kind \in Costs["macho_load_command_walk_truncated"]
    BY <1>2, MachoCosts
  <2> QED
    BY <1>3, <1>4, <2>1, LostCovers
<1>5. CASE ~WalkTruncated(slice) /\ ~c.there
  <2>1. x.kind \in Costs["macho_load_command_string_unread"]
    BY <1>2, MachoCosts
  <2>2. StringUnread(slice)
    BY <1>5 DEF StringUnread, CommandsOf, WalkTruncated
  <2> QED
    BY <1>3, <2>1, <2>2, LostCovers
<1>6. CASE ~WalkTruncated(slice) /\ c.there
  <2>1. c.name \in NamesOf(slice, c.type)
    BY <1>6 DEF NamesOf, CommandsOf, WalkTruncated
  <2>2. CASE c.type # "soname"
    <3>1. x \in {Item("needed", n) : n \in NamesOf(slice, "needed")}
               \cup {Item("rpath", n) : n \in NamesOf(slice, "rpath")}
      BY <2>1, <2>2
    <3> QED
      BY <1>3, <3>1, FoundCovers
  <2>3. CASE c.type = "soname" /\ AmbiguousCommand(slice, "soname")
    <3>1. x.kind \in Costs["macho_load_command_ambiguous"] /\ SliceAmbiguous(slice)
      BY <1>2, <2>3, MachoCosts DEF SliceAmbiguous
    <3> QED
      BY <1>3, <3>1, LostCovers
  <2>4. CASE c.type = "soname" /\ ~AmbiguousCommand(slice, "soname")
    BY <1>2, <2>1, <2>4 DEF SonameOf
  <2> QED
    BY <2>2, <2>3, <2>4
<1> QED
  BY <1>4, <1>5, <1>6

LEMMA SymtabCovers ==
  ASSUME NEW slice, IsSequence(slice.commands), \A t \in TablesOf(slice) : TableFormed(t),
         NEW s \in TablesOf(slice), NEW x \in TableCarries(s)
  PROVE  Covers(Lists(slice), x) \/ Covers(ReadSliceSymbols(slice), x)
<1> DEFINE found == Found({Item("needed", n) : n \in NamesOf(slice, "needed")}
                          \cup {Item("rpath", n) : n \in NamesOf(slice, "rpath")})
           unread == IF StringUnread(slice) THEN Lost("macho_load_command_string_unread") ELSE Nothing
           cut == IF WalkTruncated(slice) THEN Lost("macho_load_command_walk_truncated") ELSE Nothing
           twice == IF SliceAmbiguous(slice) THEN Lost("macho_load_command_ambiguous") ELSE Nothing
<1>1. Lists(slice) = Both(found, Together({unread, cut, twice}))
  BY Zenon DEF Lists
<1>2. (Covers(cut, x) \/ Covers(twice, x)) => Covers(Lists(slice), x)
  BY <1>1, BothCovers, TogetherCovers
<1>3. x.kind \in Symbols
  BY SymbolItems
<1>4. PICK i \in DOMAIN slice.commands : s = slice.commands[i] /\ slice.commands[i].type = "symtab"
  BY DEF TablesOf
<1>5. CASE WalkTruncated(slice)
  <2>1. x.kind \in Costs["macho_load_command_walk_truncated"]
    BY <1>3, MachoCosts
  <2> QED
    BY <1>2, <1>5, <2>1, LostCovers
<1>6. CASE AmbiguousCommand(slice, "symtab")
  <2>1. x.kind \in Costs["macho_load_command_ambiguous"] /\ SliceAmbiguous(slice)
    BY <1>3, <1>6, MachoCosts DEF SliceAmbiguous
  <2> QED
    BY <1>2, <2>1, LostCovers
<1>7. CASE ~WalkTruncated(slice) /\ ~AmbiguousCommand(slice, "symtab")
  <2>1. i \in CommandsOf(slice, "symtab")
    BY <1>4, <1>7 DEF CommandsOf, WalkTruncated
  <2>2. SymtabOf(slice) = {slice.commands[j] : j \in {k \in CommandsOf(slice, "symtab") : slice.commands[k].there}}
    BY <1>7 DEF SymtabOf
  <2>3. CASE slice.commands[i].there
    <3>1. s \in SymtabOf(slice)
      BY <1>4, <2>1, <2>2, <2>3
    <3>2. Covers(ReadTable(s), x)
      BY TableCovers
    <3>3. ReadSliceSymbols(slice) = Together({ReadTable(t) : t \in SymtabOf(slice)})
      BY <3>1 DEF ReadSliceSymbols
    <3> QED
      BY <3>1, <3>2, <3>3, TogetherCovers
  <2>4. CASE ~slice.commands[i].there
    <3> DEFINE C == CommandsOf(slice, "symtab")
    <3>1. IsFiniteSet(C) /\ Cardinality(C) \in Nat
      <4>1. C \subseteq 1..Len(slice.commands) /\ Len(slice.commands) \in Nat
        BY SequencesAre DEF CommandsOf, Reached
      <4>2. IsFiniteSet(1..Len(slice.commands))
        BY <4>1, FS_Interval
      <4> HIDE DEF C
      <4>3. IsFiniteSet(C)
        BY <4>1, <4>2, FS_Subset
      <4> QED
        BY <4>3, FS_CardinalityType
    <3>2. Cardinality(C) <= 1
      BY <1>7, <3>1 DEF AmbiguousCommand
    <3>3. \A j \in C : j = i
      <4> SUFFICES ASSUME NEW j \in C, j # i
                   PROVE  FALSE
        OBVIOUS
      <4>1. {i, j} \subseteq C
        BY <2>1
      <4>2. Cardinality({i, j}) <= Cardinality(C) /\ IsFiniteSet({i})
        BY <3>1, <4>1, FS_Subset, FS_Singleton
      <4>3. Cardinality({i, j}) = 2
        <5>1. Cardinality({i} \cup {j}) = Cardinality({i}) + 1
          BY <4>2, FS_AddElement
        <5>2. Cardinality({i}) = 1 /\ {i} \cup {j} = {i, j}
          BY FS_Singleton
        <5> QED
          BY <5>1, <5>2
      <4> QED
        BY <3>1, <3>2, <4>2, <4>3
    <3>4. SymtabOf(slice) = {}
      BY <2>2, <2>4, <3>3
    <3>5. x.kind \in Costs["macho_symtab_incomplete"]
      BY <1>3, MachoCosts
    <3> QED
      BY <3>4, <3>5, LostCovers DEF ReadSliceSymbols
  <2> QED
    BY <2>3, <2>4
<1> QED
  BY <1>5, <1>6, <1>7

LEMMA SliceIsExact ==
  ASSUME NEW slice
  PROVE  Exact(Lists(slice), SliceCarries(slice)) /\ Exact(ReadSliceSymbols(slice), SliceCarries(slice))
<1>1. ASSUME NEW type \in {"needed", "soname", "rpath"}
      PROVE  {Item(type, n) : n \in NamesOf(slice, type)} \subseteq SliceCarries(slice)
  BY DEF NamesOf, CommandsOf, Reached, SliceCarries
<1>2. Exact(Lists(slice), SliceCarries(slice))
  <2> DEFINE items == {Item("needed", n) : n \in NamesOf(slice, "needed")}
                      \cup {Item("rpath", n) : n \in NamesOf(slice, "rpath")}
             lost == {IF StringUnread(slice) THEN Lost("macho_load_command_string_unread") ELSE Nothing,
                      IF WalkTruncated(slice) THEN Lost("macho_load_command_walk_truncated") ELSE Nothing,
                      IF SliceAmbiguous(slice) THEN Lost("macho_load_command_ambiguous") ELSE Nothing}
  <2>1. Lists(slice) = Both(Found(items), Together(lost))
    BY Zenon DEF Lists
  <2>2. items \subseteq SliceCarries(slice)
    BY <1>1
  <2>3. \A r \in lost : Exact(r, SliceCarries(slice))
    BY NothingFoundIsExact
  <2> QED
    BY <2>1, <2>2, <2>3, FoundIsExact, TogetherIsExact, BothIsExact
<1>3. Exact(ReadSliceSymbols(slice), SliceCarries(slice))
  <2>1. ASSUME NEW t \in SymtabOf(slice)
        PROVE  Exact(ReadTable(t), SliceCarries(slice))
    <3>1. t \in TablesOf(slice)
      BY DEF SymtabOf, CommandsOf, Reached, TablesOf
    <3>2. TableCarries(t) \subseteq SliceCarries(slice)
      BY <3>1 DEF SliceCarries
    <3> QED
      BY <3>2, TableIsExact DEF Exact
  <2>2. Exact(Together({ReadTable(t) : t \in SymtabOf(slice)}), SliceCarries(slice))
    BY <2>1, TogetherIsExact
  <2> QED
    BY <2>2, NothingFoundIsExact DEF ReadSliceSymbols
<1> QED
  BY <1>2, <1>3

\* Where no architecture was left out, every slice that is named was parsed.
LEMMA SlicesAreParsed ==
  ASSUME NEW f, MachoFormed(f), ~SliceUnread(f)
  PROVE  Parsed(f) = SlicesNamed(f)
<1>1. Parsed(f) = SlicesOf(f) /\ ~FatReasons(f)
  BY DEF SliceUnread
<1>2. CASE ~f.fat
  BY <1>1, <1>2 DEF SlicesOf, SlicesNamed
<1>3. CASE f.fat
  <2> DEFINE W == ArchesWalked(f)
  <2>1. f.declared \in Nat /\ MaxFatSlices \in Nat /\ f.declared <= MaxFatSlices
    BY <1>1, <1>3, SlicesAssumption DEF FatReasons, MachoFormed
  <2>2. DOMAIN f.arches = 1..Len(f.arches) /\ Len(f.arches) \in Nat
    BY SequencesAre DEF MachoFormed
  <2>3. W \subseteq 1..f.declared
    BY <2>1, <2>2 DEF ArchesWalked, Declared
  <2>4. IsFiniteSet(1..f.declared) /\ Cardinality(1..f.declared) = f.declared
    BY <2>1, CountOfInterval
  <2> HIDE DEF W
  <2>5. Cardinality(W) <= f.declared /\ Cardinality(W) \in Nat
    BY <2>3, <2>4, FS_Subset, FS_CardinalityType
  <2>6. Cardinality(W) = f.declared
    BY <1>1, <1>3, <2>1, <2>5 DEF FatReasons, W
  <2>7. W = 1..f.declared
    BY <2>3, <2>4, <2>6, FS_Subset
  <2>8. {j \in W : f.arches[j].inside} = {j \in DOMAIN f.arches : j <= f.declared}
    <3>1. \A j \in W : f.arches[j].inside /\ j \in DOMAIN f.arches
      BY <1>1, <1>3 DEF FatReasons, W, ArchesWalked, Declared
    <3>2. \A j \in DOMAIN f.arches : j <= f.declared <=> j \in W
      BY <2>1, <2>2, <2>7, <3>1
    <3> QED
      BY <3>1, <3>2
  <2>9. SlicesOf(f) = {f.arches[i].slice : i \in {j \in W : f.arches[j].inside}}
    BY <1>3 DEF SlicesOf, W
  <2> QED
    BY <1>1, <1>3, <2>8, <2>9 DEF SlicesNamed
<1> QED
  BY <1>2, <1>3

LEMMA SlicesAreNumbers ==
  ASSUME NEW f, MachoFormed(f)
  PROVE  /\ Parsed(f) \subseteq SlicesNamed(f) /\ SlicesNamed(f) \subseteq DOMAIN f.slices
         /\ DOMAIN f.slices \subseteq Nat
<1>1. DOMAIN f.slices = 1..Len(f.slices) /\ Len(f.slices) \in Nat
  BY SequencesAre DEF MachoFormed
<1>2. SlicesOf(f) \subseteq SlicesNamed(f)
  BY DEF SlicesOf, SlicesNamed, ArchesWalked, Declared
<1>3. SlicesNamed(f) \subseteq DOMAIN f.slices
  BY DEF SlicesNamed, MachoFormed
<1> QED
  BY <1>1, <1>2, <1>3 DEF Parsed

\* What such a file carries is of the kinds, and a string is one of its strings.
LEMMA MachoKinds ==
  ASSUME NEW f, MachoFormed(f), NEW x \in MachoCarries(f)
  PROVE  x.kind \in Kinds /\ (x.kind = "strings" => x \in f.strings)
<1>1. x \in f.strings \/ \E k \in SlicesNamed(f) : x \in SliceCarries(f.slices[k])
  BY DEF MachoCarries
<1>2. x \in f.strings => x.kind = "strings"
  BY DEF MachoFormed
<1>3. ASSUME NEW k \in SlicesNamed(f), x \in SliceCarries(f.slices[k])
      PROVE  \/ \E i \in DOMAIN f.slices[k].commands :
                  /\ f.slices[k].commands[i].type \in {"needed", "soname", "rpath"}
                  /\ x = Item(f.slices[k].commands[i].type, f.slices[k].commands[i].name)
             \/ \E t \in TablesOf(f.slices[k]) : x \in TableCarries(t)
  BY <1>3 DEF SliceCarries
<1>4. x \notin f.strings => x.kind \in Structural
  <2> SUFFICES ASSUME x \notin f.strings
               PROVE  x.kind \in Structural
    OBVIOUS
  <2>1. PICK k \in SlicesNamed(f) : x \in SliceCarries(f.slices[k])
    BY <1>1
  <2>2. CASE \E i \in DOMAIN f.slices[k].commands :
               /\ f.slices[k].commands[i].type \in {"needed", "soname", "rpath"}
               /\ x = Item(f.slices[k].commands[i].type, f.slices[k].commands[i].name)
    BY <2>2 DEF Item, Structural
  <2>3. CASE \E t \in TablesOf(f.slices[k]) : x \in TableCarries(t)
    BY <2>3, SymbolItems DEF Structural
  <2> QED
    BY <1>3, <2>1, <2>2, <2>3
<1> QED
  BY <1>2, <1>4 DEF Kinds, Structural, Symbols

\* What a Mach-O carries in any slice its header names, its commands, its
\* symbols and the targets of its aliases, is in the record or accounted for:
\* whatever is cut, whichever slice or command does not parse, and whatever the
\* fat header says of where the slices are (binfmt/macho.py, read_macho).
THEOREM MachoIsTold ==
  ASSUME NEW f, MachoFormed(f)
  PROVE  Told(MachoCarries(f), ReadMacho(f))
<1> SUFFICES ASSUME NEW x \in MachoCarries(f)
             PROVE  Covers(ReadMacho(f), x)
  BY ToldIsCovering
<1> DEFINE header == StringsOnly(f, f.strings, "macho_header_unread")
           parts == {Lists(f.slices[k]) : k \in Parsed(f)}
                    \cup {ReadSliceSymbols(f.slices[k]) : k \in Parsed(f)}
                    \cup {Found({Item("soname", n) : n \in FirstSoname(f)}),
                          WholeStrings(f, f.strings),
                          IF SliceUnread(f) THEN Lost("macho_fat_slice_unread") ELSE Nothing}
<1>1. x \in f.strings \/ \E k \in SlicesNamed(f) : x \in SliceCarries(f.slices[k])
  BY DEF MachoCarries
<1>2. x \in f.strings => x.kind = "strings"
  BY DEF MachoFormed
<1>3. ASSUME NEW k \in SlicesNamed(f), x \in SliceCarries(f.slices[k])
      PROVE  \/ \E i \in DOMAIN f.slices[k].commands :
                  /\ f.slices[k].commands[i].type \in {"needed", "soname", "rpath"}
                  /\ x = Item(f.slices[k].commands[i].type, f.slices[k].commands[i].name)
             \/ \E t \in TablesOf(f.slices[k]) : x \in TableCarries(t)
  BY <1>3 DEF SliceCarries
<1>5. x.kind \in Kinds /\ (x.kind = "strings" => x \in f.strings)
  BY MachoKinds
<1>6. CASE ~f.sniffed \/ (f.fat /\ f.fatRaises) \/ Parsed(f) = {}
  <2>1. Covers(header, x)
    BY <1>5, MachoCosts, StringsOnlyCover
  <2>2. [header EXCEPT !.erred = TRUE].got = header.got /\ [header EXCEPT !.erred = TRUE].why = header.why
    BY DEF StringsOnly, Both, Reading
  <2>3. ReadMacho(f) = [header EXCEPT !.erred = TRUE]
    BY <1>6 DEF ReadMacho
  <2> HIDE DEF header
  <2> QED
    BY <2>1, <2>2, <2>3 DEF Covers
<1>7. CASE ~(~f.sniffed \/ (f.fat /\ f.fatRaises) \/ Parsed(f) = {})
  <2>1. ReadMacho(f) = Together(parts)
    BY <1>7, Zenon DEF ReadMacho, ReadSlices
  <2>2. \A part \in parts : Covers(part, x) => Covers(ReadMacho(f), x)
    BY <2>1, TogetherCovers
  <2>3. CASE x \in f.strings
    <3>1. Covers(WholeStrings(f, f.strings), x)
      BY <1>2, <2>3, StringsAreCovered
    <3> QED
      BY <2>2, <3>1
  <2>4. CASE SliceUnread(f)
    <3>1. x.kind \in Costs["macho_fat_slice_unread"]
      BY <1>5, MachoCosts
    <3>2. Covers(Lost("macho_fat_slice_unread"), x) /\ Lost("macho_fat_slice_unread") \in parts
      BY <2>4, <3>1, LostCovers
    <3> QED
      BY <2>2, <3>2
  <2>5. CASE x \notin f.strings /\ ~SliceUnread(f)
    <3>1. PICK k \in SlicesNamed(f) : x \in SliceCarries(f.slices[k])
      BY <1>1, <2>5
    <3>2. k \in Parsed(f) /\ k \in DOMAIN f.slices
      BY <2>5, SlicesAreParsed, SlicesAreNumbers
    <3> DEFINE slice == f.slices[k]
    <3>3. Lists(slice) \in parts /\ ReadSliceSymbols(slice) \in parts
      BY <3>2
    <3>4. IsSequence(slice.commands) /\ \A t \in TablesOf(slice) : TableFormed(t)
      BY <3>2 DEF MachoFormed
    <3>5. CASE \E t \in TablesOf(slice) : x \in TableCarries(t)
      <4>1. Covers(Lists(slice), x) \/ Covers(ReadSliceSymbols(slice), x)
        BY <3>4, <3>5, SymtabCovers
      <4> QED
        BY <2>2, <3>3, <4>1
    <3>6. CASE \E i \in DOMAIN slice.commands :
                 /\ slice.commands[i].type \in {"needed", "soname", "rpath"}
                 /\ x = Item(slice.commands[i].type, slice.commands[i].name)
      <4>1. PICK i \in DOMAIN slice.commands :
                 /\ slice.commands[i].type \in {"needed", "soname", "rpath"}
                 /\ x = Item(slice.commands[i].type, slice.commands[i].name)
        BY <3>6
      <4>2. Covers(Lists(slice), x) \/ (x.kind = "soname" /\ x.name \in SonameOf(slice))
        BY <4>1, CommandsCover
      <4>3. ASSUME x.kind = "soname", x.name \in SonameOf(slice)
            PROVE  x.name \in FirstSoname(f)
        <5> DEFINE S == {j \in Parsed(f) : SonameOf(f.slices[j]) # {}}
        <5>1. S \in SUBSET Nat /\ S # {} /\ S \subseteq DOMAIN f.slices
          BY <3>2, <4>3, SlicesAreNumbers
        <5>2. PICK l \in S : \A j \in S : l <= j
          BY <5>1, SomeIsLeast
        <5>3. PICK n : n \in SonameOf(f.slices[l])
          BY <5>2
        <5>4. PICK j \in DOMAIN f.slices[l].commands :
                f.slices[l].commands[j].type = "soname" /\ n = f.slices[l].commands[j].name
          BY <5>3 DEF SonameOf, NamesOf, CommandsOf, Reached
        <5>5. f.slices[l].commands[j] \in Range(f.slices[l].commands) /\ slice.commands[i] \in Range(slice.commands)
          BY DEF Range
        <5>6. slice.commands[i].type = "soname" /\ x.name = slice.commands[i].name
          BY <4>1, <4>3 DEF Item
        <5>7. n = x.name
          BY <3>2, <5>1, <5>4, <5>5, <5>6 DEF MachoFormed
        <5>8. l \in Least(S)
          BY <5>2 DEF Least
        <5> QED
          BY <5>3, <5>7, <5>8 DEF FirstSoname
      <4>4. CASE x.kind = "soname" /\ x.name \in SonameOf(slice)
        <5>1. x = Item("soname", x.name)
          BY <4>1, <4>4 DEF Item
        <5>2. x \in {Item("soname", n) : n \in FirstSoname(f)}
          BY <4>3, <4>4, <5>1
        <5>3. Covers(Found({Item("soname", n) : n \in FirstSoname(f)}), x)
          BY <5>2, FoundCovers
        <5> QED
          BY <2>2, <5>3
      <4> QED
        BY <2>2, <3>3, <4>2, <4>4
    <3> QED
      BY <1>3, <3>1, <3>5, <3>6
  <2> QED
    BY <2>3, <2>4, <2>5
<1> QED
  BY <1>6, <1>7

\* A record of a Mach-O that has no reason has nothing the slices do not have:
\* no symbol is counted for the wrong side of the split, and no alias is taken
\* for a definition (_read_symbols, _iter_symbols).
THEOREM MachoIsExact ==
  ASSUME NEW f, MachoFormed(f)
  PROVE  Exact(ReadMacho(f), MachoCarries(f))
<1> DEFINE C == MachoCarries(f)
           header == StringsOnly(f, f.strings, "macho_header_unread")
           parts == {Lists(f.slices[k]) : k \in Parsed(f)}
                    \cup {ReadSliceSymbols(f.slices[k]) : k \in Parsed(f)}
                    \cup {Found({Item("soname", n) : n \in FirstSoname(f)}),
                          WholeStrings(f, f.strings),
                          IF SliceUnread(f) THEN Lost("macho_fat_slice_unread") ELSE Nothing}
<1>1. CASE ~f.sniffed \/ (f.fat /\ f.fatRaises) \/ Parsed(f) = {}
  <2>1. [header EXCEPT !.erred = TRUE].why # {}
    BY DEF StringsOnly, Both, LostQuietly, Reading
  <2> HIDE DEF header
  <2> QED
    BY <1>1, <2>1 DEF ReadMacho, Exact, header
<1>2. CASE ~(~f.sniffed \/ (f.fat /\ f.fatRaises) \/ Parsed(f) = {})
  <2>1. ReadMacho(f) = Together(parts)
    BY <1>2, Zenon DEF ReadMacho, ReadSlices
  <2>2. ASSUME NEW k \in Parsed(f)
        PROVE  SliceCarries(f.slices[k]) \subseteq C
    BY SlicesAreNumbers DEF MachoCarries
  <2>3. ASSUME NEW k \in Parsed(f)
        PROVE  Exact(Lists(f.slices[k]), C) /\ Exact(ReadSliceSymbols(f.slices[k]), C)
    BY <2>2, SliceIsExact DEF Exact
  <2>4. {Item("soname", n) : n \in FirstSoname(f)} \subseteq C
    <3> SUFFICES ASSUME NEW k \in Parsed(f), NEW n \in SonameOf(f.slices[k])
                 PROVE  Item("soname", n) \in C
      BY DEF FirstSoname, Least
    <3>1. PICK i \in DOMAIN f.slices[k].commands :
            f.slices[k].commands[i].type = "soname" /\ n = f.slices[k].commands[i].name
      BY DEF SonameOf, NamesOf, CommandsOf, Reached
    <3>2. Item("soname", n) \in SliceCarries(f.slices[k])
      BY <3>1 DEF SliceCarries
    <3> QED
      BY <2>2, <3>2
  <2>5. Exact(WholeStrings(f, f.strings), C)
    BY StringsAreExact DEF MachoCarries
  <2>6. \A part \in parts : Exact(part, C)
    BY <2>3, <2>4, <2>5, FoundIsExact, NothingFoundIsExact
  <2> QED
    BY <2>1, <2>6, TogetherIsExact
<1> QED
  BY <1>1, <1>2

----------------------------------------------------------------------------
(* PE.                                                                     *)

LEMMA PeCosts ==
  /\ Structural \subseteq Costs["pe_header_unread"]
  /\ {"needed", "imported"} \subseteq Costs["pe_import_incomplete"]
  /\ {"needed", "imported"} \subseteq Costs["pe_delay_load"]
  /\ "imported" \in Costs["pe_ordinal_import"]
  /\ {"needed", "soname", "imported", "defined"} \subseteq Costs["pe_export_incomplete"]
  /\ {"needed", "imported", "defined"} \subseteq Costs["pe_ordinal_export"]
  BY DEF Costs

LEMMA SlotCovers ==
  ASSUME NEW d, d.header, ~(d.count > MaxExportNames),
         NEW s \in d.slots, NEW x \in SlotCarries(s)
  PROVE  Covers(ReadExports(d), x)
<1> DEFINE named == IF d.nameThere THEN Found({Item("soname", n) : n \in d.name})
                    ELSE Lost("pe_export_incomplete")
           cut == IF \E u \in d.slots : (u.named /\ ~u.there) \/ ~u.slotThere
                  THEN Lost("pe_export_incomplete") ELSE Nothing
           nameless == IF Unnamed(d) THEN LostQuietly("pe_ordinal_export") ELSE Nothing
           parts == {named} \cup {SlotReading(u) : u \in NamedSlots(d)} \cup {cut, nameless}
<1>1. ReadExports(d) = Together(parts)
  BY Zenon DEF ReadExports
<1>2. \A part \in parts : Covers(part, x) => Covers(ReadExports(d), x)
  BY <1>1, TogetherCovers
<1>3. x.kind \in {"needed", "imported", "defined"}
  BY DEF SlotCarries, Item
<1>4. x.kind \in Costs["pe_export_incomplete"] /\ x.kind \in Costs["pe_ordinal_export"]
  BY <1>3, PeCosts
<1>5. Covers(Lost("pe_export_incomplete"), x) /\ Covers(LostQuietly("pe_ordinal_export"), x)
  BY <1>4, LostCovers
<1>6. CASE (s.named /\ ~s.there) \/ ~s.slotThere
  BY <1>2, <1>5, <1>6
<1>7. CASE s.slotThere /\ ~s.named
  <2>1. Unnamed(d)
    BY <1>7 DEF Unnamed
  <2> QED
    BY <1>2, <1>5, <2>1
<1>8. CASE s.slotThere /\ s.named /\ s.there
  <2>1. SlotReading(s) \in parts
    BY <1>8 DEF NamedSlots
  <2>2. Covers(SlotReading(s), x)
    <3>1. CASE ~Placed(s)
      BY <1>5, <3>1, BothCovers DEF SlotReading, Forwarded
    <3>2. CASE Placed(s) /\ ~s.forwards
      <4>1. x \in {Item("defined", s.name)}
        BY <3>2 DEF SlotCarries
      <4> QED
        BY <3>2, <4>1, FoundCovers, BothCovers DEF SlotReading, Forwarded
    <3>3. CASE Placed(s) /\ s.forwards
      <4>1. SlotReading(s) = Both(Found({Item("imported", s.name)}), ForwardReading(s))
        BY <3>3 DEF SlotReading, Forwarded
      <4>2. x \in {Item("needed", s.dll), Item("imported", s.target), Item("imported", s.name)}
        BY <3>3 DEF SlotCarries
      <4>3. CASE x = Item("imported", s.name)
        BY <4>1, <4>3, FoundCovers, BothCovers
      <4>4. CASE ~Resolved(s)
        BY <1>5, <4>1, <4>4, BothCovers DEF ForwardReading
      <4>5. CASE Resolved(s) /\ x = Item("needed", s.dll)
        <5>1. Covers(Found({Item("needed", s.dll)}), x)
          BY <4>5, FoundCovers
        <5> QED
          BY <4>1, <4>5, <5>1, BothCovers DEF ForwardReading
      <4>6. CASE Resolved(s) /\ x = Item("imported", s.target)
        <5> DEFINE import == IF s.byOrdinal THEN LostQuietly("pe_ordinal_import")
                             ELSE Found({Item("imported", s.target)})
        <5>1. x.kind \in Costs["pe_ordinal_import"] /\ x \in {Item("imported", s.target)}
          BY <4>6, PeCosts DEF Item
        <5>2. Covers(import, x)
          BY <5>1, LostCovers, FoundCovers
        <5>3. ForwardReading(s) = Both(Found({Item("needed", s.dll)}), import)
          BY <4>6 DEF ForwardReading
        <5> QED
          BY <4>1, <5>2, <5>3, BothCovers
      <4> QED
        BY <4>2, <4>3, <4>4, <4>5, <4>6
    <3> QED
      BY <3>1, <3>2, <3>3
  <2> QED
    BY <1>2, <2>1, <2>2
<1> QED
  BY <1>6, <1>7, <1>8

LEMMA ExportsCover ==
  ASSUME NEW d, NEW x \in ExportsCarry(d)
  PROVE  Covers(ReadExports(d), x) /\ x.kind \in Costs["pe_export_incomplete"]
<1> DEFINE named == IF d.nameThere THEN Found({Item("soname", n) : n \in d.name})
                    ELSE Lost("pe_export_incomplete")
<1>1. x \in {Item("soname", n) : n \in d.name} \/ \E s \in d.slots : x \in SlotCarries(s)
  BY DEF ExportsCarry
<1>2. x.kind \in {"needed", "soname", "imported", "defined"}
  BY <1>1 DEF SlotCarries, Item
<1>3. Covers(Lost("pe_export_incomplete"), x) /\ x.kind \in Costs["pe_export_incomplete"]
  BY <1>2, PeCosts, LostCovers
<1>4. CASE ~d.header
  BY <1>3, <1>4 DEF ReadExports
<1>5. CASE d.header /\ d.count > MaxExportNames
  BY <1>3, <1>5, BothCovers DEF ReadExports
<1>6. CASE d.header /\ ~(d.count > MaxExportNames)
  <2>1. CASE x \in {Item("soname", n) : n \in d.name}
    <3>1. Covers(named, x)
      BY <1>3, <2>1, FoundCovers
    <3>2. ReadExports(d) = Together({named} \cup {SlotReading(u) : u \in NamedSlots(d)}
            \cup {IF \E u \in d.slots : (u.named /\ ~u.there) \/ ~u.slotThere
                  THEN Lost("pe_export_incomplete") ELSE Nothing,
                  IF Unnamed(d) THEN LostQuietly("pe_ordinal_export") ELSE Nothing})
      BY <1>6, Zenon DEF ReadExports
    <3> HIDE DEF named
    <3> QED
      BY <1>3, <3>1, <3>2, TogetherCovers
  <2>2. CASE \E s \in d.slots : x \in SlotCarries(s)
    BY <1>3, <1>6, <2>2, SlotCovers
  <2> QED
    BY <1>1, <2>1, <2>2
<1> QED
  BY <1>3, <1>4, <1>5, <1>6

LEMMA SlotIsExact ==
  ASSUME NEW s
  PROVE  Exact(SlotReading(s), SlotCarries(s))
<1>1. CASE ~Placed(s)
  <2>1. SlotReading(s).why # {}
    BY <1>1 DEF SlotReading, Forwarded, Both, Lost, Reading
  <2> QED
    BY <2>1 DEF Exact
<1>2. CASE Placed(s) /\ ~s.forwards
  <2>1. {Item("defined", s.name)} \subseteq SlotCarries(s)
    BY <1>2 DEF SlotCarries
  <2>2. Exact(Found({Item("defined", s.name)}), SlotCarries(s))
    BY <2>1, FoundIsExact
  <2> QED
    BY <1>2, <2>2, NothingFoundIsExact, BothIsExact DEF SlotReading, Forwarded
<1>3. CASE Placed(s) /\ s.forwards
  <2>1. SlotReading(s) = Both(Found({Item("imported", s.name)}), ForwardReading(s))
    BY <1>3 DEF SlotReading, Forwarded
  <2>2. /\ {Item("needed", s.dll)} \subseteq SlotCarries(s) /\ {Item("imported", s.target)} \subseteq SlotCarries(s)
        /\ {Item("imported", s.name)} \subseteq SlotCarries(s)
    BY <1>3 DEF SlotCarries
  <2>3. /\ Exact(Found({Item("needed", s.dll)}), SlotCarries(s))
        /\ Exact(Found({Item("imported", s.target)}), SlotCarries(s))
        /\ Exact(Found({Item("imported", s.name)}), SlotCarries(s))
    BY <2>2, FoundIsExact
  <2>4. Exact(ForwardReading(s), SlotCarries(s))
    BY <2>3, NothingFoundIsExact, BothIsExact DEF ForwardReading
  <2> QED
    BY <2>1, <2>3, <2>4, BothIsExact
<1> QED
  BY <1>1, <1>2, <1>3

LEMMA ExportsAreExact ==
  ASSUME NEW d
  PROVE  Exact(ReadExports(d), ExportsCarry(d))
<1> DEFINE C == ExportsCarry(d)
           named == IF d.nameThere THEN Found({Item("soname", n) : n \in d.name})
                    ELSE Lost("pe_export_incomplete")
           cut == IF \E u \in d.slots : (u.named /\ ~u.there) \/ ~u.slotThere
                  THEN Lost("pe_export_incomplete") ELSE Nothing
           nameless == IF Unnamed(d) THEN LostQuietly("pe_ordinal_export") ELSE Nothing
           parts == {named} \cup {SlotReading(u) : u \in NamedSlots(d)} \cup {cut, nameless}
<1>1. {Item("soname", n) : n \in d.name} \subseteq C
  BY DEF ExportsCarry
<1>2. Exact(named, C)
  BY <1>1, FoundIsExact, NothingFoundIsExact
<1>3. ASSUME NEW u \in NamedSlots(d)
      PROVE  Exact(SlotReading(u), C)
  <2>1. SlotCarries(u) \subseteq C
    BY DEF NamedSlots, ExportsCarry
  <2> QED
    BY <2>1, SlotIsExact DEF Exact
<1>4. Exact(cut, C) /\ Exact(nameless, C)
  BY NothingFoundIsExact
<1> HIDE DEF named, cut, nameless, C
<1>5. Exact(Together(parts), C)
  BY <1>2, <1>3, <1>4, TogetherIsExact
<1>6. ReadExports(d) = IF ~d.header THEN Lost("pe_export_incomplete")
                       ELSE IF d.count > MaxExportNames THEN Both(named, Lost("pe_export_incomplete"))
                       ELSE Together(parts)
  BY Zenon DEF ReadExports, named, cut, nameless
<1> QED
  BY <1>2, <1>5, <1>6, NothingFoundIsExact, BothIsExact DEF C

\* The walk of the descriptors is a function on the first so many.
Started(d) ==
  [dlls |-> {}, names |-> {}, unnamed |-> FALSE, budget |-> MaxThunks,
   complete |-> d.ends = "null" /\ Len(d.descriptors) < MaxDescriptors]
IsWalk(w, d, n) ==
  w = [i \in 0..n |-> IF i = 0 THEN Started(d) ELSE WalkDescriptor(w[i - 1], d.descriptors[i])]

LEMMA WalkExists ==
  ASSUME NEW d, NEW n \in Nat
  PROVE  \E w : IsWalk(w, d, n)
<1> DEFINE Step(v, i) == IF i = 0 THEN Started(d) ELSE WalkDescriptor(v[i - 1], d.descriptors[i])
           None == {m \in Nat : ~ \E w : IsWalk(w, d, m)}
<1>1. ASSUME NEW m \in None, \A k \in None : m <= k
      PROVE  FALSE
  <2>1. CASE m = 0
    <3> DEFINE v == [i \in 0..0 |-> Started(d)]
    <3>1. v = [i \in 0..0 |-> Step(v, i)]
      OBVIOUS
    <3> QED
      BY <2>1, <3>1 DEF IsWalk
  <2>2. CASE m # 0
    <3>1. m - 1 \in Nat /\ m - 1 \notin None
      BY <1>1, <2>2
    <3>2. PICK w : IsWalk(w, d, m - 1)
      BY <3>1
    <3> DEFINE v == [i \in 0..m |-> IF i = m THEN WalkDescriptor(w[m - 1], d.descriptors[m]) ELSE w[i]]
    <3>3. \A i \in 0..(m - 1) : w[i] = Step(w, i)
      BY <3>2 DEF IsWalk
    <3>4. \A i \in 0..(m - 1) : v[i] = w[i]
      BY <3>1
    <3>5. v[m] = WalkDescriptor(w[m - 1], d.descriptors[m])
      BY <3>1
    <3>6. v[m] = Step(v, m)
      BY <2>2, <3>1, <3>4, <3>5
    <3>7. \A i \in 0..m : v[i] = Step(v, i)
      <4> SUFFICES ASSUME NEW i \in 0..m, i # m
                   PROVE  v[i] = Step(v, i)
        BY <3>6
      <4>1. i \in 0..(m - 1) /\ (i # 0 => i - 1 \in 0..(m - 1))
        OBVIOUS
      <4> HIDE DEF v
      <4> QED
        BY <3>3, <3>4, <4>1
    <3>8. v = [i \in 0..m |-> v[i]]
      OBVIOUS
    <3> HIDE DEF v
    <3>9. v = [i \in 0..m |-> Step(v, i)]
      BY <3>7, <3>8
    <3> QED
      BY <3>9 DEF IsWalk
  <2> QED
    BY <2>1, <2>2
<1>2. None \in SUBSET Nat
  OBVIOUS
<1> HIDE DEF None
<1>3. None = {}
  BY <1>1, <1>2, SomeIsLeast
<1> QED
  BY <1>3 DEF None

LEMMA ReadImportsWalks ==
  ASSUME NEW d, Len(d.descriptors) \in Nat
  PROVE  \E n \in 0..Len(d.descriptors) : \E w :
           /\ IsWalk(w, d, n) /\ ReadImports(d) = w[n]
           /\ Len(d.descriptors) < MaxDescriptors => n = Len(d.descriptors)
<1> DEFINE last == IF Len(d.descriptors) < MaxDescriptors THEN Len(d.descriptors) ELSE MaxDescriptors
           walk == CHOOSE w : IsWalk(w, d, last)
<1>1. last \in 0..Len(d.descriptors) /\ (Len(d.descriptors) < MaxDescriptors => last = Len(d.descriptors))
  BY DirectoriesAssumption
<1>2. IsWalk(walk, d, last)
  <2>1. last \in Nat
    BY <1>1
  <2> HIDE DEF last
  <2>2. \E w : IsWalk(w, d, last)
    BY <2>1, WalkExists
  <2> QED
    BY <2>2, Zenon
<1>3. ReadImports(d) = walk[last]
  BY DEF ReadImports, IsWalk, Started
<1> QED
  BY <1>1, <1>2, <1>3

\* A table walked in full: every entry of it has a name that was read, or none.
EntryRead(w, e) == IF e.ordinal THEN w.unnamed ELSE e.name \in w.names

LEMMA TableWalked ==
  ASSUME NEW t, IsSequence(t.entries), NEW budget \in Int, ThunksComplete(t, budget), NEW e \in Range(t.entries)
  PROVE  IF e.ordinal THEN ByOrdinal(t, budget) ELSE e.name \in ThunkNames(t, budget)
<1>1. DOMAIN t.entries = 1..Len(t.entries) /\ Len(t.entries) \in Nat /\ Len(t.entries) < budget
  BY SequencesAre DEF ThunksComplete
<1>2. \A i \in DOMAIN t.entries : t.entries[i].ordinal \/ t.entries[i].there
  BY DEF ThunksComplete
<1>3. PICK i \in DOMAIN t.entries : e = t.entries[i]
  BY DEF Range
<1>4. i \in ThunksWalked(t, budget)
  BY <1>1, <1>2, <1>3 DEF ThunksWalked
<1> QED
  BY <1>2, <1>3, <1>4 DEF ByOrdinal, ThunkNames

\* What the walk has after so many descriptors: nothing that is not in them,
\* and all of them as long as it is complete.
Walks(w, d, i) ==
  /\ w[i].budget \in Int
  /\ w[i].dlls \subseteq {d.descriptors[j].dll : j \in 1..i}
  /\ w[i].names \subseteq {e.name : e \in UNION {UNION {Range(t.entries) : t \in d.descriptors[j].tables} : j \in 1..i}}
  /\ w[i].complete =>
       /\ Len(d.descriptors) < MaxDescriptors
       /\ \A j \in 1..i : /\ d.descriptors[j].dll \in w[i].dlls
                          /\ \A t \in d.descriptors[j].tables : \A e \in Range(t.entries) : EntryRead(w[i], e)

LEMMA OneMoreDescriptor ==
  ASSUME NEW d, NEW n \in Nat, NEW w, IsWalk(w, d, n), NEW i \in 1..n, Walks(w, d, i - 1),
         \A t \in d.descriptors[i].tables : IsSequence(t.entries),
         \A t, u \in d.descriptors[i].tables : t = u
  PROVE  Walks(w, d, i)
<1> DEFINE v == w[i - 1]
           x == d.descriptors[i]
           b == v.budget
<1>1. i - 1 \in 0..n /\ i # 0 /\ i \in 0..n /\ 1..i = (1..(i - 1)) \cup {i}
  OBVIOUS
<1>2. w[i] = WalkDescriptor(v, x)
  BY <1>1 DEF IsWalk
<1>3. /\ w[i].dlls = v.dlls \cup (IF x.there THEN {x.dll} ELSE {})
      /\ w[i].names = v.names \cup UNION {ThunkNames(t, b) : t \in x.tables}
      /\ w[i].unnamed = (v.unnamed \/ \E t \in x.tables : ByOrdinal(t, b))
      /\ w[i].complete = (/\ v.complete /\ x.there /\ x.tables # {}
                          /\ \A t \in x.tables : ThunksComplete(t, b))
      /\ w[i].budget = b - Cardinality(UNION {ThunksWalked(t, b) : t \in x.tables})
  BY <1>2 DEF WalkDescriptor
<1>4. w[i].budget \in Int
  <2> DEFINE U == UNION {ThunksWalked(t, b) : t \in x.tables}
  <2>1. IsFiniteSet(U)
    <3>1. CASE x.tables = {}
      <4>1. U = {}
        BY <3>1
      <4> QED
        BY <4>1, FS_EmptySet
    <3>2. CASE x.tables # {}
      <4>1. PICK t \in x.tables : TRUE
        BY <3>2
      <4>2. U = ThunksWalked(t, b)
        BY <4>1
      <4>3. Len(t.entries) \in Nat /\ DOMAIN t.entries = 1..Len(t.entries)
        BY SequencesAre
      <4>4. ThunksWalked(t, b) \subseteq 1..Len(t.entries)
        BY <4>3 DEF ThunksWalked
      <4>5. IsFiniteSet(1..Len(t.entries))
        BY <4>3, CountOfInterval
      <4> HIDE DEF U
      <4> QED
        BY <4>2, <4>4, <4>5, FS_Subset
    <3> QED
      BY <3>1, <3>2
  <2> HIDE DEF U
  <2>2. Cardinality(U) \in Nat
    BY <2>1, FS_CardinalityType
  <2>3. b \in Int
    BY DEF Walks
  <2> QED
    BY <1>3, <2>2, <2>3 DEF U
<1>5. w[i].dlls \subseteq {d.descriptors[j].dll : j \in 1..i}
  <2>1. v.dlls \subseteq {d.descriptors[j].dll : j \in 1..(i - 1)}
    BY DEF Walks
  <2> QED
    BY <1>1, <1>3, <2>1
<1> DEFINE entries(k) == UNION {UNION {Range(t.entries) : t \in d.descriptors[j].tables} : j \in 1..k}
<1>6. w[i].names \subseteq {e.name : e \in entries(i)}
  <2>1. v.names \subseteq {e.name : e \in entries(i - 1)}
    BY DEF Walks
  <2>2. entries(i - 1) \subseteq entries(i)
    BY <1>1
  <2>3. ASSUME NEW t \in x.tables
        PROVE  ThunkNames(t, b) \subseteq {e.name : e \in entries(i)}
    <3>1. Range(t.entries) \subseteq entries(i)
      BY <1>1
    <3>2. \A k \in ThunksWalked(t, b) : t.entries[k] \in Range(t.entries)
      BY DEF ThunksWalked, Range
    <3> HIDE DEF entries
    <3> QED
      BY <3>1, <3>2 DEF ThunkNames
  <2> HIDE DEF entries
  <2> QED
    BY <1>3, <2>1, <2>2, <2>3
<1>7. ASSUME w[i].complete
      PROVE  /\ Len(d.descriptors) < MaxDescriptors
             /\ \A j \in 1..i : /\ d.descriptors[j].dll \in w[i].dlls
                                /\ \A t \in d.descriptors[j].tables : \A e \in Range(t.entries) : EntryRead(w[i], e)
  <2>1. v.complete /\ x.there /\ \A t \in x.tables : ThunksComplete(t, b)
    BY <1>3, <1>7
  <2>2. /\ Len(d.descriptors) < MaxDescriptors
        /\ \A j \in 1..(i - 1) : /\ d.descriptors[j].dll \in v.dlls
                                 /\ \A t \in d.descriptors[j].tables : \A e \in Range(t.entries) : EntryRead(v, e)
    BY <2>1 DEF Walks
  <2>3. v.dlls \subseteq w[i].dlls /\ \A e : EntryRead(v, e) => EntryRead(w[i], e)
    BY <1>3 DEF EntryRead
  <2>4. x.dll \in w[i].dlls
    BY <1>3, <2>1
  <2>5. ASSUME NEW t \in x.tables, NEW e \in Range(t.entries)
        PROVE  EntryRead(w[i], e)
    <3>1. b \in Int
      BY DEF Walks
    <3>2. IF e.ordinal THEN ByOrdinal(t, b) ELSE e.name \in ThunkNames(t, b)
      BY <2>1, <3>1, TableWalked
    <3> QED
      BY <1>3, <3>2 DEF EntryRead
  <2> QED
    BY <1>1, <2>2, <2>3, <2>4, <2>5
<1> QED
  BY <1>4, <1>5, <1>6, <1>7 DEF Walks

LEMMA EveryWalk ==
  ASSUME NEW d, NEW n \in 0..Len(d.descriptors), NEW w, IsWalk(w, d, n), IsSequence(d.descriptors),
         \A x \in Range(d.descriptors) : (\A t \in x.tables : IsSequence(t.entries)) /\ \A t, u \in x.tables : t = u
  PROVE  Walks(w, d, n)
<1> DEFINE Bad == {i \in 0..n : ~Walks(w, d, i)}
<1>1. Bad \in SUBSET Nat /\ n \in Nat
  BY SequencesAre
<1>2. ASSUME NEW i \in Bad, \A k \in Bad : i <= k
      PROVE  FALSE
  <2>1. CASE i = 0
    <3>1. w[0] = Started(d)
      BY <1>1 DEF IsWalk
    <3>2. MaxThunks \in Int
      BY DirectoriesAssumption
    <3>3. /\ w[0].budget = MaxThunks /\ w[0].dlls = {} /\ w[0].names = {}
          /\ w[0].complete = (d.ends = "null" /\ Len(d.descriptors) < MaxDescriptors)
      BY <3>1 DEF Started
    <3>4. w[0].complete => Len(d.descriptors) < MaxDescriptors
      BY <3>3, Zenon
    <3>5. 1..0 = {}
      OBVIOUS
    <3>6. Walks(w, d, 0)
      BY <3>2, <3>3, <3>4, <3>5 DEF Walks
    <3> QED
      BY <2>1, <3>6
  <2>2. CASE i # 0
    <3>1. i \in 1..n /\ i - 1 \in 0..n /\ i - 1 \notin Bad
      BY <1>1, <1>2, <2>2
    <3>2. Walks(w, d, i - 1)
      BY <3>1
    <3>3. d.descriptors[i] \in Range(d.descriptors)
      <4>1. i \in DOMAIN d.descriptors
        BY <1>1, <3>1, SequencesAre
      <4> QED
        BY <4>1 DEF Range
    <3>4. Walks(w, d, i)
      BY <1>1, <3>1, <3>2, <3>3, OneMoreDescriptor
    <3> QED
      BY <3>4
  <2> QED
    BY <2>1, <2>2
<1> HIDE DEF Bad
<1>3. Bad = {}
  BY <1>1, <1>2, SomeIsLeast
<1> QED
  BY <1>1, <1>3 DEF Bad

LEMMA ImportItems ==
  ASSUME NEW d, IsSequence(d.descriptors), NEW x
  PROVE  x \in ImportsCarry(d) <=>
           \E j \in 1..Len(d.descriptors) :
             \/ x = Item("needed", d.descriptors[j].dll)
             \/ \E t \in d.descriptors[j].tables : \E e \in Range(t.entries) : x = Item("imported", e.name)
<1>1. DOMAIN d.descriptors = 1..Len(d.descriptors)
  BY SequencesAre
<1> DEFINE carries(c) == {Item("needed", c.dll)}
                         \cup {Item("imported", e.name) : e \in UNION {Range(t.entries) : t \in c.tables}}
<1>2. x \in ImportsCarry(d) <=> \E c \in Range(d.descriptors) : x \in carries(c)
  BY DEF ImportsCarry
<1>3. \A c : x \in carries(c) <=> (x = Item("needed", c.dll)
               \/ \E t \in c.tables : \E e \in Range(t.entries) : x = Item("imported", e.name))
  OBVIOUS
<1> HIDE DEF carries
<1>4. (\E c \in Range(d.descriptors) : x \in carries(c))
      <=> \E j \in 1..Len(d.descriptors) : x \in carries(d.descriptors[j])
  BY <1>1 DEF Range
<1> QED
  BY <1>2, <1>3, <1>4

\* What is read of one import directory.
ImportReading(d) ==
  LET walk == ReadImports(d) IN
  Together({Found({Item("needed", n) : n \in walk.dlls} \cup {Item("imported", n) : n \in walk.names}),
            IF walk.dlls = {} THEN LostQuietly("pe_no_import_directory") ELSE Nothing,
            IF walk.complete THEN Nothing ELSE Lost("pe_import_incomplete"),
            IF walk.unnamed THEN LostQuietly("pe_ordinal_import") ELSE Nothing})

LEMMA ImportsCover ==
  ASSUME NEW d, IsSequence(d.descriptors),
         \A x \in Range(d.descriptors) : (\A t \in x.tables : IsSequence(t.entries)) /\ \A t, u \in x.tables : t = u
  PROVE  (\A x \in ImportsCarry(d) : Covers(ImportReading(d), x)) /\ Exact(ImportReading(d), ImportsCarry(d))
<1> DEFINE walk == ReadImports(d)
           items == {Item("needed", n) : n \in walk.dlls} \cup {Item("imported", n) : n \in walk.names}
           none == IF walk.dlls = {} THEN LostQuietly("pe_no_import_directory") ELSE Nothing
           cut == IF walk.complete THEN Nothing ELSE Lost("pe_import_incomplete")
           ordinal == IF walk.unnamed THEN LostQuietly("pe_ordinal_import") ELSE Nothing
           N == Len(d.descriptors)
<1>1. N \in Nat /\ DOMAIN d.descriptors = 1..N
  BY SequencesAre
<1>2. PICK n \in 0..N : \E w : IsWalk(w, d, n) /\ walk = w[n] /\ (N < MaxDescriptors => n = N)
  BY <1>1, ReadImportsWalks
<1>3. PICK w : IsWalk(w, d, n) /\ walk = w[n] /\ (N < MaxDescriptors => n = N)
  BY <1>2
<1>4. Walks(w, d, n)
  BY <1>3, EveryWalk
<1>5. ImportReading(d) = Together({Found(items), none, cut, ordinal})
  BY Zenon DEF ImportReading
<1>6. /\ walk.dlls \subseteq {d.descriptors[j].dll : j \in 1..n}
      /\ walk.names \subseteq {e.name : e \in UNION {UNION {Range(t.entries) : t \in d.descriptors[j].tables} : j \in 1..n}}
      /\ walk.complete =>
           \A j \in 1..N : /\ d.descriptors[j].dll \in walk.dlls
                           /\ \A t \in d.descriptors[j].tables : \A e \in Range(t.entries) : EntryRead(walk, e)
  BY <1>3, <1>4 DEF Walks
<1> HIDE DEF walk
<1>7. ASSUME NEW x \in ImportsCarry(d)
      PROVE  Covers(ImportReading(d), x)
  <2>1. PICK j \in 1..N : \/ x = Item("needed", d.descriptors[j].dll)
                          \/ \E t \in d.descriptors[j].tables : \E e \in Range(t.entries) : x = Item("imported", e.name)
    BY ImportItems
  <2>2. x.kind \in {"needed", "imported"}
    BY <2>1 DEF Item
  <2>3. Covers(Found(items), x) \/ Covers(cut, x) \/ Covers(ordinal, x)
    <3>1. CASE ~walk.complete
      <4>1. x.kind \in Costs["pe_import_incomplete"]
        BY <2>2, PeCosts
      <4> QED
        BY <3>1, <4>1, LostCovers
    <3>2. CASE walk.complete /\ x = Item("needed", d.descriptors[j].dll)
      <4>1. x \in items
        BY <1>6, <3>2
      <4> QED
        BY <4>1, FoundCovers
    <3>3. CASE walk.complete /\ \E t \in d.descriptors[j].tables : \E e \in Range(t.entries) : x = Item("imported", e.name)
      <4>1. PICK t \in d.descriptors[j].tables : \E e \in Range(t.entries) : x = Item("imported", e.name)
        BY <3>3
      <4>2. PICK e \in Range(t.entries) : x = Item("imported", e.name)
        BY <4>1
      <4>3. EntryRead(walk, e)
        BY <1>6, <3>3, <4>1, <4>2
      <4>4. CASE e.ordinal
        <5>1. walk.unnamed
          BY <4>3, <4>4 DEF EntryRead
        <5>2. x.kind \in Costs["pe_ordinal_import"]
          BY <4>2, PeCosts DEF Item
        <5> QED
          BY <5>1, <5>2, LostCovers
      <4>5. CASE ~e.ordinal
        <5>1. x \in items
          BY <4>2, <4>3, <4>5 DEF EntryRead
        <5> QED
          BY <5>1, FoundCovers
      <4> QED
        BY <4>4, <4>5
    <3> QED
      BY <2>1, <3>1, <3>2, <3>3
  <2> HIDE DEF items, none, cut, ordinal
  <2> QED
    BY <1>5, <2>3, TogetherCovers
<1>8. items \subseteq ImportsCarry(d)
  <2>1. \A j \in 1..n : j \in 1..N
    BY <1>1
  <2>2. ASSUME NEW m \in walk.dlls
        PROVE  Item("needed", m) \in ImportsCarry(d)
    BY <1>6, <2>1, ImportItems
  <2>3. ASSUME NEW m \in walk.names
        PROVE  Item("imported", m) \in ImportsCarry(d)
    <3>1. PICK j \in 1..n : \E t \in d.descriptors[j].tables : \E e \in Range(t.entries) : m = e.name
      BY <1>6
    <3> QED
      BY <2>1, <3>1, ImportItems
  <2> QED
    BY <2>2, <2>3
<1>9. Exact(ImportReading(d), ImportsCarry(d))
  <2>1. Exact(Found(items), ImportsCarry(d))
    BY <1>8, FoundIsExact
  <2>2. Exact(none, ImportsCarry(d)) /\ Exact(cut, ImportsCarry(d)) /\ Exact(ordinal, ImportsCarry(d))
    BY NothingFoundIsExact
  <2> HIDE DEF items, none, cut, ordinal
  <2> QED
    BY <1>5, <2>1, <2>2, TogetherIsExact
<1> QED
  BY <1>7, <1>9

LEMMA ImportsAre ==
  ASSUME NEW f, PeFormed(f)
  PROVE  LET C == UNION {ImportsCarry(d) : d \in f.imports} IN
         (\A x \in C : Covers(Imports(f), x)) /\ Exact(Imports(f), C)
<1> DEFINE C == UNION {ImportsCarry(d) : d \in f.imports}
           read(d) == IF d.raises THEN Lost("pe_import_incomplete") ELSE ImportReading(d)
<1>1. CASE f.imports = {}
  <2>1. C = {}
    BY <1>1
  <2> QED
    BY <1>1, <2>1, NothingFoundIsExact DEF Imports
<1>2. CASE f.imports # {}
  <2>1. Imports(f) = Together({read(d) : d \in f.imports})
    BY <1>2, Zenon DEF Imports, ImportReading
  <2>2. ASSUME NEW d \in f.imports
        PROVE  (\A x \in ImportsCarry(d) : Covers(read(d), x)) /\ Exact(read(d), ImportsCarry(d))
    <3>1. (\A x \in ImportsCarry(d) : Covers(ImportReading(d), x)) /\ Exact(ImportReading(d), ImportsCarry(d))
      BY ImportsCover DEF PeFormed
    <3>2. ASSUME NEW x \in ImportsCarry(d)
          PROVE  x.kind \in Costs["pe_import_incomplete"]
      <4>1. x.kind \in {"needed", "imported"}
        BY DEF ImportsCarry, Item
      <4> QED
        BY <4>1, PeCosts
    <3> QED
      BY <3>1, <3>2, LostCovers, NothingFoundIsExact
  <2> HIDE DEF read
  <2>3. ASSUME NEW x \in C
        PROVE  Covers(Imports(f), x)
    BY <2>1, <2>2, TogetherCovers
  <2>4. ASSUME NEW d \in f.imports
        PROVE  Exact(read(d), C)
    <3>1. ImportsCarry(d) \subseteq C
      OBVIOUS
    <3> QED
      BY <2>2, <3>1 DEF Exact
  <2>5. Exact(Imports(f), C)
    BY <2>1, <2>4, TogetherIsExact
  <2> QED
    BY <2>3, <2>5
<1> QED
  BY <1>1, <1>2

LEMMA ExportsAre ==
  ASSUME NEW f
  PROVE  LET C == UNION {ExportsCarry(d) : d \in f.exports} IN
         (\A x \in C : Covers(Exports(f), x)) /\ Exact(Exports(f), C)
<1> DEFINE C == UNION {ExportsCarry(d) : d \in f.exports}
           read(d) == IF d.raises THEN Lost("pe_export_incomplete") ELSE ReadExports(d)
<1>1. Exports(f) = Together({read(d) : d \in f.exports})
  BY Zenon DEF Exports
<1>2. ASSUME NEW d \in f.exports
      PROVE  (\A x \in ExportsCarry(d) : Covers(read(d), x)) /\ Exact(read(d), ExportsCarry(d))
  BY ExportsCover, ExportsAreExact, LostCovers, NothingFoundIsExact
<1> HIDE DEF read
<1>3. ASSUME NEW x \in C
      PROVE  Covers(Exports(f), x)
  BY <1>1, <1>2, TogetherCovers
<1>4. ASSUME NEW d \in f.exports
      PROVE  Exact(read(d), C)
  <2>1. ExportsCarry(d) \subseteq C
    OBVIOUS
  <2> QED
    BY <1>2, <2>1 DEF Exact
<1>5. Exact(Exports(f), C)
  BY <1>1, <1>4, TogetherIsExact
<1> QED
  BY <1>3, <1>5

\* What such a file carries is of the kinds, and a string is one of its strings.
LEMMA PeKinds ==
  ASSUME NEW f, PeFormed(f), NEW x \in PeCarries(f)
  PROVE  x.kind \in Kinds /\ (x.kind = "strings" => x \in f.strings)
<1>1. x \in f.strings \/ x.kind \in {"needed", "soname", "imported", "defined"}
  BY DEF PeFormed, PeCarries, ImportsCarry, ExportsCarry, SlotCarries, Item
<1>2. x \in f.strings => x.kind = "strings"
  BY DEF PeFormed
<1> QED
  BY <1>1, <1>2 DEF Kinds, Structural, Symbols

\* What a PE carries, its descriptors' libraries and the entries of their lookup
\* tables, its exports with what they forward to, the delay-loaded imports and its
\* strings, is in the record or accounted for, and a record with no reason has
\* nothing else: the budgets of the walk, a table with no end and an ordinal that
\* has no name included (binfmt/pe.py, _read_imports and _read_exports).
THEOREM PeIsTold ==
  ASSUME NEW f, PeFormed(f)
  PROVE  Told(PeCarries(f), ReadPe(f)) /\ Exact(ReadPe(f), PeCarries(f))
<1> DEFINE I == UNION {ImportsCarry(d) : d \in f.imports}
           E == UNION {ExportsCarry(d) : d \in f.exports}
           C == PeCarries(f)
           header == StringsOnly(f, f.strings, "pe_header_unread")
           cut == IF f.whole THEN Nothing ELSE Lost("pe_section_table_truncated")
           later == IF f.delayed = {} THEN Nothing ELSE LostQuietly("pe_delay_load")
           parts == {WholeStrings(f, f.strings), Imports(f), Exports(f), cut, later}
<1>1. C = f.strings \cup f.delayed \cup I \cup E
  BY DEF PeCarries
<1>2. (\A x \in f.strings : x.kind = "strings") /\ \A x \in f.delayed : x.kind \in {"needed", "imported"}
  BY DEF PeFormed
<1>3. \A x \in C : x.kind \in Kinds /\ (x.kind = "strings" => x \in f.strings)
  BY PeKinds
<1> HIDE DEF I, E, C
<1>4. CASE ~f.headers
  <2>1. \A x \in C : Covers(header, x)
    BY <1>3, PeCosts, StringsOnlyCover
  <2>2. [header EXCEPT !.erred = TRUE].got = header.got /\ [header EXCEPT !.erred = TRUE].why = header.why
    BY DEF StringsOnly, Both, Reading
  <2>3. header.why # {}
    BY DEF StringsOnly, Both, LostQuietly, Reading
  <2>4. ReadPe(f) = [header EXCEPT !.erred = TRUE]
    BY <1>4 DEF ReadPe
  <2> HIDE DEF header
  <2>5. (\A x \in C : Covers(ReadPe(f), x)) /\ Exact(ReadPe(f), C)
    BY <2>1, <2>2, <2>3, <2>4 DEF Covers, Exact
  <2> QED
    BY <2>5, ToldIsCovering DEF C
<1>5. CASE f.headers
  <2>1. ReadPe(f) = Together(parts)
    BY <1>5, Zenon DEF ReadPe
  <2>2. (\A x \in I : Covers(Imports(f), x)) /\ Exact(Imports(f), I)
    BY ImportsAre DEF I
  <2>3. (\A x \in E : Covers(Exports(f), x)) /\ Exact(Exports(f), E)
    BY ExportsAre DEF E
  <2>4. \A x \in f.strings : Covers(WholeStrings(f, f.strings), x)
    BY <1>2, StringsAreCovered
  <2>5. \A x \in f.delayed : Covers(later, x)
    BY <1>2, PeCosts, LostCovers
  <2>6. Exact(WholeStrings(f, f.strings), C)
    BY <1>1, StringsAreExact
  <2>7. Exact(Imports(f), C) /\ Exact(Exports(f), C)
    BY <1>1, <2>2, <2>3 DEF Exact
  <2>8. Exact(cut, C) /\ Exact(later, C)
    BY NothingFoundIsExact
  <2> HIDE DEF cut, later
  <2>9. \A x \in C : Covers(ReadPe(f), x)
    BY <1>1, <2>1, <2>2, <2>3, <2>4, <2>5, TogetherCovers
  <2>10. Exact(ReadPe(f), C)
    BY <2>1, <2>6, <2>7, <2>8, TogetherIsExact
  <2> QED
    BY <2>9, <2>10, ToldIsCovering DEF C
<1> QED
  BY <1>4, <1>5

----------------------------------------------------------------------------
(* ELF: the sections and what finding them gives.                          *)

LEMMA ElfCosts ==
  /\ Structural \subseteq Costs["elf_header_unread"]
  /\ Structural \subseteq Costs["elf_section_table_truncated"]
  /\ Structural \subseteq Costs["elf_section_table_absent"]
  /\ Kinds \subseteq Costs["elf_sections_unread"]
  /\ {"needed", "soname", "rpath"} \cup Symbols \subseteq Costs["elf_section_type_ambiguous"]
  /\ {"needed", "soname", "rpath", "defined", "undeclared"} \subseteq Costs["elf_dynamic_unread"]
  /\ Symbols \subseteq Costs["elf_dynsym_unread"]
  /\ Symbols \subseteq Costs["elf_symtab_unread"]
  /\ {"strings", "packed"} \subseteq Costs["elf_section_data_unread"]
  /\ {"strings", "packed"} \subseteq Costs["strings_bytes_unread"]
  /\ "buildinfo" \in Costs["elf_go_buildinfo_unread"]
  BY DEF Costs, Kinds, Structural

LEMMA SectionsRead ==
  ASSUME NEW f, ElfFormed(f), ~SectionsUnread(f)
  PROVE  /\ Readable(f) = DOMAIN f.sections
         /\ DOMAIN f.sections = 1..Len(f.sections) /\ Len(f.sections) \in Nat
         /\ \A i \in DOMAIN f.sections : SectionFormed(f.sections[i])
  BY SequencesAre DEF SectionsUnread, ElfFormed

LEMMA OneOrNone ==
  ASSUME NEW S, IsFiniteSet(S), ~(Cardinality(S) > 1)
  PROVE  (Cardinality(S) # 1 => S = {}) /\ \A i, j \in S : i = j
<1>1. Cardinality(S) \in Nat
  BY FS_CardinalityType
<1>2. CASE Cardinality(S) = 0
  <2>1. S = {}
    BY <1>2, FS_EmptySet
  <2> QED
    BY <2>1
<1>3. CASE Cardinality(S) = 1
  <2>1. PICK a : S = {a}
    BY <1>3, FS_Singleton
  <2> QED
    BY <1>3, <2>1
<1> QED
  BY <1>1, <1>2, <1>3

\* A section that is neither ambiguous nor mistyped is the one of its type and
\* the one of its name.
LEMMA FoundByType ==
  ASSUME NEW f, ElfFormed(f), ~SectionsUnread(f), NEW type, NEW name,
         ~Ambiguous(f, type), ~TypeMismatch(f, name, type)
  PROVE  ByType(f, type) = Are(f, type, name) /\ \A i, j \in Are(f, type, name) : i = j
<1>1. Readable(f) = DOMAIN f.sections /\ DOMAIN f.sections = 1..Len(f.sections) /\ Len(f.sections) \in Nat
  BY SectionsRead
<1>2. OfType(f, type) \subseteq 1..Len(f.sections)
  BY <1>1 DEF OfType
<1>3. IsFiniteSet(OfType(f, type))
  BY <1>1, <1>2, CountOfInterval, FS_Subset
<1>4. ~(Cardinality(OfType(f, type)) > 1)
  BY DEF Ambiguous
<1>5. (Cardinality(OfType(f, type)) # 1 => OfType(f, type) = {}) /\ \A i, j \in OfType(f, type) : i = j
  BY <1>3, <1>4, OneOrNone
<1>6. ByType(f, type) = OfType(f, type)
  BY <1>5 DEF ByType
<1>7. Are(f, type, name) = OfType(f, type)
  BY <1>1 DEF Are, OfType, OfName, TypeMismatch
<1> QED
  BY <1>5, <1>6, <1>7

LEMMA FindingCovers ==
  ASSUME NEW f, NEW name, NEW type, NEW reason, NEW x,
         x.kind \in Costs["elf_section_type_ambiguous"], x.kind \in Costs[reason],
         Ambiguous(f, type) \/ TypeMismatch(f, name, type)
  PROVE  Covers(Finding(f, name, type, reason), x)
  BY LostCovers DEF Finding, ElfError

LEMMA FindingIsExact ==
  ASSUME NEW f, NEW name, NEW type, NEW reason, NEW carried
  PROVE  Exact(Finding(f, name, type, reason), carried)
<1>1. Finding(f, name, type, reason) \in {Nothing, Lost("elf_section_type_ambiguous"), Lost(reason)}
  BY DEF Finding, ElfError
<1> QED
  BY <1>1, NothingFoundIsExact

LEMMA ByTypeAre ==
  ASSUME NEW f, NEW type, NEW name
  PROVE  ByType(f, type) \subseteq Are(f, type, name) /\ ByType(f, type) \subseteq DOMAIN f.sections
         /\ \A i \in ByType(f, type) : f.sections[i].type = type
  BY DEF ByType, OfType, Are, Readable

----------------------------------------------------------------------------
(* .dynamic.                                                               *)

LEMMA DynamicCovers ==
  ASSUME NEW f, ElfFormed(f), ~SectionsUnread(f),
         NEW x \in OfKind(PresentIn(f, Are(f, "DYNAMIC", ".dynamic")), {"needed", "soname", "rpath"})
  PROVE  Covers(Dynamic(f), x)
<1> DEFINE find == Finding(f, ".dynamic", "DYNAMIC", "elf_dynamic_unread")
           read(i) == LET s == f.sections[i] IN
             IF s.raises \/ ValidatedStrtab(f, s, s.dtStrtab) = {}
             THEN ElfError("elf_dynamic_unread")
             ELSE Found(OfKind({h.item : h \in s.holds}, {"needed", "soname", "rpath"}))
<1>1. Dynamic(f) = Together({find} \cup {read(i) : i \in ByType(f, "DYNAMIC")})
  BY DEF Dynamic
<1>2. x.kind \in {"needed", "soname", "rpath"}
  BY DEF OfKind
<1>3. CASE Ambiguous(f, "DYNAMIC") \/ TypeMismatch(f, ".dynamic", "DYNAMIC")
  <2>1. Covers(find, x)
    BY <1>2, <1>3, ElfCosts, FindingCovers
  <2> HIDE DEF find, read
  <2> QED
    BY <1>1, <2>1, TogetherCovers
<1>4. CASE ~Ambiguous(f, "DYNAMIC") /\ ~TypeMismatch(f, ".dynamic", "DYNAMIC")
  <2>1. PICK i \in ByType(f, "DYNAMIC") : x \in Present(f.sections[i])
    BY <1>4, FoundByType DEF OfKind, PresentIn
  <2>2. x \in OfKind({h.item : h \in f.sections[i].holds}, {"needed", "soname", "rpath"})
    BY <1>2, <2>1 DEF Present, OfKind
  <2>3. Covers(read(i), x)
    BY <1>2, <2>2, ElfCosts, LostCovers, FoundCovers DEF ElfError
  <2> HIDE DEF find, read
  <2> QED
    BY <1>1, <2>1, <2>3, TogetherCovers
<1> QED
  BY <1>3, <1>4

LEMMA DynamicIsExact ==
  ASSUME NEW f, ElfFormed(f), NEW carried,
         OfKind(PresentIn(f, Are(f, "DYNAMIC", ".dynamic")), {"needed", "soname", "rpath"}) \subseteq carried
  PROVE  Exact(Dynamic(f), carried)
<1> DEFINE find == Finding(f, ".dynamic", "DYNAMIC", "elf_dynamic_unread")
           read(i) == LET s == f.sections[i] IN
             IF s.raises \/ ValidatedStrtab(f, s, s.dtStrtab) = {}
             THEN ElfError("elf_dynamic_unread")
             ELSE Found(OfKind({h.item : h \in s.holds}, {"needed", "soname", "rpath"}))
<1>1. Dynamic(f) = Together({find} \cup {read(i) : i \in ByType(f, "DYNAMIC")})
  BY DEF Dynamic
<1>2. Exact(find, carried)
  BY FindingIsExact
<1>3. ASSUME NEW i \in ByType(f, "DYNAMIC")
      PROVE  Exact(read(i), carried)
  <2> DEFINE s == f.sections[i]
             items == OfKind({h.item : h \in s.holds}, {"needed", "soname", "rpath"})
  <2>1. i \in Are(f, "DYNAMIC", ".dynamic") /\ i \in DOMAIN f.sections /\ s.type = "DYNAMIC"
    BY ByTypeAre
  <2>2. CASE s.raises \/ ValidatedStrtab(f, s, s.dtStrtab) = {}
    BY <2>2, NothingFoundIsExact DEF ElfError
  <2>3. CASE ~(s.raises \/ ValidatedStrtab(f, s, s.dtStrtab) = {})
    <3>1. \A h \in s.holds : h.at <= s.present
      BY <2>1, <2>3 DEF ElfFormed, SectionFormed
    <3>2. items \subseteq carried
      BY <2>1, <3>1 DEF OfKind, PresentIn, Present
    <3>3. Exact(Found(items), carried)
      BY <3>2, FoundIsExact
    <3> QED
      BY <2>3, <3>3
  <2> QED
    BY <2>2, <2>3
<1> HIDE DEF find, read
<1> QED
  BY <1>1, <1>2, <1>3, TogetherIsExact

----------------------------------------------------------------------------
(* .dynsym.                                                                *)

\* The string table a symbol table links to is one section, whose link it is.
LEMMA LinkedIs ==
  ASSUME NEW f, NEW s, NEW j \in LinkedStrtab(f, s)
  PROVE  j = s.link /\ j \in OfType(f, "STRTAB") /\ j \in DOMAIN f.sections
  BY DEF LinkedStrtab, OfType, Readable

LEMMA ValidatedIs ==
  ASSUME NEW f, NEW i, NEW j \in DynsymStrtab(f, i)
  PROVE  /\ j = f.sections[i].link /\ j \in DOMAIN f.sections
         /\ f.sections[j].addr = DtStrtab(f)
  BY LinkedIs DEF DynsymStrtab, ValidatedStrtab

\* A named row that resolves has its name read, or found a table of NULs.
LEMMA RowIsRead ==
  ASSUME NEW f, NEW i, NEW strtab, ~Unresolved(f, i, strtab), NEW r \in f.sections[i].rows, r.named
  PROVE  \E j \in strtab : /\ ~f.sections[j].nul => r.name \in f.sections[j].names
                           /\ r.name \in f.sections[j].names => NameRead(f, r, strtab)
                           /\ f.sections[j].nul \/ NameRead(f, r, strtab)
<1>1. RowResolved(f, r, strtab)
  BY DEF Unresolved
<1>2. ~r.spent /\ \E j \in strtab : r.name \in f.sections[j].names \/ f.sections[j].nul
  BY <1>1 DEF RowResolved
<1> QED
  BY <1>2 DEF NameRead

LEMMA NamesAreOfRows ==
  ASSUME NEW f, NEW i, NEW strtab, NEW n \in NamesRead(f, i, strtab)
  PROVE  /\ \E r \in f.sections[i].rows : r.named /\ r.name = n
         /\ \E j \in strtab : n \in f.sections[j].names
  BY DEF NamesRead, NameRead

LEMMA SymbolKinds ==
  ASSUME NEW r
  PROVE  /\ SymbolOf(r).kind \in {"imported", "defined"} /\ SymbolOf(r).name = r.name
         /\ SymbolOf(r).kind = (IF r.undefined THEN "imported" ELSE "defined")
  BY DEF SymbolOf, Item

LEMMA UnderstatedCovers ==
  ASSUME NEW reason, NEW x, x.kind \in Costs[reason]
  PROVE  Covers(Understated(reason), x)
  BY DEF Covers, Understated, Reading

LEMMA DynsymRowCovered ==
  ASSUME NEW f, ~StrtabReplaced(f), NEW i \in DOMAIN f.sections, NEW r \in f.sections[i].rows, r.named
  PROVE  Covers(DynsymRows(f, i), SymbolOf(r))
<1> DEFINE strtab == DynsymStrtab(f, i)
           found == Found(SymbolsRead(f, i, strtab))
           rest == IF Unresolved(f, i, strtab) THEN ElfError("elf_dynsym_unread")
                   ELSE IF \E j \in strtab : HoldsNotRead(f.sections[j].names, NamesRead(f, i, strtab))
                        THEN Understated("elf_dynsym_unread") ELSE Nothing
           x == SymbolOf(r)
<1>1. DynsymRows(f, i) = IF BytesUnread(f, i, strtab) \/ Raises(f, i, strtab)
                         THEN ElfError("elf_dynsym_unread") ELSE Both(found, rest)
  BY Zenon DEF DynsymRows
<1>2. x.kind \in Costs["elf_dynsym_unread"]
  BY SymbolKinds, ElfCosts DEF Symbols
<1>3. CASE BytesUnread(f, i, strtab) \/ Raises(f, i, strtab)
  BY <1>1, <1>2, <1>3, LostCovers DEF ElfError
<1>4. CASE ~(BytesUnread(f, i, strtab) \/ Raises(f, i, strtab)) /\ Unresolved(f, i, strtab)
  <2>1. Covers(rest, x)
    BY <1>2, <1>4, LostCovers DEF ElfError
  <2> HIDE DEF rest, found
  <2> QED
    BY <1>1, <1>4, <2>1, BothCovers
<1>5. CASE ~(BytesUnread(f, i, strtab) \/ Raises(f, i, strtab)) /\ ~Unresolved(f, i, strtab)
  <2>1. PICK j \in strtab : f.sections[j].nul \/ NameRead(f, r, strtab)
    BY <1>5, RowIsRead
  <2>2. j = f.sections[i].link /\ j \in DOMAIN f.sections /\ f.sections[j].addr = DtStrtab(f)
    BY <2>1, ValidatedIs
  <2>3. ~f.sections[j].nul
    BY <2>2 DEF StrtabReplaced
  <2>4. x \in SymbolsRead(f, i, strtab)
    BY <2>1, <2>3 DEF SymbolsRead
  <2>5. Covers(found, x)
    BY <2>4, FoundCovers
  <2> HIDE DEF rest, found
  <2> QED
    BY <1>1, <1>5, <2>5, BothCovers
<1> QED
  BY <1>3, <1>4, <1>5

LEMMA DynsymNameCovered ==
  ASSUME NEW f, NEW i \in DOMAIN f.sections, NEW j, j = f.sections[i].link, NEW n \in f.sections[j].names,
         \A r \in f.sections[i].rows : r.named => r.name # n,
         (\E r \in f.sections[i].rows : r.named) \/ DynsymStrtab(f, i) # {}
  PROVE  Covers(DynsymRows(f, i), Item("undeclared", n))
<1> DEFINE strtab == DynsymStrtab(f, i)
           found == Found(SymbolsRead(f, i, strtab))
           hidden == \E k \in strtab : HoldsNotRead(f.sections[k].names, NamesRead(f, i, strtab))
           rest == IF Unresolved(f, i, strtab) THEN ElfError("elf_dynsym_unread")
                   ELSE IF hidden THEN Understated("elf_dynsym_unread") ELSE Nothing
           x == Item("undeclared", n)
<1>1. DynsymRows(f, i) = IF BytesUnread(f, i, strtab) \/ Raises(f, i, strtab)
                         THEN ElfError("elf_dynsym_unread") ELSE Both(found, rest)
  BY Zenon DEF DynsymRows
<1>2. x.kind \in Costs["elf_dynsym_unread"]
  BY ElfCosts DEF Symbols, Item
<1>3. CASE BytesUnread(f, i, strtab) \/ Raises(f, i, strtab)
  BY <1>1, <1>2, <1>3, LostCovers DEF ElfError
<1>4. CASE ~(BytesUnread(f, i, strtab) \/ Raises(f, i, strtab))
  <2>1. ASSUME ~Unresolved(f, i, strtab)
        PROVE  hidden
    <3>1. strtab # {}
      <4>1. CASE \E r \in f.sections[i].rows : r.named
        <5>1. PICK r \in f.sections[i].rows : r.named
          BY <4>1
        <5> QED
          BY <2>1, <5>1, RowIsRead
      <4> QED
        BY <4>1
    <3>2. j \in strtab
      BY <3>1, ValidatedIs
    <3>3. n \notin NamesRead(f, i, strtab)
      BY NamesAreOfRows
    <3> QED
      BY <3>2, <3>3 DEF HoldsNotRead
  <2> HIDE DEF hidden
  <2>2. Covers(rest, x)
    BY <1>2, <2>1, LostCovers, UnderstatedCovers DEF ElfError
  <2> HIDE DEF rest, found
  <2> QED
    BY <1>1, <1>4, <2>2, BothCovers
<1> QED
  BY <1>3, <1>4

\* What is told of .dynsym's rows, or is lost for want of a .dynsym, is told.
LEMMA DynsymTells ==
  ASSUME NEW f, ElfFormed(f), ~SectionsUnread(f), NEW i \in Dynsyms(f), NEW x, x.kind \in Symbols,
         Covers(DynsymRows(f, i), x)
  PROVE  Covers(Dynsym(f), x)
<1> DEFINE find == Finding(f, ".dynsym", "DYNSYM", "elf_dynsym_unread")
           count(k) == IF f.sections[k].miscounted THEN ElfError("elf_dynsym_unread") ELSE Nothing
           read(k) == Both(DynsymRows(f, k), count(k))
<1>1. Dynsym(f) = Together({find} \cup {read(k) : k \in ByType(f, "DYNSYM")})
  BY DEF Dynsym
<1>2. CASE Ambiguous(f, "DYNSYM") \/ TypeMismatch(f, ".dynsym", "DYNSYM")
  <2>1. Covers(find, x)
    BY <1>2, ElfCosts, FindingCovers
  <2> HIDE DEF find, read
  <2> QED
    BY <1>1, <2>1, TogetherCovers
<1>3. CASE ~Ambiguous(f, "DYNSYM") /\ ~TypeMismatch(f, ".dynsym", "DYNSYM")
  <2>1. i \in ByType(f, "DYNSYM")
    BY <1>3, FoundByType DEF Dynsyms
  <2> HIDE DEF count
  <2>2. Covers(read(i), x)
    BY BothCovers
  <2> HIDE DEF find, read
  <2> QED
    BY <1>1, <2>1, <2>2, TogetherCovers
<1> QED
  BY <1>2, <1>3

LEMMA NoDynsymTells ==
  ASSUME NEW f, NEW x, x.kind \in Symbols,
         Ambiguous(f, "DYNSYM") \/ TypeMismatch(f, ".dynsym", "DYNSYM")
  PROVE  Covers(Dynsym(f), x)
<1> DEFINE find == Finding(f, ".dynsym", "DYNSYM", "elf_dynsym_unread")
           read(k) == Both(DynsymRows(f, k), IF f.sections[k].miscounted THEN ElfError("elf_dynsym_unread") ELSE Nothing)
<1>1. Dynsym(f) = Together({find} \cup {read(k) : k \in ByType(f, "DYNSYM")})
  BY DEF Dynsym
<1>2. Covers(find, x)
  BY ElfCosts, FindingCovers
<1> HIDE DEF find, read
<1> QED
  BY <1>1, <1>2, TogetherCovers

LEMMA DynsymIsExact ==
  ASSUME NEW f, NEW carried,
         \A i \in ByType(f, "DYNSYM") : \A r \in f.sections[i].rows : r.named => SymbolOf(r) \in carried
  PROVE  Exact(Dynsym(f), carried)
<1> DEFINE find == Finding(f, ".dynsym", "DYNSYM", "elf_dynsym_unread")
           count(k) == IF f.sections[k].miscounted THEN ElfError("elf_dynsym_unread") ELSE Nothing
           read(k) == Both(DynsymRows(f, k), count(k))
<1>1. Dynsym(f) = Together({find} \cup {read(k) : k \in ByType(f, "DYNSYM")})
  BY DEF Dynsym
<1>2. Exact(find, carried)
  BY FindingIsExact
<1>3. ASSUME NEW i \in ByType(f, "DYNSYM")
      PROVE  Exact(DynsymRows(f, i), carried)
  <2> DEFINE strtab == DynsymStrtab(f, i)
             found == Found(SymbolsRead(f, i, strtab))
             rest == IF Unresolved(f, i, strtab) THEN ElfError("elf_dynsym_unread")
                     ELSE IF \E j \in strtab : HoldsNotRead(f.sections[j].names, NamesRead(f, i, strtab))
                          THEN Understated("elf_dynsym_unread") ELSE Nothing
  <2>1. DynsymRows(f, i) = IF BytesUnread(f, i, strtab) \/ Raises(f, i, strtab)
                           THEN ElfError("elf_dynsym_unread") ELSE Both(found, rest)
    BY Zenon DEF DynsymRows
  <2>3. SymbolsRead(f, i, strtab) \subseteq carried
    BY DEF SymbolsRead, NameRead
  <2>4. Exact(found, carried)
    BY <2>3, FoundIsExact
  <2>5. Exact(Understated("elf_dynsym_unread"), carried)
    BY DEF Exact, Understated, Reading
  <2>6. Exact(rest, carried)
    BY <2>5, NothingFoundIsExact DEF ElfError
  <2>7. Exact(ElfError("elf_dynsym_unread"), carried)
    BY NothingFoundIsExact DEF ElfError
  <2> HIDE DEF found, rest
  <2> QED
    BY <2>1, <2>4, <2>6, <2>7, BothIsExact
<1>4. ASSUME NEW i \in ByType(f, "DYNSYM")
      PROVE  Exact(read(i), carried)
  <2>1. Exact(count(i), carried)
    BY NothingFoundIsExact DEF ElfError
  <2> HIDE DEF count
  <2> QED
    BY <1>3, <2>1, BothIsExact
<1> HIDE DEF find, read
<1> QED
  BY <1>1, <1>2, <1>4, TogetherIsExact

----------------------------------------------------------------------------
(* .symtab.                                                                *)

\* A name some string table holds, and that no row gave, is one the
\* cross-check finds, unless it cannot look.
LEMMA CrossCheckCovers ==
  ASSUME NEW f, NEW read, NEW j \in OfType(f, "STRTAB"), NEW n \in f.sections[j].names, n \notin read,
         NEW x, x.kind \in Symbols
  PROVE  Covers(CrossCheck(f, read), x)
<1>1. x.kind \in Costs["elf_symtab_unread"]
  BY ElfCosts
<1>2. HoldsNotRead(f.sections[j].names, read)
  BY DEF HoldsNotRead
<1>3. j \in Telling(f, read)
  BY <1>2, Zenon DEF Telling, Hits
<1>4. CASE AnyStrtabHoldsNotRead(f, read)
  BY <1>1, <1>4, UnderstatedCovers DEF CrossCheck
<1>5. CASE ~AnyStrtabHoldsNotRead(f, read)
  <2>1. StrtabRaises(f, read)
    BY <1>3, <1>5 DEF StrtabRaises
  <2> QED
    BY <1>1, <1>5, <2>1, LostCovers DEF CrossCheck, ElfError
<1> QED
  BY <1>4, <1>5

\* Where a name is behind a link that is a string table, or behind rows that
\* resolve, it is in a string table.
LEMMA LinkIsStrtab ==
  ASSUME NEW f, NEW i \in DOMAIN f.sections, ~Unresolved(f, i, LinkedStrtab(f, f.sections[i])),
         (\E r \in f.sections[i].rows : r.named) \/ LinkedStrtab(f, f.sections[i]) # {}
  PROVE  f.sections[i].link \in OfType(f, "STRTAB")
<1> DEFINE strtab == LinkedStrtab(f, f.sections[i])
<1>1. strtab # {}
  <2>1. CASE \E r \in f.sections[i].rows : r.named
    <3>1. PICK r \in f.sections[i].rows : r.named
      BY <2>1
    <3> QED
      BY <3>1, RowIsRead
  <2> QED
    BY <2>1
<1> QED
  BY <1>1, LinkedIs

\* A row of .symtab was read, or the name it hides is in a string table and
\* not among the names that were.
LEMMA SymtabRowIsRead ==
  ASSUME NEW f, ElfFormed(f), ~SectionsUnread(f), ~StrtabReplaced(f),
         NEW i \in DOMAIN f.sections, NEW r \in f.sections[i].rows, r.named,
         ~Unresolved(f, i, LinkedStrtab(f, f.sections[i]))
  PROVE  \/ NameRead(f, r, LinkedStrtab(f, f.sections[i]))
         \/ \E k \in OfType(f, "STRTAB") :
              r.name \in f.sections[k].names
                         \ (DynsymNames(f) \cup NamesRead(f, i, LinkedStrtab(f, f.sections[i])))
<1> DEFINE strtab == LinkedStrtab(f, f.sections[i])
<1>1. PICK j \in strtab : f.sections[j].nul \/ NameRead(f, r, strtab)
  BY RowIsRead
<1>2. j = f.sections[i].link /\ j \in DOMAIN f.sections
  BY <1>1, LinkedIs
<1>3. CASE f.sections[j].nul
  <2>1. f.sections[j].names = {}
    BY <1>2, <1>3, SectionsRead DEF SectionFormed
  <2>2. NamesRead(f, i, strtab) = {}
    <3>1. \A k \in strtab : k = j
      BY <1>2, LinkedIs
    <3> QED
      BY <2>1, <3>1, NamesAreOfRows
  <2>3. PICK k \in OfType(f, "STRTAB") : r.name \in f.sections[k].names \ DynsymNames(f)
    BY <1>2, <1>3 DEF StrtabReplaced
  <2> QED
    BY <2>2, <2>3
<1> QED
  BY <1>1, <1>3

LEMMA SoleRowCovered ==
  ASSUME NEW f, ElfFormed(f), ~SectionsUnread(f), ~StrtabReplaced(f),
         NEW i \in DOMAIN f.sections, NEW r \in f.sections[i].rows, r.named, ~r.pseudo
  PROVE  Covers(SoleRows(f, i), SymbolOf(r))
<1> DEFINE strtab == LinkedStrtab(f, f.sections[i])
           found == Found(CodeSymbolsRead(f, i, strtab))
           check == CrossCheck(f, NamesRead(f, i, strtab))
           rest == IF Unresolved(f, i, strtab) THEN ElfError("elf_symtab_unread") ELSE check
           x == SymbolOf(r)
<1>1. SoleRows(f, i) = IF BytesUnread(f, i, strtab) \/ Raises(f, i, strtab)
                       THEN ElfError("elf_symtab_unread") ELSE Both(found, rest)
  BY Zenon DEF SoleRows
<1>2. x.kind \in Symbols /\ x.kind \in Costs["elf_symtab_unread"]
  BY SymbolKinds, ElfCosts DEF Symbols
<1>3. CASE BytesUnread(f, i, strtab) \/ Raises(f, i, strtab)
  BY <1>1, <1>2, <1>3, LostCovers DEF ElfError
<1>4. CASE ~(BytesUnread(f, i, strtab) \/ Raises(f, i, strtab))
  <2>1. Covers(found, x) \/ Covers(rest, x)
    <3>1. CASE Unresolved(f, i, strtab)
      BY <1>2, <3>1, LostCovers DEF ElfError
    <3>2. CASE ~Unresolved(f, i, strtab) /\ NameRead(f, r, strtab)
      <4>1. x \in CodeSymbolsRead(f, i, strtab)
        BY <3>2 DEF CodeSymbolsRead
      <4> QED
        BY <4>1, FoundCovers
    <3>3. CASE ~Unresolved(f, i, strtab) /\ ~NameRead(f, r, strtab)
      <4>1. PICK k \in OfType(f, "STRTAB") : r.name \in f.sections[k].names \ NamesRead(f, i, strtab)
        BY <3>3, SymtabRowIsRead
      <4>2. Covers(check, x)
        BY <1>2, <4>1, CrossCheckCovers
      <4> QED
        BY <3>3, <4>2
    <3> QED
      BY <3>1, <3>2, <3>3
  <2> HIDE DEF rest, found
  <2> QED
    BY <1>1, <1>4, <2>1, BothCovers
<1> QED
  BY <1>3, <1>4

LEMMA SoleNameCovered ==
  ASSUME NEW f, NEW i \in DOMAIN f.sections, NEW j, j = f.sections[i].link, NEW n \in f.sections[j].names,
         \A r \in f.sections[i].rows : r.named => r.name # n,
         (\E r \in f.sections[i].rows : r.named) \/ LinkedStrtab(f, f.sections[i]) # {}
  PROVE  Covers(SoleRows(f, i), Item("undeclared", n))
<1> DEFINE strtab == LinkedStrtab(f, f.sections[i])
           found == Found(CodeSymbolsRead(f, i, strtab))
           check == CrossCheck(f, NamesRead(f, i, strtab))
           rest == IF Unresolved(f, i, strtab) THEN ElfError("elf_symtab_unread") ELSE check
           x == Item("undeclared", n)
<1>1. SoleRows(f, i) = IF BytesUnread(f, i, strtab) \/ Raises(f, i, strtab)
                       THEN ElfError("elf_symtab_unread") ELSE Both(found, rest)
  BY Zenon DEF SoleRows
<1>2. x.kind \in Symbols /\ x.kind \in Costs["elf_symtab_unread"]
  BY ElfCosts DEF Symbols, Item
<1>3. CASE BytesUnread(f, i, strtab) \/ Raises(f, i, strtab)
  BY <1>1, <1>2, <1>3, LostCovers DEF ElfError
<1>4. CASE ~(BytesUnread(f, i, strtab) \/ Raises(f, i, strtab))
  <2>1. Covers(rest, x)
    <3>1. CASE Unresolved(f, i, strtab)
      BY <1>2, <3>1, LostCovers DEF ElfError
    <3>2. CASE ~Unresolved(f, i, strtab)
      <4>1. j \in OfType(f, "STRTAB")
        BY <3>2, LinkIsStrtab
      <4>2. n \notin NamesRead(f, i, strtab)
        BY NamesAreOfRows
      <4>3. Covers(check, x)
        BY <1>2, <4>1, <4>2, CrossCheckCovers
      <4> QED
        BY <3>2, <4>3
    <3> QED
      BY <3>1, <3>2
  <2> HIDE DEF rest, found
  <2> QED
    BY <1>1, <1>4, <2>1, BothCovers
<1> QED
  BY <1>3, <1>4

\* Beside a .dynsym, whose own reading may be why nothing is asked.
LEMMA SupplementaryRowCovered ==
  ASSUME NEW f, ElfFormed(f), ~SectionsUnread(f), ~StrtabReplaced(f), ~ClaimsUnknown(f),
         NEW i \in DOMAIN f.sections, NEW r \in f.sections[i].rows, r.named, ~r.pseudo, ~r.undefined
  PROVE  Covers(SupplementaryRows(f, i), SymbolOf(r))
<1> DEFINE strtab == LinkedStrtab(f, f.sections[i])
           found == Found(OfKind(CodeSymbolsRead(f, i, strtab), {"defined"}))
           check == CrossCheck(f, DynsymNames(f) \cup NamesRead(f, i, strtab))
           rest == IF Unresolved(f, i, strtab) THEN ElfError("elf_symtab_unread")
                   ELSE IF ClaimsUnknown(f) THEN Nothing ELSE check
           x == SymbolOf(r)
<1>1. SupplementaryRows(f, i) = IF BytesUnread(f, i, strtab) \/ Raises(f, i, strtab)
                                THEN ElfError("elf_symtab_unread") ELSE Both(found, rest)
  BY Zenon DEF SupplementaryRows
<1>2. x.kind \in Symbols /\ x.kind \in Costs["elf_symtab_unread"] /\ x.kind = "defined"
  BY SymbolKinds, ElfCosts DEF Symbols
<1>3. CASE BytesUnread(f, i, strtab) \/ Raises(f, i, strtab)
  BY <1>1, <1>2, <1>3, LostCovers DEF ElfError
<1>4. CASE ~(BytesUnread(f, i, strtab) \/ Raises(f, i, strtab))
  <2>1. Covers(found, x) \/ Covers(rest, x)
    <3>1. CASE Unresolved(f, i, strtab)
      BY <1>2, <3>1, LostCovers DEF ElfError
    <3>2. CASE ~Unresolved(f, i, strtab) /\ NameRead(f, r, strtab)
      <4>1. x \in OfKind(CodeSymbolsRead(f, i, strtab), {"defined"})
        BY <1>2, <3>2 DEF CodeSymbolsRead, OfKind
      <4> QED
        BY <4>1, FoundCovers
    <3>3. CASE ~Unresolved(f, i, strtab) /\ ~NameRead(f, r, strtab)
      <4>1. PICK k \in OfType(f, "STRTAB") :
              r.name \in f.sections[k].names \ (DynsymNames(f) \cup NamesRead(f, i, strtab))
        BY <3>3, SymtabRowIsRead
      <4>2. Covers(check, x)
        BY <1>2, <4>1, CrossCheckCovers
      <4> QED
        BY <3>3, <4>2
    <3> QED
      BY <3>1, <3>2, <3>3
  <2> HIDE DEF rest, found
  <2> QED
    BY <1>1, <1>4, <2>1, BothCovers
<1> QED
  BY <1>3, <1>4

LEMMA DynsymNamesAre ==
  ASSUME NEW f, NEW n \in DynsymNames(f)
  PROVE  \E i \in Dynsyms(f) : \E r \in f.sections[i].rows : r.named /\ r.name = n
<1>1. PICK i \in ByType(f, "DYNSYM") : n \in NamesRead(f, i, DynsymStrtab(f, i))
  BY DEF DynsymNames
<1> QED
  BY <1>1, NamesAreOfRows, ByTypeAre DEF Dynsyms

LEMMA SupplementaryNameCovered ==
  ASSUME NEW f, ~ClaimsUnknown(f),
         NEW i \in DOMAIN f.sections, NEW j, j = f.sections[i].link, NEW n \in f.sections[j].names,
         \A k \in {i} \cup Dynsyms(f) : \A r \in f.sections[k].rows : r.named => r.name # n,
         (\E r \in f.sections[i].rows : r.named) \/ LinkedStrtab(f, f.sections[i]) # {}
  PROVE  Covers(SupplementaryRows(f, i), Item("undeclared", n))
<1> DEFINE strtab == LinkedStrtab(f, f.sections[i])
           found == Found(OfKind(CodeSymbolsRead(f, i, strtab), {"defined"}))
           check == CrossCheck(f, DynsymNames(f) \cup NamesRead(f, i, strtab))
           rest == IF Unresolved(f, i, strtab) THEN ElfError("elf_symtab_unread")
                   ELSE IF ClaimsUnknown(f) THEN Nothing ELSE check
           x == Item("undeclared", n)
<1>1. SupplementaryRows(f, i) = IF BytesUnread(f, i, strtab) \/ Raises(f, i, strtab)
                                THEN ElfError("elf_symtab_unread") ELSE Both(found, rest)
  BY Zenon DEF SupplementaryRows
<1>2. x.kind \in Symbols /\ x.kind \in Costs["elf_symtab_unread"]
  BY ElfCosts DEF Symbols, Item
<1>3. CASE BytesUnread(f, i, strtab) \/ Raises(f, i, strtab)
  BY <1>1, <1>2, <1>3, LostCovers DEF ElfError
<1>4. CASE ~(BytesUnread(f, i, strtab) \/ Raises(f, i, strtab))
  <2>1. Covers(rest, x)
    <3>1. CASE Unresolved(f, i, strtab)
      BY <1>2, <3>1, LostCovers DEF ElfError
    <3>2. CASE ~Unresolved(f, i, strtab)
      <4>1. j \in OfType(f, "STRTAB")
        BY <3>2, LinkIsStrtab
      <4>2. n \notin NamesRead(f, i, strtab)
        BY NamesAreOfRows
      <4>3. n \notin DynsymNames(f)
        BY DynsymNamesAre
      <4>4. Covers(check, x)
        BY <1>2, <4>1, <4>2, <4>3, CrossCheckCovers
      <4> QED
        BY <3>2, <4>4
    <3> QED
      BY <3>1, <3>2
  <2> HIDE DEF rest, found
  <2> QED
    BY <1>1, <1>4, <2>1, BothCovers
<1> QED
  BY <1>3, <1>4

\* Which of the two ways .symtab is read, if either.
LEMMA SoleWhenAbsent ==
  ASSUME NEW f, ~SectionsUnread(f), Dynsyms(f) = {}, NEW i
  PROVE  SymtabRows(f, i) = SoleRows(f, i)
<1>1. Readable(f) = DOMAIN f.sections
  BY DEF SectionsUnread
<1>2. OfType(f, "DYNSYM") = {} /\ OfName(f, ".dynsym") = {} /\ ByType(f, "DYNSYM") = {}
  BY <1>1 DEF Dynsyms, Are, OfType, OfName, ByType
<1>3. ~(Cardinality(OfName(f, ".dynsym")) > 1)
  BY <1>2, FS_EmptySet
<1>4. ~TypeMismatch(f, ".dynsym", "DYNSYM")
  BY <1>2, <1>3 DEF TypeMismatch
<1> QED
  BY <1>2, <1>4 DEF DynsymAbsent, SymtabRows

LEMMA SupplementaryWhenPresent ==
  ASSUME NEW f, ElfFormed(f), ~SectionsUnread(f), Dynsyms(f) # {}, NEW i,
         ~Ambiguous(f, "DYNSYM"), ~TypeMismatch(f, ".dynsym", "DYNSYM")
  PROVE  SymtabRows(f, i) = SupplementaryRows(f, i)
  BY FoundByType DEF Dynsyms, SymtabRows

LEMMA SymtabTells ==
  ASSUME NEW f, ElfFormed(f), ~SectionsUnread(f), NEW i \in Symtabs(f), NEW x, x.kind \in Symbols,
         Covers(SymtabRows(f, i), x)
  PROVE  Covers(Symtab(f), x)
<1> DEFINE find == Finding(f, ".symtab", "SYMTAB", "elf_symtab_unread")
           count(k) == IF f.sections[k].miscounted THEN ElfError("elf_symtab_unread") ELSE Nothing
           read(k) == Both(SymtabRows(f, k), count(k))
<1>1. Symtab(f) = Together({find} \cup {read(k) : k \in ByType(f, "SYMTAB")})
  BY DEF Symtab
<1>2. CASE Ambiguous(f, "SYMTAB") \/ TypeMismatch(f, ".symtab", "SYMTAB")
  <2>1. Covers(find, x)
    BY <1>2, ElfCosts, FindingCovers
  <2> HIDE DEF find, read
  <2> QED
    BY <1>1, <2>1, TogetherCovers
<1>3. CASE ~Ambiguous(f, "SYMTAB") /\ ~TypeMismatch(f, ".symtab", "SYMTAB")
  <2>1. i \in ByType(f, "SYMTAB")
    BY <1>3, FoundByType DEF Symtabs
  <2> HIDE DEF count
  <2>2. Covers(read(i), x)
    BY BothCovers
  <2> HIDE DEF find, read
  <2> QED
    BY <1>1, <2>1, <2>2, TogetherCovers
<1> QED
  BY <1>2, <1>3

Tables(f, x) == Covers(Dynamic(f), x) \/ Covers(Dynsym(f), x) \/ Covers(Symtab(f), x)

LEMMA UnknownClaimsTell ==
  ASSUME NEW f, ClaimsUnknown(f), NEW x, x.kind \in {"defined", "undeclared"}
  PROVE  Tables(f, x)
<1>1. x.kind \in Costs["elf_dynsym_unread"] /\ x.kind \in Costs["elf_dynamic_unread"]
  BY ElfCosts DEF Symbols
<1>2. PICK reason \in {"elf_dynsym_unread", "elf_dynamic_unread"} : reason \in Dynsym(f).why \cup Dynamic(f).why
  BY DEF ClaimsUnknown
<1> QED
  BY <1>1, <1>2 DEF Covers, Tables

\* A row of either table is told, but that .symtab's undefined ones are no
\* evidence beside a .dynsym.
LEMMA DeclaredIsTold ==
  ASSUME NEW f, ElfFormed(f), ~SectionsUnread(f), ~StrtabReplaced(f),
         NEW i \in Dynsyms(f), NEW r \in f.sections[i].rows, r.named
  PROVE  Tables(f, SymbolOf(r))
<1>1. Covers(DynsymRows(f, i), SymbolOf(r))
  BY DynsymRowCovered DEF Dynsyms, Are
<1> QED
  BY <1>1, DynsymTells, SymbolKinds DEF Tables, Symbols

LEMMA LocalIsTold ==
  ASSUME NEW f, ElfFormed(f), ~SectionsUnread(f), ~StrtabReplaced(f),
         NEW i \in Symtabs(f), NEW r \in f.sections[i].rows, r.named, ~r.pseudo,
         Dynsyms(f) = {} \/ ~r.undefined
  PROVE  Tables(f, SymbolOf(r))
<1> DEFINE x == SymbolOf(r)
<1>1. i \in DOMAIN f.sections /\ x.kind \in Symbols
  BY SymbolKinds DEF Symtabs, Are, Symbols
<1>2. CASE Dynsyms(f) = {}
  <2>1. Covers(SymtabRows(f, i), x)
    BY <1>1, <1>2, SoleRowCovered, SoleWhenAbsent
  <2> QED
    BY <1>1, <2>1, SymtabTells DEF Tables
<1>3. CASE Dynsyms(f) # {} /\ (Ambiguous(f, "DYNSYM") \/ TypeMismatch(f, ".dynsym", "DYNSYM"))
  BY <1>1, <1>3, NoDynsymTells DEF Tables
<1>4. CASE Dynsyms(f) # {} /\ ~(Ambiguous(f, "DYNSYM") \/ TypeMismatch(f, ".dynsym", "DYNSYM"))
  <2>1. CASE ClaimsUnknown(f)
    BY <1>4, <2>1, SymbolKinds, UnknownClaimsTell
  <2>2. CASE ~ClaimsUnknown(f)
    <3>1. Covers(SymtabRows(f, i), x)
      BY <1>1, <1>4, <2>2, SupplementaryRowCovered, SupplementaryWhenPresent
    <3> QED
      BY <1>1, <3>1, SymtabTells DEF Tables
  <2> QED
    BY <2>1, <2>2
<1> QED
  BY <1>2, <1>3, <1>4

LEMMA UndeclaredIsTold ==
  ASSUME NEW f, ElfFormed(f), ~SectionsUnread(f), ~StrtabUnasked(f),
         NEW n \in NamesBehind(f, Dynsyms(f) \cup Symtabs(f))
                   \ {r.name : r \in RowsOf(f, Dynsyms(f) \cup Symtabs(f))}
  PROVE  Tables(f, Item("undeclared", n))
<1> DEFINE x == Item("undeclared", n)
<1>1. PICK i \in Dynsyms(f) \cup Symtabs(f) :
        /\ f.sections[i].link \in DOMAIN f.sections
        /\ n \in f.sections[f.sections[i].link].names
  BY DEF NamesBehind
<1>2. \A k \in Dynsyms(f) \cup Symtabs(f) : \A r \in f.sections[k].rows : r.named => r.name # n
  BY DEF RowsOf
<1>3. i \in DOMAIN f.sections /\ x.kind \in Symbols /\ x.kind = "undeclared"
  BY DEF Dynsyms, Symtabs, Are, Item, Symbols
<1>4. \/ \E r \in f.sections[i].rows : r.named
      \/ /\ i \in Dynsyms(f) => DynsymStrtab(f, i) # {}
         /\ i \in Symtabs(f) => LinkedStrtab(f, f.sections[i]) # {}
  <2>1. NamesBehind(f, {i}) # {}
    BY <1>1 DEF NamesBehind
  <2> QED
    BY <2>1 DEF StrtabUnasked
<1>5. CASE i \in Dynsyms(f)
  <2>1. Covers(DynsymRows(f, i), x)
    BY <1>1, <1>2, <1>3, <1>4, <1>5, DynsymNameCovered
  <2> QED
    BY <1>3, <1>5, <2>1, DynsymTells DEF Tables
<1>6. CASE i \in Symtabs(f)
  <2>1. CASE Dynsyms(f) = {}
    <3>1. Covers(SoleRows(f, i), x)
      BY <1>1, <1>2, <1>3, <1>4, <1>6, SoleNameCovered
    <3> QED
      BY <1>3, <1>6, <2>1, <3>1, SymtabTells, SoleWhenAbsent DEF Tables
  <2>2. CASE Dynsyms(f) # {} /\ (Ambiguous(f, "DYNSYM") \/ TypeMismatch(f, ".dynsym", "DYNSYM"))
    BY <1>3, <2>2, NoDynsymTells DEF Tables
  <2>3. CASE Dynsyms(f) # {} /\ ~(Ambiguous(f, "DYNSYM") \/ TypeMismatch(f, ".dynsym", "DYNSYM"))
    <3>1. CASE ClaimsUnknown(f)
      BY <1>3, <3>1, UnknownClaimsTell
    <3>2. CASE ~ClaimsUnknown(f)
      <4>1. Covers(SupplementaryRows(f, i), x)
        BY <1>1, <1>2, <1>3, <1>4, <1>6, <3>2, SupplementaryNameCovered
      <4>2. Covers(SymtabRows(f, i), x)
        BY <2>3, <4>1, SupplementaryWhenPresent
      <4> QED
        BY <1>3, <1>6, <4>2, SymtabTells DEF Tables
    <3> QED
      BY <3>1, <3>2
  <2> QED
    BY <2>1, <2>2, <2>3
<1> QED
  BY <1>1, <1>5, <1>6

LEMMA SymtabIsExact ==
  ASSUME NEW f, NEW carried,
         \A i \in Symtabs(f) : \A r \in f.sections[i].rows :
           r.named /\ ~r.pseudo /\ (DynsymAbsent(f) \/ ~r.undefined) => SymbolOf(r) \in carried
  PROVE  Exact(Symtab(f), carried)
<1> DEFINE find == Finding(f, ".symtab", "SYMTAB", "elf_symtab_unread")
           count(k) == IF f.sections[k].miscounted THEN ElfError("elf_symtab_unread") ELSE Nothing
           read(k) == Both(SymtabRows(f, k), count(k))
<1>1. Symtab(f) = Together({find} \cup {read(k) : k \in ByType(f, "SYMTAB")})
  BY DEF Symtab
<1>2. Exact(find, carried)
  BY FindingIsExact
<1>3. /\ Exact(Nothing, carried) /\ Exact(ElfError("elf_symtab_unread"), carried)
      /\ Exact(Understated("elf_symtab_unread"), carried)
  BY NothingFoundIsExact DEF ElfError, Exact, Understated, Reading
<1>4. \A read2 : Exact(CrossCheck(f, read2), carried)
  BY <1>3 DEF CrossCheck
<1>5. ASSUME NEW i \in ByType(f, "SYMTAB")
      PROVE  Exact(SymtabRows(f, i), carried)
  <2> DEFINE strtab == LinkedStrtab(f, f.sections[i])
             code == CodeSymbolsRead(f, i, strtab)
             defined == OfKind(code, {"defined"})
             soleCheck == CrossCheck(f, NamesRead(f, i, strtab))
             sole == IF Unresolved(f, i, strtab) THEN ElfError("elf_symtab_unread") ELSE soleCheck
             moreCheck == CrossCheck(f, DynsymNames(f) \cup NamesRead(f, i, strtab))
             more == IF Unresolved(f, i, strtab) THEN ElfError("elf_symtab_unread")
                     ELSE IF ClaimsUnknown(f) THEN Nothing ELSE moreCheck
  <2>1. i \in Symtabs(f)
    BY ByTypeAre DEF Symtabs
  <2>2. \A x \in code : \E r \in f.sections[i].rows : r.named /\ ~r.pseudo /\ x = SymbolOf(r)
    BY DEF CodeSymbolsRead, NameRead
  <2>3. CASE ByType(f, "DYNSYM") # {}
    <3>1. SymtabRows(f, i) = IF BytesUnread(f, i, strtab) \/ Raises(f, i, strtab)
                             THEN ElfError("elf_symtab_unread") ELSE Both(Found(defined), more)
      BY <2>3, Zenon DEF SymtabRows, SupplementaryRows
    <3>2. defined \subseteq carried
      <4> SUFFICES ASSUME NEW x \in defined
                   PROVE  x \in carried
        OBVIOUS
      <4>1. x \in code /\ x.kind = "defined"
        BY DEF OfKind
      <4> HIDE DEF code
      <4>2. PICK r \in f.sections[i].rows : r.named /\ ~r.pseudo /\ x = SymbolOf(r)
        BY <2>2, <4>1
      <4>3. ~r.undefined
        BY <4>1, <4>2, SymbolKinds
      <4> QED
        BY <2>1, <4>2, <4>3
    <3>3. Exact(Found(defined), carried) /\ Exact(more, carried)
      BY <1>3, <1>4, <3>2, FoundIsExact
    <3> HIDE DEF defined, more
    <3> QED
      BY <1>3, <3>1, <3>3, BothIsExact
  <2>4. CASE ByType(f, "DYNSYM") = {} /\ DynsymAbsent(f)
    <3>1. SymtabRows(f, i) = IF BytesUnread(f, i, strtab) \/ Raises(f, i, strtab)
                             THEN ElfError("elf_symtab_unread") ELSE Both(Found(code), sole)
      BY <2>4, Zenon DEF SymtabRows, SoleRows
    <3> HIDE DEF code
    <3>2. code \subseteq carried
      BY <2>1, <2>2, <2>4
    <3>3. Exact(Found(code), carried) /\ Exact(sole, carried)
      BY <1>3, <1>4, <3>2, FoundIsExact
    <3> HIDE DEF sole
    <3> QED
      BY <1>3, <3>1, <3>3, BothIsExact
  <2>5. CASE ByType(f, "DYNSYM") = {} /\ ~DynsymAbsent(f)
    BY <1>3, <2>5 DEF SymtabRows
  <2> QED
    BY <2>3, <2>4, <2>5
<1>6. ASSUME NEW i \in ByType(f, "SYMTAB")
      PROVE  Exact(read(i), carried)
  <2>1. Exact(count(i), carried)
    BY <1>3
  <2> HIDE DEF count
  <2> QED
    BY <1>5, <2>1, BothIsExact
<1> HIDE DEF find, read
<1> QED
  BY <1>1, <1>2, <1>6, TogetherIsExact

----------------------------------------------------------------------------
(* The strings of the sections: one pass over them, under one budget.      *)

StringsBefore == [bytes |-> 0, got |-> {}, full |-> FALSE, cut |-> FALSE, unread |-> FALSE]
IsPass(w, f, n) ==
  w = [i \in 0..n |-> IF i = 0 THEN StringsBefore
                      ELSE IF i \in StringSections(f) THEN AddStrings(f.sections[i], w[i - 1]) ELSE w[i - 1]]

LEMMA PassExists ==
  ASSUME NEW f, NEW n \in Nat
  PROVE  \E w : IsPass(w, f, n)
<1> DEFINE More(v, i) == IF i \in StringSections(f) THEN AddStrings(f.sections[i], v) ELSE v
           Step(v, i) == IF i = 0 THEN StringsBefore ELSE More(v[i - 1], i)
           None == {m \in Nat : ~ \E w : IsPass(w, f, m)}
<1>0. \A w, m : IsPass(w, f, m) <=> w = [i \in 0..m |-> Step(w, i)]
  BY DEF IsPass
<1> HIDE DEF More
<1>1. ASSUME NEW m \in None, \A k \in None : m <= k
      PROVE  FALSE
  <2>1. CASE m = 0
    <3> DEFINE v == [i \in 0..0 |-> StringsBefore]
    <3>1. v = [i \in 0..0 |-> Step(v, i)]
      OBVIOUS
    <3> QED
      BY <1>0, <2>1, <3>1
  <2>2. CASE m # 0
    <3>1. m - 1 \in Nat /\ m - 1 \notin None
      BY <1>1, <2>2
    <3>2. PICK w : IsPass(w, f, m - 1)
      BY <3>1
    <3> DEFINE v == [i \in 0..m |-> IF i = m THEN More(w[m - 1], m) ELSE w[i]]
    <3>3. \A i \in 0..(m - 1) : w[i] = Step(w, i)
      BY <1>0, <3>2
    <3>4. \A i \in 0..(m - 1) : v[i] = w[i]
      BY <3>1
    <3>5. v[m] = More(w[m - 1], m)
      BY <3>1
    <3>6. v[m] = Step(v, m)
      BY <2>2, <3>1, <3>4, <3>5
    <3>7. \A i \in 0..m : v[i] = Step(v, i)
      <4> SUFFICES ASSUME NEW i \in 0..m, i # m
                   PROVE  v[i] = Step(v, i)
        BY <3>6
      <4>1. i \in 0..(m - 1) /\ (i # 0 => i - 1 \in 0..(m - 1))
        OBVIOUS
      <4> HIDE DEF v
      <4> QED
        BY <3>3, <3>4, <4>1
    <3>8. v = [i \in 0..m |-> v[i]]
      OBVIOUS
    <3> HIDE DEF v
    <3>9. v = [i \in 0..m |-> Step(v, i)]
      BY <3>7, <3>8
    <3> QED
      BY <1>0, <3>9
  <2> QED
    BY <2>1, <2>2
<1>2. None \in SUBSET Nat
  OBVIOUS
<1> HIDE DEF None
<1>3. None = {}
  BY <1>1, <1>2, SomeIsLeast
<1> QED
  BY <1>3 DEF None

\* What a pass may be in the middle of: full only once it is cut, and cut only
\* once the budget is spent.
Middle(p) ==
  /\ p = [bytes |-> p.bytes, got |-> p.got, full |-> p.full, cut |-> p.cut, unread |-> p.unread]
  /\ p.bytes \in Int /\ p.full \in BOOLEAN /\ p.cut \in BOOLEAN /\ p.unread \in BOOLEAN
  /\ p.full => p.cut
  /\ p.cut => p.bytes >= MaxStringsBytes

\* One section more: its strings, or the word that they are not there.
LEMMA AddStringsKeeps ==
  ASSUME NEW s, SectionFormed(s), HoldsStrings(s), NEW p, Middle(p), NEW q, q = AddStrings(s, p)
  PROVE  /\ Middle(q)
         /\ p.got \subseteq q.got /\ q.got \subseteq p.got \cup Present(s)
         /\ p.unread => q.unread
         /\ p.cut => q.cut
         /\ q.unread \/ q.cut \/ Present(s) \subseteq q.got
<1> DEFINE remaining == MaxStringsBytes - p.bytes
           kept == Kept(s, remaining)
<1>1. remaining \in Int /\ (p.cut => remaining <= 0)
  BY BudgetAssumption DEF Middle
<1>2. CASE p.full
  <2>1. q = p /\ p.cut
    BY <1>2 DEF AddStrings, Middle
  <2> QED
    BY <2>1
<1>3. CASE ~p.full /\ remaining <= 0
  <2>1. q = [p EXCEPT !.full = TRUE, !.cut = TRUE]
    BY <1>3, Zenon DEF AddStrings
  <2>2. /\ q.bytes = p.bytes /\ q.got = p.got /\ q.full = TRUE /\ q.cut = TRUE /\ q.unread = p.unread
        /\ q = [bytes |-> q.bytes, got |-> q.got, full |-> q.full, cut |-> q.cut, unread |-> q.unread]
    BY <2>1 DEF Middle
  <2>3. q.bytes >= MaxStringsBytes
    BY <1>3, <2>2, BudgetAssumption DEF Middle
  <2>4. Middle(q)
    BY <2>2, <2>3 DEF Middle
  <2> QED
    BY <2>2, <2>4
<1>4. CASE ~p.full /\ ~(remaining <= 0) /\ s.raises
  <2>1. q = [p EXCEPT !.unread = TRUE]
    BY <1>4, Zenon DEF AddStrings
  <2>2. /\ q.bytes = p.bytes /\ q.got = p.got /\ q.full = p.full /\ q.cut = p.cut /\ q.unread = TRUE
        /\ q = [bytes |-> q.bytes, got |-> q.got, full |-> q.full, cut |-> q.cut, unread |-> q.unread]
    BY <2>1 DEF Middle
  <2> QED
    BY <2>2 DEF Middle
<1>5. CASE ~p.full /\ ~(remaining <= 0) /\ ~s.raises
  <2>1. q = [bytes |-> p.bytes + kept, got |-> p.got \cup Before(s, kept), full |-> FALSE,
             cut |-> IF OverBudget(s, remaining) /\ kept > 0 THEN kept >= remaining ELSE p.cut,
             unread |-> p.unread \/ (kept = 0 /\ s.size > 0)]
    BY <1>5, Zenon DEF AddStrings
  <2>2. ~p.cut
    BY <1>1, <1>5
  <2>3. s.size \in Nat /\ s.present \in Nat /\ s.present <= s.size /\ s.type # "NOBITS"
        /\ \A h \in s.holds : h.at \in Nat \ {0}
    BY DEF SectionFormed, HoldsStrings
  <2>4. OverBudget(s, remaining) <=> s.size > remaining
    BY DEF OverBudget
  <2>5. kept = IF ~(s.size > remaining) THEN s.present
               ELSE IF s.compressed THEN 0 ELSE IF remaining <= s.present THEN remaining ELSE s.present
    BY <1>1, <2>3 DEF Kept, OverBudget, Min2
  <2> HIDE DEF kept
  <2>6. kept \in Nat /\ kept <= s.present
    BY <1>1, <1>5, <2>3, <2>5
  <2>7. Before(s, kept) \subseteq Present(s)
    BY <2>3, <2>6 DEF Before, Present
  <2>8. kept = s.present => Before(s, kept) = Present(s)
    BY DEF Before, Present
  <2>9. /\ q.bytes = p.bytes + kept /\ q.full = FALSE /\ q.got = p.got \cup Before(s, kept)
        /\ q = [bytes |-> q.bytes, got |-> q.got, full |-> q.full, cut |-> q.cut, unread |-> q.unread]
    BY <2>1
  <2>10. q.unread = (p.unread \/ (kept = 0 /\ s.size > 0))
    BY <2>1
  <2>11. q.cut = IF OverBudget(s, remaining) /\ kept > 0 THEN kept >= remaining ELSE p.cut
    BY <2>1
  <2>12. q.unread \in BOOLEAN /\ (p.unread => q.unread)
    BY <2>10, Zenon DEF Middle
  <2>13. q.cut \in BOOLEAN
    <3>1. (kept >= remaining) \in BOOLEAN
      OBVIOUS
    <3> QED
      BY <2>11, <3>1, Zenon DEF Middle
  <2>14. q.unread \/ q.cut \/ kept = s.present
    <3>1. CASE ~(s.size > remaining)
      BY <2>5, <3>1
    <3>2. CASE s.size > remaining /\ s.compressed
      <4>1. kept = 0 /\ s.size > 0
        BY <1>1, <1>5, <2>3, <2>5, <3>2
      <4> QED
        BY <2>10, <4>1
    <3>3. CASE s.size > remaining /\ ~s.compressed /\ remaining <= s.present
      <4>1. kept = remaining /\ kept > 0 /\ kept >= remaining
        BY <1>1, <1>5, <2>3, <2>5, <3>3
      <4> QED
        BY <2>4, <2>11, <3>3, <4>1
    <3>4. CASE s.size > remaining /\ ~s.compressed /\ ~(remaining <= s.present)
      BY <2>5, <3>4
    <3> QED
      BY <3>1, <3>2, <3>3, <3>4
  <2>15. q.cut => q.bytes >= MaxStringsBytes
    <3> SUFFICES ASSUME q.cut
                 PROVE  q.bytes >= MaxStringsBytes
      OBVIOUS
    <3>1. kept >= remaining
      BY <2>2, <2>11
    <3> QED
      BY <2>6, <2>9, <3>1, BudgetAssumption DEF Middle
  <2>16. q.bytes \in Int
    BY <2>6, <2>9 DEF Middle
  <2>17. Middle(q)
    BY <2>9, <2>12, <2>13, <2>15, <2>16 DEF Middle
  <2> QED
    BY <2>2, <2>7, <2>8, <2>9, <2>12, <2>14, <2>17
<1> QED
  BY <1>2, <1>3, <1>4, <1>5

\* What a pass has after so many sections: nothing they do not hold, and all
\* they hold or the word that it is not there.
Passes(p, f, i) ==
  /\ Middle(p)
  /\ p.got \subseteq PresentIn(f, StringSections(f))
  /\ \A k \in StringSections(f) : k <= i => p.unread \/ p.cut \/ Present(f.sections[k]) \subseteq p.got

LEMMA EveryPass ==
  ASSUME NEW f, ElfFormed(f), ~SectionsUnread(f), NEW n \in Nat, NEW w, IsPass(w, f, n)
  PROVE  \A i \in 0..n : Passes(w[i], f, i)
<1> DEFINE Bad == {i \in 0..n : ~Passes(w[i], f, i)}
<1>1. /\ StringSections(f) \subseteq Nat \ {0}
      /\ \A k \in StringSections(f) : SectionFormed(f.sections[k]) /\ HoldsStrings(f.sections[k])
  BY SectionsRead DEF StringSections
<1>2. w[0] = StringsBefore
  BY DEF IsPass
<1>3. Passes(w[0], f, 0)
  <2>1. Middle(StringsBefore)
    BY DEF Middle, StringsBefore
  <2>2. StringsBefore.got = {}
    BY DEF StringsBefore
  <2> QED
    BY <1>1, <1>2, <2>1, <2>2 DEF Passes
<1>4. ASSUME NEW i \in 1..n, Passes(w[i - 1], f, i - 1)
      PROVE  Passes(w[i], f, i)
  <2> DEFINE p == w[i - 1]
             q == w[i]
  <2>1. q = IF i \in StringSections(f) THEN AddStrings(f.sections[i], p) ELSE p
    BY DEF IsPass
  <2>2. \A k \in StringSections(f) : k <= i <=> k <= i - 1 \/ k = i
    BY <1>1
  <2>3. CASE i \in StringSections(f)
    <3> DEFINE s == f.sections[i]
    <3>1. SectionFormed(s) /\ HoldsStrings(s) /\ Middle(p) /\ q = AddStrings(s, p)
      BY <1>1, <1>4, <2>1, <2>3 DEF Passes
    <3> HIDE DEF p, q, s
    <3>2. /\ Middle(q) /\ p.got \subseteq q.got /\ q.got \subseteq p.got \cup Present(s)
          /\ (p.unread => q.unread) /\ (p.cut => q.cut)
          /\ q.unread \/ q.cut \/ Present(s) \subseteq q.got
      BY <3>1, AddStringsKeeps
    <3>3. Present(s) \subseteq PresentIn(f, StringSections(f))
      BY <2>3 DEF PresentIn, s
    <3>4. q.got \subseteq PresentIn(f, StringSections(f))
      BY <1>4, <3>2, <3>3 DEF Passes, p
    <3>5. ASSUME NEW k \in StringSections(f), k <= i
          PROVE  q.unread \/ q.cut \/ Present(f.sections[k]) \subseteq q.got
      <4>1. CASE k <= i - 1
        <5>1. p.unread \/ p.cut \/ Present(f.sections[k]) \subseteq p.got
          BY <1>4, <4>1 DEF Passes, p
        <5> QED
          BY <3>2, <5>1
      <4>2. CASE k = i
        BY <3>2, <4>2 DEF s
      <4> QED
        BY <2>2, <3>5, <4>1, <4>2
    <3> QED
      BY <3>2, <3>4, <3>5 DEF Passes, q
  <2>4. CASE i \notin StringSections(f)
    <3>1. q = p
      BY <2>1, <2>4
    <3> QED
      BY <1>4, <2>2, <2>4, <3>1 DEF Passes
  <2> QED
    BY <2>3, <2>4
<1>5. ASSUME NEW i \in Bad, \A j \in Bad : i <= j
      PROVE  FALSE
  <2>1. i \in 0..n /\ ~Passes(w[i], f, i)
    OBVIOUS
  <2>2. i # 0
    BY <1>3, <2>1
  <2>3. i \in 1..n /\ i - 1 \in 0..n /\ ~ (i <= i - 1)
    BY <2>1, <2>2
  <2>4. Passes(w[i - 1], f, i - 1)
    BY <1>5, <2>3
  <2> QED
    BY <1>4, <2>1, <2>3, <2>4
<1>6. Bad \in SUBSET Nat
  OBVIOUS
<1> HIDE DEF Bad
<1>7. Bad = {}
  BY <1>5, <1>6, SomeIsLeast
<1> QED
  BY <1>7 DEF Bad

LEMMA StringPassIs ==
  ASSUME NEW f, ElfFormed(f), ~SectionsUnread(f)
  PROVE  Passes(StringPass(f), f, Len(f.sections))
<1> DEFINE n == Len(f.sections)
           w == CHOOSE v : IsPass(v, f, n)
<1>1. n \in Nat
  BY SectionsRead
<1>2. IsPass(w, f, n)
  <2> HIDE DEF n
  <2>1. \E v : IsPass(v, f, n)
    BY <1>1, PassExists
  <2> QED
    BY <2>1, Zenon
<1>3. StringPass(f) = w[n]
  BY DEF StringPass, IsPass, StringsBefore
<1> HIDE DEF w, n
<1>4. Passes(w[n], f, n)
  BY <1>1, <1>2, EveryPass
<1> QED
  BY <1>3, <1>4 DEF n

LEMMA StringsReadCovers ==
  ASSUME NEW f, ElfFormed(f), ~SectionsUnread(f),
         NEW x \in OfKind(PresentIn(f, {i \in DOMAIN f.sections : HoldsStrings(f.sections[i])}), {"strings", "packed"})
  PROVE  Covers(StringsRead(f), x)
<1> DEFINE pass == StringPass(f)
           items == OfKind(pass.got, {"strings", "packed"})
           unread == IF pass.unread THEN ElfError("elf_section_data_unread") ELSE Nothing
           cut == IF pass.cut THEN LostQuietly("strings_bytes_unread") ELSE Nothing
<1>1. StringsRead(f) = Together({Found(items), unread, cut})
  BY Zenon DEF StringsRead
<1>2. PICK k \in DOMAIN f.sections : HoldsStrings(f.sections[k]) /\ x \in Present(f.sections[k])
  BY DEF OfKind, PresentIn
<1>3. k \in StringSections(f) /\ k <= Len(f.sections)
  BY <1>2, SectionsRead DEF StringSections
<1>4. pass.unread \/ pass.cut \/ Present(f.sections[k]) \subseteq pass.got
  BY <1>3, StringPassIs DEF Passes
<1>5. x.kind \in {"strings", "packed"}
  BY DEF OfKind
<1> HIDE DEF pass
<1>6. CASE pass.unread
  <2>1. Covers(unread, x)
    BY <1>5, <1>6, ElfCosts, LostCovers DEF ElfError
  <2> HIDE DEF unread
  <2> QED
    BY <1>1, <2>1, TogetherCovers
<1>7. CASE pass.cut
  <2>1. Covers(cut, x)
    BY <1>5, <1>7, ElfCosts, LostCovers
  <2> HIDE DEF cut
  <2> QED
    BY <1>1, <2>1, TogetherCovers
<1>8. CASE Present(f.sections[k]) \subseteq pass.got
  <2>1. x \in items
    BY <1>2, <1>5, <1>8 DEF OfKind
  <2>2. Covers(Found(items), x)
    BY <2>1, FoundCovers
  <2> QED
    BY <1>1, <2>2, TogetherCovers
<1> QED
  BY <1>4, <1>6, <1>7, <1>8

LEMMA StringsReadIsExact ==
  ASSUME NEW f, ElfFormed(f), ~SectionsUnread(f), NEW carried,
         OfKind(PresentIn(f, {i \in DOMAIN f.sections : HoldsStrings(f.sections[i])}), {"strings", "packed"})
           \subseteq carried
  PROVE  Exact(StringsRead(f), carried)
<1> DEFINE pass == StringPass(f)
           items == OfKind(pass.got, {"strings", "packed"})
           unread == IF pass.unread THEN ElfError("elf_section_data_unread") ELSE Nothing
           cut == IF pass.cut THEN LostQuietly("strings_bytes_unread") ELSE Nothing
<1>1. StringsRead(f) = Together({Found(items), unread, cut})
  BY Zenon DEF StringsRead
<1>2. pass.got \subseteq PresentIn(f, StringSections(f))
  BY StringPassIs DEF Passes
<1>3. StringSections(f) = {i \in DOMAIN f.sections : HoldsStrings(f.sections[i])}
  BY SectionsRead DEF StringSections
<1> HIDE DEF pass
<1>4. items \subseteq carried
  BY <1>2, <1>3 DEF OfKind
<1>5. Exact(Found(items), carried) /\ Exact(unread, carried) /\ Exact(cut, carried)
  BY <1>4, FoundIsExact, NothingFoundIsExact DEF ElfError
<1> HIDE DEF items, unread, cut
<1> QED
  BY <1>1, <1>5, TogetherIsExact

----------------------------------------------------------------------------
(* .go.buildinfo, and the file.                                            *)

LEMMA FirstIsOne ==
  ASSUME NEW S, NEW i \in First(S)
  PROVE  i \in S
  BY DEF First

LEMMA BuildinfoCovers ==
  ASSUME NEW f, ElfFormed(f), ~SectionsUnread(f),
         NEW x \in OfKind(PresentIn(f, First({i \in DOMAIN f.sections : f.sections[i].name = ".go.buildinfo"})),
                          {"buildinfo"})
  PROVE  Covers(GoBuildinfo(f), x)
<1> DEFINE got(s) == IF s.raises THEN {} ELSE OfKind(Before(s, Kept(s, MaxStringsBytes)), {"buildinfo"})
           lost(s) == IF s.raises \/ OverBudget(s, MaxStringsBytes)
                      THEN ElfError("elf_go_buildinfo_unread") ELSE Nothing
           read(i) == Both(Found(got(f.sections[i])), lost(f.sections[i]))
           S == OfName(f, ".go.buildinfo")
<1>1. GoBuildinfo(f) = Together({read(i) : i \in First(S)})
  BY DEF GoBuildinfo
<1>2. S = {i \in DOMAIN f.sections : f.sections[i].name = ".go.buildinfo"}
  BY SectionsRead DEF OfName
<1> HIDE DEF S
<1>3. PICK i \in First(S) : x \in Present(f.sections[i])
  BY <1>2 DEF OfKind, PresentIn
<1> DEFINE s == f.sections[i]
<1>4. x.kind = "buildinfo"
  BY DEF OfKind
<1>5. SectionFormed(s)
  BY <1>2, <1>3, FirstIsOne, SectionsRead
<1>6. Covers(Found(got(s)), x) \/ Covers(lost(s), x)
  <2>1. CASE s.raises \/ OverBudget(s, MaxStringsBytes)
    BY <1>4, <2>1, ElfCosts, LostCovers DEF ElfError
  <2>2. CASE ~s.raises /\ ~OverBudget(s, MaxStringsBytes)
    <3>1. Kept(s, MaxStringsBytes) = s.present
      BY <1>5, <2>2 DEF Kept, Min2, SectionFormed
    <3>2. x \in got(s)
      BY <1>3, <1>4, <2>2, <3>1 DEF Before, Present, OfKind
    <3> HIDE DEF got
    <3> QED
      BY <3>2, FoundCovers
  <2> QED
    BY <2>1, <2>2
<1> HIDE DEF got, lost
<1>7. Covers(read(i), x)
  BY <1>6, BothCovers
<1> HIDE DEF read
<1> QED
  BY <1>1, <1>3, <1>7, TogetherCovers

LEMMA BuildinfoIsExact ==
  ASSUME NEW f, ElfFormed(f), ~SectionsUnread(f), NEW carried,
         OfKind(PresentIn(f, First({i \in DOMAIN f.sections : f.sections[i].name = ".go.buildinfo"})), {"buildinfo"})
           \subseteq carried
  PROVE  Exact(GoBuildinfo(f), carried)
<1> DEFINE got(s) == IF s.raises THEN {} ELSE OfKind(Before(s, Kept(s, MaxStringsBytes)), {"buildinfo"})
           lost(s) == IF s.raises \/ OverBudget(s, MaxStringsBytes)
                      THEN ElfError("elf_go_buildinfo_unread") ELSE Nothing
           read(i) == Both(Found(got(f.sections[i])), lost(f.sections[i]))
           S == OfName(f, ".go.buildinfo")
<1>1. GoBuildinfo(f) = Together({read(i) : i \in First(S)})
  BY DEF GoBuildinfo
<1>2. S = {i \in DOMAIN f.sections : f.sections[i].name = ".go.buildinfo"}
  BY SectionsRead DEF OfName
<1> HIDE DEF S
<1>3. ASSUME NEW i \in First(S)
      PROVE  Exact(read(i), carried)
  <2> DEFINE s == f.sections[i]
  <2>1. SectionFormed(s)
    BY <1>2, FirstIsOne, SectionsRead
  <2>2. Kept(s, MaxStringsBytes) \in Nat /\ Kept(s, MaxStringsBytes) <= s.present
    BY <2>1, BudgetAssumption DEF Kept, Min2, SectionFormed
  <2>3. Before(s, Kept(s, MaxStringsBytes)) \subseteq Present(s)
    BY <2>1, <2>2 DEF Before, Present, SectionFormed
  <2>4. got(s) \subseteq carried
    BY <1>2, <2>3 DEF OfKind, PresentIn
  <2>5. Exact(Found(got(s)), carried) /\ Exact(lost(s), carried)
    BY <2>4, FoundIsExact, NothingFoundIsExact DEF ElfError
  <2> HIDE DEF got, lost
  <2> QED
    BY <2>5, BothIsExact
<1> HIDE DEF read
<1> QED
  BY <1>1, <1>3, TogetherIsExact

LEMMA CodeIsExact ==
  ASSUME NEW f, NEW carried
  PROVE  Exact(CodeRead(f), carried)
<1>1. \A items : OfKind(Found(OfKind(items, {"code"})).got, Kinds) = {}
  BY DEF OfKind, Found, Reading, Kinds, Structural, Symbols
<1> QED
  BY <1>1 DEF CodeRead, Exact

\* A file read no further than its strings.
LEMMA UnparsedIsTold ==
  ASSUME NEW f, NEW reason, Structural \subseteq Costs[reason], NEW carried,
         \A x \in carried : /\ x.kind \in Kinds
                            /\ x.kind = "strings" => x \in PresentIn(f, DOMAIN f.sections)
  PROVE  Told(carried, Unparsed(f, reason)) /\ Exact(Unparsed(f, reason), carried)
<1> DEFINE only == StringsOnly(f, PresentIn(f, DOMAIN f.sections), reason)
<1>1. \A x \in carried : Covers(only, x)
  BY StringsOnlyCover
<1>2. Unparsed(f, reason) = [only EXCEPT !.erred = TRUE]
  BY DEF Unparsed
<1>3. [only EXCEPT !.erred = TRUE].got = only.got /\ [only EXCEPT !.erred = TRUE].why = only.why
  BY DEF StringsOnly, Both, Reading
<1>4. only.why # {}
  BY DEF StringsOnly, Both, LostQuietly, Reading
<1> HIDE DEF only
<1>5. (\A x \in carried : Covers(Unparsed(f, reason), x)) /\ Exact(Unparsed(f, reason), carried)
  BY <1>1, <1>2, <1>3, <1>4 DEF Covers, Exact
<1> QED
  BY <1>5, ToldIsCovering

\* What the file carries, part by part.
DeclaredSymbols(f) == {SymbolOf(r) : r \in {x \in RowsOf(f, Dynsyms(f)) : ~x.pseudo}}
Local(f) == {SymbolOf(r) : r \in {x \in RowsOf(f, Symtabs(f)) : ~x.pseudo}}
LocalEvidence(f) == IF Dynsyms(f) = {} THEN Local(f) ELSE OfKind(Local(f), {"defined"})
Undeclared(f) ==
  {Item("undeclared", n) : n \in NamesBehind(f, Dynsyms(f) \cup Symtabs(f))
                                 \ {r.name : r \in RowsOf(f, Dynsyms(f) \cup Symtabs(f))}}
Tagged(f) == OfKind(PresentIn(f, Are(f, "DYNAMIC", ".dynamic")), {"needed", "soname", "rpath"})
Banners(f) ==
  OfKind(PresentIn(f, {i \in DOMAIN f.sections : HoldsStrings(f.sections[i])}), {"strings", "packed"})
GoBuilt(f) ==
  OfKind(PresentIn(f, First({i \in DOMAIN f.sections : f.sections[i].name = ".go.buildinfo"})), {"buildinfo"})

LEMMA ElfItems ==
  ASSUME NEW f
  PROVE  ElfCarries(f) = DeclaredSymbols(f) \cup LocalEvidence(f) \cup Undeclared(f) \cup Tagged(f) \cup Banners(f) \cup GoBuilt(f)
  BY Zenon DEF ElfCarries, DeclaredSymbols, LocalEvidence, Local, Undeclared, Tagged, Banners, GoBuilt

LEMMA RowsAre ==
  ASSUME NEW f, NEW tables
  PROVE  \A r : r \in RowsOf(f, tables) <=> \E i \in tables : r \in f.sections[i].rows /\ r.named
  BY DEF RowsOf

LEMMA ElfKinds ==
  ASSUME NEW f, NEW x \in ElfCarries(f)
  PROVE  /\ x.kind \in Kinds
         /\ x.kind = "strings" => x \in PresentIn(f, DOMAIN f.sections)
<1>1. CASE x \in DeclaredSymbols(f) \cup LocalEvidence(f)
  <2>1. PICK r : x = SymbolOf(r)
    BY <1>1 DEF DeclaredSymbols, LocalEvidence, Local, OfKind
  <2> QED
    BY <2>1, SymbolKinds DEF Kinds, Structural, Symbols
<1>2. CASE x \in Undeclared(f)
  BY <1>2 DEF Undeclared, Item, Kinds, Structural, Symbols
<1>3. CASE x \in Tagged(f) \cup GoBuilt(f)
  BY <1>3 DEF Tagged, GoBuilt, OfKind, Kinds, Structural
<1>4. CASE x \in Banners(f)
  <2>1. x \in PresentIn(f, DOMAIN f.sections)
    BY <1>4 DEF Banners, OfKind, PresentIn
  <2> QED
    BY <1>4, <2>1 DEF Banners, OfKind, Kinds, Structural
<1> QED
  BY <1>1, <1>2, <1>3, <1>4, ElfItems

LEMMA SectionsAreTold ==
  ASSUME NEW f, ElfFormed(f), ~StrtabReplaced(f), ~StrtabUnasked(f)
  PROVE  Told(ElfCarries(f), ReadSections(f))
<1> DEFINE unread == IF SectionsUnread(f) THEN ElfError("elf_sections_unread") ELSE Nothing
           parts == {unread, Dynamic(f), Dynsym(f), Symtab(f), StringsRead(f), CodeRead(f), GoBuildinfo(f)}
<1>1. ReadSections(f) = Together(parts)
  BY Zenon DEF ReadSections
<1>2. ASSUME NEW x \in ElfCarries(f)
      PROVE  \E part \in parts : Covers(part, x)
  <2>1. CASE SectionsUnread(f)
    <3>1. Covers(unread, x)
      BY <2>1, ElfKinds, ElfCosts, LostCovers DEF ElfError
    <3> HIDE DEF unread
    <3> QED
      BY <3>1
  <2> HIDE DEF unread
  <2>2. CASE ~SectionsUnread(f) /\ x \in DeclaredSymbols(f)
    <3>1. PICK r \in RowsOf(f, Dynsyms(f)) : x = SymbolOf(r)
      BY <2>2 DEF DeclaredSymbols
    <3>2. PICK i \in Dynsyms(f) : r \in f.sections[i].rows /\ r.named
      BY RowsAre
    <3>3. Tables(f, x)
      BY <2>2, <3>1, <3>2, DeclaredIsTold
    <3> QED
      BY <3>3 DEF Tables
  <2>3. CASE ~SectionsUnread(f) /\ x \in LocalEvidence(f)
    <3>1. x \in Local(f) /\ (Dynsyms(f) = {} \/ x.kind = "defined")
      BY <2>3 DEF LocalEvidence, OfKind
    <3>2. PICK r \in RowsOf(f, Symtabs(f)) : ~r.pseudo /\ x = SymbolOf(r)
      BY <3>1 DEF Local
    <3>3. PICK i \in Symtabs(f) : r \in f.sections[i].rows /\ r.named
      BY RowsAre
    <3>4. Dynsyms(f) = {} \/ ~r.undefined
      BY <3>1, <3>2, SymbolKinds
    <3>5. Tables(f, x)
      BY <2>3, <3>2, <3>3, <3>4, LocalIsTold
    <3> QED
      BY <3>5 DEF Tables
  <2>4. CASE ~SectionsUnread(f) /\ x \in Undeclared(f)
    <3>1. PICK n \in NamesBehind(f, Dynsyms(f) \cup Symtabs(f))
                     \ {r.name : r \in RowsOf(f, Dynsyms(f) \cup Symtabs(f))} : x = Item("undeclared", n)
      BY <2>4 DEF Undeclared
    <3>2. Tables(f, x)
      BY <2>4, <3>1, UndeclaredIsTold
    <3> QED
      BY <3>2 DEF Tables
  <2>5. CASE ~SectionsUnread(f) /\ x \in Tagged(f)
    BY <2>5, DynamicCovers DEF Tagged
  <2>6. CASE ~SectionsUnread(f) /\ x \in Banners(f)
    BY <2>6, StringsReadCovers DEF Banners
  <2>7. CASE ~SectionsUnread(f) /\ x \in GoBuilt(f)
    BY <2>7, BuildinfoCovers DEF GoBuilt
  <2> QED
    BY <2>1, <2>2, <2>3, <2>4, <2>5, <2>6, <2>7, ElfItems
<1> HIDE DEF parts
<1>3. \A x \in ElfCarries(f) : Covers(ReadSections(f), x)
  BY <1>1, <1>2, TogetherCovers
<1> QED
  BY <1>3, ToldIsCovering

LEMMA SectionsAreExact ==
  ASSUME NEW f, ElfFormed(f)
  PROVE  Exact(ReadSections(f), ElfCarries(f))
<1> DEFINE unread == IF SectionsUnread(f) THEN ElfError("elf_sections_unread") ELSE Nothing
           parts == {unread, Dynamic(f), Dynsym(f), Symtab(f), StringsRead(f), CodeRead(f), GoBuildinfo(f)}
           C == ElfCarries(f)
<1>1. ReadSections(f) = Together(parts)
  BY Zenon DEF ReadSections
<1>2. CASE SectionsUnread(f)
  <2>1. unread.why # {}
    BY <1>2 DEF ElfError, Lost, Reading
  <2> HIDE DEF unread
  <2>2. ReadSections(f).why # {}
    BY <1>1, <2>1 DEF Together, Reading
  <2> QED
    BY <2>2 DEF Exact
<1>3. CASE ~SectionsUnread(f)
  <2>1. /\ DeclaredSymbols(f) \subseteq C /\ LocalEvidence(f) \subseteq C
        /\ Tagged(f) \subseteq C /\ Banners(f) \subseteq C /\ GoBuilt(f) \subseteq C
    BY ElfItems
  <2> HIDE DEF C
  <2>2. Exact(unread, C)
    BY NothingFoundIsExact DEF ElfError
  <2>3. Exact(Dynamic(f), C)
    BY <2>1, DynamicIsExact DEF Tagged
  <2>4. Exact(StringsRead(f), C) /\ Exact(GoBuildinfo(f), C) /\ Exact(CodeRead(f), C)
    BY <1>3, <2>1, StringsReadIsExact, BuildinfoIsExact, CodeIsExact DEF Banners, GoBuilt
  <2>5. Exact(Dynsym(f), C)
    <3>1. ASSUME NEW i \in ByType(f, "DYNSYM"), NEW r \in f.sections[i].rows, r.named
          PROVE  SymbolOf(r) \in C
      <4>1. i \in Dynsyms(f) /\ i \in DOMAIN f.sections /\ f.sections[i].type = "DYNSYM"
        BY ByTypeAre DEF Dynsyms
      <4>2. ~r.pseudo
        BY <4>1 DEF ElfFormed, SectionFormed
      <4>3. r \in RowsOf(f, Dynsyms(f))
        BY <3>1, <4>1, RowsAre
      <4> QED
        BY <2>1, <4>2, <4>3 DEF DeclaredSymbols
    <3> QED
      BY <3>1, DynsymIsExact
  <2>6. Exact(Symtab(f), C)
    <3>1. ASSUME NEW i \in Symtabs(f), NEW r \in f.sections[i].rows, r.named, ~r.pseudo, DynsymAbsent(f) \/ ~r.undefined
          PROVE  SymbolOf(r) \in C
      <4>1. SymbolOf(r) \in Local(f)
        BY <3>1, RowsAre DEF Local
      <4>2. CASE Dynsyms(f) = {}
        BY <2>1, <4>1, <4>2 DEF LocalEvidence
      <4>3. CASE Dynsyms(f) # {}
        <5>1. ~DynsymAbsent(f)
          BY <1>3, <4>3, SectionsRead DEF DynsymAbsent, Dynsyms, Are, OfType, OfName, TypeMismatch
        <5>2. SymbolOf(r).kind = "defined"
          BY <3>1, <5>1, SymbolKinds
        <5> QED
          BY <2>1, <4>1, <4>3, <5>2 DEF LocalEvidence, OfKind
      <4> QED
        BY <4>2, <4>3
    <3> QED
      BY <3>1, SymtabIsExact
  <2> HIDE DEF unread
  <2>7. \A part \in parts : Exact(part, C)
    BY <2>2, <2>3, <2>4, <2>5, <2>6
  <2> HIDE DEF parts
  <2> QED
    BY <1>1, <2>7, TogetherIsExact DEF C
<1> QED
  BY <1>2, <1>3

\* What an ELF carries is in the record or accounted for, and a record with no
\* reason has nothing else, whatever the header, the section table and the
\* sections have become; but where the string table is replaced, or no row asks
\* for a name (binfmt/elf.py, read_elf, _validated_strtab).
THEOREM ElfIsTold ==
  ASSUME NEW f, ElfFormed(f), ~StrtabReplaced(f), ~StrtabUnasked(f)
  PROVE  Told(ElfCarries(f), ReadElf(f)) /\ Exact(ReadElf(f), ElfCarries(f))
<1>1. \A reason \in {"elf_header_unread", "elf_section_table_truncated", "elf_section_table_absent"} :
        Told(ElfCarries(f), Unparsed(f, reason)) /\ Exact(Unparsed(f, reason), ElfCarries(f))
  BY ElfCosts, ElfKinds, UnparsedIsTold
<1>2. ReadElf(f) \in {ReadSections(f), Unparsed(f, "elf_header_unread"),
                      Unparsed(f, "elf_section_table_truncated"), Unparsed(f, "elf_section_table_absent")}
  BY DEF ReadElf
<1> QED
  BY <1>1, <1>2, SectionsAreTold, SectionsAreExact

----------------------------------------------------------------------------
(* A file of any format.                                                   *)

\* Of what it carries, a record tells; and when it has no reason, it is that.
Complete(r, carried) == Told(carried, r) /\ (r.why = {} => OfKind(r.got, Kinds) = carried)

LEMMA ToldAndExact ==
  ASSUME NEW r, NEW carried, Told(carried, r), Exact(r, carried), \A x \in carried : x.kind \in Kinds
  PROVE  Complete(r, carried)
<1>1. r.why = {} => carried \subseteq r.got
  BY DEF Told
<1>2. r.why = {} => carried \subseteq OfKind(r.got, Kinds)
  BY <1>1 DEF OfKind
<1> QED
  BY <1>2 DEF Exact, Complete

LEMMA StringsOnlyComplete ==
  ASSUME NEW f, NEW strings, NEW reason \in Reasons, Structural \subseteq Costs[reason], NEW carried,
         \A x \in carried : x.kind \in Kinds /\ (x.kind = "strings" => x \in strings)
  PROVE  Complete(StringsOnly(f, strings, reason), carried)
<1>1. \A x \in carried : Covers(StringsOnly(f, strings, reason), x)
  BY StringsOnlyCover
<1>2. reason \in StringsOnly(f, strings, reason).why
  BY DEF StringsOnly, Both, LostQuietly, Reading
<1> HIDE DEF StringsOnly
<1>3. StringsOnly(f, strings, reason).why # {}
  BY <1>2
<1> QED
  BY <1>1, <1>3, ToldIsCovering DEF Complete

LEMMA ObjectIsTold ==
  ASSUME NEW object, ObjectFormed(object), ~LeftOpen(object)
  PROVE  Complete(ReadBinary(object), Carries(object))
<1>1. CASE object.format = "elf"
  <2>1. ElfFormed(object) /\ ~StrtabReplaced(object) /\ ~StrtabUnasked(object)
    BY <1>1 DEF ObjectFormed, LeftOpen
  <2>2. Complete(ReadElf(object), ElfCarries(object))
    BY <2>1, ElfIsTold, ElfKinds, ToldAndExact
  <2> QED
    BY <1>1, <2>2 DEF ReadBinary, Carries
<1>2. CASE object.format = "macho"
  <2>1. MachoFormed(object)
    BY <1>2 DEF ObjectFormed
  <2>2. Complete(ReadMacho(object), MachoCarries(object))
    BY <2>1, MachoIsTold, MachoIsExact, MachoKinds, ToldAndExact
  <2> QED
    BY <1>2, <2>2 DEF ReadBinary, Carries
<1>3. CASE object.format = "pe"
  <2>1. PeFormed(object)
    BY <1>3 DEF ObjectFormed
  <2>2. Complete(ReadPe(object), PeCarries(object))
    BY <2>1, PeIsTold, PeKinds, ToldAndExact
  <2> QED
    BY <1>3, <2>2 DEF ReadBinary, Carries
<1>4. CASE object.format \notin {"elf", "macho", "pe"}
  <2>1. \A item \in object.holds : item.kind \in Kinds /\ (item.kind = "strings" => item \in object.strings)
    BY <1>4 DEF ObjectFormed
  <2>2. "no_structural_reader" \in Reasons /\ Structural \subseteq Costs["no_structural_reader"]
    BY ReasonsAre DEF Costs
  <2>3. Complete(StringsOnly(object, object.strings, "no_structural_reader"), object.holds)
    BY <2>1, <2>2, StringsOnlyComplete
  <2> QED
    BY <1>4, <2>3 DEF ReadBinary, Carries
<1> QED
  BY <1>1, <1>2, <1>3, <1>4

\* What a record is of is a file, or an object of one.
LEMMA ObjectsAreFormed ==
  ASSUME ReadInv, NEW i \in DOMAIN records
  PROVE  ObjectFormed(ObjectOf(i))
<1>1. CASE real = <<>>
  BY <1>1, FilesAssumption DEF ReadInv, FileInv, ObjectOf
<1>2. CASE real # <<>>
  <2>1. IsArchive /\ real \in Seq(Finds)
    <3>1. real \in Seq(Finds)
      BY DEF ReadInv, WalkInv
    <3>2. ~IsArchive => real \in Seq({})
      BY <3>1 DEF Finds
    <3>3. ~IsArchive => real = <<>>
      BY <3>2
    <3> QED
      BY <1>2, <3>1, <3>3
  <2>2. i \in DOMAIN real
    <3>1. \E n \in 0..Len(real) : records = [k \in 1..n |-> Record(real[k].path, ReadBinary(real[k].object))]
      BY <1>2, <2>1 DEF ReadInv, RecordsInv
    <3> QED
      BY <2>1, <3>1
  <2>3. \E k \in DOMAIN file.members : real[i].object = file.members[k].object
    <3>1. real[i] \in Finds
      BY <2>1, <2>2
    <3>2. real[i].object \in {file.members[k].object : k \in DOMAIN file.members}
      BY <2>1, <3>1 DEF Finds
    <3> QED
      BY <3>2
  <2>4. \A k \in DOMAIN file.members : ObjectFormed(file.members[k].object)
    BY <2>1, FilesAssumption, Zenon DEF ReadInv, FileInv, IsArchive
  <2> QED
    BY <1>2, <2>3, <2>4 DEF ObjectOf
<1> QED
  BY <1>1, <1>2

\* Every record but those of what is left open.
LEMMA RecordsAreComplete ==
  ASSUME ReadInv, NEW i \in DOMAIN records, ~LeftOpen(ObjectOf(i))
  PROVE  Complete(records[i].reading, Carries(ObjectOf(i)))
<1>1. ObjectFormed(ObjectOf(i))
  BY ObjectsAreFormed
<1>2. CASE records[i].reading = ReadBinary(ObjectOf(i))
  BY <1>1, <1>2, ObjectIsTold
<1>3. CASE /\ IsArchive /\ real = <<>>
           /\ records[i].reading = StringsOnly(file, file.strings, "ar_member_table_unread")
  <2>1. ObjectOf(i) = file /\ file.format = "ar"
    BY <1>3 DEF ObjectOf, IsArchive
  <2>2. Carries(file) = file.holds
    BY <2>1 DEF Carries
  <2>3. \A item \in file.holds : item.kind \in Kinds /\ (item.kind = "strings" => item \in file.strings)
    BY <1>1, <2>1 DEF ObjectFormed
  <2>4. "ar_member_table_unread" \in Reasons /\ Structural \subseteq Costs["ar_member_table_unread"]
    BY ReasonsAre DEF Costs
  <2>5. Complete(StringsOnly(file, file.strings, "ar_member_table_unread"), file.holds)
    BY <2>3, <2>4, StringsOnlyComplete
  <2> QED
    BY <1>3, <2>1, <2>2, <2>5
<1> QED
  BY <1>2, <1>3, RecordsAre

\* Whatever is damaged, cut or hidden in a file or an object of an archive, a
\* piece of evidence it carries is in its record, or a reason of the record
\* accounts for its kind (evidence.partial_reasons, binfmt/__init__.py); but
\* where an ELF symbol table has no name to witness its string table.
THEOREM LossesTold == Spec => []LossesAreTold
<1>1. ReadInv => LossesAreTold
  BY RecordsAreComplete DEF Complete, LossesAreTold
<1> QED
  BY <1>1, ReadInvHolds, PTL

\* A record without a reason holds what the object carries and nothing else:
\* no decoy, no name counted for the wrong side of the imported/defined split,
\* nothing left out (record.py, completeness).
THEOREM WholeExact == Spec => []WholeIsExact
<1>1. ReadInv => WholeIsExact
  BY RecordsAreComplete DEF Complete, WholeIsExact
<1> QED
  BY <1>1, ReadInvHolds, PTL
=============================================================================
