---------------------------- MODULE MCMemberRead ----------------------------
EXTENDS MemberRead

----------------------------------------------------------------------------
(* ELF: every table whole, damaged, mistyped, misplaced, understated, over *)
(* the budget, doubled, or not there, in every combination.                *)

Section(name, type) ==
  [name |-> name, type |-> type, alloc |-> FALSE, exec |-> FALSE, compressed |-> FALSE, size |-> 1,
   present |-> 1, link |-> 0, addr |-> "other", header |-> TRUE, raises |-> FALSE, miscounted |-> FALSE,
   holds |-> {}, rows |-> {}, names |-> {}, nul |-> FALSE, dtStrtab |-> "none"]
At(n, kind, name) == [at |-> n, item |-> Item(kind, name)]
Row(name) == [name |-> name, named |-> TRUE, undefined |-> FALSE, pseudo |-> FALSE, spent |-> FALSE]

NullRow == [Row("none") EXCEPT !.named = FALSE]

Damaged(s) == {s, [s EXCEPT !.raises = TRUE], [s EXCEPT !.header = FALSE], [s EXCEPT !.type = "other"]}
OrNone(S) == {<<>>} \cup {<<s>> : s \in S}

Dynstr == [Section(".dynstr", "STRTAB") EXCEPT !.addr = "dynstr", !.names = {"SSL_new", "EVP_md5"}]
Strtab == [Section(".strtab", "STRTAB") EXCEPT !.names = {"SSL_new", "EVP_local"}]
Nul == [Section(".nul", "STRTAB") EXCEPT !.nul = TRUE]
Dynstrs == Damaged(Dynstr) \cup {[Dynstr EXCEPT !.size = 9], [Dynstr EXCEPT !.names = @ \cup {"RSA_hidden"}]}
Strtabs == Damaged(Strtab) \cup {[Strtab EXCEPT !.size = 9], [Strtab EXCEPT !.names = @ \cup {"RSA_hidden"}]}

DynamicSection ==
  [Section(".dynamic", "DYNAMIC") EXCEPT !.link = 1, !.dtStrtab = "dynstr",
     !.holds = {At(1, "needed", "libcrypto"), At(1, "soname", "self"), At(1, "rpath", "lib")}]
Dynamics ==
  OrNone(Damaged(DynamicSection)
         \cup {[DynamicSection EXCEPT !.link = 2], [DynamicSection EXCEPT !.dtStrtab = "none"]})
  \cup {<<DynamicSection, [DynamicSection EXCEPT !.name = "copy"]>>,
        <<[DynamicSection EXCEPT !.type = "other"], [DynamicSection EXCEPT !.name = "copy"]>>}

DynsymSection ==
  [Section(".dynsym", "DYNSYM") EXCEPT !.link = 1,
     !.rows = {[Row("SSL_new") EXCEPT !.undefined = TRUE], Row("EVP_md5")}]
DynsymTables ==
  OrNone(Damaged(DynsymSection)
         \cup {[DynsymSection EXCEPT !.link = 3], [DynsymSection EXCEPT !.size = 9],
               [DynsymSection EXCEPT !.miscounted = TRUE],
               [DynsymSection EXCEPT !.rows = {[Row("EVP_md5") EXCEPT !.spent = TRUE]}],
               [DynsymSection EXCEPT !.rows = {Row("EVP_md5")}],
               [DynsymSection EXCEPT !.rows = {NullRow}]})
  \cup {<<DynsymSection, [DynsymSection EXCEPT !.name = "copy"]>>,
        <<[DynsymSection EXCEPT !.type = "other"], [DynsymSection EXCEPT !.name = "copy"]>>}

SymtabSection ==
  [Section(".symtab", "SYMTAB") EXCEPT !.link = 2,
     !.rows = {[Row("SSL_new") EXCEPT !.undefined = TRUE], Row("EVP_local")}]
SymtabTables ==
  OrNone(Damaged(SymtabSection)
         \cup {[SymtabSection EXCEPT !.link = 3], [SymtabSection EXCEPT !.size = 9],
               [SymtabSection EXCEPT !.miscounted = TRUE],
               [SymtabSection EXCEPT !.rows = {[Row("EVP_local") EXCEPT !.pseudo = TRUE]}],
               [SymtabSection EXCEPT !.rows = {Row("EVP_local")}],
               [SymtabSection EXCEPT !.rows = {NullRow}]})
  \cup {<<SymtabSection, [SymtabSection EXCEPT !.name = "copy"]>>}

ElfFile(sections) ==
  [format |-> "elf", header |-> TRUE, table |-> "fits", counted |-> TRUE, large |-> FALSE,
   beyond |-> {}, sections |-> sections]

Structures ==
  {ElfFile(<<ds, st, Nul>> \o d \o y \o s) : ds \in Dynstrs, st \in Strtabs, d \in Dynamics, y \in DynsymTables, s \in SymtabTables}

\* Read-only data, in one section or two; what else may be in a file; and a
\* file too damaged for any of it.
Banner(n) == Item("strings", n)
Rodata ==
  [Section(".rodata", "PROGBITS") EXCEPT !.alloc = TRUE, !.size = 6, !.present = 6,
     !.holds = {At(1, "strings", "first"), At(4, "strings", "second"), At(6, "strings", "third")}]
Rodatas ==
  Damaged(Rodata)
  \cup {[Rodata EXCEPT !.size = n, !.present = n] : n \in {3, 4}}
  \cup {[Rodata EXCEPT !.size = 4, !.present = 3], [Rodata EXCEPT !.exec = TRUE, !.holds = {At(1, "code", "first")}],
        [Rodata EXCEPT !.compressed = TRUE, !.holds = {At(1, "packed", "first")}],
        [Rodata EXCEPT !.compressed = TRUE, !.size = 3, !.present = 3, !.holds = {At(1, "packed", "first")}],
        [Rodata EXCEPT !.type = "NOBITS", !.present = 0]}
Comment == [Section(".comment", "PROGBITS") EXCEPT !.holds = {At(1, "strings", "compiler")}]
GoSection == [Section(".go.buildinfo", "PROGBITS") EXCEPT !.alloc = TRUE,
                !.holds = {At(1, "buildinfo", "go1"), At(6, "buildinfo", "mod")}]
GoSections == Damaged(GoSection) \cup {[GoSection EXCEPT !.size = 6, !.present = 6]}
Data ==
  {ElfFile(<<r>> \o c \o g) : r \in Rodatas, c \in OrNone(Damaged(Comment) \cup Rodatas), g \in OrNone(GoSections)}
Headless ==
  {[f EXCEPT !.header = h, !.table = t, !.counted = c, !.large = l,
             !.beyond = IF l THEN {Banner("second")} ELSE {}] :
     f \in {ElfFile(<<>>), ElfFile(<<Rodata>>), ElfFile(<<Dynstr, DynsymSection>>)},
     h \in BOOLEAN, t \in {"fits", "cut", "absent"}, c \in BOOLEAN, l \in BOOLEAN}

----------------------------------------------------------------------------
(* Mach-O: a slice or two, their commands in every state.                  *)

Command(type, name) == [type |-> type, name |-> name, fits |-> TRUE, there |-> TRUE]
MachoRow(name) == [name |-> name, at |-> 1, named |-> TRUE, undefined |-> FALSE, debug |-> FALSE,
                   alias |-> "none", aliasSpent |-> FALSE, spent |-> FALSE]
Table(rows, names) ==
  [type |-> "symtab", name |-> "none", fits |-> TRUE, there |-> TRUE, raises |-> FALSE,
   rows |-> rows, rowBytes |-> Cardinality(rows), rowsThere |-> Cardinality(rows),
   names |-> names, nameBytes |-> 2, namesThere |-> 2]
Name(n) == [name |-> n, at |-> 1]
ImportRow == [MachoRow("SSL_new") EXCEPT !.undefined = TRUE]
Defines == [MachoRow("EVP_md5") EXCEPT !.at = 2]
Indirect == [MachoRow("wrap") EXCEPT !.alias = "RSA_hidden"]
Whole == Table({ImportRow, Defines}, {Name("SSL_new"), Name("EVP_md5")})
Tables ==
  {Whole, [Whole EXCEPT !.raises = TRUE], [Whole EXCEPT !.fits = FALSE], [Whole EXCEPT !.there = FALSE],
   [Whole EXCEPT !.rowBytes = 9, !.rowsThere = 9], [Whole EXCEPT !.rowsThere = 1], [Whole EXCEPT !.namesThere = 0],
   [Whole EXCEPT !.nameBytes = 9, !.namesThere = 9, !.names = @ \cup {[name |-> "RSA_hidden", at |-> 9]}],
   [Whole EXCEPT !.names = @ \cup {Name("RSA_hidden")}], [Whole EXCEPT !.rows = {ImportRow}],
   [Whole EXCEPT !.rows = {ImportRow, [Defines EXCEPT !.spent = TRUE]}],
   [Whole EXCEPT !.rows = {ImportRow, [Defines EXCEPT !.debug = TRUE]}],
   [Whole EXCEPT !.rows = {ImportRow, [Defines EXCEPT !.named = FALSE]}],
   Table({Indirect}, {Name("wrap"), Name("RSA_hidden")}), Table({Indirect}, {Name("wrap")}),
   Table({[Indirect EXCEPT !.aliasSpent = TRUE]}, {Name("wrap"), Name("RSA_hidden")}),
   Table({[Indirect EXCEPT !.named = FALSE]}, {Name("RSA_hidden")}),
   Table({[MachoRow("none") EXCEPT !.named = FALSE]}, {}), Table({}, {}), Table({}, {Name("RSA_hidden")})}
Cut(command) == {command, [command EXCEPT !.fits = FALSE], [command EXCEPT !.there = FALSE]}
Some(S, T) == {<<>>} \cup {<<s>> : s \in S} \cup {<<s, t>> : s \in T, t \in T}
Slice(commands, declared) == [header |-> TRUE, commands |-> commands, declared |-> declared]
Slices ==
  {Slice(c, Len(c)) : c \in {i \o n \o t \o r :
     i \in Some(Cut(Command("soname", "self")), {Command("soname", "self")}),
     n \in OrNone(Cut(Command("needed", "libcrypto"))),
     t \in Some(Tables, {Whole, [Whole EXCEPT !.there = FALSE]}),
     r \in OrNone(Cut(Command("rpath", "lib")))}}
  \cup {Slice(<<Command("needed", "libcrypto"), Whole>>, n) : n \in {0, 1, 3}}
Thin(slice) ==
  [format |-> "macho", sniffed |-> TRUE, fat |-> FALSE, fatRaises |-> FALSE, declared |-> 0, arches |-> <<>>,
   slices |-> <<slice>>, large |-> FALSE, beyond |-> {}, strings |-> {Banner("first"), Banner("second")}]
Arch(k) == [there |-> TRUE, inside |-> TRUE, slice |-> k]
Fat(slices, arches) ==
  [Thin(slices[1]) EXCEPT !.fat = TRUE, !.declared = Len(arches), !.arches = arches, !.slices = slices]
Named == Slice(<<Command("soname", "self"), Whole>>, 2)
Other == Slice(<<Command("needed", "libssl"), Table({ImportRow}, {Name("SSL_new")})>>, 2)
Unparsable == [Other EXCEPT !.header = FALSE]
ArchTables ==
  {<<Arch(1), Arch(2)>>, <<Arch(1), Arch(1), Arch(2)>>, <<Arch(1), Arch(2), Arch(3)>>, <<>>,
   <<Arch(1), [Arch(2) EXCEPT !.there = FALSE]>>, <<[Arch(1) EXCEPT !.inside = FALSE], Arch(2)>>,
   <<[Arch(1) EXCEPT !.there = FALSE], Arch(2)>>}
Fats == {Fat(<<a, b, Other>>, t) : a \in {Named, Other, Unparsable}, b \in {Named, Other, Unparsable}, t \in ArchTables}
Machos ==
  {Thin(s) : s \in Slices} \cup Fats \cup {[f EXCEPT !.fatRaises = TRUE] : f \in Fats}
  \cup {[f EXCEPT !.declared = 2] : f \in Fats}
  \cup {[Thin(Other) EXCEPT !.sniffed = FALSE], Thin(Unparsable),
        [Thin(Other) EXCEPT !.large = TRUE, !.beyond = {Banner("second")}],
        [Thin(Unparsable) EXCEPT !.large = TRUE, !.beyond = {Banner("second")}]}

----------------------------------------------------------------------------
(* PE: a descriptor or two with the thunks of each; an export or two.      *)

Thunk(name) == [name |-> name, ordinal |-> FALSE, there |-> TRUE]
LookupTable(entries) == [entries |-> entries, ends |-> "null"]
Thunks(name) == {<<Thunk(name)>>, <<[Thunk(name) EXCEPT !.ordinal = TRUE]>>,
                 <<[Thunk(name) EXCEPT !.there = FALSE], Thunk("EVP_md5")>>,
                 <<Thunk(name), Thunk("EVP_md5")>>}
LookupTables(name) ==
  {{}} \cup {{LookupTable(t)} : t \in Thunks(name)} \cup {{[LookupTable(t) EXCEPT !.ends = "cut"]} : t \in Thunks(name)}
Descriptors(dll, name) == [dll : {dll}, there : BOOLEAN, tables : LookupTables(name)]
Arrays ==
  {<<>>} \cup {<<d>> : d \in Descriptors("libcrypto", "SSL_new")}
  \cup {<<d, e>> : d \in Descriptors("libcrypto", "SSL_new"), e \in Descriptors("ws2_32", "ordinal9")}
Three == [i \in 1..3 |-> [dll |-> "libcrypto", there |-> TRUE, tables |-> {LookupTable(<<>>)}]]
ImportDirectory == [raises |-> FALSE, descriptors |-> <<>>, ends |-> "null"]
PlainImports == [ImportDirectory EXCEPT !.descriptors =
                   <<[dll |-> "libssl", there |-> TRUE, tables |-> {LookupTable(<<Thunk("SSL_new")>>)}]>>]
ImportDirectories ==
  {[ImportDirectory EXCEPT !.descriptors = a, !.ends = e] : a \in Arrays \cup {Three}, e \in {"null", "cut"}}
  \cup {[ImportDirectory EXCEPT !.raises = TRUE]}

Slot(name) ==
  [name |-> name, named |-> TRUE, there |-> TRUE, ordinalThere |-> TRUE, slotThere |-> TRUE, forwards |-> FALSE,
   targetThere |-> TRUE, splits |-> TRUE, dll |-> "none", target |-> "none", byOrdinal |-> FALSE]
Forwarder(name) == [Slot(name) EXCEPT !.forwards = TRUE, !.dll = "libcrypto", !.target = "EVP_target"]
SlotStates(s) ==
  {s, [s EXCEPT !.there = FALSE], [s EXCEPT !.named = FALSE], [s EXCEPT !.ordinalThere = FALSE],
   [s EXCEPT !.slotThere = FALSE], [s EXCEPT !.targetThere = FALSE], [s EXCEPT !.splits = FALSE],
   [s EXCEPT !.byOrdinal = TRUE]}
ExportDirectory ==
  [raises |-> FALSE, header |-> TRUE, name |-> {"self"}, nameThere |-> TRUE, count |-> 1, slots |-> {}]
ExportDirectories ==
  {[ExportDirectory EXCEPT !.slots = {s} \cup t, !.nameThere = n] :
     s \in SlotStates(Slot("EVP_md5")), t \in {{}} \cup {{f} : f \in SlotStates(Forwarder("wrap"))}, n \in BOOLEAN}
  \cup {ExportDirectory, [ExportDirectory EXCEPT !.name = {}], [ExportDirectory EXCEPT !.raises = TRUE],
        [ExportDirectory EXCEPT !.header = FALSE], [ExportDirectory EXCEPT !.count = 9, !.slots = {Slot("EVP_md5")}]}
PeFile(imports, exports) ==
  [format |-> "pe", headers |-> TRUE, whole |-> TRUE, large |-> FALSE, beyond |-> {}, imports |-> imports,
   exports |-> exports, delayed |-> {}, strings |-> {Banner("first"), Banner("second")}]
Pes ==
  {PeFile({i}, {}) : i \in ImportDirectories} \cup {PeFile(i, {e}) : i \in {{}, {PlainImports}}, e \in ExportDirectories}
  \cup {[PeFile({[ImportDirectory EXCEPT !.descriptors = Three]}, {}) EXCEPT
          !.headers = h, !.whole = w, !.large = l, !.beyond = IF l THEN {Banner("second")} ELSE {}, !.delayed = d] :
        h \in BOOLEAN, w \in BOOLEAN, l \in BOOLEAN, d \in {{}, {Item("needed", "libssl"), Item("imported", "SSL_new")}}}

----------------------------------------------------------------------------
(* Archives of up to three members, read in full or not.                   *)

Unknown(n) == [format |-> "unknown", large |-> FALSE, beyond |-> {}, strings |-> {Banner(n)},
               holds |-> {Banner(n), Item("defined", n)}]
Member(name, n) == [fits |-> TRUE, name |-> name, naming |-> "plain", resolves |-> TRUE, role |-> "object",
                    names |-> {}, object |-> Unknown(n)]
Bookkeeping == [Member(<<"/">>, "none") EXCEPT !.role = "index", !.object.strings = {}, !.object.holds = {}]
NameTable == [Member(<<"//">>, "none") EXCEPT !.role = "names", !.names = {<<"long">>}]
MemberStates(n) ==
  {Member(<<"x">>, n), [Member(<<"x">>, n) EXCEPT !.fits = FALSE], Member(<<"x", "#", 2>>, n),
   [Member(<<"long">>, n) EXCEPT !.naming = "long"], [Member(<<"lost">>, n) EXCEPT !.naming = "long"],
   [Member(<<"long">>, n) EXCEPT !.naming = "embedded"],
   [Member(<<"long">>, n) EXCEPT !.naming = "embedded", !.resolves = FALSE],
   [Member(<<"x">>, n) EXCEPT !.object = ElfFile(<<Rodata, Dynstr, [DynsymSection EXCEPT !.link = 2]>>)],
   Bookkeeping, NameTable}
Archive(members) == [format |-> "ar", members |-> members, large |-> FALSE, beyond |-> {},
                     strings |-> {Banner("first")}, holds |-> {Banner("first")}]
Archives ==
  {Archive(m) : m \in {<<>>} \cup {<<a>> : a \in MemberStates("a")}
                    \cup {<<a, b, c>> : a \in MemberStates("a"), b \in MemberStates("b"), c \in MemberStates("c")}}
  \cup {Archive(<<a, b>>) : a, b \in {Member(<<"member@", 1>>, "a"), Member(<<"member@", 2>>, "b"),
                                    [Member(<<"lost">>, "c") EXCEPT !.naming = "long"]}}
  \cup {Archive(<<a, b, c, d>>) : a, b, c, d \in {Member(<<"x">>, "a"), Member(<<"y">>, "b"), NameTable}}

MCFiles == <<Structures, Data, Headless, Machos, Pes, Archives, {Unknown("a")}>>
=============================================================================
