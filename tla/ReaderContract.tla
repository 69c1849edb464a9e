--------------------------- MODULE ReaderContract ---------------------------
(***************************************************************************)
(* The contract every reader in binfmt answers to: a structure that does   *)
(* not parse costs that structure, never the evidence already gathered,    *)
(* and the record says so.  A piece of evidence has a kind and a name.     *)
(***************************************************************************)
EXTENDS Integers, FiniteSets, Sequences

CONSTANT MaxStringsBytes   \* max_strings_bytes: what a reader reads at once

ASSUME BudgetAssumption == MaxStringsBytes \in Nat \ {0}

\* What an array in a file is: its elements, in order.
IsSequence(s) == Len(s) \in Nat /\ s = [i \in 1..Len(s) |-> s[i]]

\* The kinds of evidence a reader answers for.  "undeclared" is a name in a
\* symbol table's strings that no row declares, which no record can hold;
\* "packed" is a string in a compressed section.
Symbols == {"imported", "defined", "undeclared"}
Structural == {"needed", "soname", "rpath", "buildinfo", "packed"} \cup Symbols
Kinds == Structural \cup {"strings"}

\* What a record that gives this reason may be short of: what evidence.py says,
\* and where .dynamic is unread, the local symbols nothing cross-checked, and
\* where an export has no name, what it may forward to.
Costs ==
  [no_structural_reader |-> Structural,
   elf_header_unread |-> Structural,
   elf_section_table_truncated |-> Structural,
   elf_section_table_absent |-> Structural,
   elf_section_type_ambiguous |-> {"needed", "soname", "rpath"} \cup Symbols,
   elf_sections_unread |-> Kinds,
   elf_section_data_unread |-> {"strings", "packed"},
   elf_dynamic_unread |-> {"needed", "soname", "rpath", "defined", "undeclared"},
   elf_dynsym_unread |-> Symbols,
   elf_symtab_unread |-> Symbols,
   elf_go_buildinfo_unread |-> {"buildinfo"},
   macho_header_unread |-> Structural,
   macho_symtab_incomplete |-> Symbols,
   macho_fat_slice_unread |-> Kinds,
   macho_load_command_string_unread |-> {"needed", "soname", "rpath"},
   macho_load_command_walk_truncated |-> {"needed", "soname", "rpath"} \cup Symbols,
   macho_load_command_ambiguous |-> {"soname"} \cup Symbols,
   pe_header_unread |-> Structural,
   pe_section_table_truncated |-> Structural,
   pe_no_import_directory |-> {},
   pe_import_incomplete |-> {"needed", "imported"},
   pe_export_incomplete |-> {"needed", "soname", "imported", "defined"},
   pe_ordinal_import |-> {"imported"},
   pe_ordinal_export |-> {"needed", "imported", "defined"},
   pe_delay_load |-> {"needed", "imported"},
   symtab_understates_rows |-> Symbols,
   strings_bytes_unread |-> {"strings", "packed"},
   ar_member_table_unread |-> Structural]

Reasons == DOMAIN Costs

\* Reasons that may stand without an error.
Quiet ==
  {"no_structural_reader", "macho_symtab_incomplete", "pe_no_import_directory",
   "pe_ordinal_import", "pe_ordinal_export", "pe_delay_load", "strings_bytes_unread",
   "ar_member_table_unread"}

\* A record: what was found, why it is partial, and whether there is an error.
Reading(got, why, erred) == [got |-> got, why |-> why, erred |-> erred]
Nothing == Reading({}, {}, FALSE)
Lost(reason) == Reading({}, {reason}, TRUE)
LostQuietly(reason) == Reading({}, {reason}, FALSE)
Found(items) == Reading(items, {}, FALSE)

\* One record of what several structures gave.
Both(r, s) == Reading(r.got \cup s.got, r.why \cup s.why, r.erred \/ s.erred)
Together(readings) ==
  Reading(UNION {r.got : r \in readings}, UNION {r.why : r \in readings}, \E r \in readings : r.erred)

Item(kind, name) == [kind |-> kind, name |-> name]
OfKind(items, kinds) == {i \in items : i.kind \in kinds}

\* The strings of an object read from its start: of a large one, but for those
\* that lie beyond the budget.
WholeStrings(file, strings) ==
  Reading(OfKind(strings, {"strings"}) \ (IF file.large THEN file.beyond ELSE {}),
          IF file.large THEN {"strings_bytes_unread"} ELSE {}, FALSE)

\* read_strings_only: no structure, and the reason why.
StringsOnly(file, strings, reason) == Both(WholeStrings(file, strings), LostQuietly(reason))

\* The contract: what the object carries and the record lacks is accounted for,
\* an error is never without a reason, and a reason that is not one of the
\* quiet ones is never without an error.
Told(carried, r) == \A i \in carried \ r.got : \E reason \in r.why : i.kind \in Costs[reason]
Agree(r) == (r.erred => r.why # {}) /\ (r.why \subseteq Quiet \/ r.erred)
=============================================================================
