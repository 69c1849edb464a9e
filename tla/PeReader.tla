------------------------------ MODULE PeReader ------------------------------
(***************************************************************************)
(* binfmt.pe.read_pe.  A PE file is its headers (headers: the chain from   *)
(* MZ parses; whole: every section header is there), strings, large and    *)
(* beyond as ReaderContract has them, and three directories, each a set of *)
(* none or one:                                                            *)
(*   imports    raises, the descriptors, and how their array ends          *)
(*   exports    raises, the object's name, the tables, the slots           *)
(*   delayed    what a delay-load directory names                          *)
(* Every structure is resolved inside the buffer read for the strings; a   *)
(* name is there when it lies in a section of it, closed, within the       *)
(* budget of names.  An array ends in zeroes ("null") or runs out of its   *)
(* section or onto bytes already read ("cut").                             *)
(***************************************************************************)
EXTENDS ReaderContract, Functions

CONSTANTS MaxDescriptors,   \* _MAX_IMPORT_DESCRIPTORS
          MaxThunks,        \* _MAX_THUNKS: of the whole object
          MaxExportNames    \* _MAX_EXPORT_NAMES

ASSUME DirectoriesAssumption == {MaxDescriptors, MaxThunks, MaxExportNames} \subseteq Nat \ {0}

----------------------------------------------------------------------------
(* Imports.                                                                *)

\* _read_thunks: at most budget entries of one lookup table, to its end or to
\* the first name that is not there; an entry by ordinal has no name.
ThunksWalked(table, budget) ==
  {i \in DOMAIN table.entries :
     i <= budget /\ \A j \in 1..(i - 1) : table.entries[j].ordinal \/ table.entries[j].there}
ThunksComplete(table, budget) ==
  /\ table.ends = "null" /\ Len(table.entries) < budget
  /\ \A i \in DOMAIN table.entries : table.entries[i].ordinal \/ table.entries[i].there
ThunkNames(table, budget) ==
  {table.entries[i].name : i \in {j \in ThunksWalked(table, budget) :
                                    ~table.entries[j].ordinal /\ table.entries[j].there}}
ByOrdinal(table, budget) == \E i \in ThunksWalked(table, budget) : table.entries[i].ordinal

\* One descriptor: the name of the DLL, and its table, where it has one.
WalkDescriptor(walk, descriptor) ==
  [dlls |-> walk.dlls \cup (IF descriptor.there THEN {descriptor.dll} ELSE {}),
   names |-> walk.names \cup UNION {ThunkNames(t, walk.budget) : t \in descriptor.tables},
   unnamed |-> walk.unnamed \/ \E t \in descriptor.tables : ByOrdinal(t, walk.budget),
   complete |-> /\ walk.complete /\ descriptor.there /\ descriptor.tables # {}
                /\ \A t \in descriptor.tables : ThunksComplete(t, walk.budget),
   budget |-> walk.budget - Cardinality(UNION {ThunksWalked(t, walk.budget) : t \in descriptor.tables})]

\* _read_imports: the array to its end, or to the cap.
ReadImports(directory) ==
  LET last == IF Len(directory.descriptors) < MaxDescriptors THEN Len(directory.descriptors) ELSE MaxDescriptors
      walk[i \in 0..last] ==
        IF i = 0
        THEN [dlls |-> {}, names |-> {}, unnamed |-> FALSE, budget |-> MaxThunks,
              complete |-> directory.ends = "null" /\ Len(directory.descriptors) < MaxDescriptors]
        ELSE WalkDescriptor(walk[i - 1], directory.descriptors[i])
  IN walk[last]

Imports(file) ==
  IF file.imports = {} THEN LostQuietly("pe_no_import_directory")
  ELSE Together({IF d.raises THEN Lost("pe_import_incomplete")
                 ELSE LET walk == ReadImports(d) IN
                      Together({Found({Item("needed", n) : n \in walk.dlls}
                                      \cup {Item("imported", n) : n \in walk.names}),
                                IF walk.dlls = {} THEN LostQuietly("pe_no_import_directory") ELSE Nothing,
                                IF walk.complete THEN Nothing ELSE Lost("pe_import_incomplete"),
                                IF walk.unnamed THEN LostQuietly("pe_ordinal_import") ELSE Nothing})
                  : d \in file.imports})

----------------------------------------------------------------------------
(* Exports.  A slot is an address: of what this object defines, or inside   *)
(* the directory, where it is a string that names another DLL (forwards).   *)
(* Slots that the name table points at have a name; ordinalThere, slotThere *)
(* say whether the ordinal and the address could be read.                   *)

\* A name whose slot is unknown is still recorded, as a definition.
Placed(slot) == slot.ordinalThere /\ slot.slotThere

\* Mutant: a forwarder is a definition like any other.
ForwardedNever(slot) == FALSE

Forwarded(slot) == slot.forwards /\ Placed(slot)
NamedSlots(directory) == {s \in directory.slots : s.named /\ s.there}

\* _split_forwarder: a DLL and a symbol, or a DLL and an ordinal.
Resolved(slot) == slot.targetThere /\ slot.splits
ForwardReading(slot) ==
  IF ~Resolved(slot) THEN Lost("pe_export_incomplete")
  ELSE Both(Found({Item("needed", slot.dll)}),
            IF slot.byOrdinal THEN LostQuietly("pe_ordinal_import")
            ELSE Found({Item("imported", slot.target)}))
SlotReading(slot) ==
  IF Forwarded(slot) THEN Both(Found({Item("imported", slot.name)}), ForwardReading(slot))
  ELSE Both(Found({Item("defined", slot.name)}),
            IF Placed(slot) THEN Nothing ELSE Lost("pe_export_incomplete"))

\* An address no name that was read points at.
Unnamed(directory) ==
  \E s \in directory.slots : s.slotThere /\ ~(s.named /\ s.there /\ s.ordinalThere)

\* _read_exports
ReadExports(directory) ==
  LET named == IF directory.nameThere THEN Found({Item("soname", n) : n \in directory.name})
               ELSE Lost("pe_export_incomplete") IN
  IF ~directory.header THEN Lost("pe_export_incomplete")
  ELSE IF directory.count > MaxExportNames THEN Both(named, Lost("pe_export_incomplete"))
  ELSE Together({named}
         \cup {SlotReading(s) : s \in NamedSlots(directory)}
         \cup {IF \E s \in directory.slots : (s.named /\ ~s.there) \/ ~s.slotThere
               THEN Lost("pe_export_incomplete") ELSE Nothing,
               IF Unnamed(directory) THEN LostQuietly("pe_ordinal_export") ELSE Nothing})

Exports(file) ==
  Together({IF d.raises THEN Lost("pe_export_incomplete") ELSE ReadExports(d) : d \in file.exports})

----------------------------------------------------------------------------
(* The file.                                                               *)

\* read_pe: the strings first, then the headers, then every directory.
ReadPe(file) ==
  IF ~file.headers
  THEN [StringsOnly(file, file.strings, "pe_header_unread") EXCEPT !.erred = TRUE]
  ELSE Together({WholeStrings(file, file.strings), Imports(file), Exports(file),
                 IF file.whole THEN Nothing ELSE Lost("pe_section_table_truncated"),
                 IF file.delayed = {} THEN Nothing ELSE LostQuietly("pe_delay_load")})

\* What the file holds, damaged or not.
ImportsCarry(directory) ==
  UNION {{Item("needed", d.dll)}
         \cup {Item("imported", e.name) : e \in UNION {Range(t.entries) : t \in d.tables}} :
           d \in Range(directory.descriptors)}
SlotCarries(slot) ==
  IF slot.forwards
  THEN {Item("needed", slot.dll), Item("imported", slot.target), Item("imported", slot.name)}
  ELSE {Item("defined", slot.name)}
ExportsCarry(directory) ==
  {Item("soname", n) : n \in directory.name} \cup UNION {SlotCarries(s) : s \in directory.slots}
PeCarries(file) ==
  file.strings \cup file.delayed
  \cup (UNION {ImportsCarry(d) : d \in file.imports}) \cup (UNION {ExportsCarry(d) : d \in file.exports})

\* What such a file is, however damaged: a descriptor has one lookup table, or
\* none that can be found.
PeFormed(file) ==
  /\ \A directory \in file.imports :
       /\ IsSequence(directory.descriptors)
       /\ \A d \in Range(directory.descriptors) :
            (\A t \in d.tables : IsSequence(t.entries)) /\ \A t, u \in d.tables : t = u
  /\ \A item \in file.delayed : item.kind \in {"needed", "imported"}
  /\ \A item \in file.strings : item.kind = "strings"
=============================================================================
