----------------------------- MODULE MemberRead -----------------------------
(***************************************************************************)
(* What layers.binaries does with one member it could open: read_binary on *)
(* a single object, read_ar_members on an archive of them, whose table is  *)
(* walked to its end before any object is read.                            *)
(*                                                                         *)
(* An archive has members, strings, large and beyond.  A member has a      *)
(* header that can be used (fits) or not, a name and how it is written     *)
(* (naming: "plain", "long" in the table of names, "embedded" in its own   *)
(* bytes), whether that resolves (embedded: the length fits), what it is   *)
(* (role: "object", "names" the table, "index" ar's own bookkeeping), the  *)
(* names the table holds, and the object in it.                            *)
(***************************************************************************)
EXTENDS ElfReader, MachoReader, PeReader

CONSTANTS MaxMembers,   \* _MAX_MEMBERS
          Files         \* the files to read: a sequence of sets, one per format

ASSUME MembersAssumption == MaxMembers \in Nat \ {0}

\* What a file is: an object of some format, or an archive of them.
ObjectFormed(object) ==
  CASE object.format = "elf" -> ElfFormed(object)
    [] object.format = "macho" -> MachoFormed(object)
    [] object.format = "pe" -> PeFormed(object)
    [] OTHER -> \A item \in object.holds :
                  item.kind \in Kinds /\ (item.kind = "strings" => item \in object.strings)
ASSUME FilesAssumption ==
  \A i \in DOMAIN Files : \A f \in Files[i] :
    /\ ObjectFormed(f)
    /\ f.format = "ar" =>
         /\ IsSequence(f.members)
         /\ \A k \in DOMAIN f.members : IsSequence(f.members[k].name) /\ ObjectFormed(f.members[k].object)

VARIABLES file,        \* the member of the wheel
          at,          \* the header the walk is at
          longNames,   \* the names of the table of names
          seen,        \* how often each name was used (seen_names)
          real,        \* the objects found: their path and what is in them
          stopped,     \* why the walk stopped early, or "no"
          unnamed,     \* some name could not be resolved
          records,     \* the records made
          errors       \* what the errors beside them say

vars == <<file, at, longNames, seen, real, stopped, unnamed, records, errors>>

Init ==
  /\ \E i \in DOMAIN Files : file \in Files[i]
  /\ at = 1 /\ longNames = {} /\ seen = [name \in {} |-> 0] /\ real = <<>>
  /\ stopped = "no" /\ unnamed = FALSE /\ records = <<>> /\ errors = {}

----------------------------------------------------------------------------
(* One object (read_binary).                                               *)

ReadBinary(object) ==
  CASE object.format = "elf" -> ReadElf(object)
    [] object.format = "macho" -> ReadMacho(object)
    [] object.format = "pe" -> ReadPe(object)
    [] OTHER -> StringsOnly(object, object.strings, "no_structural_reader")

Record(path, reading) == [path |-> path, reading |-> reading]

IsArchive == file.format = "ar"
Own == <<>>   \* the member's own path; an object of an archive adds its name

ReadObject ==
  /\ ~IsArchive /\ records = <<>>
  /\ records' = <<Record(Own, ReadBinary(file))>>
  /\ UNCHANGED <<file, at, longNames, seen, real, stopped, unnamed, errors>>

----------------------------------------------------------------------------
(* The walk of an archive (read_ar_members).                               *)

Walking == IsArchive /\ stopped = "no" /\ at <= Len(file.members)
Header == file.members[at]

\* _PSEUDO_MEMBERS, by the name as the header spells it.
IsPseudo(m) == m.role = "index" /\ m.naming = "plain"

\* _resolve_name
Resolves(m) ==
  CASE m.naming = "long" -> m.name \in longNames
    [] m.naming = "embedded" -> m.resolves
    [] OTHER -> TRUE
NameOf(m) == IF Resolves(m) THEN m.name ELSE <<"member@", at>>

Used(name) == IF name \in DOMAIN seen THEN seen[name] ELSE 0
UseOf(name) == [n \in DOMAIN seen \cup {name} |-> IF n = name THEN Used(n) + 1 ELSE seen[n]]

\* Mutant: a name is used as often as it comes.
DedupeNothing(name) == name

\* _dedupe: a name that was used before gets the number of its use.
Dedupe(name) == IF Used(name) = 0 THEN name ELSE name \o <<"#", Used(name) + 1>>

\* Mutant: a table that breaks off is a table that ends.
StopWalkSilently ==
  /\ Walking /\ ~Header.fits
  /\ at' = Len(file.members) + 1
  /\ UNCHANGED <<file, longNames, seen, real, stopped, unnamed, records, errors>>

\* A header that is cut, unmarked, has no number for a size, or a size that
\* runs past the end of the archive.
StopWalk ==
  /\ Walking /\ ~Header.fits
  /\ stopped' = "table"
  /\ UNCHANGED <<file, at, longNames, seen, real, unnamed, records, errors>>

TakeNames ==
  /\ Walking /\ Header.fits /\ Header.role = "names"
  /\ longNames' = Header.names /\ at' = at + 1
  /\ UNCHANGED <<file, seen, real, stopped, unnamed, records, errors>>

PassIndex ==
  /\ Walking /\ Header.fits /\ IsPseudo(Header)
  /\ at' = at + 1
  /\ UNCHANGED <<file, longNames, seen, real, stopped, unnamed, records, errors>>

\* What is neither the table of names nor bookkeeping is a member.
IsMember(m) == m.role # "names" /\ ~IsPseudo(m)
IsReal == Walking /\ Header.fits /\ IsMember(Header)

\* Mutant: one member too many.
TakeMemberPastTheCap ==
  /\ IsReal
  /\ real' = Append(real, [path |-> Dedupe(NameOf(Header)), object |-> Header.object])
  /\ seen' = UseOf(NameOf(Header))
  /\ unnamed' = (unnamed \/ ~Resolves(Header))
  /\ at' = at + 1
  /\ UNCHANGED <<file, longNames, stopped, records, errors>>

TakeMember ==
  /\ IsReal /\ Len(real) < MaxMembers
  /\ real' = Append(real, [path |-> Dedupe(NameOf(Header)), object |-> Header.object])
  /\ seen' = UseOf(NameOf(Header))
  /\ unnamed' = (unnamed \/ ~Resolves(Header))
  /\ at' = at + 1
  /\ UNCHANGED <<file, longNames, stopped, records, errors>>

StopAtCap ==
  /\ IsReal /\ Len(real) >= MaxMembers
  /\ stopped' = "cap"
  /\ UNCHANGED <<file, at, longNames, seen, real, unnamed, records, errors>>

Walked == IsArchive /\ (stopped # "no" \/ at > Len(file.members))

\* An archive with no object in it: its strings, and only what the table says.
ReadNoMember ==
  /\ Walked /\ real = <<>> /\ records = <<>>
  /\ records' = <<Record(Own, StringsOnly(file, file.strings, "ar_member_table_unread"))>>
  /\ errors' = {"table"} \cap {stopped}
  /\ UNCHANGED <<file, at, longNames, seen, real, stopped, unnamed>>

ReadMember ==
  /\ Walked /\ Len(records) < Len(real)
  /\ LET m == real[Len(records) + 1] IN
       records' = Append(records, Record(m.path, ReadBinary(m.object)))
  /\ errors' = ({stopped} \ {"no"}) \cup (IF unnamed THEN {"name"} ELSE {})
  /\ UNCHANGED <<file, at, longNames, seen, real, stopped, unnamed>>

Next ==
  \/ ReadObject
  \/ StopWalk \/ TakeNames \/ PassIndex \/ TakeMember \/ StopAtCap
  \/ ReadNoMember \/ ReadMember

Spec == Init /\ [][Next]_vars

----------------------------------------------------------------------------
(* Properties.                                                             *)

Carries(object) ==
  CASE object.format = "elf" -> ElfCarries(object)
    [] object.format = "macho" -> MachoCarries(object)
    [] object.format = "pe" -> PeCarries(object)
    [] OTHER -> object.holds

\* The two things the ELF reader cannot tell.
LeftOpen(object) == object.format = "elf" /\ (StrtabReplaced(object) \/ StrtabUnasked(object))

\* What a record is of: an object of the archive, or the file itself.
ObjectOf(i) == IF real = <<>> THEN file ELSE real[i].object

Read == records # <<>> /\ Len(records) >= Len(real)

TypeOK ==
  /\ at \in 1..(IF IsArchive THEN Len(file.members) + 1 ELSE 1)
  /\ stopped \in {"no", "table", "cap"} /\ unnamed \in BOOLEAN
  /\ Len(real) <= MaxMembers /\ \A name \in DOMAIN seen : seen[name] \in 1..Len(real)
  /\ errors \subseteq {"table", "cap", "name"}
  /\ \A i \in DOMAIN records :
       /\ records[i].reading.why \subseteq Reasons
       /\ \A item \in records[i].reading.got : item.kind \in Kinds \cup {"code"}

\* Whatever is damaged, cut or hidden, a piece of evidence the object carries
\* is in its record or one of the record's reasons accounts for its kind
\* (binfmt/__init__.py, evidence.partial_reasons).
LossesAreTold ==
  \A i \in DOMAIN records :
    ~LeftOpen(ObjectOf(i)) => Told(Carries(ObjectOf(i)), records[i].reading)

\* A record with no reason is the object: nothing in it was made up, read from
\* a decoy or counted for the wrong side of the imported/defined split.
WholeIsExact ==
  \A i \in DOMAIN records :
    LET reading == records[i].reading IN
    reading.why = {} /\ ~LeftOpen(ObjectOf(i)) => OfKind(reading.got, Kinds) = Carries(ObjectOf(i))

\* An error and a reason come together, but for the reasons that are routine
\* (record.py, the comments on each PARTIAL_ constant).
ErrorsAndReasonsAgree == \A i \in DOMAIN records : Agree(records[i].reading)

\* Every object of an archive is read, in order and once each, or an error
\* says that the walk stopped before it (read_ar_members).
Taken == {i \in DOMAIN file.members : i < at /\ IsMember(file.members[i])}
NoObjectIsLost ==
  Read /\ IsArchive =>
    /\ \/ {"table", "cap"} \cap errors # {}
       \/ \A i \in DOMAIN file.members : file.members[i].role = "object" => i \in Taken
    /\ Taken # {} => Len(records) = Cardinality(Taken)
    /\ \A i \in Taken :
         records[Cardinality({k \in Taken : k <= i})].reading = ReadBinary(file.members[i].object)

\* No two records of an archive share a path, in an archive that has no name
\* spelled like a numbered one (_dedupe; record._cap_by_findings keys on it).
IsNumbered(name) == Len(name) >= 2 /\ name[Len(name) - 1] = "#"
PathsAreUnique ==
  (IsArchive => \A i \in DOMAIN file.members : ~IsNumbered(file.members[i].name)) =>
    \A i, j \in DOMAIN records : records[i].path = records[j].path => i = j
=============================================================================
