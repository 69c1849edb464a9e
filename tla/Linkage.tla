------------------------------- MODULE Linkage -------------------------------
(***************************************************************************)
(* linkage.py: where a wheel's crypto libraries come from, object by       *)
(* object (_binary_posture) and for the wheel (resolve_linkage).           *)
(*                                                                         *)
(* A file name is abstracted to what the conventions make of it: its stem, *)
(* and the library whose sonames hold its base.  A matched symbol, string  *)
(* or crate is abstracted to the library its group belongs to.  SBOM       *)
(* components carry the name they fold to.                                 *)
(***************************************************************************)
CONSTANTS Libraries,        \* the [[crypto_library]] names
          AlwaysReport,     \* those with always_report
          CopyMarked,       \* those with a copy_string_group
          CratesOf,         \* the crates of each
          RustCrates,       \* the [[rust_crate]] names
          Stems,            \* file identities (raw_stem)
          Paths,            \* where objects are
          Routine, Costing, \* partial_reasons on linkage_policy's list, and not
          Identity          \* those that may cost an object its soname or rpaths

ASSUME LinkageAssumption ==
  /\ AlwaysReport \subseteq Libraries /\ CopyMarked \subseteq Libraries
  /\ CratesOf \in [Libraries -> SUBSET RustCrates]
  /\ "none" \notin Libraries /\ Routine \cap Costing = {} /\ Costing # {}
  /\ Identity \subseteq Costing

Definite == {"system", "bundled", "static"}
Postures == Definite \cup {"mixed", "unknown", "none"}

\* A `needed` entry whose base is one of lib's sonames.  vendor: a component of
\* its own text is a vendor directory.
Entries == [lib : Libraries, stem : Stems, mangled : BOOLEAN, absolute : BOOLEAN,
            vendor : BOOLEAN]

\* evidence.BinaryEvidence.  base: the library own_base names; rpath: an rpath
\* or runpath is vendor-shaped; banners and forkBanners: matches of the
\* string_group that read as its own and as a fork's text; copies: of the
\* copy_string_group; forks: it carries a marker of a fork; other: it has
\* dependencies, symbols or strings that no library here claims.
Objects == [path : Paths, stem : Stems, base : Libraries \cup {"none"},
            vendored : BOOLEAN, archive : BOOLEAN, rpath : BOOLEAN,
            needed : SUBSET Entries, defined : SUBSET Libraries,
            imported : SUBSET Libraries, banners : SUBSET Libraries,
            forkBanners : SUBSET Libraries, copies : SUBSET Libraries,
            forks : SUBSET Libraries, crates : SUBSET RustCrates,
            other : BOOLEAN, partial : BOOLEAN, reasons : SUBSET (Routine \cup Costing)]

Components == [name : Libraries \cup RustCrates, cargo : BOOLEAN]

\* The wheel's evidence: binaries, binary-stage errors, what the archive
\* skipped, its symlinks and its SBOM components.
Evidence(binaries, errors, skipped, symlinks, components) ==
  [binaries |-> binaries, errors |-> errors, skipped |-> skipped,
   symlinks |-> symlinks, components |-> components]

Several(S) == \E a, b \in S : a # b

IsOpaque(o) ==
  /\ o.needed = {} /\ ~o.other /\ o.crates = {}
  /\ o.defined \cup o.imported \cup o.banners \cup o.forkBanners
       \cup o.copies \cup o.forks = {}

----------------------------------------------------------------------------
(* One `needed` entry.                                                     *)

\* Mutant: a member of a static archive answers to its stem as well.
BearersInArchives(stem, binaries) == {o \in binaries : o.stem = stem}

\* member_stem_counts: the objects a loader could resolve a name to.
Bearers(stem, binaries) == {o \in binaries : o.stem = stem /\ ~o.archive}

\* An object's own stem never answers for its own entries.
ResolvesWithinWheel(o, e, binaries) ==
  IF e.stem = o.stem THEN Several(Bearers(e.stem, binaries))
                     ELSE Bearers(e.stem, binaries) # {}

\* Mutant: a symlink is taken for a member that was read.
IncompletelyReadButForSymlinks(ev) == ev.skipped # {} \/ ev.errors # {}

WheelIncompletelyRead(ev) == ev.skipped # {} \/ ev.symlinks # {} \/ ev.errors # {}

LooksVendored(e, o) == e.vendor \/ o.rpath

NeededPosture(e, o, ev) ==
  IF e.mangled THEN "bundled"
  ELSE IF e.absolute THEN "system"
  ELSE IF ResolvesWithinWheel(o, e, ev.binaries) THEN "bundled"
  ELSE IF WheelIncompletelyRead(ev) /\ LooksVendored(e, o) THEN "unknown"
  ELSE "system"

----------------------------------------------------------------------------
(* One object.                                                             *)

\* What its `needed` entries for the library say.
NeededAnswers(o, lib, ev) == {NeededPosture(e, o, ev) : e \in {n \in o.needed : n.lib = lib}}

\* A banner beside none of the strings a compiled-in copy keeps.
LacksCopyMarker(o, lib) == lib \in CopyMarked /\ ~o.partial /\ lib \notin o.copies

BannerSeen(o, lib) == lib \in o.banners \cup o.forkBanners

\* A banner and nothing that ties it to a copy.
Uncorroborated(o, lib, answers) ==
  BannerSeen(o, lib) /\ answers = {} /\ LacksCopyMarker(o, lib)

HeaderText(o, lib, answers) ==
  answers \cap Definite # {} /\ LacksCopyMarker(o, lib) /\ lib \in o.imported

\* A banner that counts.
Banner(o, lib, answers) ==
  BannerSeen(o, lib) /\ ~Uncorroborated(o, lib, answers) /\ ~HeaderText(o, lib, answers)

CompiledIn(o, lib, answers) == lib \in o.defined \/ Banner(o, lib, answers)

\* A fork's marker, and nothing but what the fork would show as well.
OnlyTheFork(o, lib, answers) ==
  lib \in o.forks /\ ~(Banner(o, lib, answers) /\ lib \in o.banners)

\* Used, but nothing says which copy.
MerelyUsed(o, lib, answers) ==
  \/ Uncorroborated(o, lib, answers)
  \/ lib \in o.imported
  \/ o.crates \cap CratesOf[lib] # {}

\* Mutant: a bundled entry is the object's answer, whatever else it says.
BinaryPostureBundledFirst(o, lib, ev) ==
  LET answers == NeededAnswers(o, lib, ev)
      static == IF CompiledIn(o, lib, answers) THEN {"static"} ELSE {} IN
  IF (o.vendored /\ o.base = lib) \/ "bundled" \in answers THEN "bundled"
  ELSE IF "system" \in answers THEN IF static = {} THEN "system" ELSE "mixed"
  ELSE IF "unknown" \in answers THEN IF static = {} THEN "unknown" ELSE "mixed"
  ELSE IF static # {} THEN IF OnlyTheFork(o, lib, answers) THEN "unknown" ELSE "static"
  ELSE IF MerelyUsed(o, lib, answers) THEN "unknown"
  ELSE "none"

BinaryPosture(o, lib, ev) ==
  LET answers == NeededAnswers(o, lib, ev)
      static == IF CompiledIn(o, lib, answers) THEN {"static"} ELSE {} IN
  IF o.vendored /\ o.base = lib THEN "bundled"
  ELSE IF Several((answers \cap Definite) \cup static) THEN "mixed"
  ELSE IF "system" \in answers THEN "system"
  ELSE IF "bundled" \in answers THEN "bundled"
  ELSE IF "unknown" \in answers THEN IF static = {} THEN "unknown" ELSE "mixed"
  ELSE IF static # {} THEN IF OnlyTheFork(o, lib, answers) THEN "unknown" ELSE "static"
  ELSE IF MerelyUsed(o, lib, answers) THEN "unknown"
  ELSE "none"

ObjectPostures(lib, ev) == {BinaryPosture(o, lib, ev) : o \in ev.binaries}

----------------------------------------------------------------------------
(* The wheel.                                                              *)

\* Mutant: the first definite posture is the answer.
AggregateFirst(postures, unanswered, declared) ==
  IF postures \cap Definite # {} THEN CHOOSE p \in Definite : p \in postures
  ELSE IF "mixed" \in postures THEN "mixed"
  ELSE IF "unknown" \in postures \/ unanswered \/ declared THEN "unknown"
  ELSE "none"

\* Mutant: what the SBOM declares is consulted first.
AggregateDeclaredFirst(postures, unanswered, declared) ==
  IF "mixed" \in postures \/ Several(postures \cap Definite) THEN "mixed"
  ELSE IF "unknown" \in postures \/ unanswered \/ declared THEN "unknown"
  ELSE IF postures \cap Definite # {} THEN CHOOSE p \in Definite : p \in postures
  ELSE "none"

Aggregate(postures, unanswered, declared) ==
  IF "mixed" \in postures \/ Several(postures \cap Definite) THEN "mixed"
  ELSE IF postures \cap Definite # {} THEN CHOOSE p \in Definite : p \in postures
  ELSE IF "unknown" \in postures \/ unanswered \/ declared THEN "unknown"
  ELSE "none"

\* The SBOM names the library or a crate of its, the crates in dropped aside.
\* A name that is also a crate's names the library only under a purl that is
\* not cargo's.
DeclaredBySbom(lib, components, dropped) ==
  LET names == {c.name : c \in components} \ dropped IN
  \/ IF lib \in RustCrates THEN \E c \in components : c.name = lib /\ ~c.cargo
                           ELSE lib \in names
  \/ CratesOf[lib] \cap names # {}

\* Crates carried by an object that reads system.
ConfirmedCrates(lib, ev) ==
  UNION {o.crates : o \in {b \in ev.binaries : BinaryPosture(b, lib, ev) = "system"}}

\* declared_by_sbom, which the sbom_declared key of a rule reads.
DeclaredBeside(lib, ev) == DeclaredBySbom(lib, ev.components, ConfirmedCrates(lib, ev))

CostsAnAnswer(reasons) == reasons \ Routine # {}

\* Mutant: a member that raised is nobody's failure to answer.
LeftUnansweredButForErrors(ev) ==
  \E o \in ev.binaries :
    IsOpaque(o) \/ (o.partial /\ (o.reasons = {} \/ CostsAnAnswer(o.reasons)))

LeftUnanswered(ev) ==
  \/ \E o \in ev.binaries :
       IsOpaque(o) \/ (o.partial /\ (o.reasons = {} \/ CostsAnAnswer(o.reasons)))
  \/ ev.errors # {}

Value(lib, ev) ==
  Aggregate(ObjectPostures(lib, ev), LeftUnanswered(ev) /\ lib \in AlwaysReport,
            DeclaredBySbom(lib, ev.components, {}))

\* Mutant: a library nothing speaks of is left out, whichever it is.
ResolveLinkageIfAny(ev) ==
  [lib \in {l \in Libraries : Value(l, ev) # "none"} |-> Value(lib, ev)]

ResolveLinkage(ev) ==
  [lib \in {l \in Libraries : Value(l, ev) # "none" \/ l \in AlwaysReport} |-> Value(lib, ev)]
=============================================================================
