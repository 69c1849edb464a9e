----------------------------- MODULE BinaryScan -----------------------------
(***************************************************************************)
(* layers.binaries.scan_binaries over one wheel, member by member in name  *)
(* order, and linkage.resolve_linkage on what it gathered.  A reader is    *)
(* modelled by its contract (binfmt/__init__.py): it raises, or records    *)
(* the object whole, or records less of it and marks the record partial.   *)
(* Of the other layers this module has what linkage reads: the errors they *)
(* leave in the archive, which inventory lists when every layer is done.   *)
(***************************************************************************)
EXTENDS Linkage, Integers, Sequences

CONSTANTS Wheels,     \* the wheels to scan: their members and SBOM components
          NoAnswer    \* linkage is not resolved yet

\* A member that is not read as a binary is a symlink or another file.  parts:
\* the objects in it; a symlink has the one it stands for, a fat file one per
\* slice.  suffix: is it named as Python, or as bytecode?  twice: does the
\* archive list it twice?  stem and base: what its file name makes of it, which
\* is what an object without a soname goes by.
Kinds == {"other", "symlink", "object", "fat", "archive"}
Suffixes == {"none", "py", "pyc"}

Members ==
  [path : Paths, stem : Stems, base : Libraries \cup {"none"}, kind : Kinds, suffix : Suffixes,
   large : BOOLEAN, twice : BOOLEAN, parts : SUBSET Objects]

\* Why the archive has an error for a member: it would not or could not read it,
\* or has another of the name.
Skips == Paths \X {"refused", "duplicate"}

ASSUME WheelsAssumption ==
  \A w \in Wheels :
    /\ w.members \in Seq(Members) /\ w.components \subseteq Components
    /\ \A i, j \in DOMAIN w.members : i # j => w.members[i].path # w.members[j].path
    /\ \A i \in DOMAIN w.members :
         LET m == w.members[i] IN
         /\ m.kind \in {"object", "fat", "archive"} => m.parts # {}
         /\ m.kind = "other" => m.parts = {}
         /\ m.kind \in {"object", "symlink"} => \A o, p \in m.parts : o = p
         /\ \A o \in m.parts :
              /\ ~o.partial /\ o.reasons = {} /\ (o.archive <=> m.kind = "archive")
              /\ m.kind # "archive" => o.path = m.path
              /\ \A p \in m.parts : o.vendored = p.vendored
              /\ m.kind = "fat" => \A p \in m.parts : o.stem = p.stem /\ o.base = p.base

\* What says that linkage is not resolved yet is no linkage.
ASSUME NoAnswerAssumption == \A known \in SUBSET Libraries : NoAnswer \notin [known -> Postures]

VARIABLES wheel,      \* the wheel
          next,       \* the member at hand
          binaries,   \* the objects read
          errors,     \* the members with a binary-stage error
          skipped,    \* the members the archive has an error for, and which
          answer      \* verdict.conditions: the linkage of each library

vars == <<wheel, next, binaries, errors, skipped, answer>>

Init ==
  /\ wheel \in Wheels /\ next = 1
  /\ binaries = {} /\ errors = {} /\ answer = NoAnswer
  /\ skipped = {<<wheel.members[i].path, "duplicate">> :
                  i \in {j \in DOMAIN wheel.members : wheel.members[j].twice}}

Scanning == answer = NoAnswer /\ next <= Len(wheel.members)
Member == wheel.members[next]

\* is_binary_member: never a symlink.
IsBinary(m) == m.kind \in {"object", "fat", "archive"}

\* A universal binary is one record: what any slice has, the record has.
Merge(slices) ==
  [CHOOSE o \in slices : TRUE EXCEPT
     !.rpath = \E o \in slices : o.rpath,
     !.other = \E o \in slices : o.other,
     !.needed = UNION {o.needed : o \in slices},
     !.defined = UNION {o.defined : o \in slices},
     !.imported = UNION {o.imported : o \in slices},
     !.banners = UNION {o.banners : o \in slices},
     !.forkBanners = UNION {o.forkBanners : o \in slices},
     !.copies = UNION {o.copies : o \in slices},
     !.forks = UNION {o.forks : o \in slices},
     !.crates = UNION {o.crates : o \in slices}]

\* What reading a member in full records.
ObjectsOf(m) == IF m.kind = "fat" THEN {Merge(m.parts)} ELSE m.parts

\* What reading part of an object may record: a cause on linkage_policy's list
\* costs it no more than imports (by ordinal), any other may cost anything but
\* soname and rpaths, and those in Identity these as well (ReaderContract.Costs).
LessRoutinely(o) ==
  {[o EXCEPT !.partial = TRUE, !.reasons = {cut.reason}, !.imported = cut.imported] :
     cut \in [reason : Routine, imported : SUBSET o.imported]}
LessAtACost(o) ==
  {[o EXCEPT !.partial = TRUE, !.reasons = {cut.reason}, !.other = cut.other,
             !.needed = cut.needed, !.defined = cut.defined, !.imported = cut.imported,
             !.banners = cut.banners, !.forkBanners = cut.forkBanners, !.copies = cut.copies,
             !.forks = cut.forks, !.crates = cut.crates] :
     cut \in [reason : Costing, other : {o.other, FALSE}, needed : SUBSET o.needed,
              defined : SUBSET o.defined, imported : SUBSET o.imported,
              banners : SUBSET o.banners, forkBanners : SUBSET o.forkBanners,
              copies : SUBSET o.copies, forks : SUBSET o.forks, crates : SUBSET o.crates]}

\* Without its soname an object goes by the name of its file; an object of an
\* archive has no other.
ByFileName(m, o) == IF o.archive THEN o ELSE [o EXCEPT !.stem = m.stem, !.base = m.base]
Unidentified(m, o) ==
  {[n EXCEPT !.rpath = rpath] : n \in {o, ByFileName(m, o)}, rpath \in {o.rpath, FALSE}}
Less(m, o) ==
  LessRoutinely(o) \cup LessAtACost(o) \cup
  {r \in UNION {LessAtACost(n) : n \in Unidentified(m, o)} : r.reasons \subseteq Identity}

\* What reading these objects of a member may record, each in whole or in part.
Readings(m, objects) ==
  LET reads == [objects -> objects \cup UNION {Less(m, o) : o \in objects}] IN
  {{read[o] : o \in objects} :
     read \in {r \in reads : \A o \in objects : r[o] \in {o} \cup Less(m, o)}}

\* A record whose soname or rpaths may be lost.
Misidentified(o) == o.reasons \cap Identity # {}

\* The strings of an archive none of whose objects could be reached, under the
\* archive's own name.
StringsOf(m) ==
  {[path |-> m.path, stem |-> m.stem, base |-> m.base, vendored |-> \E o \in m.parts : o.vendored,
    archive |-> FALSE, rpath |-> FALSE, needed |-> {}, defined |-> {}, imported |-> {}, banners |-> found.banners,
    forkBanners |-> found.forkBanners, copies |-> found.copies, forks |-> found.forks,
    crates |-> found.crates, other |-> found.other, partial |-> TRUE,
    reasons |-> {found.reason}] :
     found \in [banners : SUBSET UNION {o.banners : o \in m.parts},
                forkBanners : SUBSET UNION {o.forkBanners : o \in m.parts},
                copies : SUBSET UNION {o.copies : o \in m.parts},
                forks : SUBSET UNION {o.forks : o \in m.parts},
                crates : SUBSET UNION {o.crates : o \in m.parts},
                other : BOOLEAN, reason : Costing]}

Advance == next' = next + 1 /\ UNCHANGED <<wheel, answer>>

----------------------------------------------------------------------------
(* One member.                                                             *)

\* Not a binary, or a symlink, which is never followed.
PassOver ==
  /\ Scanning /\ ~IsBinary(Member)
  /\ Advance /\ UNCHANGED <<binaries, errors, skipped>>

\* The same, but the layer that does read it, or reads where the symlink points,
\* is refused or fails; no layer reads bytecode.
ReadElsewhereFails ==
  /\ Scanning /\ ~IsBinary(Member) /\ (Member.suffix = "pyc" => Member.kind = "symlink")
  /\ skipped' = skipped \cup {<<Member.path, "refused">>}
  /\ Advance /\ UNCHANGED <<binaries, errors>>

\* is_within_limits says no, and the archive has recorded why.
Refuse ==
  /\ Scanning /\ IsBinary(Member) /\ Member.large
  /\ skipped' = skipped \cup {<<Member.path, "refused">>}
  /\ Advance /\ UNCHANGED <<binaries, errors>>

Readable == Scanning /\ IsBinary(Member) /\ ~Member.large

\* open_member raises; a member read into memory leaves an archive error too.
OpenRaises ==
  /\ Readable
  /\ errors' = errors \cup {Member.path}
  /\ skipped' \in {skipped, skipped \cup {<<Member.path, "refused">>}}
  /\ Advance /\ UNCHANGED binaries

\* The reader raises: nothing of the member is recorded.
ReadRaises ==
  /\ Readable
  /\ errors' = errors \cup {Member.path}
  /\ Advance /\ UNCHANGED <<binaries, skipped>>

ReadWhole ==
  /\ Readable
  /\ binaries' = binaries \cup ObjectsOf(Member)
  /\ Advance /\ UNCHANGED <<errors, skipped>>

\* Objects that could only be read in part, with or without an error: never
\* without one when soname or rpaths may be lost.
ReadPartly ==
  /\ Readable
  /\ \E some \in Readings(Member, ObjectsOf(Member)) :
       /\ binaries' = binaries \cup some
       /\ \/ errors' = errors \cup {Member.path}
          \/ errors' = errors /\ \A r \in some : ~Misidentified(r)
  /\ Advance /\ UNCHANGED skipped

\* An archive that breaks off: the objects before the break, or its strings
\* when there is none, and an error.
ReadArchivePartly ==
  /\ Readable /\ Member.kind = "archive"
  /\ \/ \E reached \in (SUBSET Member.parts) \ {{}} :
          \E some \in Readings(Member, reached) : binaries' = binaries \cup some
     \/ \E strings \in StringsOf(Member) : binaries' = binaries \cup {strings}
  /\ errors' = errors \cup {Member.path}
  /\ Advance /\ UNCHANGED skipped

----------------------------------------------------------------------------
(* The wheel.                                                              *)

\* artifacts.symlinks lists every one, read or not.
Symlinks ==
  {wheel.members[i].path : i \in {j \in DOMAIN wheel.members : wheel.members[j].kind = "symlink"}}

Gathered == Evidence(binaries, errors, skipped, Symlinks, wheel.components)

Resolve ==
  /\ answer = NoAnswer /\ next > Len(wheel.members)
  /\ answer' = ResolveLinkage(Gathered)
  /\ UNCHANGED <<wheel, next, binaries, errors, skipped>>

Next ==
  \/ PassOver \/ ReadElsewhereFails \/ Refuse \/ OpenRaises \/ ReadRaises
  \/ ReadWhole \/ ReadPartly \/ ReadArchivePartly
  \/ Resolve

Spec == Init /\ [][Next]_vars

----------------------------------------------------------------------------
(* Properties.                                                             *)

Resolved == answer # NoAnswer

\* The answer of every library that is always reported, and of no other
\* unless something speaks of it (scan.scan_wheel, verdict.conditions).
TypeOK ==
  /\ next \in 1..(Len(wheel.members) + 1)
  /\ \A o \in binaries : o \in Objects
  /\ errors \subseteq Paths /\ skipped \subseteq Skips
  /\ Resolved => /\ DOMAIN answer \subseteq Libraries /\ AlwaysReport \subseteq DOMAIN answer
                 /\ \A lib \in DOMAIN answer : answer[lib] \in Postures

\* Is there something of the library in the object, its imports aside?
Speaks(o, lib) ==
  \/ o.vendored /\ o.base = lib
  \/ \E e \in o.needed : e.lib = lib
  \/ lib \in o.defined \cup o.banners \cup o.forkBanners
  \/ o.crates \cap CratesOf[lib] # {}

\* "none" is earned: where a library is always reported, no member that was
\* within limits has anything of it, though members may have raised or been
\* read in part.  What the ruleset gives up is an import by ordinal, of a
\* record that says it is partial (linkage._left_unanswered, _aggregate,
\* linkage_policy in ruleset.toml).
NoneIsEarned ==
  Resolved =>
    \A lib \in AlwaysReport : answer[lib] = "none" =>
      \A i \in DOMAIN wheel.members :
        LET m == wheel.members[i] IN
        IsBinary(m) /\ ~m.large => \A o \in ObjectsOf(m) :
          /\ ~Speaks(o, lib)
          /\ lib \in o.imported => \E r \in binaries : r.path = o.path /\ r.partial

\* What the members of the wheels hold: the libraries some object imports, and
\* those some object has a fork of.
Parts == UNION {UNION {w.members[i].parts : i \in DOMAIN w.members} : w \in Wheels}
Imported == UNION {o.imported : o \in Parts}
Forked == UNION {o.forks : o \in Parts}

\* Everything the wheel holds, had every member been there and been read.
Everything ==
  Evidence(UNION {ObjectsOf(wheel.members[i]) : i \in DOMAIN wheel.members},
           {}, {}, {}, wheel.components)

\* Vendoring tools leave a vendor directory in the entry or the rpath, and nobody
\* names a static archive like a library that is loaded.
Vendored(w) ==
  LET all == UNION {ObjectsOf(w.members[i]) : i \in DOMAIN w.members}
      archives == {w.members[i] : i \in {j \in DOMAIN w.members : w.members[j].kind = "archive"}} IN
  /\ \A o \in all : \A e \in o.needed :
       ~e.mangled /\ ~e.absolute /\ ResolvesWithinWheel(o, e, all) => LooksVendored(e, o)
  /\ \A m \in archives : m.base = "none" /\ \A o \in all : \A e \in o.needed : e.stem # m.stem

\* A definite answer stands: it would still be the answer, or part of a mixed
\* one, had nothing been refused, lost, cut or left a symlink, in a wheel whose
\* vendored entries look vendored.  A partial read may take it back only where
\* it may have lost what the answer is about: "system" the rpath that makes an
\* entry look vendored, "bundled" the soname that says what an object is, and
\* "static" the string that marks a copy, without which a banner has the benefit
\* of the doubt (linkage.needed_posture, wheel_incompletely_read,
\* _banner_lacks_copy_marker).
DefiniteStands ==
  Resolved /\ Vendored(wheel) =>
    \A lib \in DOMAIN answer :
      \/ answer[lib] = "system" /\ \A r \in binaries : Misidentified(r) => r.needed = {}
      \/ answer[lib] = "bundled" /\ \A r \in binaries : ~Misidentified(r)
      \/ answer[lib] = "static" /\ \A r \in binaries : ~r.partial
      => Value(lib, Everything) \in {answer[lib], "mixed"}

\* The field and the sbom_declared key agree: leaving out the crates an object
\* that reads system accounts for never changes what the field is
\* (linkage.declared_by_sbom).
FilterIsNoOp ==
  Resolved =>
    \A lib \in Libraries :
      Aggregate(ObjectPostures(lib, Gathered), LeftUnanswered(Gathered) /\ lib \in AlwaysReport,
                DeclaredBeside(lib, Gathered))
      = Value(lib, Gathered)

\* The field and the dt_needed findings agree: an entry found to be the
\* system's, or bundled, is in the field as such or as mixed; the one object
\* whose entries do not count is the vendored library itself
\* (linkage.needed_posture, engine._match_dt_needed).
FindingsAgree ==
  Resolved =>
    \A o \in binaries : \A e \in o.needed :
      LET found == NeededPosture(e, o, Gathered) IN
      found \in Definite /\ ~(o.vendored /\ o.base = e.lib) =>
        e.lib \in DOMAIN answer /\ answer[e.lib] \in {found, "mixed"}

\* Merging the slices of a universal binary loses no definite answer: what a
\* slice would read on its own, the record reads, or mixed; and mixed when two
\* slices differ.  A fork in another slice may cost a static its certainty, and
\* in a wheel that was not read in full an rpath of another slice may cost a
\* system its (linkage._binary_posture, _looks_vendored, binfmt/macho.read_macho).
SlicesAreHeard ==
  Resolved =>
    \A i \in {j \in DOMAIN wheel.members : wheel.members[j].kind = "fat"} :
      \A merged \in binaries \cap ObjectsOf(wheel.members[i]) : \A lib \in Libraries :
        LET read(o) == BinaryPosture(o, lib, Gathered)
            doubted(o) == read(o) = "system" /\ merged.rpath /\ ~o.rpath
                            /\ WheelIncompletelyRead(Gathered)
            alone == {read(o) : o \in {p \in wheel.members[i].parts : ~doubted(p)}} \cap Definite
            whole == read(merged) IN
        /\ Several(alone) => whole = "mixed"
        /\ \A p \in alone : \/ whole \in {p, "mixed"}
                            \/ p = "static" /\ lib \in merged.forks /\ whole = "unknown"

\* What is inside a static archive settles no entry: without it, every other
\* object reads the same (linkage.member_stem_counts).
ArchivesSettleNothing ==
  Resolved =>
    LET others == {o \in binaries : ~o.archive}
        without == [Gathered EXCEPT !.binaries = others] IN
    \A o \in others : \A lib \in Libraries :
      BinaryPosture(o, lib, Gathered) = BinaryPosture(o, lib, without)

\* A binary that left no record is a failure to answer, as the comment on
\* linkage._left_unanswered has it: it "shows up as a binary-stage error".
UnrecordedIsUnanswered ==
  Resolved =>
    \A i \in DOMAIN wheel.members :
      LET m == wheel.members[i] IN
      IsBinary(m) /\ m.parts # {} /\ (\A o \in m.parts : \A b \in binaries : b.path # o.path)
        => LeftUnanswered(Gathered)
=============================================================================
