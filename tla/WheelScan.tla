----------------------------- MODULE WheelScan -----------------------------
(***************************************************************************)
(* scan.scan_wheel: one wheel from its file to its record.  The ruleset is *)
(* loaded or refused; the file is hashed and opened, or cannot be; the     *)
(* binary layer runs (BinaryScan), then the Python layer; and linkage, the *)
(* rules, the verdict and the record's caps make the record.  What the     *)
(* metadata layer finds, and what is in the Python, is known beforehand.   *)
(***************************************************************************)
EXTENDS BinaryScan, RuleEngine

CONSTANTS Rulesets,    \* the rulesets to load, by name
          Scans,       \* the scans to do: a wheel, and what else there is to it
          PathOrder,   \* the paths as they sort
          NameOrder,   \* the names of rules, subjects and groups as they sort
          Matches,     \* how often an object has what it has
          Inventory,   \* the crates every object has that no [[rust_crate]] names
          NoRecord     \* the wheel is not reported on yet

\* A ruleset speaks of the crates and libraries the evidence names, and tables is
\* where its matches look.
ASSUME RulesetsAssumption ==
  \A name \in DOMAIN Rulesets :
    LET r == Rulesets[name] IN
    /\ Crates(r) = RustCrates
    /\ DOMAIN r.verdict = Rules(r) /\ DOMAIN r.matches = Rules(r)
    /\ DOMAIN r.crateVerdict = RustCrates /\ DOMAIN r.libraryVerdict = Libraries
    /\ DOMAIN r.distVerdict = DOMAIN r.distRule /\ DOMAIN r.moduleVerdict = DOMAIN r.moduleOwner
    /\ \A rule \in Rules(r) : \A m \in r.matches[rule] :
         /\ m.kind = "sbom_component" => m.tables \in Seq(STRING)
         /\ m.kind = "bundled_library" => m.libraries \subseteq Libraries
    /\ r.tables = [rule \in Rules(r) |->
                     UNION {{m.tables[i] : i \in DOMAIN m.tables} :
                              m \in {x \in r.matches[rule] : x.kind = "sbom_component"}}]
    /\ \A kind \in {"strings", "symbols", "crates"} : r.limits[kind] \in Nat

ASSUME ScansAssumption ==
  \A scan \in Scans : /\ scan.input.ruleset \in DOMAIN Rulesets
                      /\ {"sources", "sites"} \subseteq DOMAIN scan.input.rest

\* What an object's record has matches of has a place among the names.
ASSUME NamesAssumption ==
  LET names == {NameOrder[i] : i \in DOMAIN NameOrder} IN
  /\ NameOrder \in Seq(STRING) /\ Matches \in Nat \ {0}
  /\ Libraries \cup RustCrates \cup Inventory \subseteq names
  /\ GroupName \in [{"banner", "copy", "fork"} \X Libraries -> names]
  /\ IsFiniteSet(Libraries) /\ IsFiniteSet(RustCrates) /\ IsFiniteSet(Inventory)

\* Every path has a place among the paths, and every rule and subject that a
\* finding may have among the names; the cap on binaries is a number.
ASSUME OrdersAssumption ==
  LET names == {NameOrder[i] : i \in DOMAIN NameOrder} IN
  /\ PathOrder \in Seq(STRING) /\ Paths \subseteq {PathOrder[i] : i \in DOMAIN PathOrder}
  /\ {"none", "object", Generator} \subseteq names
  /\ \A name \in DOMAIN Rulesets :
       LET r == Rulesets[name] IN Rules(r) \cup DOMAIN r.distRule \cup DOMAIN r.moduleOwner \subseteq names
  /\ \A scan \in Scans :
       /\ scan.input.max \in Nat
       /\ \A site \in scan.input.rest.sites : site.kind # "call" => site.target \in names

VARIABLES input,       \* the ruleset's name, the other layers' evidence, the cap
                       \* on binaries, and whether the machine lets the scan down
          stage,       \* where scan_wheel is
          unparsed,    \* the source files with an error of the Python layer
          record       \* the wheel's record

scanVars == <<vars, input, stage, unparsed, record>>

rs == Rulesets[input.ruleset]

ScanInit ==
  /\ \E scan \in Scans : wheel = scan.wheel /\ input = scan.input
  /\ Init
  /\ stage = "load" /\ unparsed = {} /\ record = NoRecord

----------------------------------------------------------------------------
(* An object's record, cut to the ruleset's limits.                        *)

\* Where a name or a path stands among its kind.
Place(order, x) == CHOOSE i \in DOMAIN order : order[i] = x

Name(x) == Place(NameOrder, x)

\* By group, then by binding.
Symbol(key) == 2 * Name(key[1]) + IF key[2] = "defined" THEN 0 ELSE 1

\* The keys of which something is kept, of those with a place: each has as many
\* matches as Matches says, and matches sort by key.
KeysKept(place, pinned, limit) ==
  LET at == [k \in DOMAIN place |-> {place[k] * Matches + j : j \in 1..Matches}]
      items == UNION {at[k] : k \in DOMAIN place}
      key == [i \in items |-> CHOOSE k \in DOMAIN place : i \in at[k]]
  IN IF Cardinality(items) <= limit THEN DOMAIN place
     ELSE {key[i] : i \in Cap(items, key, {i \in items : key[i] \in pinned}, limit)}

\* A symbol's key is its group and its binding.
SymbolKeys(o) ==
  {<<lib, "defined">> : lib \in o.defined} \cup {<<lib, "imported">> : lib \in o.imported}

\* What is left of an object.  The crates the ruleset names are pinned.
Capped(limits, o) ==
  LET strings == KeysKept([group \in StringGroups(o) |-> Name(group)], {}, limits.strings)
      symbols == KeysKept([k \in SymbolKeys(o) |-> Symbol(k)], {}, limits.symbols)
      crates == KeysKept([c \in o.crates \cup Inventory |-> Name(c)], o.crates, limits.crates)
  IN [o EXCEPT !.banners = {lib \in @ : GroupName[<<"banner", lib>>] \in strings},
               !.forkBanners = {lib \in @ : GroupName[<<"banner", lib>>] \in strings},
               !.copies = {lib \in @ : GroupName[<<"copy", lib>>] \in strings},
               !.forks = {lib \in @ : GroupName[<<"fork", lib>>] \in strings},
               !.defined = {lib \in @ : <<lib, "defined">> \in symbols},
               !.imported = {lib \in @ : <<lib, "imported">> \in symbols},
               !.crates = @ \cap crates]

\* The evidence as the readers leave it.
Cut(ev) == [ev EXCEPT !.binaries = {Capped(rs.limits, o) : o \in ev.binaries}]

----------------------------------------------------------------------------
(* The record.                                                             *)

\* The objects a finding names, by their place in path order.
Names(f, ev) == {Place(PathOrder, o.path) : o \in {x \in ev.binaries : x.path \in f.paths}}

\* In the order _cap_by_findings visits them, rule by rule and then by subject.
Before(f, g) ==
  \/ Name(f.rule) < Name(g.rule)
  \/ f.rule = g.rule /\ Name(f.subject) < Name(g.subject)

InOrder(findings) ==
  [i \in 1..Cardinality(findings) |->
     CHOOSE f \in findings : Cardinality({g \in findings : Before(g, f)}) = i - 1]

\* The paths binaries[] lists, what findings name first.
Listed(findings, ev, max) ==
  LET naming == InOrder({f \in findings : Names(f, ev) # {}})
      groups == [i \in DOMAIN naming |-> Names(naming[i], ev)]
  IN {PathOrder[i] : i \in CapByFindings({Place(PathOrder, o.path) : o \in ev.binaries},
                                         groups, max)}

\* apply_rules, classify and build_record on the evidence and its linkage, under
\* a ruleset and with the cap on binaries.  fired, which the record does not have,
\* is where a rule matched at all.
Records(r, max, ev, rest, linkage) ==
  LET hits == Fired(r, ev, rest, linkage, max)
      findings == Findings(r, ApplySuppression(r, hits))
      disagreeing == Disagreeing(findings)
      made(first) ==
        [findings |-> findings, classes |-> Classes(findings, first), conditions |-> linkage,
         listed |-> Listed(findings, ev, max), fired |-> {h.path : h \in hits}]
  IN {made(first) : first \in {c \in [disagreeing -> UNION {f.verdicts : f \in disagreeing}] :
                                   \A f \in disagreeing : c[f] \in f.verdicts}}

\* The evidence of a wheel that left none, and why: no metadata, no Python to
\* miss, one error of the archive's.
Nothing == Evidence({}, {}, {}, {}, {})
NoRest(kind) ==
  [name |-> {}, requires |-> {}, generator |-> FALSE, mismatched |-> {}, sources |-> "none",
   sites |-> {}, errors |-> {[kind |-> kind, path |-> WheelPath]}, distInfo |-> WheelPath,
   metadata |-> WheelPath, wheelFile |-> WheelPath, document |-> WheelPath]

UnreadableRecords(r, max, kind) ==
  Records(r, max, Nothing, NoRest(kind), ResolveLinkage(Nothing))

----------------------------------------------------------------------------
(* Python.                                                                 *)

PathsOf(suffix) ==
  {wheel.members[i].path : i \in {j \in DOMAIN wheel.members : wheel.members[j].suffix = suffix}}

\* What is counted as Python, and what is read as Python: never a symlink.
PyFiles == PathsOf("py")
Sources == PyFiles \ Symlinks

\* The members the archive would not or could not read.
Unreadable == {skip[1] : skip \in {s \in skipped : s[2] = "refused"}}

\* Mutant: a wheel has Python to read as long as not all its files failed.
SourceAvailableIfAnyFile == PyFiles = {} \/ PyFiles # unparsed

\* More files are counted than failed, or there is no Python to read.
SourceAvailable ==
  \/ Cardinality(PyFiles) > Cardinality(unparsed)
  \/ PyFiles \cup PathsOf("pyc") = {}

\* The other layers' evidence: a file that failed leaves an error, of the member
\* or of its own, and no sites.
Rest ==
  [input.rest EXCEPT
     !.sources = IF SourceAvailable THEN "read" ELSE "unread",
     !.sites = {site \in @ : site.path \notin unparsed},
     !.errors = @ \cup {[kind |-> IF path \in Unreadable THEN "unread" ELSE "python", path |-> path] :
                          path \in unparsed}]

----------------------------------------------------------------------------
(* One wheel.                                                              *)

\* load_ruleset: a ruleset that cannot be fully understood is not used at all.
Load ==
  /\ stage = "load"
  /\ stage' = IF Accepted(rs) THEN "open" ELSE "refused"
  /\ UNCHANGED <<vars, input, unparsed, record>>

\* The file is hashed and the archive opened.
Open ==
  /\ stage = "open" /\ stage' = "layers"
  /\ UNCHANGED <<vars, input, unparsed, record>>

\* It cannot be hashed, or WheelArchive.open raises a WheelReadError.
CannotOpen ==
  /\ stage = "open" /\ input.faulty
  /\ record' \in UnreadableRecords(rs, input.max, "bad_zip") /\ stage' = "done"
  /\ UNCHANGED <<vars, input, unparsed>>

\* _collect raises something else, at any point: what it has is given up.
Interrupt ==
  /\ stage \in {"layers", "gathered"} /\ input.faulty
  /\ record' \in UnreadableRecords(rs, input.max, "unexpected_error") /\ stage' = "done"
  /\ UNCHANGED <<vars, input, unparsed>>

ScanBinaries ==
  /\ stage = "layers"
  /\ \/ PassOver \/ ReadElsewhereFails \/ Refuse \/ OpenRaises \/ ReadRaises
     \/ ReadWhole \/ ReadPartly \/ ReadArchivePartly
  /\ UNCHANGED <<input, stage, unparsed, record>>

\* scan_python_files: a file may be over its limit, fail to be read, or fail to
\* parse; what was not read was not parsed.
ReadSources ==
  /\ stage = "layers" /\ next > Len(wheel.members)
  /\ unparsed' \in {failed \in SUBSET Sources : Sources \cap Unreadable \subseteq failed}
  /\ stage' = "gathered"
  /\ UNCHANGED <<vars, input, record>>

\* resolve_linkage, apply_rules, classify, build_record.
Report ==
  /\ stage = "gathered" /\ Resolve
  /\ record' \in Records(rs, input.max, Cut(Gathered), Rest, answer') /\ stage' = "done"
  /\ UNCHANGED <<input, unparsed>>

ScanNext == Load \/ Open \/ CannotOpen \/ Interrupt \/ ScanBinaries \/ ReadSources \/ Report

ScanSpec == ScanInit /\ [][ScanNext]_scanVars

----------------------------------------------------------------------------
(* What a ruleset rates.  The loader asks for none of it: a user's ruleset  *)
(* may leave out a rule, and what it does not rate, no class tells of.      *)

\* A match of these kinds leaves the verdict to its rule.
Unrated ==
  {"scan_error", "wheel_generator", "record_mismatch", "no_source", "dynamic_symbol",
   "binary_string", "opaque_binary", "partial_binary", "binaries_truncated", "py_site"}

\* What leaves a wheel OPAQUE, whatever else is in it.
OpaqueRules(r) ==
  {rule \in Rules(r) : /\ r.verdict[rule] = "OPAQUE" /\ r.suppressedBy[rule] = {}
                       /\ \A m \in r.matches[rule] : m.kind \in Unrated}

\* Every way a wheel, a member or an object stays unread leaves it OPAQUE.
RatesUnread(r) ==
  LET opaque(kind) == {m \in UNION {r.matches[rule] : rule \in OpaqueRules(r)} : m.kind = kind} IN
  /\ \A kind \in {"bad_zip", "unexpected_error", "unread", "refused"} :
       \E m \in opaque("scan_error") : kind \in m.errorKinds
  /\ opaque("no_source") # {} /\ opaque("opaque_binary") # {}
  /\ \A reason \in Costing : \E m \in opaque("partial_binary") : reason \in m.claims
  /\ \E m \in opaque("partial_binary") : m.unnamed

\* The rules and the crates that have a verdict.
RatedRules(r) == {rule \in Rules(r) : r.verdict[rule] # "none"}
RatedCrates(r) == {crate \in Crates(r) : r.crateVerdict[crate] # "none"}

\* The findings of a rule without a verdict have those of one match, and what
\* has a verdict gives way to nothing that has none.
VerdictsSurvive(r) ==
  /\ \A rule \in Rules(r) \ RatedRules(r) : \A m, n \in r.matches[rule] : m = n
  /\ \A rule \in Rules(r) : r.suppressedBy[rule] \subseteq RatedRules(r)
  /\ \A crate \in Crates(r) : CrateSuppressors(r, crate) \subseteq RatedCrates(r)

\* A crate with a verdict is looked for, and so, before any distribution, is the
\* library or the crate that an SBOM names.
CratesAreRated(r) ==
  /\ \A lib \in Libraries : /\ r.libraryVerdict[lib] # "none"
                             /\ ({lib} \cup CratesOf[lib]) \cap Crates(r) \subseteq RatedCrates(r)
  /\ \A crate \in RatedCrates(r) : \E rule \in Rules(r) :
       r.owner[crate] \in {rule, "none"} /\ \E m \in r.matches[rule] : m.kind = "rust_crate"
  /\ \A rule \in Rules(r) : \A m \in {x \in r.matches[rule] : x.kind = "sbom_component"} :
       \A i, j \in DOMAIN m.tables : m.tables[i] \in Moving /\ m.tables[j] \notin Moving => i < j

\* A library in the wheel is, whether it is found by its name or by an entry.
BundledIsRated(r, lib) ==
  LET by(kind) == {m \in UNION {r.matches[rule] : rule \in Rules(r)} : m.kind = kind /\ lib \in m.libraries} IN
  /\ \E rule \in Rules(r) :
       r.libraryOwner[lib] \in {rule, "none"} /\ r.matches[rule] \cap by("bundled_library") # {}
  /\ \E m \in by("dt_needed") : m.mangled = {TRUE} /\ m.resolved = BOOLEAN
  /\ \E m \in by("dt_needed") : m.mangled = BOOLEAN /\ m.resolved = {TRUE}

\* Whatever its objects and the SBOM say of it, a library's linkage is rated.
ValueIsRated(r, lib, value) ==
  \A objects \in SUBSET Postures, declared \in BOOLEAN :
    \E rule \in Rules(r) : \E m \in r.matches[rule] :
      /\ m.kind = "linkage" /\ (rule \in RatedRules(r) \/ m.inherit)
      /\ lib \in m.names /\ value \in m.values /\ declared \in m.declared
      /\ IF m.objects # {} THEN m.objects \cap objects # {} ELSE m.unless \cap objects = {}

\* What makes a library's linkage unknown is rated for itself.
TracesAreRated(r, lib) ==
  LET rated(kind) ==
        {m \in UNION {r.matches[rule] : rule \in RatedRules(r)} : m.kind = kind}
      text(group) == \E m \in rated("binary_string") : GroupName[<<group, lib>>] \in m.groups IN
  /\ lib \in Imported => \E m \in rated("dynamic_symbol") : lib \in m.groups /\ "imported" \in m.bindings
  /\ lib \in Forked => text("fork")
  /\ lib \in CopyMarked => text("banner")

\* No verdict is lost, and whatever linkage says of a library has one; of one that
\* is always reported, unknown has too.
Discerning(r) ==
  /\ RatesUnread(r) /\ VerdictsSurvive(r) /\ CratesAreRated(r)
  /\ \A lib \in Libraries :
       /\ BundledIsRated(r, lib)
       /\ \A value \in {"system", "static", "mixed"} : ValueIsRated(r, lib, value)
       /\ IF lib \in AlwaysReport THEN ValueIsRated(r, lib, "unknown") ELSE TracesAreRated(r, lib)

----------------------------------------------------------------------------
(* Properties.                                                             *)

Reported == record # NoRecord
Collected == Reported /\ Resolved

\* There is Python in the wheel, and none of it could be read.
NoPythonRead == Sources \subseteq unparsed /\ Sources \cup PathsOf("pyc") # {}

\* Nothing unread passes for read: a wheel that could not be opened or scanned,
\* a member refused or lost, an object read in part at a cost or not at all, and
\* Python none of which could be read, each leave the wheel OPAQUE among its
\* classes; but a symlink named as Python counts for Python that was read
\* (scan._unreadable, engine._match_scan_error, _match_partial_binary,
\* inventory.build_inventory).
UnreadIsOpaque ==
  Reported =>
    \/ "OPAQUE" \in record.classes
    \/ /\ Resolved /\ errors = {} /\ Unreadable = {}
       /\ NoPythonRead => PyFiles # Sources
       /\ \A o \in binaries : ~IsOpaque(o) /\ (o.partial => o.reasons # {} /\ ~CostsAnAnswer(o.reasons))

\* Findings give way to more specific ones, never to nothing: wherever a rule
\* matched, a finding is left (engine._apply_suppression,
\* ruleset_coherence.check_suppression_acyclic).
NothingIsSilenced ==
  Reported => \A path \in record.fired : \E f \in record.findings : path \in f.paths

\* An SBOM that moves a library's linkage says so in a finding on it
\* (linkage._declared_by_sbom, engine._match_sbom_component,
\* ruleset_coherence.validate_sbom_suppression_leaves_linkage_explained).
DeclaredIsReported ==
  Collected =>
    \A lib \in Libraries : DeclaredBySbom(lib, wheel.components, {}) =>
      \E f \in record.findings : /\ f.subject \in {lib} \cup CratesOf[lib]
                                 /\ Rest.document \in f.paths

\* A linkage the record states is one its class knows of: NO_CRYPTO_DETECTED
\* leaves no library as the system's, bundled, static or mixed, and leaves one
\* unknown only where it is not always reported and its vendored object may be
\* behind a symlink, or the other member of a name (engine._match_linkage,
\* [[rule]] in ruleset.toml).
LinkageIsRated ==
  Collected /\ record.classes = {"NO_CRYPTO_DETECTED"} =>
    \A lib \in DOMAIN record.conditions :
      \/ record.conditions[lib] = "none"
      \/ /\ record.conditions[lib] = "unknown" /\ lib \notin AlwaysReport
         /\ Symlinks # {} \/ \E skip \in skipped : skip[2] = "duplicate"

\* NO_CRYPTO_DETECTED is earned: no member that was within limits has anything
\* of a library, or a crate that has a verdict, and the SBOM names none of these.
\* An import may be lost by ordinal, and a library that is not always reported
\* may be a vendored entry nothing in the wheel answers (verdict.classify,
\* engine.apply_rules).
NoCryptoIsEarned ==
  Collected /\ record.classes = {"NO_CRYPTO_DETECTED"} =>
    /\ \A c \in wheel.components : c.name \notin Libraries \cup RatedCrates(rs)
    /\ \A i \in DOMAIN wheel.members :
         LET m == wheel.members[i] IN
         IsBinary(m) => /\ ~m.large
                        /\ \A o \in ObjectsOf(m) : o.crates \cap RatedCrates(rs) = {} /\ \A lib \in Libraries :
                             \/ ~Speaks(o, lib)
                             \/ lib \notin AlwaysReport /\ "unknown" = BinaryPosture(o, lib, Gathered)

\* Where the findings that name objects are no more than binaries[] may list,
\* each has one of its objects listed (record._cap_by_findings).
EveryFindingKeepsAnObject ==
  Collected =>
    LET naming == {f \in record.findings : \E o \in binaries : o.path \in f.paths} IN
    Cardinality(naming) <= input.max => \A f \in naming : f.paths \cap record.listed # {}

\* Caps silence nothing: under a ruleset that loads, what the caps left of the
\* objects has the same linkage and the same findings as all of it
\* (caps.cap, ruleset_loader._check_limits_leave_room_for_every_key).
CapsSilenceNothing ==
  Collected =>
    LET all == Fired(rs, Gathered, Rest, answer, input.max) IN
    /\ ResolveLinkage(Cut(Gathered)) = answer
    /\ {<<f.rule, f.subject, f.paths>> : f \in Findings(rs, ApplySuppression(rs, all))}
       = {<<f.rule, f.subject, f.paths>> : f \in record.findings}

\* A wheel whose class is NO_CRYPTO_DETECTED has an empty inventory of
\* libraries, as docs/SCHEMA.md and record._crypto_block have it.
EmptyInventory ==
  Reported /\ record.classes = {"NO_CRYPTO_DETECTED"} =>
    \A lib \in DOMAIN record.conditions : record.conditions[lib] = "none"

\* "a wheel whose every source file failed" comes out OPAQUE (docs/usage.md:132-133,
\* layers/inventory.py:48-50).
FailedSourceIsOpaque ==
  Collected /\ Sources # {} /\ Sources \subseteq unparsed => "OPAQUE" \in record.classes
=============================================================================
