--------------------------- MODULE WheelScanProofs ---------------------------
(***************************************************************************)
(* Theorems about WheelScan.  What a scan does to the evidence is what     *)
(* BinaryScan does, so all that is proved of BinaryScan holds of it; the   *)
(* rest is about a ruleset that loaded: no rule that matched is silenced,  *)
(* and what the caps cut off an object no rule would have read.            *)
(***************************************************************************)
EXTENDS WheelScan, BinaryScanProofs, SuppressionProofs, CapsProofs

(***************************************************************************)
(* What the rules give way to.                                             *)
(***************************************************************************)

\* Where the matches of a rule look.
LEMMA TablesOfARule ==
  ASSUME NEW name \in DOMAIN Rulesets, NEW rule \in Rules(Rulesets[name])
  PROVE  Rulesets[name].tables[rule] =
           UNION {{m.tables[i] : i \in DOMAIN m.tables} :
                    m \in {x \in Rulesets[name].matches[rule] : x.kind = "sbom_component"}}
<1> DEFINE r == Rulesets[name]
           looked(rl) == UNION {{m.tables[i] : i \in DOMAIN m.tables} :
                                  m \in {x \in r.matches[rl] : x.kind = "sbom_component"}}
<1>1. r.tables = [rl \in Rules(r) |-> looked(rl)]
  BY RulesetsAssumption, Zenon
<1> HIDE DEF looked
<1>2. r.tables[rule] = looked(rule)
  BY <1>1
<1> QED
  BY <1>2, Zenon DEF looked

\* A component's hit has the verdict of the entry it resolves to, and gives way as
\* a crate's entry has it.
LEMMA ComponentHitsAre ==
  ASSUME NEW r, NEW rule, NEW m, NEW ev, NEW rest, NEW h \in SbomHits(r, rule, m, ev, rest)
  PROVE  \E c \in ev.components : \E table \in SbomTables(r, m.tables, c) :
           /\ h.rule = rule /\ h.kind = "component" /\ h.subject = c.name
           /\ h.verdict = EntryVerdict(r, table, c.name)
           /\ table # "rust_crate" => h.by = {}
           /\ table = "rust_crate" =>
                h.entry = c.name /\ h.by = {<<rule, other>> : other \in CrateSuppressors(r, c.name)}
<1>1. PICK c \in ev.components : \E table \in SbomTables(r, m.tables, c) :
        h = ComponentHit(r, rule, table, c, rest.document)
  BY DEF SbomHits
<1>2. PICK table \in SbomTables(r, m.tables, c) :
        h = ComponentHit(r, rule, table, c, rest.document)
  BY <1>1
<1> QED
  BY <1>2 DEF ComponentHit, Hit

\* It resolves to an entry of that name, of a table the match looks in.
LEMMA TablesHave ==
  ASSUME NEW r, NEW tables \in Seq(STRING), NEW c, NEW table \in SbomTables(r, tables, c)
  PROVE  HasEntry(r, table, c.name) /\ \E j \in DOMAIN tables : tables[j] = table
<1> DEFINE order == TableOrder(tables, c)
<1>1. PICK i \in DOMAIN order : order[i] = table /\ HasEntry(r, order[i], c.name)
  <2> HIDE DEF order
  <2> QED
    BY DEF SbomTables, order
<1>2. \E j \in DOMAIN tables : tables[j] = order[i]
  <2>1. CASE order = tables
    BY <1>1, <2>1
  <2>2. CASE /\ order = <<"rust_crate">> \o tables
             /\ \E j \in DOMAIN tables : tables[j] = "rust_crate"
    <3>1. i = 1 \/ (i - 1 \in DOMAIN tables /\ order[i] = tables[i - 1])
      BY <1>1, <2>2
    <3>2. i = 1 => order[i] = "rust_crate"
      BY <2>2
    <3> HIDE DEF order
    <3> QED
      BY <2>2, <3>1, <3>2
  <2> QED
    BY <2>1, <2>2 DEF TableOrder
<1> QED
  BY <1>1, <1>2

\* A component of an SBOM gives way as crate_suppressors has it, under a rule
\* that looks in the table of the crates.
LEMMA ComponentHitsFit ==
  ASSUME NEW name \in DOMAIN Rulesets, NEW rule \in Rules(Rulesets[name]),
         NEW m \in Rulesets[name].matches[rule], m.kind = "sbom_component",
         NEW ev, NEW rest, NEW h \in SbomHits(Rulesets[name], rule, m, ev, rest)
  PROVE  Fits(Rulesets[name], h)
<1> DEFINE r == Rulesets[name]
<1>1. PICK c \in ev.components : \E table \in SbomTables(r, m.tables, c) :
        /\ h.rule = rule /\ h.kind = "component" /\ h.subject = c.name
        /\ table # "rust_crate" => h.by = {}
        /\ table = "rust_crate" =>
             h.entry = c.name /\ h.by = {<<rule, other>> : other \in CrateSuppressors(r, c.name)}
  BY ComponentHitsAre
<1>2. PICK table \in SbomTables(r, m.tables, c) :
        /\ table # "rust_crate" => h.by = {}
        /\ table = "rust_crate" =>
             h.entry = c.name /\ h.by = {<<rule, other>> : other \in CrateSuppressors(r, c.name)}
  BY <1>1
<1>3. CASE table # "rust_crate"
  BY <1>1, <1>2, <1>3 DEF Fits
<1>4. CASE table = "rust_crate"
  <2>1. m.tables \in Seq(STRING)
    BY RulesetsAssumption
  <2>2. HasEntry(r, table, c.name) /\ \E j \in DOMAIN m.tables : m.tables[j] = table
    BY <2>1, TablesHave
  <2>3. c.name \in Crates(r)
    BY <1>4, <2>2, RulesetsAssumption DEF HasEntry
  <2>4. "rust_crate" \in r.tables[rule]
    BY <1>4, <2>2, TablesOfARule
  <2> QED
    BY <1>1, <1>2, <1>4, <2>3, <2>4 DEF Fits, Moving
<1> QED
  BY <1>3, <1>4

\* A crate's hit has its entry's verdict, and gives way as the entry has it.
LEMMA CrateHitsAre ==
  ASSUME NEW r, NEW rule, NEW ev, NEW h \in CrateHits(r, rule, ev)
  PROVE  \E o \in ev.binaries : \E c \in o.crates :
           /\ Owns(r.owner[c], rule)
           /\ h.rule = rule /\ h.kind = "crate" /\ h.subject = c /\ h.path = o.path
           /\ h.verdict = r.crateVerdict[c] /\ h.by = EntrySuppressors(r, c)
<1>1. PICK o \in ev.binaries : \E c \in o.crates :
        /\ Owns(r.owner[c], rule)
        /\ h = [Hit(rule, "crate", c, o.path, r.crateVerdict[c]) EXCEPT !.by = EntrySuppressors(r, c)]
  BY DEF CrateHits
<1> QED
  BY <1>1 DEF Hit

LEMMA CrateHitsFit ==
  ASSUME NEW name \in DOMAIN Rulesets, NEW rule \in Rules(Rulesets[name]),
         NEW ev, \A o \in ev.binaries : o.crates \subseteq RustCrates,
         NEW h \in CrateHits(Rulesets[name], rule, ev)
  PROVE  Fits(Rulesets[name], h)
<1> DEFINE r == Rulesets[name]
<1>1. PICK o \in ev.binaries : \E c \in o.crates :
        /\ Owns(r.owner[c], rule)
        /\ h.rule = rule /\ h.kind = "crate" /\ h.subject = c
        /\ h.by = EntrySuppressors(r, c)
  BY CrateHitsAre
<1>2. \A c \in o.crates : c \in Crates(r)
  BY RulesetsAssumption
<1> QED
  BY <1>1, <1>2 DEF Fits, Owns

\* A match for entries that are not merely links to the system's.
OfCopies(m) == m.mangled = {TRUE} \/ m.resolved = {TRUE}

\* A dt_needed hit is of an entry of an object's that the match lets through; the
\* library's verdict goes with it where the match asks for a copy.
LEMMA NeededHitsAre ==
  ASSUME NEW r, NEW rule, NEW m, NEW ev, NEW h \in NeededHits(r, rule, m, ev)
  PROVE  \E o \in ev.binaries : \E e \in o.needed :
           /\ EntryMatches(m, e, o, ev)
           /\ h.rule = rule /\ h.kind = "library" /\ h.subject = e.lib /\ h.path = o.path
           /\ h.by = {}
           /\ h.verdict \in {"none", r.libraryVerdict[e.lib]}
           /\ OfCopies(m) => h.verdict = r.libraryVerdict[e.lib]
<1> DEFINE verdict(lib) == IF m.mangled = {TRUE} \/ m.resolved = {TRUE}
                           THEN r.libraryVerdict[lib] ELSE "none"
           of(o) == {Hit(rule, "library", e.lib, o.path, verdict(e.lib)) :
                       e \in {x \in o.needed : EntryMatches(m, x, o, ev)}}
<1>1. h \in UNION {of(o) : o \in ev.binaries}
  BY Zenon DEF NeededHits
<1>2. PICK o \in ev.binaries : h \in of(o)
  <2> HIDE DEF of
  <2> QED
    BY <1>1
<1>3. PICK e \in {x \in o.needed : EntryMatches(m, x, o, ev)} :
        h = Hit(rule, "library", e.lib, o.path, verdict(e.lib))
  <2> HIDE DEF verdict
  <2> QED
    BY <1>2
<1>4. OfCopies(m) => verdict(e.lib) = r.libraryVerdict[e.lib]
  BY Zenon DEF OfCopies
<1>5. verdict(e.lib) \in {"none", r.libraryVerdict[e.lib]}
  OBVIOUS
<1> HIDE DEF verdict
<1> QED
  BY <1>3, <1>4, <1>5 DEF Hit

\* A hit of any other kind is its rule's, gives way to nothing itself, and leaves
\* the verdict to its rule where its kind has no entries.
LEMMA OtherHits ==
  ASSUME NEW r, NEW rule, NEW m, NEW ev, NEW rest, NEW linkage, NEW max,
         NEW h \in MatchHits(r, rule, m, ev, rest, linkage, max),
         m.kind \in MatcherKinds \ {"sbom_component", "rust_crate"}
  PROVE  h.rule = rule /\ h.by = {} /\ (m.kind \in Unrated => h.verdict = "none")
<1>1. CASE m.kind = "scan_error" BY <1>1 DEF MatchHits, ScanErrorHits, Hit
<1>2. CASE m.kind = "dist_name" BY <1>2 DEF MatchHits, DistNameHits, Hit, Unrated
<1>3. CASE m.kind = "requires_dist" BY <1>3 DEF MatchHits, RequiresDistHits, Hit, Unrated
<1>4. CASE m.kind = "wheel_generator" BY <1>4 DEF MatchHits, GeneratorHits, When, Hit
<1>5. CASE m.kind = "record_mismatch" BY <1>5 DEF MatchHits, MismatchHits, Hit
<1>6. CASE m.kind = "no_source" BY <1>6 DEF MatchHits, NoSourceHits, When, Hit
<1>7. CASE m.kind = "bundled_library" BY <1>7 DEF MatchHits, BundledHits, Hit, Unrated
<1>8. CASE m.kind = "dt_needed"
  <2>1. h \in NeededHits(r, rule, m, ev)
    BY <1>8 DEF MatchHits
  <2>2. h.rule = rule /\ h.by = {}
    BY <2>1, NeededHitsAre
  <2> QED
    BY <1>8, <2>2 DEF Unrated
<1>9. CASE m.kind = "dynamic_symbol" BY <1>9 DEF MatchHits, SymbolHits, Hit
<1>10. CASE m.kind = "binary_string" BY <1>10 DEF MatchHits, StringHits, Hit
<1>11. CASE m.kind = "opaque_binary" BY <1>11 DEF MatchHits, OpaqueHits, Hit
<1>12. CASE m.kind = "partial_binary" BY <1>12 DEF MatchHits, PartialHits, Hit
<1>13. CASE m.kind = "binaries_truncated" BY <1>13 DEF MatchHits, TruncatedHits, When, Hit
<1>14. CASE m.kind = "linkage" BY <1>14 DEF MatchHits, LinkageHits, When, Hit, Unrated
<1>15. CASE m.kind = "py_import" BY <1>15 DEF MatchHits, ImportHits, Hit, Unrated
<1>16. CASE m.kind = "py_site" BY <1>16 DEF MatchHits, SiteHits, Hit
<1> QED
  BY <1>1, <1>2, <1>3, <1>4, <1>5, <1>6, <1>7, <1>8, <1>9, <1>10, <1>11, <1>12, <1>13,
     <1>14, <1>15, <1>16 DEF MatcherKinds

\* Every hit of a ruleset that loaded gives way only as the loader has checked.
LEMMA FiredFit ==
  ASSUME NEW name \in DOMAIN Rulesets, KindsAreKnown(Rulesets[name]),
         NEW ev, \A o \in ev.binaries : o.crates \subseteq RustCrates,
         NEW rest, NEW linkage, NEW max,
         NEW h \in Fired(Rulesets[name], ev, rest, linkage, max)
  PROVE  Fits(Rulesets[name], h)
<1> DEFINE r == Rulesets[name]
<1>1. PICK rule \in Rules(r) : \E m \in r.matches[rule] : h \in MatchHits(r, rule, m, ev, rest, linkage, max)
  BY DEF Fired
<1>2. PICK m \in r.matches[rule] : h \in MatchHits(r, rule, m, ev, rest, linkage, max)
  BY <1>1
<1>3. m.kind \in MatcherKinds
  BY DEF KindsAreKnown
<1>4. CASE m.kind = "sbom_component"
  <2>1. h \in SbomHits(r, rule, m, ev, rest)
    BY <1>2, <1>4 DEF MatchHits
  <2> QED
    BY <1>4, <2>1, ComponentHitsFit
<1>5. CASE m.kind = "rust_crate"
  <2>1. h \in CrateHits(r, rule, ev)
    BY <1>2, <1>5 DEF MatchHits
  <2> QED
    BY <2>1, CrateHitsFit
<1>6. CASE m.kind \notin {"sbom_component", "rust_crate"}
  BY <1>2, <1>3, <1>6, OtherHits DEF Fits
<1> QED
  BY <1>4, <1>5, <1>6

\* Hits of one finding.
Together(g, h) == g.rule = h.rule /\ g.subject = h.subject

VerdictsWith(r, hits, h) == {VerdictOf(r, g) : g \in {x \in hits : Together(x, h)}}

\* A hit that stays makes a finding of its rule and subject, on its object, with
\* the verdicts of all that stay of them.
LEMMA HitMakesAFinding ==
  ASSUME NEW r, NEW left, NEW k \in left
  PROVE  \E f \in Findings(r, left) :
           /\ f.rule = k.rule /\ f.subject = k.subject /\ k.path \in f.paths
           /\ f.verdicts = VerdictsWith(r, left, k)
<1> DEFINE paths(rule, subject) == {g.path : g \in {x \in left : x.rule = rule /\ x.subject = subject}}
           verdicts(rule, subject) ==
             {VerdictOf(r, g) : g \in {x \in left : x.rule = rule /\ x.subject = subject}}
           finding(key) == [rule |-> key[1], subject |-> key[2], paths |-> paths(key[1], key[2]),
                            verdicts |-> verdicts(key[1], key[2])]
<1>1. Findings(r, left) = {finding(key) : key \in {<<x.rule, x.subject>> : x \in left}}
  BY Zenon DEF Findings
<1>2. <<k.rule, k.subject>> \in {<<x.rule, x.subject>> : x \in left}
  OBVIOUS
<1>3. finding(<<k.rule, k.subject>>) \in Findings(r, left)
  <2> HIDE DEF finding
  <2> QED
    BY <1>1, <1>2
<1>4. k.path \in paths(k.rule, k.subject) /\ verdicts(k.rule, k.subject) = VerdictsWith(r, left, k)
  BY DEF VerdictsWith, Together
<1>5. LET f == finding(<<k.rule, k.subject>>) IN
      /\ f.rule = k.rule /\ f.subject = k.subject /\ f.paths = paths(k.rule, k.subject)
      /\ f.verdicts = verdicts(k.rule, k.subject)
  <2> HIDE DEF paths, verdicts
  <2> QED
    OBVIOUS
<1> HIDE DEF finding, paths, verdicts
<1> QED
  BY <1>3, <1>4, <1>5

\* What a record has: the findings of the hits that stay, and the classes of
\* their verdicts, one of each finding's.
LEMMA MadeOf ==
  ASSUME NEW r, NEW max, NEW ev, NEW rest, NEW linkage, NEW made \in Records(r, max, ev, rest, linkage)
  PROVE  LET hits == Fired(r, ev, rest, linkage, max)
             findings == Findings(r, ApplySuppression(r, hits)) IN
         /\ made.findings = findings /\ made.fired = {h.path : h \in hits}
         /\ made.conditions = linkage /\ made.listed = Listed(findings, ev, max)
         /\ \E first : /\ DOMAIN first = Disagreeing(findings)
                       /\ \A f \in DOMAIN first : first[f] \in f.verdicts
                       /\ made.classes = Classes(findings, first)
<1> DEFINE hits == Fired(r, ev, rest, linkage, max)
           findings == Findings(r, ApplySuppression(r, hits))
           disagreeing == Disagreeing(findings)
           choices == {c \in [disagreeing -> UNION {f.verdicts : f \in disagreeing}] :
                         \A f \in disagreeing : c[f] \in f.verdicts}
           of(first) ==
             [findings |-> findings, classes |-> Classes(findings, first), conditions |-> linkage,
              listed |-> Listed(findings, ev, max), fired |-> {h.path : h \in hits}]
<1>1. made \in {of(first) : first \in choices}
  BY Zenon DEF Records
<1>2. PICK first \in choices : made = of(first)
  <2> HIDE DEF choices, of
  <2> QED
    BY <1>1
<1>3. DOMAIN first = disagreeing /\ \A f \in disagreeing : first[f] \in f.verdicts
  <2> HIDE DEF disagreeing
  <2> QED
    BY <1>2
<1> HIDE DEF hits, findings, disagreeing, choices
<1>4. /\ made.findings = findings /\ made.fired = {h.path : h \in hits}
      /\ made.conditions = linkage /\ made.listed = Listed(findings, ev, max)
      /\ made.classes = Classes(findings, first)
  BY <1>2
<1>5. \E choice : /\ DOMAIN choice = disagreeing
                  /\ \A f \in DOMAIN choice : choice[f] \in f.verdicts
                  /\ made.classes = Classes(findings, choice)
  BY <1>3, <1>4
<1> QED
  BY <1>4, <1>5, Zenon DEF hits, findings, disagreeing

\* What became of a wheel's evidence under a ruleset that loaded: wherever a
\* rule matched, a finding is left.
LEMMA RecordsSilenceNothing ==
  ASSUME NEW name \in DOMAIN Rulesets, Accepted(Rulesets[name]), NEW max,
         NEW ev, \A o \in ev.binaries : o.crates \subseteq RustCrates,
         NEW rest, NEW linkage, NEW made \in Records(Rulesets[name], max, ev, rest, linkage),
         NEW path \in made.fired
  PROVE  \E f \in made.findings : path \in f.paths
<1> DEFINE r == Rulesets[name]
           hits == Fired(r, ev, rest, linkage, max)
<1>1. /\ made.findings = Findings(r, ApplySuppression(r, hits))
      /\ made.fired = {h.path : h \in hits}
  BY MadeOf
<1>2. \A h \in hits : Fits(r, h)
  BY FiredFit DEF Accepted
<1>3. PICK h \in hits : h.path = path
  <2> HIDE DEF hits
  <2> QED
    BY <1>1
<1> DEFINE left == ApplySuppression(r, hits)
<1>4. PICK k \in left : k.path = path
  <2> HIDE DEF hits
  <2> QED
    BY <1>2, <1>3, LastFindingStays DEF Accepted
<1> HIDE DEF hits, left
<1>5. \E f \in Findings(r, left) : k.path \in f.paths
  BY HitMakesAFinding
<1> QED
  BY <1>1, <1>4, <1>5 DEF left

(***************************************************************************)
(* What the classes tell.                                                  *)
(***************************************************************************)

\* A hit is of a match of its rule.
LEMMA HitsMatch ==
  ASSUME NEW r, KindsAreKnown(r), NEW ev, NEW rest, NEW linkage, NEW max,
         NEW h \in Fired(r, ev, rest, linkage, max)
  PROVE  /\ h.rule \in Rules(r)
         /\ \E m \in r.matches[h.rule] : h \in MatchHits(r, h.rule, m, ev, rest, linkage, max)
<1>1. PICK rule \in Rules(r) : \E m \in r.matches[rule] : h \in MatchHits(r, rule, m, ev, rest, linkage, max)
  BY DEF Fired
<1>2. PICK m \in r.matches[rule] : h \in MatchHits(r, rule, m, ev, rest, linkage, max)
  BY <1>1
<1>3. m.kind \in MatcherKinds
  BY DEF KindsAreKnown
<1>4. CASE m.kind = "sbom_component"
  <2>1. h \in SbomHits(r, rule, m, ev, rest)
    BY <1>2, <1>4 DEF MatchHits
  <2>2. h.rule = rule
    BY <2>1, ComponentHitsAre
  <2> QED
    BY <1>2, <2>2
<1>5. CASE m.kind = "rust_crate"
  <2>1. h \in CrateHits(r, rule, ev)
    BY <1>2, <1>5 DEF MatchHits
  <2>2. h.rule = rule
    BY <2>1, CrateHitsAre
  <2> QED
    BY <1>2, <2>2
<1>6. CASE m.kind \notin {"sbom_component", "rust_crate"}
  <2>1. h.rule = rule
    BY <1>2, <1>3, <1>6, OtherHits
  <2> QED
    BY <1>2, <2>1
<1> QED
  BY <1>4, <1>5, <1>6

\* A finding's class is the verdict of one of its hits.
LEMMA ClassIsNamed ==
  ASSUME NEW findings, NEW first, DOMAIN first = Disagreeing(findings),
         \A f \in DOMAIN first : first[f] \in f.verdicts,
         NEW f \in findings, f.verdicts # {}, "none" \notin f.verdicts
  PROVE  \E v \in f.verdicts : v \in Classes(findings, first)
<1> DEFINE of(g) == IF g \in DOMAIN first THEN first[g] ELSE CHOOSE v \in g.verdicts : TRUE
           fired == {of(g) : g \in findings}
<1>1. Classes(findings, first) =
        IF fired \subseteq {"none"} THEN {"NO_CRYPTO_DETECTED"} ELSE fired \ {"none"}
  BY Zenon DEF Classes
<1>2. of(f) \in f.verdicts
  <2>1. CASE f \in DOMAIN first
    BY <2>1
  <2>2. CASE f \notin DOMAIN first
    BY <2>2, Zenon
  <2> QED
    BY <2>1, <2>2
<1> HIDE DEF of
<1>3. of(f) \in fired
  OBVIOUS
<1> HIDE DEF fired
<1>4. of(f) # "none"
  BY <1>2
<1> QED
  BY <1>1, <1>2, <1>3, <1>4

\* Where every hit of a rule on a subject has one of these verdicts, and one of
\* those hits stays, so has the record one of them among its classes.
LEMMA HitIsTold ==
  ASSUME NEW r, NEW max, NEW ev, NEW rest, NEW linkage, NEW made \in Records(r, max, ev, rest, linkage),
         NEW k \in ApplySuppression(r, Fired(r, ev, rest, linkage, max)),
         NEW verdicts, "none" \notin verdicts,
         \A g \in Fired(r, ev, rest, linkage, max) : Together(g, k) => VerdictOf(r, g) \in verdicts
  PROVE  \E v \in verdicts : v \in made.classes
<1> DEFINE hits == Fired(r, ev, rest, linkage, max)
           left == ApplySuppression(r, hits)
           findings == Findings(r, left)
<1>1. left \subseteq hits /\ k \in left
  BY DEF ApplySuppression
<1>2. PICK first : /\ DOMAIN first = Disagreeing(findings)
                   /\ \A f \in DOMAIN first : first[f] \in f.verdicts
                   /\ made.classes = Classes(findings, first)
  BY MadeOf
<1> HIDE DEF hits, left
<1>3. PICK f \in findings :
        f.verdicts = VerdictsWith(r, left, k)
  BY <1>1, HitMakesAFinding
<1>4. f.verdicts \subseteq verdicts /\ f.verdicts # {}
  BY <1>1, <1>3 DEF hits, VerdictsWith, Together
<1> HIDE DEF findings
<1>5. \E v \in f.verdicts : v \in Classes(findings, first)
  BY <1>2, <1>4, ClassIsNamed
<1> QED
  BY <1>2, <1>4, <1>5

\* A match of a rule that leaves a wheel OPAQUE does, where it has a hit.
LEMMA OpaqueIsTold ==
  ASSUME NEW r, KindsAreKnown(r), NEW max, NEW ev, NEW rest, NEW linkage,
         NEW made \in Records(r, max, ev, rest, linkage),
         NEW rule \in OpaqueRules(r), NEW m \in r.matches[rule],
         NEW h \in MatchHits(r, rule, m, ev, rest, linkage, max)
  PROVE  "OPAQUE" \in made.classes
<1> DEFINE hits == Fired(r, ev, rest, linkage, max)
<1>1. /\ rule \in Rules(r) /\ r.verdict[rule] = "OPAQUE" /\ r.suppressedBy[rule] = {}
      /\ \A n \in r.matches[rule] : n.kind \in Unrated
  BY DEF OpaqueRules
<1>2. h \in hits
  BY <1>1 DEF Fired
<1>3. ASSUME NEW n \in r.matches[rule], NEW g \in MatchHits(r, rule, n, ev, rest, linkage, max)
      PROVE  g.rule = rule /\ g.by = {} /\ g.verdict = "none"
  <2>1. n.kind \in Unrated /\ n.kind \in MatcherKinds \ {"sbom_component", "rust_crate"}
    BY <1>1 DEF KindsAreKnown, Unrated
  <2> QED
    BY <2>1, OtherHits
<1>4. ASSUME NEW g \in hits, g.rule = rule
      PROVE  VerdictOf(r, g) = "OPAQUE"
  <2>1. \E n \in r.matches[rule] : g \in MatchHits(r, rule, n, ev, rest, linkage, max)
    BY <1>4, HitsMatch
  <2>2. g.verdict = "none"
    BY <1>3, <2>1
  <2> QED
    BY <1>1, <1>4, <2>2 DEF VerdictOf
<1>5. h.rule = rule /\ h.by = {}
  BY <1>3
<1> HIDE DEF hits
<1>6. h \in ApplySuppression(r, hits)
  BY <1>1, <1>2, <1>5 DEF ApplySuppression, Drops
<1> DEFINE opaque == {"OPAQUE"}
<1>7. \A g \in hits : Together(g, h) => VerdictOf(r, g) \in opaque
  BY <1>4, <1>5 DEF Together
<1>8. "none" \notin opaque
  OBVIOUS
<1> HIDE DEF opaque
<1>9. \E v \in opaque : v \in made.classes
  BY <1>6, <1>7, <1>8, HitIsTold DEF hits
<1> QED
  BY <1>9 DEF opaque

(***************************************************************************)
(* What is unread.                                                         *)
(***************************************************************************)

\* A match of a rule that leaves a wheel OPAQUE has no hit where it is not.
LEMMA NoOpaqueHit ==
  ASSUME NEW r, KindsAreKnown(r), NEW max, NEW ev, NEW rest, NEW linkage,
         NEW made \in Records(r, max, ev, rest, linkage), "OPAQUE" \notin made.classes,
         NEW m \in UNION {r.matches[rule] : rule \in OpaqueRules(r)}
  PROVE  \E rule : MatchHits(r, rule, m, ev, rest, linkage, max) = {}
<1>1. PICK rule \in OpaqueRules(r) : m \in r.matches[rule]
  OBVIOUS
<1>2. \A h : h \notin MatchHits(r, rule, m, ev, rest, linkage, max)
  BY <1>1, OpaqueIsTold
<1> QED
  BY <1>2

\* Where the ruleset rates all that is unread, a wheel that is not OPAQUE had
\* none of it.
LEMMA UnreadIsTold ==
  ASSUME NEW r, KindsAreKnown(r), RatesUnread(r), NEW max, NEW ev, NEW rest, NEW linkage,
         NEW made \in Records(r, max, ev, rest, linkage), "OPAQUE" \notin made.classes
  PROVE  /\ \A e \in Errors(ev, rest) : e.kind \notin {"bad_zip", "unexpected_error", "unread", "refused"}
         /\ rest.sources # "unread"
         /\ \A o \in ev.binaries : ~IsOpaque(o) /\ (o.partial => o.reasons # {} /\ o.reasons \cap Costing = {})
<1> DEFINE all == UNION {r.matches[rule] : rule \in OpaqueRules(r)}
           silent(m) == \E rule : MatchHits(r, rule, m, ev, rest, linkage, max) = {}
<1>0. /\ \A kind \in {"bad_zip", "unexpected_error", "unread", "refused"} :
           \E m \in all : m.kind = "scan_error" /\ kind \in m.errorKinds
      /\ \E m \in all : m.kind = "no_source"
      /\ \E m \in all : m.kind = "opaque_binary"
      /\ \A reason \in Costing : \E m \in all : m.kind = "partial_binary" /\ reason \in m.claims
      /\ \E m \in all : m.kind = "partial_binary" /\ m.unnamed
  BY DEF RatesUnread
<1>1. \A m \in all : silent(m)
  BY NoOpaqueHit
<1> HIDE DEF all
<1>2. ASSUME NEW e \in Errors(ev, rest), e.kind \in {"bad_zip", "unexpected_error", "unread", "refused"}
      PROVE  FALSE
  <2>1. PICK m \in all : m.kind = "scan_error" /\ e.kind \in m.errorKinds
    BY <1>0, <1>2
  <2>2. \A rule : Hit(rule, "none", "none", e.path, "none") \in ScanErrorHits(rule, m, ev, rest)
    BY <2>1 DEF ScanErrorHits
  <2> QED
    BY <1>1, <2>1, <2>2 DEF MatchHits
<1>3. ASSUME rest.sources = "unread"
      PROVE  FALSE
  <2>1. PICK m \in all : m.kind = "no_source"
    BY <1>0
  <2>2. \A rule : Hit(rule, "none", "none", WheelPath, "none") \in NoSourceHits(rule, rest)
    BY <1>3 DEF NoSourceHits, When
  <2> QED
    BY <1>1, <2>1, <2>2 DEF MatchHits
<1>4. ASSUME NEW o \in ev.binaries, IsOpaque(o)
      PROVE  FALSE
  <2>1. PICK m \in all : m.kind = "opaque_binary"
    BY <1>0
  <2>2. \A rule : Hit(rule, "none", "none", o.path, "none") \in OpaqueHits(rule, ev)
    BY <1>4 DEF OpaqueHits
  <2> QED
    BY <1>1, <2>1, <2>2 DEF MatchHits
<1>5. ASSUME NEW o \in ev.binaries, o.partial, o.reasons = {} \/ o.reasons \cap Costing # {}
      PROVE  FALSE
  <2>1. PICK m \in all : /\ m.kind = "partial_binary"
                         /\ o.reasons \cap m.claims # {} \/ (o.reasons = {} /\ m.unnamed)
    BY <1>0, <1>5
  <2>2. \A rule : Hit(rule, "format", "object", o.path, "none") \in PartialHits(rule, m, ev)
    BY <1>5, <2>1 DEF PartialHits
  <2> QED
    BY <1>1, <2>1, <2>2 DEF MatchHits
<1> QED
  BY <1>2, <1>3, <1>4, <1>5

(***************************************************************************)
(* What the caps leave of an object.                                       *)
(***************************************************************************)

\* A place, and the place among its matches, say which match it is.
LEMMA MatchesApart ==
  ASSUME NEW n \in Nat \ {0}, NEW a \in Nat, NEW b \in Nat, NEW i \in 1..n, NEW j \in 1..n,
         a * n + i = b * n + j
  PROVE  a = b
<1>1. ASSUME NEW c \in Nat, NEW d \in Nat, NEW k \in 1..n, NEW l \in 1..n,
             c < d, c * n + k = d * n + l
      PROVE  FALSE
  <2>1. PICK e \in Nat : d = c + e + 1
    <3>1. d - c - 1 \in Nat /\ d = c + (d - c - 1) + 1
      BY <1>1
    <3> QED
      BY <3>1
  <2>2. d * n = c * n + e * n + n
    BY <2>1
  <2>3. e * n \in Nat /\ c * n \in Nat
    OBVIOUS
  <2> QED
    BY <1>1, <2>2, <2>3
<1> QED
  BY <1>1

\* CapKeepsEveryKey with the items under two names, which is the form in which
\* the provers can apply it.
LEMMA EveryKeyOfThese ==
  ASSUME NEW all \in SUBSET Nat, IsFiniteSet(all), NEW pinned \in SUBSET all, NEW key,
         NEW limit \in Nat, NEW K, IsFiniteSet(K), \A n \in all : key[n] \in K,
         Cardinality(K) <= limit, NEW i \in all
  PROVE  \A items : items \in SUBSET all /\ all \in SUBSET items =>
           \E k \in Cap(items, key, pinned, limit) : key[k] = key[i]
<1>1. all \in SUBSET Nat /\ pinned \in SUBSET all /\ limit \in Nat /\ i \in all
  OBVIOUS
<1>2. \E k \in Cap(all, key, pinned, limit) : key[k] = key[i]
  BY CapKeepsEveryKey, <1>1, ZenonT(60)
<1>3. ASSUME NEW items, items \in SUBSET all, all \in SUBSET items
      PROVE  \E k \in Cap(items, key, pinned, limit) : key[k] = key[i]
  <2>1. items = all
    BY <1>3
  <2> QED
    BY <1>2, <2>1
<1> QED
  BY <1>3

LEMMA EveryKeyOf ==
  ASSUME NEW items \in SUBSET Nat, IsFiniteSet(items), NEW pinned \in SUBSET items, NEW key,
         NEW limit \in Nat, NEW all \in SUBSET items, items \in SUBSET all,
         NEW K, IsFiniteSet(K), \A i \in all : key[i] \in K, Cardinality(K) <= limit,
         NEW i \in all
  PROVE  \E k \in Cap(items, key, pinned, limit) : key[k] = key[i]
<1>1. all = items
  OBVIOUS
<1>2. all \in SUBSET Nat /\ IsFiniteSet(all) /\ pinned \in SUBSET all
  BY <1>1
<1> QED
  BY <1>2, EveryKeyOfThese

\* While the keys, or the pinned among them, are within the limit, each keeps a
\* match.
LEMMA KeysStay ==
  ASSUME NEW place, IsFiniteSet(DOMAIN place), \A k \in DOMAIN place : place[k] \in Nat,
         \A k, l \in DOMAIN place : place[k] = place[l] => k = l,
         NEW pinned \in SUBSET DOMAIN place, NEW limit \in Nat,
         NEW key0 \in DOMAIN place,
         \/ Cardinality(DOMAIN place) <= limit
         \/ key0 \in pinned /\ Cardinality(pinned) <= limit
  PROVE  key0 \in KeysKept(place, pinned, limit)
<1> DEFINE keys == DOMAIN place
           at == [k \in keys |-> {place[k] * Matches + j : j \in 1..Matches}]
           items == UNION {at[k] : k \in keys}
           key == [i \in items |-> CHOOSE k \in keys : i \in at[k]]
           held == {i \in items : key[i] \in pinned}
<1>0. Matches \in Nat \ {0}
  BY NamesAssumption
<1>1. ASSUME NEW k \in keys
      PROVE  at[k] \in SUBSET Nat /\ IsFiniteSet(at[k]) /\ at[k] # {}
  <2>1. place[k] \in Nat /\ place[k] * Matches \in Nat
    BY <1>0
  <2> DEFINE base == place[k] * Matches
  <2>2. at[k] = {base + j : j \in 1..Matches}
    OBVIOUS
  <2> HIDE DEF base
  <2>3. base \in Nat
    BY <2>1 DEF base
  <2>4. at[k] \in SUBSET ((base + 1)..(base + Matches))
    <3> HIDE DEF at
    <3> QED
      BY <1>0, <2>2, <2>3
  <2>5. IsFiniteSet((base + 1)..(base + Matches))
    BY <1>0, <2>3, FS_Interval
  <2>6. base + 1 \in at[k]
    <3> HIDE DEF at
    <3> QED
      BY <1>0, <2>2, <2>3
  <2>7. ((base + 1)..(base + Matches)) \in SUBSET Nat
    BY <1>0, <2>3
  <2> HIDE DEF at
  <2> QED
    BY <2>4, <2>5, <2>6, <2>7, FS_Subset
<1>2. ASSUME NEW k \in keys, NEW l \in keys, NEW i \in at[k], i \in at[l]
      PROVE  k = l
  <2>1. PICK m \in 1..Matches : i = place[k] * Matches + m
    OBVIOUS
  <2>2. PICK n \in 1..Matches : i = place[l] * Matches + n
    BY <1>2
  <2>3. place[k] = place[l]
    BY <1>0, <2>1, <2>2, MatchesApart
  <2> QED
    BY <2>3
<1>3. items \in SUBSET Nat
  <2> HIDE DEF at
  <2> QED
    BY <1>1
<1>4. IsFiniteSet(items)
  <2> HIDE DEF at
  <2> DEFINE all == {at[k] : k \in keys}
             f == [k \in keys |-> at[k]]
  <2>1. f \in Surjection(keys, all)
    BY DEF Surjection
  <2> HIDE DEF f
  <2>2. IsFiniteSet(all)
    BY <2>1, FS_Surjection
  <2>3. \A s \in all : IsFiniteSet(s)
    BY <1>1
  <2>4. items = UNION all
    OBVIOUS
  <2> HIDE DEF all, items
  <2> QED
    BY <2>2, <2>3, <2>4, FS_UNION
<1>5. ASSUME NEW k \in keys, NEW i \in at[k]
      PROVE  i \in items /\ key[i] = k
  <2>1. i \in items
    <3> HIDE DEF at
    <3> QED
      OBVIOUS
  <2>2. key[i] = CHOOSE l \in keys : i \in at[l]
    <3> HIDE DEF at, items
    <3> QED
      BY <2>1
  <2> HIDE DEF at, items, key
  <2>3. (CHOOSE l \in keys : i \in at[l]) = k
    BY <1>2
  <2> QED
    BY <2>1, <2>2, <2>3
<1>6. \A i \in items : key[i] \in keys
  <2> HIDE DEF at, key
  <2> QED
    BY <1>5
<1>7. KeysKept(place, pinned, limit) =
        IF Cardinality(items) <= limit THEN keys
        ELSE {key[i] : i \in Cap(items, key, held, limit)}
  BY Zenon DEF KeysKept
<1>8. PICK i \in items : key[i] = key0
  <2> HIDE DEF at, items, key
  <2> QED
    BY <1>1, <1>5
<1> HIDE DEF at, items, key
<1>9. held \in SUBSET items
  OBVIOUS
<1>10. \E k \in Cap(items, key, held, limit) : key[k] = key[i]
  <2>1. CASE Cardinality(keys) <= limit
    <3>1. IsFiniteSet(keys) /\ items \in SUBSET items
      OBVIOUS
    <3> HIDE DEF held, keys
    <3> QED
      BY <1>3, <1>4, <1>6, <1>9, <2>1, <3>1, EveryKeyOf
  <2>2. CASE key0 \in pinned /\ Cardinality(pinned) <= limit
    <3>1. i \in held /\ \A k \in held : key[k] \in pinned
      BY <1>8, <2>2
    <3>2. IsFiniteSet(pinned)
      BY FS_Subset
    <3> HIDE DEF held
    <3> QED
      BY <1>3, <1>4, <1>9, <2>2, <3>1, <3>2, CapKeepsPinnedKeys
  <2> QED
    BY <2>1, <2>2
<1> QED
  BY <1>7, <1>8, <1>10

\* A name has a place of its own.
LEMMA PlaceOfAName ==
  ASSUME NEW x \in {NameOrder[i] : i \in DOMAIN NameOrder}
  PROVE  Name(x) \in Nat /\ NameOrder[Name(x)] = x
<1>1. \E i \in DOMAIN NameOrder : NameOrder[i] = x
  OBVIOUS
<1>2. Name(x) \in DOMAIN NameOrder /\ NameOrder[Name(x)] = x
  BY <1>1 DEF Name, Place
<1>3. DOMAIN NameOrder \subseteq Nat
  BY NamesAssumption
<1> QED
  BY <1>2, <1>3

\* No string group is crowded out of an object's strings.
LEMMA StringsStay ==
  ASSUME NEW name \in DOMAIN Rulesets, LimitsLeaveRoom(Rulesets[name]), NEW o \in Objects,
         NEW group \in StringGroups(o)
  PROVE  group \in KeysKept([g \in StringGroups(o) |-> Name(g)], {}, Rulesets[name].limits.strings)
<1> DEFINE limit == Rulesets[name].limits.strings
           groups == {GroupName[g] : g \in DOMAIN GroupName}
           place == [g \in StringGroups(o) |-> Name(g)]
<1>1. limit \in Nat
  BY RulesetsAssumption
<1>2. /\ DOMAIN GroupName = {"banner", "copy", "fork"} \X Libraries
      /\ groups \subseteq {NameOrder[i] : i \in DOMAIN NameOrder}
  BY NamesAssumption
<1>3. IsFiniteSet(groups) /\ Cardinality(groups) \in Nat
  <2>1. IsFiniteSet({"banner", "copy", "fork"})
    <3>1. IsFiniteSet({"banner"} \cup {"copy"})
      BY FS_Singleton, FS_Union
    <3>2. IsFiniteSet(({"banner"} \cup {"copy"}) \cup {"fork"})
      BY <3>1, FS_Singleton, FS_Union
    <3>3. {"banner", "copy", "fork"} = ({"banner"} \cup {"copy"}) \cup {"fork"}
      OBVIOUS
    <3> QED
      BY <3>2, <3>3
  <2>2. IsFiniteSet(DOMAIN GroupName)
    BY <1>2, <2>1, NamesAssumption, FS_Product
  <2> DEFINE f == [g \in DOMAIN GroupName |-> GroupName[g]]
  <2>3. f \in Surjection(DOMAIN GroupName, groups)
    BY DEF Surjection
  <2> HIDE DEF f, groups
  <2> QED
    BY <2>2, <2>3, FS_Surjection, FS_CardinalityType
<1>4. Cardinality(groups) <= limit
  BY DEF LimitsLeaveRoom
<1>5. StringGroups(o) \subseteq groups
  <2>1. /\ o.banners \subseteq Libraries /\ o.forkBanners \subseteq Libraries
        /\ o.copies \subseteq Libraries /\ o.forks \subseteq Libraries
    BY DEF Objects
  <2> QED
    BY <1>2, <2>1 DEF StringGroups
<1>6. IsFiniteSet(StringGroups(o)) /\ Cardinality(StringGroups(o)) <= limit
  <2> HIDE DEF groups, limit
  <2>1. IsFiniteSet(StringGroups(o)) /\ Cardinality(StringGroups(o)) <= Cardinality(groups)
    BY <1>3, <1>5, FS_Subset
  <2>2. Cardinality(StringGroups(o)) \in Nat
    BY <2>1, FS_CardinalityType
  <2> QED
    BY <1>1, <1>3, <1>4, <2>1, <2>2
<1>7. /\ DOMAIN place = StringGroups(o)
      /\ \A k \in DOMAIN place : place[k] \in Nat
      /\ \A k, l \in DOMAIN place : place[k] = place[l] => k = l
  <2> HIDE DEF groups
  <2> QED
    BY <1>2, <1>5, PlaceOfAName
<1> HIDE DEF limit, place
<1> QED
  BY <1>1, <1>6, <1>7, KeysStay DEF limit, place

\* No symbol group and binding is crowded out of an object's symbols.
LEMMA SymbolsStay ==
  ASSUME NEW name \in DOMAIN Rulesets, LimitsLeaveRoom(Rulesets[name]), NEW o \in Objects,
         NEW symbol \in SymbolKeys(o)
  PROVE  symbol \in KeysKept([k \in SymbolKeys(o) |-> Symbol(k)], {}, Rulesets[name].limits.symbols)
<1> DEFINE limit == Rulesets[name].limits.symbols
           bindings == {"defined"} \cup {"imported"}
           keys == Libraries \X bindings
           place == [k \in SymbolKeys(o) |-> Symbol(k)]
<1>1. limit \in Nat /\ IsFiniteSet(Libraries) /\ Cardinality(Libraries) \in Nat
  BY RulesetsAssumption, NamesAssumption, FS_CardinalityType
<1>2. IsFiniteSet(bindings) /\ Cardinality(bindings) = 2
  <2>1. IsFiniteSet({"defined"}) /\ Cardinality({"defined"}) = 1
    BY FS_Singleton
  <2>2. IsFiniteSet({"imported"}) /\ Cardinality({"imported"}) = 1
    BY FS_Singleton
  <2>3. {"defined"} \cap {"imported"} = {}
    OBVIOUS
  <2>4. Cardinality({"defined"} \cap {"imported"}) = 0
    BY <2>3, FS_EmptySet
  <2>5. /\ IsFiniteSet(bindings)
        /\ Cardinality(bindings) = Cardinality({"defined"}) + Cardinality({"imported"})
                                   - Cardinality({"defined"} \cap {"imported"})
    BY <2>1, <2>2, FS_Union
  <2> HIDE DEF bindings
  <2> QED
    BY <2>1, <2>2, <2>4, <2>5
<1>3. IsFiniteSet(keys) /\ Cardinality(keys) \in Nat /\ Cardinality(keys) <= limit
  <2> HIDE DEF bindings
  <2>1. IsFiniteSet(keys) /\ Cardinality(keys) = Cardinality(Libraries) * Cardinality(bindings)
    BY <1>1, <1>2, FS_Product
  <2>2. Cardinality(keys) = 2 * Cardinality(Libraries)
    BY <1>1, <1>2, <2>1
  <2> HIDE DEF keys
  <2> QED
    BY <1>1, <2>1, <2>2 DEF LimitsLeaveRoom
<1>4. SymbolKeys(o) \subseteq keys
  <2>1. o.defined \subseteq Libraries /\ o.imported \subseteq Libraries
    BY DEF Objects
  <2> QED
    BY <2>1 DEF SymbolKeys
<1>5. IsFiniteSet(SymbolKeys(o)) /\ Cardinality(SymbolKeys(o)) <= limit
  <2> HIDE DEF keys, limit
  <2>1. IsFiniteSet(SymbolKeys(o)) /\ Cardinality(SymbolKeys(o)) <= Cardinality(keys)
    BY <1>3, <1>4, FS_Subset
  <2>2. Cardinality(SymbolKeys(o)) \in Nat
    BY <2>1, FS_CardinalityType
  <2> QED
    BY <1>1, <1>3, <2>1, <2>2
<1>6. ASSUME NEW k \in SymbolKeys(o)
      PROVE  /\ k[1] \in Libraries /\ k[2] \in bindings /\ k = <<k[1], k[2]>>
             /\ Name(k[1]) \in Nat /\ NameOrder[Name(k[1])] = k[1]
             /\ Symbol(k) = 2 * Name(k[1]) + IF k[2] = "defined" THEN 0 ELSE 1
  <2>1. k[1] \in Libraries /\ k[2] \in bindings /\ k = <<k[1], k[2]>>
    BY <1>4
  <2>2. k[1] \in {NameOrder[i] : i \in DOMAIN NameOrder}
    BY <2>1, NamesAssumption
  <2> HIDE DEF bindings
  <2> QED
    BY <2>1, <2>2, PlaceOfAName DEF Symbol
<1>7. ASSUME NEW k \in SymbolKeys(o), NEW l \in SymbolKeys(o), Symbol(k) = Symbol(l)
      PROVE  k = l
  <2> DEFINE a == Name(k[1])
             b == Name(l[1])
             c == IF k[2] = "defined" THEN 0 ELSE 1
             d == IF l[2] = "defined" THEN 0 ELSE 1
  <2>1. a \in Nat /\ b \in Nat /\ 2 * a + c = 2 * b + d
    BY <1>6, <1>7
  <2>2. c \in {0, 1} /\ d \in {0, 1}
    OBVIOUS
  <2>3. a = b /\ c = d
    <3> HIDE DEF a, b, c, d
    <3> QED
      BY <2>1, <2>2
  <2>4. k[1] = l[1]
    BY <1>6, <2>3
  <2>5. k[2] = l[2]
    BY <1>6, <2>3
  <2> QED
    BY <1>6, <2>4, <2>5
<1>8. /\ DOMAIN place = SymbolKeys(o)
      /\ \A k \in DOMAIN place : place[k] \in Nat
      /\ \A k, l \in DOMAIN place : place[k] = place[l] => k = l
  <2>1. \A k \in SymbolKeys(o) : Symbol(k) \in Nat
    BY <1>6
  <2> QED
    BY <1>7, <2>1
<1> HIDE DEF limit, place
<1> QED
  BY <1>1, <1>5, <1>8, KeysStay DEF limit, place

\* No crate the ruleset names is crowded out by those of the inventory.
LEMMA CratesStay ==
  ASSUME NEW name \in DOMAIN Rulesets, LimitsLeaveRoom(Rulesets[name]), NEW o \in Objects,
         NEW crate \in o.crates
  PROVE  crate \in KeysKept([c \in o.crates \cup Inventory |-> Name(c)], o.crates,
                            Rulesets[name].limits.crates)
<1> DEFINE limit == Rulesets[name].limits.crates
           keys == o.crates \cup Inventory
           place == [c \in keys |-> Name(c)]
<1>1. /\ limit \in Nat /\ IsFiniteSet(RustCrates) /\ IsFiniteSet(Inventory)
      /\ o.crates \subseteq RustCrates
  BY RulesetsAssumption, NamesAssumption DEF Objects
<1>2. /\ IsFiniteSet(o.crates) /\ Cardinality(o.crates) \in Nat
      /\ Cardinality(o.crates) <= Cardinality(RustCrates) /\ Cardinality(RustCrates) \in Nat
  BY <1>1, FS_Subset, FS_CardinalityType
<1>3. Cardinality(o.crates) <= limit
  <2>1. limit >= Cardinality(RustCrates)
    BY DEF LimitsLeaveRoom
  <2> HIDE DEF limit
  <2> QED
    BY <1>1, <1>2, <2>1
<1>4. IsFiniteSet(keys)
  BY <1>1, <1>2, FS_Union
<1>5. /\ DOMAIN place = keys
      /\ \A k \in DOMAIN place : place[k] \in Nat
      /\ \A k, l \in DOMAIN place : place[k] = place[l] => k = l
  <2>1. keys \subseteq {NameOrder[i] : i \in DOMAIN NameOrder}
    BY <1>1, NamesAssumption
  <2> HIDE DEF keys
  <2> QED
    BY <2>1, PlaceOfAName
<1>6. o.crates \in SUBSET keys /\ crate \in keys
  OBVIOUS
<1> HIDE DEF limit, place, keys
<1> QED
  BY <1>1, <1>3, <1>4, <1>5, <1>6, KeysStay DEF limit, place, keys

\* With room for everything the ruleset matches, the caps leave an object as it
\* is.
LEMMA CapsLeaveObjects ==
  ASSUME NEW name \in DOMAIN Rulesets, LimitsLeaveRoom(Rulesets[name]), NEW o \in Objects
  PROVE  Capped(Rulesets[name].limits, o) = o
<1> DEFINE limits == Rulesets[name].limits
           strings == KeysKept([group \in StringGroups(o) |-> Name(group)], {}, limits.strings)
           symbols == KeysKept([k \in SymbolKeys(o) |-> Symbol(k)], {}, limits.symbols)
           crates == KeysKept([c \in o.crates \cup Inventory |-> Name(c)], o.crates, limits.crates)
<1>1. Capped(limits, o) =
        [o EXCEPT !.banners = {lib \in @ : GroupName[<<"banner", lib>>] \in strings},
                  !.forkBanners = {lib \in @ : GroupName[<<"banner", lib>>] \in strings},
                  !.copies = {lib \in @ : GroupName[<<"copy", lib>>] \in strings},
                  !.forks = {lib \in @ : GroupName[<<"fork", lib>>] \in strings},
                  !.defined = {lib \in @ : <<lib, "defined">> \in symbols},
                  !.imported = {lib \in @ : <<lib, "imported">> \in symbols},
                  !.crates = @ \cap crates]
  BY Zenon DEF Capped
<1>2. /\ StringGroups(o) \subseteq strings /\ SymbolKeys(o) \subseteq symbols
      /\ o.crates \subseteq crates
  BY StringsStay, SymbolsStay, CratesStay
<1> HIDE DEF limits, strings, symbols, crates
<1>3. /\ {lib \in o.banners : GroupName[<<"banner", lib>>] \in strings} = o.banners
      /\ {lib \in o.forkBanners : GroupName[<<"banner", lib>>] \in strings} = o.forkBanners
      /\ {lib \in o.copies : GroupName[<<"copy", lib>>] \in strings} = o.copies
      /\ {lib \in o.forks : GroupName[<<"fork", lib>>] \in strings} = o.forks
  BY <1>2 DEF StringGroups
<1>4. /\ {lib \in o.defined : <<lib, "defined">> \in symbols} = o.defined
      /\ {lib \in o.imported : <<lib, "imported">> \in symbols} = o.imported
      /\ o.crates \cap crates = o.crates
  BY <1>2 DEF SymbolKeys
<1>5. Capped(limits, o) =
        [o EXCEPT !.banners = o.banners, !.forkBanners = o.forkBanners, !.copies = o.copies,
                  !.forks = o.forks, !.defined = o.defined, !.imported = o.imported,
                  !.crates = o.crates]
  BY <1>1, <1>3, <1>4
<1> QED
  BY <1>5 DEF Objects, limits
\* Neither do they of the evidence.
LEMMA CutIsNothing ==
  ASSUME input.ruleset \in DOMAIN Rulesets, Accepted(rs), binaries \subseteq Objects
  PROVE  Cut(Gathered) = Gathered
<1>1. Gathered.binaries = binaries
  BY DEF Gathered, Evidence
<1>2. \A o \in binaries : Capped(rs.limits, o) = o
  BY CapsLeaveObjects DEF rs, Accepted
<1>3. {Capped(rs.limits, o) : o \in Gathered.binaries} = binaries
  BY <1>1, <1>2
<1>4. Cut(Gathered) = [Gathered EXCEPT !.binaries = binaries]
  BY <1>3 DEF Cut
<1> QED
  BY <1>4 DEF Gathered, Evidence

(***************************************************************************)
(* What an SBOM declares.                                                  *)
(***************************************************************************)

\* A component is looked up in the first table that has an entry of its name.
LEMMA SomeTableHasIt ==
  ASSUME NEW r, NEW tables \in Seq(STRING), NEW c,
         NEW i \in DOMAIN tables, HasEntry(r, tables[i], c.name)
  PROVE  \E table \in SbomTables(r, tables, c) : HasEntry(r, table, c.name)
<1> DEFINE order == TableOrder(tables, c)
           having == {j \in DOMAIN order : HasEntry(r, order[j], c.name)}
<1>1. DOMAIN order \subseteq Nat
  <2>1. CASE order = tables
    BY <2>1
  <2>2. CASE order = <<"rust_crate">> \o tables
    BY <2>2
  <2> QED
    BY <2>1, <2>2 DEF TableOrder
<1>2. \E j \in DOMAIN order : order[j] = tables[i]
  <2>1. CASE order = tables
    BY <2>1
  <2>2. CASE order = <<"rust_crate">> \o tables
    <3>1. i + 1 \in DOMAIN order /\ order[i + 1] = tables[i]
      BY <2>2
    <3> QED
      BY <3>1
  <2> QED
    BY <2>1, <2>2 DEF TableOrder
<1>3. having \in SUBSET Nat /\ having # {}
  <2> HIDE DEF order
  <2> QED
    BY <1>1, <1>2
<1> HIDE DEF having
<1>4. Least(having) \in having /\ \A j \in having : Least(having) <= j
  BY <1>3, LeastIsLeast
<1>5. order[Least(having)] \in SbomTables(r, tables, c) /\ HasEntry(r, order[Least(having)], c.name)
  BY <1>4 DEF SbomTables, having
<1> QED
  BY <1>5

\* Of what moves a linkage, a rule that never gives way has a hit that gives way
\* to nothing.
LEMMA ComponentStays ==
  ASSUME NEW name \in DOMAIN Rulesets, Accepted(Rulesets[name]),
         NEW lib \in Libraries, NEW ev, NEW rest, NEW linkage, NEW max,
         NEW c \in ev.components, c.name \in {lib} \cup CratesOf[lib]
  PROVE  \E k \in ApplySuppression(Rulesets[name], Fired(Rulesets[name], ev, rest, linkage, max)) :
           k.subject = c.name /\ k.path = rest.document
<1> DEFINE r == Rulesets[name]
           hits == Fired(r, ev, rest, linkage, max)
<1>1. PICK moving \in Moving : HasEntry(r, moving, c.name)
  <2>1. CratesOf[lib] \subseteq RustCrates
    BY LinkageAssumption
  <2>2. CASE c.name = lib
    BY <2>2 DEF HasEntry, Moving
  <2>3. CASE c.name \in CratesOf[lib]
    BY <2>1, <2>3 DEF HasEntry, Moving
  <2> QED
    BY <2>2, <2>3
<1>2. PICK rule \in Rules(r) : moving \in r.tables[rule]
  BY DEF Accepted, Coherent, SbomIsCovered
<1>3. r.suppressedBy[rule] = {}
  BY <1>2 DEF Accepted, Coherent, SbomIsCovered
<1>4. PICK m \in r.matches[rule] : m.kind = "sbom_component" /\ \E i \in DOMAIN m.tables : m.tables[i] = moving
  <2>1. moving \in UNION {{m.tables[i] : i \in DOMAIN m.tables} :
                            m \in {x \in r.matches[rule] : x.kind = "sbom_component"}}
    BY <1>2, TablesOfARule
  <2> QED
    BY <2>1
<1>5. m.tables \in Seq(STRING)
  BY <1>4, RulesetsAssumption
<1>6. PICK table \in SbomTables(r, m.tables, c) : HasEntry(r, table, c.name)
  BY <1>1, <1>4, <1>5, SomeTableHasIt
<1> DEFINE k == ComponentHit(r, rule, table, c, rest.document)
<1>7. k \in hits
  <2>1. k \in SbomHits(r, rule, m, ev, rest)
    BY <1>6 DEF SbomHits
  <2> HIDE DEF k
  <2>2. k \in MatchHits(r, rule, m, ev, rest, linkage, max)
    BY <1>4, <2>1 DEF MatchHits
  <2> QED
    BY <2>2 DEF Fired
<1>8. k.rule = rule /\ k.subject = c.name /\ k.path = rest.document /\ k.by = {}
  <2>1. CASE table # "rust_crate"
    BY <2>1 DEF ComponentHit, Hit
  <2>2. CASE table = "rust_crate"
    <3>1. c.name \in RustCrates
      BY <1>6, <2>2 DEF HasEntry
    <3>2. CrateSuppressors(r, c.name) = {}
      BY <3>1 DEF Accepted, LinkageStaysExplained
    <3> QED
      BY <2>2, <3>2 DEF ComponentHit, Hit
  <2> QED
    BY <2>1, <2>2
<1> HIDE DEF k, hits
<1>9. k \in ApplySuppression(r, hits)
  BY <1>3, <1>7, <1>8 DEF ApplySuppression, Drops
<1> QED
  BY <1>8, <1>9 DEF hits

(***************************************************************************)
(* What a ruleset rates.                                                   *)
(***************************************************************************)

\* A ruleset that loaded and rates what it may, on typed evidence.
Rated(r, ev, linkage) ==
  /\ \E name \in DOMAIN Rulesets : r = Rulesets[name]
  /\ Accepted(r) /\ Discerning(r)
  /\ ev.binaries \subseteq Objects /\ DOMAIN linkage \subseteq Libraries

\* What a ruleset speaks of.
LEMMA RulesetIs ==
  ASSUME NEW r, NEW ev, NEW linkage, Rated(r, ev, linkage)
  PROVE  /\ Crates(r) = RustCrates /\ DOMAIN r.verdict = Rules(r)
         /\ DOMAIN r.crateVerdict = RustCrates /\ DOMAIN r.libraryVerdict = Libraries
         /\ DOMAIN r.distVerdict = DOMAIN r.distRule /\ DOMAIN r.moduleVerdict = DOMAIN r.moduleOwner
         /\ \A rule \in Rules(r) : \A m \in r.matches[rule] :
              /\ m.kind \in MatcherKinds
              /\ m.kind = "sbom_component" => m.tables \in Seq(STRING)
              /\ m.kind = "bundled_library" => m.libraries \subseteq Libraries
         /\ VerdictsSurvive(r) /\ CratesAreRated(r) /\ RatesUnread(r)
         /\ Coherent(r) /\ RoutesAreRead(r) /\ KindsAreKnown(r)
         /\ \A o \in ev.binaries : o.crates \subseteq RustCrates /\ o.needed \subseteq Entries
<1>1. PICK name \in DOMAIN Rulesets : r = Rulesets[name]
  BY DEF Rated
<1>2. /\ Crates(r) = RustCrates /\ DOMAIN r.verdict = Rules(r)
      /\ DOMAIN r.crateVerdict = RustCrates /\ DOMAIN r.libraryVerdict = Libraries
      /\ DOMAIN r.distVerdict = DOMAIN r.distRule /\ DOMAIN r.moduleVerdict = DOMAIN r.moduleOwner
  BY <1>1, RulesetsAssumption
<1>3. /\ VerdictsSurvive(r) /\ CratesAreRated(r) /\ RatesUnread(r)
      /\ Coherent(r) /\ RoutesAreRead(r) /\ KindsAreKnown(r)
  BY DEF Rated, Accepted, Discerning
<1>4. \A rule \in Rules(r) : \A m \in r.matches[rule] :
        /\ m.kind \in MatcherKinds
        /\ m.kind = "sbom_component" => m.tables \in Seq(STRING)
        /\ m.kind = "bundled_library" => m.libraries \subseteq Libraries
  BY <1>1, <1>3, RulesetsAssumption DEF KindsAreKnown
<1>5. \A o \in ev.binaries : o.crates \subseteq RustCrates /\ o.needed \subseteq Entries
  BY DEF Rated, Objects
<1> QED
  BY <1>2, <1>3, <1>4, <1>5

\* An entry is one of these tables', with that table's verdict.
LEMMA EntryVerdictIs ==
  ASSUME NEW r, NEW table, NEW x, HasEntry(r, table, x)
  PROVE  \/ table = "crypto_library" /\ x \in Libraries /\ EntryVerdict(r, table, x) = r.libraryVerdict[x]
         \/ table = "rust_crate" /\ x \in RustCrates /\ EntryVerdict(r, table, x) = r.crateVerdict[x]
         \/ /\ table = "crypto_distribution" /\ x \in DOMAIN r.distRule
            /\ EntryVerdict(r, table, x) = r.distVerdict[x]
BY DEF HasEntry, EntryVerdict

\* A linkage hit is of a library the linkage has, whose verdict it has if it
\* inherits one.
LEMMA LinkageHitsAre ==
  ASSUME NEW r, NEW rule, NEW m, NEW ev, NEW linkage, NEW h \in LinkageHits(r, rule, m, ev, linkage)
  PROVE  /\ h.subject \in DOMAIN linkage
         /\ h.verdict = IF m.inherit THEN r.libraryVerdict[h.subject] ELSE "none"
<1> DEFINE verdict(lib) == IF m.inherit THEN r.libraryVerdict[lib] ELSE "none"
           at(lib) == IF m.objects # {}
                      THEN {o.path : o \in {x \in ev.binaries : BinaryPosture(x, lib, ev) \in m.objects}}
                      ELSE When(m.unless = {} \/ ObjectPostures(lib, ev) \cap m.unless = {}, {WheelPath})
           matched == {lib \in m.names \cap DOMAIN linkage : ValueMatches(m, lib, ev, linkage)}
           of(lib) == {Hit(rule, "library", lib, path, verdict(lib)) : path \in at(lib)}
<1>1. h \in UNION {of(lib) : lib \in matched}
  BY Zenon DEF LinkageHits
<1> HIDE DEF at
<1>2. PICK lib \in matched : h \in of(lib)
  <2> HIDE DEF of, matched
  <2> QED
    BY <1>1
<1>3. PICK path \in at(lib) : h = Hit(rule, "library", lib, path, verdict(lib))
  <2> HIDE DEF verdict
  <2> QED
    BY <1>2
<1>4. h.subject = lib /\ h.verdict = verdict(lib)
  <2> HIDE DEF verdict
  <2> QED
    BY <1>3 DEF Hit
<1> QED
  BY <1>4

\* No hit has the class of a wheel in which nothing has one.
LEMMA NeverNoCrypto ==
  ASSUME NEW r, NEW ev, NEW rest, NEW linkage, NEW max, Rated(r, ev, linkage),
         NEW h \in Fired(r, ev, rest, linkage, max)
  PROVE  VerdictOf(r, h) # "NO_CRYPTO_DETECTED"
<1>1. h.rule \in Rules(r) /\ \E m \in r.matches[h.rule] : h \in MatchHits(r, h.rule, m, ev, rest, linkage, max)
  BY RulesetIs, HitsMatch
<1>2. PICK m \in r.matches[h.rule] : h \in MatchHits(r, h.rule, m, ev, rest, linkage, max)
  BY <1>1
<1>3. /\ \A x \in Rules(r) : r.verdict[x] # "NO_CRYPTO_DETECTED"
      /\ \A x \in Libraries : r.libraryVerdict[x] # "NO_CRYPTO_DETECTED"
      /\ \A x \in RustCrates : r.crateVerdict[x] # "NO_CRYPTO_DETECTED"
      /\ \A x \in DOMAIN r.distRule : r.distVerdict[x] # "NO_CRYPTO_DETECTED"
      /\ \A x \in DOMAIN r.moduleOwner : r.moduleVerdict[x] # "NO_CRYPTO_DETECTED"
  BY RulesetIs DEF Rated, Accepted, VerdictsAreFindings
<1>4. m.kind \in MatcherKinds
  BY <1>1, RulesetIs
<1>5. h.verdict # "NO_CRYPTO_DETECTED"
  <2>1. CASE m.kind = "sbom_component"
    <3>1. h \in SbomHits(r, h.rule, m, ev, rest) /\ m.tables \in Seq(STRING)
      BY <1>1, <1>2, <2>1, RulesetIs DEF MatchHits
    <3>2. PICK c \in ev.components : \E table \in SbomTables(r, m.tables, c) :
            h.verdict = EntryVerdict(r, table, c.name)
      BY <3>1, ComponentHitsAre
    <3>3. PICK table \in SbomTables(r, m.tables, c) : h.verdict = EntryVerdict(r, table, c.name)
      BY <3>2
    <3>4. HasEntry(r, table, c.name)
      BY <3>1, TablesHave
    <3> QED
      BY <1>3, <3>3, <3>4, EntryVerdictIs
  <2>2. CASE m.kind = "rust_crate"
    <3>1. h \in CrateHits(r, h.rule, ev)
      BY <1>2, <2>2 DEF MatchHits
    <3>2. PICK o \in ev.binaries : \E c \in o.crates : h.verdict = r.crateVerdict[c]
      BY <3>1, CrateHitsAre
    <3> QED
      BY <1>3, <3>2, RulesetIs
  <2>3. CASE m.kind = "dt_needed"
    <3>1. h \in NeededHits(r, h.rule, m, ev)
      BY <1>2, <2>3 DEF MatchHits
    <3>2. PICK o \in ev.binaries : \E e \in o.needed : h.verdict \in {"none", r.libraryVerdict[e.lib]}
      BY <3>1, NeededHitsAre
    <3>3. \A e \in o.needed : e.lib \in Libraries
      BY RulesetIs DEF Entries
    <3> QED
      BY <1>3, <3>2, <3>3
  <2>4. CASE m.kind = "linkage"
    <3>1. h \in LinkageHits(r, h.rule, m, ev, linkage)
      BY <1>2, <2>4 DEF MatchHits
    <3>2. /\ h.subject \in DOMAIN linkage
          /\ h.verdict = IF m.inherit THEN r.libraryVerdict[h.subject] ELSE "none"
      BY <3>1, LinkageHitsAre
    <3> QED
      BY <1>3, <3>2 DEF Rated
  <2>5. CASE m.kind = "bundled_library"
    <3>1. h \in BundledHits(r, h.rule, m, ev) /\ m.libraries \subseteq Libraries
      BY <1>1, <1>2, <2>5, RulesetIs DEF MatchHits
    <3> QED
      BY <1>3, <3>1 DEF BundledHits, Hit
  <2>6. CASE m.kind \in {"dist_name", "requires_dist"}
    BY <1>2, <1>3, <2>6 DEF MatchHits, DistNameHits, RequiresDistHits, Hit
  <2>7. CASE m.kind = "py_import"
    BY <1>2, <1>3, <2>7 DEF MatchHits, ImportHits, Hit
  <2>8. CASE m.kind \in Unrated
    <3>1. m.kind \in MatcherKinds \ {"sbom_component", "rust_crate"}
      BY <1>4, <2>8 DEF Unrated
    <3> QED
      BY <1>2, <2>8, <3>1, OtherHits
  <2> QED
    BY <1>4, <2>1, <2>2, <2>3, <2>4, <2>5, <2>6, <2>7, <2>8 DEF MatcherKinds, Unrated
<1> QED
  BY <1>1, <1>3, <1>5 DEF VerdictOf

\* Every hit of the finding has a verdict.
Sure(r, hits, h) == \A g \in hits : Together(g, h) => VerdictOf(r, g) # "none"

\* So has every hit of a rule that has one.
LEMMA RatedRuleIsSure ==
  ASSUME NEW r, NEW hits, NEW h, h.rule \in RatedRules(r)
  PROVE  Sure(r, hits, h)
BY DEF RatedRules, Sure, Together, VerdictOf

\* The hits of a rule that has none are of one match.
LEMMA SoleMatch ==
  ASSUME NEW r, NEW ev, NEW rest, NEW linkage, NEW max, Rated(r, ev, linkage),
         NEW h, NEW rule \in Rules(r), h.rule = rule, rule \notin RatedRules(r),
         NEW m \in r.matches[rule],
         NEW g \in Fired(r, ev, rest, linkage, max), Together(g, h)
  PROVE  g \in MatchHits(r, rule, m, ev, rest, linkage, max)
<1>1. g.rule = rule
  BY DEF Together
<1>2. PICK n \in r.matches[rule] : g \in MatchHits(r, rule, n, ev, rest, linkage, max)
  BY <1>1, RulesetIs, HitsMatch
<1>3. n = m
  BY RulesetIs DEF VerdictsSurvive
<1> QED
  BY <1>2, <1>3

\* A component whose name a moving table has, that a match looks in, resolves to
\* an entry of a moving table.
LEMMA MovingFirst ==
  ASSUME NEW r, NEW tables \in Seq(STRING),
         \A i, j \in DOMAIN tables : tables[i] \in Moving /\ tables[j] \notin Moving => i < j,
         NEW c, NEW i0 \in DOMAIN tables, tables[i0] \in Moving, HasEntry(r, tables[i0], c.name),
         NEW table \in SbomTables(r, tables, c)
  PROVE  table \in Moving
<1> DEFINE order == TableOrder(tables, c)
<1>1. PICK i \in DOMAIN order :
        /\ table = order[i] /\ \A k \in DOMAIN order : HasEntry(r, order[k], c.name) => i <= k
  <2> HIDE DEF order
  <2> QED
    BY DEF SbomTables, order
<1>2. CASE order = tables
  <2>1. i <= i0 /\ i \in Nat /\ i0 \in Nat
    BY <1>1, <1>2
  <2> QED
    BY <1>1, <1>2, <2>1
<1>3. CASE order = <<"rust_crate">> \o tables
  <2>1. i0 + 1 \in DOMAIN order /\ order[i0 + 1] = tables[i0]
    BY <1>3
  <2>2. i <= i0 + 1
    <3> HIDE DEF order
    <3> QED
      BY <1>1, <2>1
  <2>3. i = 1 => order[i] = "rust_crate"
    BY <1>3
  <2>4. i # 1 => i - 1 \in DOMAIN tables /\ order[i] = tables[i - 1]
    BY <1>3
  <2>5. i \in Nat /\ i0 \in Nat
    BY <1>3
  <2> HIDE DEF order
  <2>6. i # 1 => tables[i - 1] \in Moving
    BY <2>2, <2>4, <2>5
  <2> QED
    BY <1>1, <2>3, <2>4, <2>6 DEF Moving
<1> QED
  BY <1>2, <1>3 DEF TableOrder

\* A crate with a verdict that an object has is told of with one.
LEMMA CrateHitsAreSure ==
  ASSUME NEW r, NEW ev, NEW rest, NEW linkage, NEW max, Rated(r, ev, linkage),
         NEW h, h.rule \in Rules(r), h.subject \in RatedCrates(r),
         \E m \in r.matches[h.rule] : m.kind = "rust_crate"
  PROVE  Sure(r, Fired(r, ev, rest, linkage, max), h)
<1>1. CASE h.rule \in RatedRules(r)
  BY <1>1, RatedRuleIsSure
<1>2. CASE h.rule \notin RatedRules(r)
  <2> SUFFICES ASSUME NEW g \in Fired(r, ev, rest, linkage, max), Together(g, h)
               PROVE  VerdictOf(r, g) # "none"
    BY DEF Sure
  <2>1. PICK m \in r.matches[h.rule] : m.kind = "rust_crate"
    OBVIOUS
  <2>2. g \in MatchHits(r, h.rule, m, ev, rest, linkage, max)
    BY <1>2, SoleMatch
  <2>3. g \in CrateHits(r, h.rule, ev)
    BY <2>1, <2>2 DEF MatchHits
  <2>4. g.verdict = r.crateVerdict[g.subject]
    BY <2>3, CrateHitsAre
  <2>5. g.verdict # "none"
    BY <2>4 DEF Together, RatedCrates
  <2> QED
    BY <2>5 DEF VerdictOf
<1> QED
  BY <1>1, <1>2

\* What an SBOM names and a moving table has is, by a rule that looks there.
LEMMA ComponentHitsAreSure ==
  ASSUME NEW r, NEW ev, NEW rest, NEW linkage, NEW max, Rated(r, ev, linkage),
         NEW h, h.rule \in Rules(r), h.subject \in Libraries \cup RatedCrates(r),
         NEW m \in r.matches[h.rule], m.kind = "sbom_component",
         NEW i \in DOMAIN m.tables, m.tables[i] \in Moving, HasEntry(r, m.tables[i], h.subject)
  PROVE  Sure(r, Fired(r, ev, rest, linkage, max), h)
<1>1. CASE h.rule \in RatedRules(r)
  BY <1>1, RatedRuleIsSure
<1>2. CASE h.rule \notin RatedRules(r)
  <2> SUFFICES ASSUME NEW g \in Fired(r, ev, rest, linkage, max), Together(g, h)
               PROVE  VerdictOf(r, g) # "none"
    BY DEF Sure
  <2>1. g \in MatchHits(r, h.rule, m, ev, rest, linkage, max)
    BY <1>2, SoleMatch
  <2>2. g \in SbomHits(r, h.rule, m, ev, rest)
    BY <2>1 DEF MatchHits
  <2>3. PICK c \in ev.components : \E table \in SbomTables(r, m.tables, c) :
          g.subject = c.name /\ g.verdict = EntryVerdict(r, table, c.name)
    BY <2>2, ComponentHitsAre
  <2>4. PICK table \in SbomTables(r, m.tables, c) : g.verdict = EntryVerdict(r, table, c.name)
    BY <2>3
  <2>5. c.name = h.subject
    BY <2>3 DEF Together
  <2>6. /\ m.tables \in Seq(STRING)
        /\ \A j, k \in DOMAIN m.tables : m.tables[j] \in Moving /\ m.tables[k] \notin Moving => j < k
    BY RulesetIs DEF CratesAreRated
  <2>7. table \in Moving
    BY <2>4, <2>5, <2>6, MovingFirst
  <2>8. HasEntry(r, table, c.name)
    BY <2>4, <2>6, TablesHave
  <2>9. \/ table = "crypto_library" /\ c.name \in Libraries /\ g.verdict = r.libraryVerdict[c.name]
        \/ table = "rust_crate" /\ c.name \in RustCrates /\ g.verdict = r.crateVerdict[c.name]
    BY <2>4, <2>7, <2>8, EntryVerdictIs DEF Moving
  <2>10. c.name \in Libraries => r.libraryVerdict[c.name] # "none"
    BY RulesetIs DEF CratesAreRated
  <2>11. c.name \in RustCrates => c.name \in RatedCrates(r)
    <3>1. Crates(r) = RustCrates
      BY RulesetIs
    <3> QED
      BY <2>5, <3>1, RulesetIs DEF CratesAreRated
  <2>12. g.verdict # "none"
    BY <2>9, <2>10, <2>11 DEF RatedCrates
  <2> QED
    BY <2>12 DEF VerdictOf
<1> QED
  BY <1>1, <1>2

\* What has others give way has a verdict.
LEMMA SuppressorsAreSure ==
  ASSUME NEW r, NEW ev, NEW rest, NEW linkage, NEW max, Rated(r, ev, linkage),
         NEW h \in Fired(r, ev, rest, linkage, max), NEW g \in Fired(r, ev, rest, linkage, max),
         Drops(r, g, h)
  PROVE  Sure(r, Fired(r, ev, rest, linkage, max), g)
<1>1. /\ h.rule \in Rules(r) /\ g.rule \in Rules(r)
      /\ \E m \in r.matches[h.rule] : h \in MatchHits(r, h.rule, m, ev, rest, linkage, max)
  BY RulesetIs, HitsMatch
<1>2. PICK m \in r.matches[h.rule] : h \in MatchHits(r, h.rule, m, ev, rest, linkage, max)
  BY <1>1
<1>3. \A crate \in RustCrates : CrateSuppressors(r, crate) \subseteq RatedCrates(r)
  <2>1. Crates(r) = RustCrates /\ VerdictsSurvive(r)
    BY RulesetIs
  <2> QED
    BY <2>1 DEF VerdictsSurvive
<1>4. CASE g.rule \in r.suppressedBy[h.rule]
  <2>1. g.rule \in RatedRules(r)
    BY <1>1, <1>4, RulesetIs DEF VerdictsSurvive
  <2> QED
    BY <2>1, RatedRuleIsSure
<1>5. CASE <<g.rule, g.subject>> \in h.by /\ m.kind = "rust_crate"
  <2>1. h \in CrateHits(r, h.rule, ev)
    BY <1>2, <1>5 DEF MatchHits
  <2>2. PICK o \in ev.binaries : \E c \in o.crates : h.by = EntrySuppressors(r, c)
    BY <2>1, CrateHitsAre
  <2>3. PICK c \in o.crates : h.by = EntrySuppressors(r, c)
    BY <2>2
  <2>4. PICK other \in r.crateBy[c] : <<g.rule, g.subject>> = <<r.owner[other], other>>
    BY <1>5, <2>3 DEF EntrySuppressors
  <2>5. g.rule = r.owner[other] /\ g.subject = other
    BY <2>4
  <2>6. c \in RustCrates /\ other \in CrateSuppressors(r, c)
    BY <2>2, <2>4, RulesetIs DEF CrateSuppressors
  <2>7. other \in RatedCrates(r)
    BY <1>3, <2>6
  <2>8. r.owner[other] # "none" /\ other \in DOMAIN r.owner
    <3>1. c \in Crates(r) /\ CratesAreOwned(r) /\ NamesAreDefined(r)
      BY <2>6, RulesetIs DEF Coherent
    <3> QED
      BY <2>4, <3>1 DEF CratesAreOwned, NamesAreDefined, Crates
  <2>9. \E n \in r.matches[g.rule] : n.kind = "rust_crate"
    BY <2>5, <2>8, RulesetIs DEF RoutesAreRead
  <2> QED
    BY <1>1, <2>5, <2>7, <2>9, CrateHitsAreSure
<1>6. CASE <<g.rule, g.subject>> \in h.by /\ m.kind = "sbom_component"
  <2>1. h \in SbomHits(r, h.rule, m, ev, rest) /\ m.tables \in Seq(STRING)
    BY <1>1, <1>2, <1>6, RulesetIs DEF MatchHits
  <2>2. PICK c \in ev.components : \E table \in SbomTables(r, m.tables, c) :
          /\ table # "rust_crate" => h.by = {}
          /\ table = "rust_crate" => h.by = {<<h.rule, other>> : other \in CrateSuppressors(r, c.name)}
    BY <2>1, ComponentHitsAre
  <2>3. PICK table \in SbomTables(r, m.tables, c) :
          /\ table # "rust_crate" => h.by = {}
          /\ table = "rust_crate" => h.by = {<<h.rule, other>> : other \in CrateSuppressors(r, c.name)}
    BY <2>2
  <2>4. table = "rust_crate"
    BY <1>6, <2>3
  <2>5. HasEntry(r, table, c.name) /\ \E j \in DOMAIN m.tables : m.tables[j] = table
    BY <2>1, <2>3, TablesHave
  <2>6. PICK i \in DOMAIN m.tables : m.tables[i] = "rust_crate"
    BY <2>4, <2>5
  <2>7. c.name \in RustCrates
    BY <2>4, <2>5, EntryVerdictIs
  <2>8. PICK other \in CrateSuppressors(r, c.name) : <<g.rule, g.subject>> = <<h.rule, other>>
    BY <1>6, <2>3, <2>4
  <2>9. g.rule = h.rule /\ g.subject \in RatedCrates(r)
    BY <1>3, <2>7, <2>8
  <2>10. HasEntry(r, "rust_crate", g.subject)
    <3>1. g.subject \in Crates(r)
      BY <2>9 DEF RatedCrates
    <3> QED
      BY <3>1, RulesetIs DEF HasEntry
  <2>11. m \in r.matches[g.rule] /\ m.kind = "sbom_component" /\ m.tables[i] \in Moving
         /\ HasEntry(r, m.tables[i], g.subject)
    BY <1>6, <2>6, <2>9, <2>10 DEF Moving
  <2> QED
    BY <1>1, <2>6, <2>9, <2>11, ComponentHitsAreSure
<1>7. CASE <<g.rule, g.subject>> \in h.by /\ m.kind \notin {"rust_crate", "sbom_component"}
  <2>1. h.by = {}
    BY <1>1, <1>2, <1>7, RulesetIs, OtherHits
  <2> QED
    BY <1>7, <2>1
<1> QED
  BY <1>4, <1>5, <1>6, <1>7 DEF Drops

\* Where a finding would have a verdict whichever of its hits came first, the
\* classes have one.
LEMMA SureIsTold ==
  ASSUME NEW r, NEW ev, NEW rest, NEW linkage, NEW max, Rated(r, ev, linkage),
         NEW made \in Records(r, max, ev, rest, linkage),
         NEW h \in Fired(r, ev, rest, linkage, max), Sure(r, Fired(r, ev, rest, linkage, max), h)
  PROVE  made.classes # {"NO_CRYPTO_DETECTED"}
<1> DEFINE hits == Fired(r, ev, rest, linkage, max)
           S == {g \in hits : Sure(r, hits, g)}
<1>1. \A g \in hits : Fits(r, g)
  <2>1. PICK name \in DOMAIN Rulesets : r = Rulesets[name]
    BY DEF Rated
  <2> QED
    BY <2>1, RulesetIs, FiredFit
<1>2. \A g \in hits : VerdictOf(r, g) # "NO_CRYPTO_DETECTED"
  BY NeverNoCrypto
<1>3. ASSUME NEW g \in S, NEW k \in hits, Drops(r, k, g)
      PROVE  k \in S
  BY <1>3, SuppressorsAreSure
<1>4. Coherent(r) /\ S \in SUBSET hits /\ h \in S
  BY RulesetIs
<1>5. PICK k \in S : k \in ApplySuppression(r, hits)
  <2> HIDE DEF hits, S
  <2> QED
    BY <1>1, <1>3, <1>4, OneOfThemStays
<1> DEFINE verdicts == VerdictsWith(r, hits, k)
<1>6. /\ "none" \notin verdicts /\ "NO_CRYPTO_DETECTED" \notin verdicts
      /\ \A g \in hits : Together(g, k) => VerdictOf(r, g) \in verdicts
  <2>1. Sure(r, hits, k)
    BY <1>5
  <2> HIDE DEF hits
  <2> QED
    BY <1>2, <2>1 DEF Sure, VerdictsWith
<1> HIDE DEF verdicts, S
<1>7. \E v \in verdicts : v \in made.classes
  BY <1>5, <1>6, HitIsTold
<1> QED
  BY <1>6, <1>7

\* Something has a verdict whichever of its hits came first.
Tells(r, hits) == \E h \in hits : Sure(r, hits, h)

LEMMA CrateTells ==
  ASSUME NEW r, NEW ev, NEW rest, NEW linkage, NEW max, Rated(r, ev, linkage),
         NEW o \in ev.binaries, NEW c \in o.crates \cap RatedCrates(r)
  PROVE  Tells(r, Fired(r, ev, rest, linkage, max))
<1>1. PICK rule \in Rules(r) : Owns(r.owner[c], rule) /\ \E m \in r.matches[rule] : m.kind = "rust_crate"
  BY RulesetIs DEF CratesAreRated, Owns
<1>2. PICK m \in r.matches[rule] : m.kind = "rust_crate"
  BY <1>1
<1> DEFINE h == [Hit(rule, "crate", c, o.path, r.crateVerdict[c]) EXCEPT !.by = EntrySuppressors(r, c)]
<1>3. h \in CrateHits(r, rule, ev)
  <2> DEFINE of(b) == {[Hit(rule, "crate", crate, b.path, r.crateVerdict[crate]) EXCEPT
                          !.by = EntrySuppressors(r, crate)] :
                         crate \in {x \in b.crates : Owns(r.owner[x], rule)}}
  <2>1. c \in {x \in o.crates : Owns(r.owner[x], rule)}
    BY <1>1
  <2>2. h \in of(o)
    BY <2>1, Zenon
  <2>3. CrateHits(r, rule, ev) = UNION {of(b) : b \in ev.binaries}
    BY Zenon DEF CrateHits
  <2> HIDE DEF of, h
  <2> QED
    BY <2>2, <2>3
<1>4. h.rule = rule /\ h.subject = c
  BY DEF Hit
<1> HIDE DEF h
<1>5. h \in MatchHits(r, rule, m, ev, rest, linkage, max)
  BY <1>2, <1>3 DEF MatchHits
<1>6. h \in Fired(r, ev, rest, linkage, max)
  BY <1>5 DEF Fired
<1>7. Sure(r, Fired(r, ev, rest, linkage, max), h)
  BY <1>2, <1>4, CrateHitsAreSure
<1> QED
  BY <1>6, <1>7 DEF Tells

LEMMA ComponentTells ==
  ASSUME NEW r, NEW ev, NEW rest, NEW linkage, NEW max, Rated(r, ev, linkage),
         NEW c \in ev.components, c.name \in Libraries \cup RatedCrates(r)
  PROVE  Tells(r, Fired(r, ev, rest, linkage, max))
<1>1. PICK moving \in Moving : HasEntry(r, moving, c.name)
  <2>1. Crates(r) = RustCrates
    BY RulesetIs
  <2> QED
    BY <2>1 DEF HasEntry, Moving, RatedCrates
<1>2. PICK rule \in Rules(r) : moving \in r.tables[rule]
  BY RulesetIs DEF Coherent, SbomIsCovered
<1>3. PICK m \in r.matches[rule] : m.kind = "sbom_component" /\ \E i \in DOMAIN m.tables : m.tables[i] = moving
  <2>1. moving \in UNION {{m.tables[i] : i \in DOMAIN m.tables} :
                            m \in {x \in r.matches[rule] : x.kind = "sbom_component"}}
    <3>1. PICK name \in DOMAIN Rulesets : r = Rulesets[name]
      BY DEF Rated
    <3> QED
      BY <1>2, <3>1, TablesOfARule
  <2> QED
    BY <2>1
<1>4. PICK i \in DOMAIN m.tables : m.tables[i] = moving
  BY <1>3
<1>5. m.tables \in Seq(STRING)
  BY <1>3, RulesetIs
<1>6. PICK table \in SbomTables(r, m.tables, c) : HasEntry(r, table, c.name)
  BY <1>1, <1>4, <1>5, SomeTableHasIt
<1> DEFINE h == ComponentHit(r, rule, table, c, rest.document)
<1>7. h \in SbomHits(r, rule, m, ev, rest)
  BY <1>6 DEF SbomHits
<1>8. h.rule = rule /\ h.subject = c.name
  BY DEF ComponentHit, Hit
<1> HIDE DEF h
<1>9. h \in MatchHits(r, rule, m, ev, rest, linkage, max)
  BY <1>3, <1>7 DEF MatchHits
<1>10. h \in Fired(r, ev, rest, linkage, max)
  BY <1>9 DEF Fired
<1>11. Sure(r, Fired(r, ev, rest, linkage, max), h)
  BY <1>1, <1>3, <1>4, <1>8, ComponentHitsAreSure
<1> QED
  BY <1>10, <1>11 DEF Tells

\* What has the library's verdict under every hit of a match that it is sure of:
\* the rule has a verdict of its own, or no other match.
LEMMA LibraryHitTells ==
  ASSUME NEW r, NEW ev, NEW rest, NEW linkage, NEW max, Rated(r, ev, linkage),
         NEW rule \in Rules(r), NEW m \in r.matches[rule],
         NEW h \in MatchHits(r, rule, m, ev, rest, linkage, max), h.rule = rule, h.subject \in Libraries,
         rule \notin RatedRules(r) =>
           \A g \in MatchHits(r, rule, m, ev, rest, linkage, max) :
             Together(g, h) => g.verdict = r.libraryVerdict[g.subject]
  PROVE  Tells(r, Fired(r, ev, rest, linkage, max))
<1>1. h \in Fired(r, ev, rest, linkage, max)
  BY DEF Fired
<1>2. CASE rule \in RatedRules(r)
  <2>1. Sure(r, Fired(r, ev, rest, linkage, max), h)
    BY <1>2, RatedRuleIsSure
  <2> QED
    BY <1>1, <2>1 DEF Tells
<1>3. CASE rule \notin RatedRules(r)
  <2>1. ASSUME NEW g \in Fired(r, ev, rest, linkage, max), Together(g, h)
        PROVE  VerdictOf(r, g) # "none"
    <3>1. g \in MatchHits(r, rule, m, ev, rest, linkage, max)
      BY <1>3, <2>1, SoleMatch
    <3>2. g.verdict = r.libraryVerdict[h.subject]
      BY <1>3, <2>1, <3>1 DEF Together
    <3>3. r.libraryVerdict[h.subject] # "none"
      BY RulesetIs DEF CratesAreRated
    <3> QED
      BY <3>2, <3>3 DEF VerdictOf
  <2>2. Sure(r, Fired(r, ev, rest, linkage, max), h)
    BY <2>1 DEF Sure
  <2> QED
    BY <1>1, <2>2 DEF Tells
<1> QED
  BY <1>2, <1>3

\* The match that rates a value, whatever the objects and the SBOM say.
LEMMA ValueRated ==
  ASSUME NEW r, NEW lib, NEW value, ValueIsRated(r, lib, value),
         NEW objects \in SUBSET Postures, NEW declared \in BOOLEAN
  PROVE  \E rule \in Rules(r) : \E m \in r.matches[rule] :
           /\ m.kind = "linkage" /\ (rule \in RatedRules(r) \/ m.inherit)
           /\ lib \in m.names /\ value \in m.values /\ declared \in m.declared
           /\ IF m.objects # {} THEN m.objects \cap objects # {} ELSE m.unless \cap objects = {}
<1> DEFINE rated(P, d) == 
         \E rule \in Rules(r) : \E m \in r.matches[rule] :
           /\ m.kind = "linkage" /\ (rule \in RatedRules(r) \/ m.inherit)
           /\ lib \in m.names /\ value \in m.values /\ d \in m.declared
           /\ IF m.objects # {} THEN m.objects \cap P # {} ELSE m.unless \cap P = {}
<1>1. \A P \in SUBSET Postures, d \in BOOLEAN : rated(P, d)
  BY Zenon DEF ValueIsRated
<1> HIDE DEF rated
<1>2. rated(objects, declared)
  BY <1>1
<1> QED
  BY <1>2, Zenon DEF rated

\* A linkage of a value that is rated.
LEMMA LinkageTells ==
  ASSUME NEW r, NEW ev, NEW rest, NEW linkage, NEW max, Rated(r, ev, linkage),
         NEW lib \in DOMAIN linkage, ValueIsRated(r, lib, linkage[lib])
  PROVE  Tells(r, Fired(r, ev, rest, linkage, max))
<1> DEFINE postures == ObjectPostures(lib, ev)
           beside == DeclaredBeside(lib, ev)
<1>1. postures \in SUBSET Postures /\ beside \in BOOLEAN
  BY BinaryPostureType DEF ObjectPostures, DeclaredBeside, DeclaredBySbom
<1> HIDE DEF postures, beside
<1>2. PICK rule \in Rules(r) : \E m \in r.matches[rule] :
        /\ m.kind = "linkage" /\ (rule \in RatedRules(r) \/ m.inherit)
        /\ lib \in m.names /\ linkage[lib] \in m.values /\ beside \in m.declared
        /\ IF m.objects # {} THEN m.objects \cap postures # {} ELSE m.unless \cap postures = {}
  BY <1>1, ValueRated
<1>3. PICK m \in r.matches[rule] :
        /\ m.kind = "linkage" /\ (rule \in RatedRules(r) \/ m.inherit)
        /\ lib \in m.names /\ linkage[lib] \in m.values /\ beside \in m.declared
        /\ IF m.objects # {} THEN m.objects \cap postures # {} ELSE m.unless \cap postures = {}
  BY <1>2
<1> DEFINE at == IF m.objects # {}
                 THEN {o.path : o \in {x \in ev.binaries : BinaryPosture(x, lib, ev) \in m.objects}}
                 ELSE When(m.unless = {} \/ ObjectPostures(lib, ev) \cap m.unless = {}, {WheelPath})
           verdict == IF m.inherit THEN r.libraryVerdict[lib] ELSE "none"
<1>4. PICK path : path \in at
  <2>1. CASE m.objects # {}
    <3>1. \E o \in ev.binaries : BinaryPosture(o, lib, ev) \in m.objects
      BY <1>3, <2>1 DEF postures, ObjectPostures
    <3> QED
      BY <2>1, <3>1
  <2>2. CASE m.objects = {}
    BY <1>3, <2>2 DEF postures, When
  <2> QED
    BY <2>1, <2>2
<1>5. ValueMatches(m, lib, ev, linkage)
  BY <1>3 DEF ValueMatches, beside
<1> DEFINE h == Hit(rule, "library", lib, path, verdict)
<1>6. h \in LinkageHits(r, rule, m, ev, linkage)
  <2> DEFINE said(l) == IF m.inherit THEN r.libraryVerdict[l] ELSE "none"
             where(l) == IF m.objects # {}
                         THEN {o.path : o \in {x \in ev.binaries : BinaryPosture(x, l, ev) \in m.objects}}
                         ELSE When(m.unless = {} \/ ObjectPostures(l, ev) \cap m.unless = {}, {WheelPath})
             of(l) == {Hit(rule, "library", l, p, said(l)) : p \in where(l)}
             matched == {l \in m.names \cap DOMAIN linkage : ValueMatches(m, l, ev, linkage)}
  <2>1. LinkageHits(r, rule, m, ev, linkage) = UNION {of(l) : l \in matched}
    BY Zenon DEF LinkageHits
  <2>2. lib \in matched
    BY <1>3, <1>5
  <2>3. at = where(lib) /\ verdict = said(lib)
    OBVIOUS
  <2> HIDE DEF at, where, verdict, said, matched
  <2>4. h \in of(lib)
    BY <1>4, <2>3
  <2> HIDE DEF of, h
  <2> QED
    BY <2>1, <2>2, <2>4
<1>7. h.rule = rule /\ h.subject = lib /\ lib \in Libraries
  BY DEF Hit, Rated
<1> HIDE DEF h, at
<1>8. h \in MatchHits(r, rule, m, ev, rest, linkage, max)
  BY <1>3, <1>6 DEF MatchHits
<1>9. ASSUME rule \notin RatedRules(r), NEW g \in MatchHits(r, rule, m, ev, rest, linkage, max)
      PROVE  g.verdict = r.libraryVerdict[g.subject]
  <2>1. g \in LinkageHits(r, rule, m, ev, linkage)
    BY <1>3, <1>9 DEF MatchHits
  <2>2. g.verdict = IF m.inherit THEN r.libraryVerdict[g.subject] ELSE "none"
    BY <2>1, LinkageHitsAre
  <2> QED
    BY <1>3, <1>9, <2>2
<1> QED
  BY <1>7, <1>8, <1>9, LibraryHitTells

\* The matches for entries of a library in the wheel: those with a content hash
\* in their name, and those an object in the wheel answers.
LEMMA EntriesAreRated ==
  ASSUME NEW r, NEW lib, BundledIsRated(r, lib), NEW e, NEW o, NEW ev, e.lib = lib,
         e.mangled \in BOOLEAN, NeededPosture(e, o, ev) = "bundled"
  PROVE  \E rule \in Rules(r) : \E m \in r.matches[rule] :
           m.kind = "dt_needed" /\ OfCopies(m) /\ EntryMatches(m, e, o, ev)
<1> DEFINE all == UNION {r.matches[rule] : rule \in Rules(r)}
<1>1. /\ \E m \in all : m.kind = "dt_needed" /\ lib \in m.libraries /\ m.mangled = {TRUE} /\ m.resolved = BOOLEAN
      /\ \E m \in all : m.kind = "dt_needed" /\ lib \in m.libraries /\ m.mangled = BOOLEAN /\ m.resolved = {TRUE}
  BY DEF BundledIsRated
<1>2. PICK m \in all : /\ m.kind = "dt_needed" /\ lib \in m.libraries
                       /\ IF e.mangled THEN m.mangled = {TRUE} /\ m.resolved = BOOLEAN
                                       ELSE m.mangled = BOOLEAN /\ m.resolved = {TRUE}
  <2> HIDE DEF all
  <2> QED
    BY <1>1
<1>3. OfCopies(m) /\ EntryMatches(m, e, o, ev)
  <2>1. CASE e.mangled
    BY <1>2, <2>1 DEF OfCopies, EntryMatches
  <2>2. CASE ~e.mangled
    BY <1>2, <2>2 DEF OfCopies, EntryMatches
  <2> QED
    BY <2>1, <2>2
<1> QED
  BY <1>2, <1>3

\* A library that an object has in the wheel.
LEMMA BundledTells ==
  ASSUME NEW r, NEW ev, NEW rest, NEW linkage, NEW max, Rated(r, ev, linkage),
         NEW lib \in Libraries, BundledIsRated(r, lib),
         NEW o \in ev.binaries, BinaryPosture(o, lib, ev) = "bundled"
  PROVE  Tells(r, Fired(r, ev, rest, linkage, max))
<1>1. CASE o.vendored /\ o.base = lib
  <2>1. PICK rule \in Rules(r) : /\ Owns(r.libraryOwner[lib], rule)
                                 /\ \E m \in r.matches[rule] : m.kind = "bundled_library" /\ lib \in m.libraries
    BY DEF BundledIsRated, Owns
  <2>2. PICK m \in r.matches[rule] : m.kind = "bundled_library" /\ lib \in m.libraries
    BY <2>1
  <2> DEFINE h == Hit(rule, "library", o.base, o.path, r.libraryVerdict[o.base])
  <2>3. h \in BundledHits(r, rule, m, ev)
    BY <1>1, <2>1, <2>2 DEF BundledHits
  <2>4. h.rule = rule /\ h.subject = lib
    BY <1>1 DEF Hit
  <2> HIDE DEF h
  <2>5. h \in MatchHits(r, rule, m, ev, rest, linkage, max)
    BY <2>2, <2>3 DEF MatchHits
  <2>6. ASSUME NEW g \in MatchHits(r, rule, m, ev, rest, linkage, max)
        PROVE  g.verdict = r.libraryVerdict[g.subject]
    <3>1. g \in BundledHits(r, rule, m, ev)
      BY <2>2, <2>6 DEF MatchHits
    <3> QED
      BY <3>1 DEF BundledHits, Hit
  <2> QED
    BY <2>4, <2>5, <2>6, LibraryHitTells
<1>2. CASE \E e \in o.needed : e.lib = lib /\ NeededPosture(e, o, ev) = "bundled"
  <2>1. PICK e \in o.needed : e.lib = lib /\ NeededPosture(e, o, ev) = "bundled"
    BY <1>2
  <2>2. e.mangled \in BOOLEAN
    BY RulesetIs DEF Entries
  <2>3. PICK rule \in Rules(r) : \E m \in r.matches[rule] :
          m.kind = "dt_needed" /\ OfCopies(m) /\ EntryMatches(m, e, o, ev)
    BY <2>1, <2>2, EntriesAreRated
  <2>4. PICK m \in r.matches[rule] : m.kind = "dt_needed" /\ OfCopies(m) /\ EntryMatches(m, e, o, ev)
    BY <2>3
  <2>5. PICK h \in NeededHits(r, rule, m, ev) : h.rule = rule /\ h.subject = lib
    <3> DEFINE verdict(l) == IF m.mangled = {TRUE} \/ m.resolved = {TRUE}
                             THEN r.libraryVerdict[l] ELSE "none"
               of(b) == {Hit(rule, "library", x.lib, b.path, verdict(x.lib)) :
                           x \in {y \in b.needed : EntryMatches(m, y, b, ev)}}
               h == Hit(rule, "library", e.lib, o.path, verdict(e.lib))
    <3>1. NeededHits(r, rule, m, ev) = UNION {of(b) : b \in ev.binaries}
      BY Zenon DEF NeededHits
    <3> HIDE DEF verdict
    <3>2. h.rule = rule /\ h.subject = lib
      BY <2>1 DEF Hit
    <3>3. h \in of(o)
      BY <2>1, <2>4
    <3> HIDE DEF of, h
    <3> QED
      BY <3>1, <3>2, <3>3
  <2>6. h \in MatchHits(r, rule, m, ev, rest, linkage, max)
    BY <2>4, <2>5 DEF MatchHits
  <2>7. ASSUME NEW g \in MatchHits(r, rule, m, ev, rest, linkage, max)
        PROVE  g.verdict = r.libraryVerdict[g.subject]
    <3>1. g \in NeededHits(r, rule, m, ev)
      BY <2>4, <2>7 DEF MatchHits
    <3> QED
      BY <2>4, <3>1, NeededHitsAre
  <2> QED
    BY <2>5, <2>6, <2>7, LibraryHitTells
<1> QED
  BY <1>1, <1>2, BundledBecause

\* A library that is not always reported, of which an object only says that it
\* is used, is told of for what says it, but for an entry nothing answers.
LEMMA UnknownTells ==
  ASSUME NEW r, NEW ev, NEW rest, NEW linkage, NEW max, Rated(r, ev, linkage),
         NEW lib \in Libraries \ AlwaysReport, NEW o \in ev.binaries,
         o.imported \subseteq Imported, o.forks \subseteq Forked, BinaryPosture(o, lib, ev) = "unknown"
  PROVE  \/ Tells(r, Fired(r, ev, rest, linkage, max))
         \/ \E e \in o.needed : e.lib = lib /\ NeededPosture(e, o, ev) = "unknown"
<1>0. TracesAreRated(r, lib)
  BY DEF Rated, Discerning
<1>1. ASSUME NEW rule \in RatedRules(r), NEW m \in r.matches[rule], NEW h,
             h \in MatchHits(r, rule, m, ev, rest, linkage, max), h.rule = rule
      PROVE  Tells(r, Fired(r, ev, rest, linkage, max))
  <2>1. h \in Fired(r, ev, rest, linkage, max)
    BY <1>1 DEF Fired, RatedRules
  <2>2. Sure(r, Fired(r, ev, rest, linkage, max), h)
    BY <1>1, RatedRuleIsSure
  <2> QED
    BY <2>1, <2>2 DEF Tells
<1>2. ASSUME NEW group, GroupName[<<group, lib>>] \in StringGroups(o),
             \E m \in UNION {r.matches[rule] : rule \in RatedRules(r)} :
               m.kind = "binary_string" /\ GroupName[<<group, lib>>] \in m.groups
      PROVE  Tells(r, Fired(r, ev, rest, linkage, max))
  <2>1. PICK m \in UNION {r.matches[rule] : rule \in RatedRules(r)} :
          m.kind = "binary_string" /\ GroupName[<<group, lib>>] \in m.groups
    BY <1>2
  <2>2. PICK rule \in RatedRules(r) : m \in r.matches[rule]
    BY <2>1
  <2> DEFINE name == GroupName[<<group, lib>>]
             h == Hit(rule, "string_group", name, o.path, "none")
  <2>3. name \in StringGroups(o) \cap m.groups
    BY <1>2, <2>1
  <2> HIDE DEF name
  <2>4. h \in StringHits(rule, m, ev)
    BY <2>3 DEF StringHits
  <2>5. h.rule = rule
    BY DEF Hit
  <2> HIDE DEF h
  <2>6. h \in MatchHits(r, rule, m, ev, rest, linkage, max)
    BY <2>1, <2>4 DEF MatchHits
  <2> QED
    BY <1>1, <2>2, <2>5, <2>6
<1>3. CASE lib \in o.imported
  <2>1. PICK m \in UNION {r.matches[rule] : rule \in RatedRules(r)} :
          m.kind = "dynamic_symbol" /\ lib \in m.groups /\ "imported" \in m.bindings
    BY <1>0, <1>3 DEF TracesAreRated
  <2>2. PICK rule \in RatedRules(r) : m \in r.matches[rule]
    BY <2>1
  <2> DEFINE h == Hit(rule, "symbol_group", lib, o.path, "none")
  <2>3. lib \in SymbolsOf(o, m.bindings) \cap m.groups
    BY <1>3, <2>1 DEF SymbolsOf, When
  <2>4. h \in SymbolHits(rule, m, ev)
    BY <2>3 DEF SymbolHits
  <2>5. h.rule = rule
    BY DEF Hit
  <2> HIDE DEF h
  <2>6. h \in MatchHits(r, rule, m, ev, rest, linkage, max)
    BY <2>1, <2>4 DEF MatchHits
  <2> QED
    BY <1>1, <2>2, <2>5, <2>6
<1>4. CASE lib \in o.forks
  <2>1. \E m \in UNION {r.matches[rule] : rule \in RatedRules(r)} :
          m.kind = "binary_string" /\ GroupName[<<"fork", lib>>] \in m.groups
    BY <1>0, <1>4 DEF TracesAreRated
  <2>2. GroupName[<<"fork", lib>>] \in StringGroups(o)
    BY <1>4 DEF StringGroups
  <2> QED
    BY <1>2, <2>1, <2>2
<1>5. CASE BannerSeen(o, lib) /\ lib \in CopyMarked
  <2>1. \E m \in UNION {r.matches[rule] : rule \in RatedRules(r)} :
          m.kind = "binary_string" /\ GroupName[<<"banner", lib>>] \in m.groups
    BY <1>0, <1>5 DEF TracesAreRated
  <2>2. GroupName[<<"banner", lib>>] \in StringGroups(o)
    BY <1>5 DEF StringGroups, BannerSeen
  <2> QED
    BY <1>2, <2>1, <2>2
<1>6. CASE o.crates \cap CratesOf[lib] # {}
  <2>1. PICK c \in o.crates : c \in CratesOf[lib]
    BY <1>6
  <2>2. c \in RatedCrates(r)
    <3>1. Crates(r) = RustCrates /\ o.crates \subseteq RustCrates
      BY RulesetIs
    <3> QED
      BY <2>1, <3>1, RulesetIs DEF CratesAreRated
  <2> QED
    BY <2>1, <2>2, CrateTells
<1> QED
  BY <1>3, <1>4, <1>5, <1>6, UnknownBecause

(***************************************************************************)
(* The findings in order.                                                  *)
(***************************************************************************)

\* The names that have a place.
Placed == {NameOrder[i] : i \in DOMAIN NameOrder}

\* What the rules may see names only these.
NamesPlaced(r, ev, rest, linkage) ==
  /\ ev.binaries \subseteq Objects /\ ev.components \subseteq Components
  /\ DOMAIN linkage \subseteq Libraries
  /\ \A site \in rest.sites : site.kind # "call" => site.target \in Placed

\* A hit's rule and subject have a place.
LEMMA HitIsPlaced ==
  ASSUME NEW name \in DOMAIN Rulesets, KindsAreKnown(Rulesets[name]),
         NEW ev, NEW rest, NEW linkage, NEW max, NamesPlaced(Rulesets[name], ev, rest, linkage),
         NEW h \in Fired(Rulesets[name], ev, rest, linkage, max)
  PROVE  h.rule \in Placed /\ h.subject \in Placed
<1> DEFINE r == Rulesets[name]
<1>1. h.rule \in Rules(r) /\ \E m \in r.matches[h.rule] : h \in MatchHits(r, h.rule, m, ev, rest, linkage, max)
  BY HitsMatch
<1>2. PICK m \in r.matches[h.rule] : h \in MatchHits(r, h.rule, m, ev, rest, linkage, max)
  BY <1>1
<1> DEFINE rule == h.rule
<1>3. m.kind \in MatcherKinds
  BY <1>1 DEF KindsAreKnown
<1>4. /\ Rules(r) \subseteq Placed /\ DOMAIN r.distRule \subseteq Placed /\ DOMAIN r.moduleOwner \subseteq Placed
      /\ {"none", "object", Generator} \subseteq Placed
  BY OrdersAssumption DEF Placed
<1>5. Libraries \subseteq Placed /\ RustCrates \subseteq Placed
  BY NamesAssumption DEF Placed
<1>6. \A o \in ev.binaries : /\ o.base \in Libraries \cup {"none"} /\ o.crates \subseteq RustCrates
                             /\ o.needed \subseteq Entries
                             /\ o.defined \subseteq Libraries /\ o.imported \subseteq Libraries
                             /\ StringGroups(o) \subseteq Placed
  <2> SUFFICES ASSUME NEW o \in ev.binaries
               PROVE  /\ o.base \in Libraries \cup {"none"} /\ o.crates \subseteq RustCrates
                      /\ o.needed \subseteq Entries
                      /\ o.defined \subseteq Libraries /\ o.imported \subseteq Libraries
                      /\ StringGroups(o) \subseteq Placed
    OBVIOUS
  <2>1. o \in Objects
    BY DEF NamesPlaced
  <2>2. /\ o.base \in Libraries \cup {"none"} /\ o.crates \subseteq RustCrates
        /\ o.needed \subseteq Entries
        /\ o.defined \subseteq Libraries /\ o.imported \subseteq Libraries
        /\ o.banners \subseteq Libraries /\ o.forkBanners \subseteq Libraries
        /\ o.copies \subseteq Libraries /\ o.forks \subseteq Libraries
    BY <2>1 DEF Objects
  <2>3. \A kind \in {"banner", "copy", "fork"}, lib \in Libraries : GroupName[<<kind, lib>>] \in Placed
    BY NamesAssumption DEF Placed
  <2>4. StringGroups(o) \subseteq Placed
    BY <2>2, <2>3 DEF StringGroups
  <2> QED
    BY <2>2, <2>4
<1>7. \A c \in ev.components : c.name \in Placed
  BY <1>5 DEF NamesPlaced, Components
<1> HIDE DEF r, rule
<1>8. h \in MatchHits(r, rule, m, ev, rest, linkage, max)
  BY <1>2 DEF r, rule
<1>9. h.subject \in Placed
  <2>1. CASE m.kind \in {"scan_error", "record_mismatch"}
    BY <1>4, <1>8, <2>1 DEF MatchHits, ScanErrorHits, MismatchHits, Hit
  <2>2. CASE m.kind \in {"dist_name", "requires_dist"}
    BY <1>4, <1>8, <2>2 DEF MatchHits, DistNameHits, RequiresDistHits, Hit
  <2>3. CASE m.kind \in {"wheel_generator", "no_source", "binaries_truncated"}
    BY <1>4, <1>8, <2>3 DEF MatchHits, GeneratorHits, NoSourceHits, TruncatedHits, When, Hit
  <2>4. CASE m.kind = "sbom_component"
    <3>1. h \in SbomHits(r, rule, m, ev, rest)
      BY <1>8, <2>4 DEF MatchHits
    <3> QED
      BY <1>7, <3>1, ComponentHitsAre
  <2>5. CASE m.kind = "bundled_library"
    BY <1>4, <1>5, <1>6, <1>8, <2>5 DEF MatchHits, BundledHits, Hit
  <2>6. CASE m.kind = "dt_needed"
    <3>1. h \in NeededHits(r, rule, m, ev)
      BY <1>8, <2>6 DEF MatchHits
    <3>2. PICK o \in ev.binaries : \E e \in o.needed : h.subject = e.lib
      BY <3>1, NeededHitsAre
    <3>3. PICK e \in o.needed : h.subject = e.lib
      BY <3>2
    <3>4. e.lib \in Libraries
      BY <1>6 DEF Entries
    <3> QED
      BY <1>5, <3>3, <3>4
  <2>7. CASE m.kind = "dynamic_symbol"
    BY <1>5, <1>6, <1>8, <2>7 DEF MatchHits, SymbolHits, SymbolsOf, When, Hit
  <2>8. CASE m.kind = "binary_string"
    BY <1>6, <1>8, <2>8 DEF MatchHits, StringHits, Hit
  <2>9. CASE m.kind = "rust_crate"
    <3>1. h \in CrateHits(r, rule, ev)
      BY <1>8, <2>9 DEF MatchHits
    <3>2. PICK o \in ev.binaries : h.subject \in o.crates
      BY <3>1, CrateHitsAre
    <3> QED
      BY <1>5, <1>6, <3>2
  <2>10. CASE m.kind \in {"opaque_binary", "partial_binary"}
    BY <1>4, <1>8, <2>10 DEF MatchHits, OpaqueHits, PartialHits, Hit
  <2>11. CASE m.kind = "linkage"
    <3>1. h \in LinkageHits(r, rule, m, ev, linkage)
      BY <1>8, <2>11 DEF MatchHits
    <3>2. h.subject \in DOMAIN linkage
      BY <3>1, LinkageHitsAre
    <3> QED
      BY <1>5, <3>2 DEF NamesPlaced
  <2>12. CASE m.kind = "py_import"
    BY <1>4, <1>8, <2>12 DEF MatchHits, ImportHits, Hit
  <2>13. CASE m.kind = "py_site"
    <3>1. h \in SiteHits(rule, m, rest)
      BY <1>8, <2>13 DEF MatchHits
    <3>2. PICK s \in rest.sites : h.subject = IF s.kind = "call" THEN "none" ELSE s.target
      BY <3>1 DEF SiteHits, Hit
    <3> QED
      BY <1>4, <3>2 DEF NamesPlaced
  <2> QED
    BY <1>3, <2>1, <2>2, <2>3, <2>4, <2>5, <2>6, <2>7, <2>8, <2>9, <2>10, <2>11, <2>12, <2>13 DEF MatcherKinds
<1> QED
  BY <1>1, <1>4, <1>9 DEF r

\* Findings of one rule and subject each, which have a place.
Keyed(S) ==
  /\ \A f \in S : f.rule \in Placed /\ f.subject \in Placed
  /\ \A f, g \in S : f.rule = g.rule /\ f.subject = g.subject => f = g

\* The findings of placed hits are keyed.
LEMMA FindingsAreKeyed ==
  ASSUME NEW r, NEW hits, \A h \in hits : h.rule \in Placed /\ h.subject \in Placed
  PROVE  Keyed(Findings(r, hits))
<1> DEFINE paths(rule, subject) == {g.path : g \in {x \in hits : x.rule = rule /\ x.subject = subject}}
           verdicts(rule, subject) ==
             {VerdictOf(r, g) : g \in {x \in hits : x.rule = rule /\ x.subject = subject}}
           finding(key) == [rule |-> key[1], subject |-> key[2], paths |-> paths(key[1], key[2]),
                            verdicts |-> verdicts(key[1], key[2])]
<1>1. Findings(r, hits) = {finding(key) : key \in {<<x.rule, x.subject>> : x \in hits}}
  BY Zenon DEF Findings
<1>2. ASSUME NEW f \in Findings(r, hits)
      PROVE  \E h \in hits : f = finding(<<h.rule, h.subject>>)
  <2> HIDE DEF finding
  <2> QED
    BY <1>1, <1>2
<1> HIDE DEF paths, verdicts
<1>3. \A f \in Findings(r, hits) : \E h \in hits : /\ f = finding(<<h.rule, h.subject>>)
                                                  /\ f.rule = h.rule /\ f.subject = h.subject
  BY <1>2
<1> HIDE DEF finding
<1>4. \A f \in Findings(r, hits) : /\ f = finding(<<f.rule, f.subject>>)
                                   /\ f.rule \in Placed /\ f.subject \in Placed
  BY <1>3
<1>5. \A f, g \in Findings(r, hits) : f.rule = g.rule /\ f.subject = g.subject => f = g
  BY <1>4
<1> QED
  BY <1>4, <1>5 DEF Keyed

\* Before is a strict total order of them.
LEMMA BeforeOrders ==
  ASSUME NEW S, Keyed(S)
  PROVE  /\ \A f \in S : ~Before(f, f)
         /\ \A f, g \in S : f # g => Before(f, g) \/ Before(g, f)
         /\ \A f, g, h \in S : Before(f, g) /\ Before(g, h) => Before(f, h)
<1>1. \A f \in S : /\ Name(f.rule) \in Nat /\ NameOrder[Name(f.rule)] = f.rule
                   /\ Name(f.subject) \in Nat /\ NameOrder[Name(f.subject)] = f.subject
  BY PlaceOfAName DEF Keyed, Placed
<1>2. \A f, g \in S : f # g => Name(f.rule) # Name(g.rule) \/ (f.rule = g.rule /\ Name(f.subject) # Name(g.subject))
  BY <1>1 DEF Keyed
<1> QED
  BY <1>1, <1>2 DEF Before

\* They are finitely many.
LEMMA KeyedIsFinite ==
  ASSUME NEW S, Keyed(S)
  PROVE  IsFiniteSet(S)
<1> DEFINE places == DOMAIN NameOrder
           f == [x \in S |-> <<Name(x.rule), Name(x.subject)>>]
<1>1. IsFiniteSet(places)
  <2>1. places = 1..Len(NameOrder) /\ Len(NameOrder) \in Nat
    BY NamesAssumption
  <2> HIDE DEF places
  <2> QED
    BY <2>1, FS_Interval
<1>2. \A x \in Placed : Name(x) \in places /\ NameOrder[Name(x)] = x
  BY DEF Placed, Name, Place
<1>3. f \in Injection(S, places \X places)
  <2>1. f \in [S -> places \X places]
    <3> HIDE DEF places
    <3> QED
      BY <1>2 DEF Keyed
  <2>2. \A x, y \in S : f[x] = f[y] => x = y
    BY <1>2 DEF Keyed
  <2> HIDE DEF f
  <2> QED
    BY <2>1, <2>2 DEF Injection, IsInjective
<1>4. IsFiniteSet(places \X places)
  <2> HIDE DEF places
  <2> QED
    BY <1>1, FS_Product
<1> HIDE DEF f, places
<1> QED
  BY <1>3, <1>4, FS_Injection

\* In order, each has a place of its own, and every place is one's.
LEMMA InOrderHasAll ==
  ASSUME NEW S, Keyed(S)
  PROVE  /\ Cardinality(S) \in Nat
         /\ \A i \in 1..Cardinality(S) : InOrder(S)[i] \in S
         /\ \A f \in S : \E i \in 1..Cardinality(S) : InOrder(S)[i] = f
<1> DEFINE n == Cardinality(S)
           below(f) == {g \in S : Before(g, f)}
           rank == [f \in S |-> Cardinality(below(f)) + 1]
<1>1. IsFiniteSet(S) /\ n \in Nat
  BY KeyedIsFinite, FS_CardinalityType
<1>2. \A f \in S : IsFiniteSet(below(f)) /\ Cardinality(below(f)) \in Nat
  <2> SUFFICES ASSUME NEW f \in S
               PROVE  IsFiniteSet(below(f)) /\ Cardinality(below(f)) \in Nat
    OBVIOUS
  <2>1. below(f) \in SUBSET S
    OBVIOUS
  <2> HIDE DEF below
  <2> QED
    BY <1>1, <2>1, FS_Subset, FS_CardinalityType
<1>3. ASSUME NEW f \in S, NEW g \in S, Before(f, g)
      PROVE  Cardinality(below(f)) < Cardinality(below(g))
  <2>1. below(f) \in SUBSET below(g) /\ f \in below(g) /\ f \notin below(f)
    BY <1>3, BeforeOrders
  <2> HIDE DEF below
  <2>2. /\ Cardinality(below(f)) <= Cardinality(below(g))
        /\ Cardinality(below(g)) = Cardinality(below(f)) => below(g) = below(f)
    BY <1>2, <2>1, FS_Subset
  <2> QED
    BY <1>2, <2>1, <2>2
<1>4. ASSUME NEW f \in S
      PROVE  Cardinality(below(f)) < n
  <2>1. below(f) \in SUBSET S /\ f \notin below(f)
    BY BeforeOrders
  <2> HIDE DEF below
  <2>2. Cardinality(below(f)) <= n /\ (n = Cardinality(below(f)) => S = below(f))
    BY <1>1, <2>1, FS_Subset
  <2> QED
    BY <1>1, <1>2, <2>1, <2>2
<1>5. rank \in Injection(S, 1..n)
  <2>1. rank \in [S -> 1..n]
    <3> HIDE DEF below, n
    <3> QED
      BY <1>1, <1>2, <1>4
  <2>2. \A f, g \in S : rank[f] = rank[g] => f = g
    <3> SUFFICES ASSUME NEW f \in S, NEW g \in S, f # g
                 PROVE  rank[f] # rank[g]
      OBVIOUS
    <3>1. Before(f, g) \/ Before(g, f)
      BY BeforeOrders
    <3>2. Cardinality(below(f)) # Cardinality(below(g))
      <4> HIDE DEF below
      <4> QED
        BY <1>2, <1>3, <3>1
    <3> HIDE DEF below
    <3> QED
      BY <1>2, <3>2
  <2> HIDE DEF rank
  <2> QED
    BY <2>1, <2>2 DEF Injection, IsInjective
<1>6. rank \in Surjection(S, 1..n)
  <2>1. IsFiniteSet(1..n) /\ Cardinality(1..n) = n
    BY <1>1, FS_Interval
  <2> HIDE DEF rank
  <2> QED
    BY <1>5, <2>1, FS_Injection
<1>7. \A i \in 1..n : \E f \in S : rank[f] = i
  <2> HIDE DEF rank
  <2> QED
    BY <1>6 DEF Surjection
<1>8. ASSUME NEW i \in 1..n
      PROVE  InOrder(S)[i] \in S /\ rank[InOrder(S)[i]] = i
  <2>1. InOrder(S)[i] = CHOOSE f \in S : Cardinality(below(f)) = i - 1
    BY <1>8 DEF InOrder
  <2>2. \E f \in S : Cardinality(below(f)) = i - 1
    <3> HIDE DEF below
    <3> QED
      BY <1>2, <1>7, <1>8
  <2> HIDE DEF below
  <2> QED
    BY <1>2, <2>1, <2>2
<1> HIDE DEF rank, below
<1>9. ASSUME NEW f \in S
      PROVE  \E i \in 1..n : InOrder(S)[i] = f
  <2>1. rank[f] \in 1..n /\ \A g \in S : rank[g] = rank[f] => g = f
    BY <1>5 DEF Injection, IsInjective
  <2> QED
    BY <1>8, <2>1
<1> QED
  BY <1>1, <1>8, <1>9

\* What binaries[] lists has an object of each finding that names one, where
\* there is room for one of each.
LEMMA ListedNames ==
  ASSUME NEW S, Keyed(S), NEW ev, ev.binaries \subseteq Objects, NEW max \in Nat,
         NEW f \in S, Names(f, ev) # {},
         Cardinality({g \in S : Names(g, ev) # {}}) <= max
  PROVE  f.paths \cap Listed(S, ev, max) # {}
<1> DEFINE naming == {g \in S : Names(g, ev) # {}}
           n == Cardinality(naming)
           order == InOrder(naming)
           items == {Place(PathOrder, o.path) : o \in ev.binaries}
           groups == [i \in DOMAIN order |-> Names(order[i], ev)]
<1>1. Keyed(naming)
  BY DEF Keyed
<1>2. DOMAIN order = 1..n
  <2> HIDE DEF naming
  <2> QED
    BY DEF InOrder
<1>3. /\ n \in Nat /\ \A i \in 1..n : order[i] \in naming
      /\ \A g \in naming : \E i \in 1..n : order[i] = g
  <2> HIDE DEF naming
  <2> QED
    BY <1>1, InOrderHasAll
<1>4. \A o \in ev.binaries : Place(PathOrder, o.path) \in Nat /\ PathOrder[Place(PathOrder, o.path)] = o.path
  <2> SUFFICES ASSUME NEW o \in ev.binaries
               PROVE  Place(PathOrder, o.path) \in Nat /\ PathOrder[Place(PathOrder, o.path)] = o.path
    OBVIOUS
  <2>1. o.path \in Paths
    BY DEF Objects
  <2>2. \E i \in DOMAIN PathOrder : PathOrder[i] = o.path
    BY <2>1, OrdersAssumption
  <2>3. DOMAIN PathOrder \subseteq Nat
    BY OrdersAssumption
  <2> QED
    BY <2>2, <2>3 DEF Place
<1>5. items \in SUBSET Nat
  BY <1>4
<1>6. \A g \in S : Names(g, ev) \in SUBSET items
  BY DEF Names
<1>7. PICK g \in 1..n : order[g] = f
  BY <1>3
<1> HIDE DEF order, n
<1>8. groups \in [1..n -> (SUBSET items) \ {{}}]
  <2>1. \A i \in 1..n : Names(order[i], ev) \in SUBSET items /\ Names(order[i], ev) # {}
    BY <1>3, <1>6
  <2> HIDE DEF items
  <2> QED
    BY <1>2, <2>1
<1>9. groups[g] = Names(f, ev)
  BY <1>2, <1>7
<1>10. Listed(S, ev, max) = {PathOrder[i] : i \in CapByFindings(items, groups, max)}
  BY Zenon DEF Listed, order
<1>11. n <= max
  BY DEF n
<1>12. CapByFindings(items, groups, max) \cap groups[g] # {}
  <2>1. n \in Nat /\ g \in 1..n
    BY <1>3, <1>7
  <2> HIDE DEF items, groups, naming
  <2> QED
    BY <1>5, <1>8, <1>11, <2>1, FindingsKeepAnObject
<1> HIDE DEF items, groups, naming
<1>13. PICK i \in CapByFindings(items, groups, max) : i \in Names(f, ev)
  BY <1>9, <1>12
<1>14. PICK o \in ev.binaries : o.path \in f.paths /\ i = Place(PathOrder, o.path)
  BY <1>13 DEF Names
<1> QED
  BY <1>4, <1>10, <1>13, <1>14

(***************************************************************************)
(* The invariant of scan_wheel.                                            *)
(***************************************************************************)

\* Only a ruleset that loaded is used, on evidence that has sources.
Loaded ==
  /\ input.ruleset \in DOMAIN Rulesets /\ "sources" \in DOMAIN input.rest
  /\ stage \in {"open", "layers", "gathered", "done"} => Accepted(rs)

\* The record, like the linkage, comes last.
RecordIsLast == stage # "done" => ~Reported /\ ~Resolved

\* Only what is read as Python fails to be.
UnparsedAreSources == unparsed \subseteq Sources

\* The record is of everything gathered, which the caps leave as it is; or, of a
\* wheel that could not be opened or scanned, of nothing.
RecordIsOfTheEvidence ==
  Reported =>
    IF Resolved THEN Cut(Gathered) = Gathered /\ record \in Records(rs, input.max, Gathered, Rest, answer)
    ELSE \E kind \in {"bad_zip", "unexpected_error"} :
           record \in UnreadableRecords(rs, input.max, kind)

SInv == IInv /\ Loaded /\ RecordIsLast /\ UnparsedAreSources /\ RecordIsOfTheEvidence

LEMMA InitSInv == ScanInit => SInv
<1> SUFFICES ASSUME ScanInit
             PROVE  SInv
  OBVIOUS
<1>1. IInv
  BY InitIInv DEF ScanInit
<1>2. Loaded
  BY ScansAssumption DEF ScanInit, Loaded
<1>3. record = NoRecord /\ answer = NoAnswer /\ unparsed = {}
  BY DEF ScanInit, Init
<1> QED
  BY <1>1, <1>2, <1>3 DEF SInv, RecordIsLast, UnparsedAreSources, RecordIsOfTheEvidence,
                          Reported, Resolved

\* A scan that ends without any evidence.
LEMMA UnreadableKeepsSInv ==
  ASSUME SInv, NEW kind \in {"bad_zip", "unexpected_error"}, stage \in {"open", "layers", "gathered"},
         record' \in UnreadableRecords(rs, input.max, kind), stage' = "done",
         UNCHANGED <<vars, input, unparsed>>
  PROVE  SInv'
<1>1. IInv'
  BY NextIInv DEF SInv
<1>2. Accepted(rs) /\ Loaded' /\ rs' = rs
  BY DEF SInv, Loaded, rs
<1>3. RecordIsLast' /\ ~Resolved'
  BY DEF SInv, RecordIsLast, Resolved, vars
<1>4. UnparsedAreSources'
  BY DEF SInv, UnparsedAreSources, Sources, PyFiles, PathsOf, Symlinks, vars
<1>5. RecordIsOfTheEvidence'
  BY <1>2, <1>3 DEF RecordIsOfTheEvidence
<1> QED
  BY <1>1, <1>2, <1>3, <1>4, <1>5 DEF SInv

\* What the other layers leave is settled before anything is reported.
LEMMA RestStays ==
  ASSUME UNCHANGED <<wheel, skipped, input, unparsed>>
  PROVE  Rest' = Rest
<1>1. PyFiles' = PyFiles /\ PathsOf("pyc")' = PathsOf("pyc") /\ Unreadable' = Unreadable
  BY DEF PyFiles, PathsOf, Unreadable
<1>2. SourceAvailable' = SourceAvailable
  BY <1>1 DEF SourceAvailable
<1> QED
  BY <1>1, <1>2, Zenon DEF Rest

\* What linkage resolves to is an answer.
LEMMA LinkageIsAnAnswer ==
  ASSUME NEW ev
  PROVE  ResolveLinkage(ev) # NoAnswer /\ DOMAIN ResolveLinkage(ev) \subseteq Libraries
<1> DEFINE known == {l \in Libraries : Value(l, ev) # "none" \/ l \in AlwaysReport}
<1>1. ResolveLinkage(ev) = [lib \in known |-> Value(lib, ev)]
  BY DEF ResolveLinkage
<1>2. \A lib : Value(lib, ev) \in Postures
  BY AggregateType DEF Value
<1>3. known \in SUBSET Libraries
  OBVIOUS
<1> HIDE DEF known
<1>4. ResolveLinkage(ev) \in [known -> Postures]
  BY <1>1, <1>2
<1> QED
  BY <1>3, <1>4, NoAnswerAssumption

\* A step before the record.
LEMMA NotYetReported ==
  ASSUME SInv, IInv', Loaded', record' = record, answer' = answer, stage # "done",
         UnparsedAreSources'
  PROVE  SInv'
BY DEF SInv, RecordIsLast, RecordIsOfTheEvidence, Reported, Resolved

LEMMA NextSInv == SInv /\ [ScanNext]_scanVars => SInv'
<1> SUFFICES ASSUME SInv, [ScanNext]_scanVars
             PROVE  SInv'
  OBVIOUS
<1>1. CASE Load
  <2>1. UNCHANGED <<vars, input, unparsed, record>> /\ stage = "load"
    BY <1>1 DEF Load
  <2>2. IInv' /\ UnparsedAreSources'
    BY <2>1, NextIInv DEF SInv, UnparsedAreSources, Sources, PyFiles, PathsOf, Symlinks, vars
  <2>3. Loaded'
    BY <1>1 DEF Load, SInv, Loaded, rs
  <2> QED
    BY <2>1, <2>2, <2>3, NotYetReported DEF vars
<1>2. CASE Open
  <2>1. UNCHANGED <<vars, input, unparsed, record>> /\ stage = "open" /\ stage' = "layers"
    BY <1>2 DEF Open
  <2>2. IInv' /\ UnparsedAreSources'
    BY <2>1, NextIInv DEF SInv, UnparsedAreSources, Sources, PyFiles, PathsOf, Symlinks, vars
  <2>3. Loaded'
    BY <2>1 DEF SInv, Loaded, rs
  <2> QED
    BY <2>1, <2>2, <2>3, NotYetReported DEF vars
<1>3. CASE CannotOpen
  BY <1>3, UnreadableKeepsSInv DEF CannotOpen
<1>4. CASE Interrupt
  BY <1>4, UnreadableKeepsSInv DEF Interrupt
<1>5. CASE ScanBinaries
  <2>1. /\ UNCHANGED <<input, stage, unparsed, record>> /\ stage = "layers" /\ Next
    BY <1>5 DEF ScanBinaries, Next
  <2>2. IInv'
    BY <2>1, NextIInv DEF SInv
  <2>3. answer' = answer /\ wheel' = wheel
    BY <1>5 DEF ScanBinaries, PassOver, ReadElsewhereFails, Refuse, OpenRaises, ReadRaises,
                ReadWhole, ReadPartly, ReadArchivePartly, Advance
  <2>4. Loaded'
    BY <2>1 DEF SInv, Loaded, rs
  <2>5. UnparsedAreSources'
    BY <2>1, <2>3 DEF SInv, UnparsedAreSources, Sources, PyFiles, PathsOf, Symlinks
  <2> QED
    BY <2>1, <2>2, <2>3, <2>4, <2>5, NotYetReported
<1>6. CASE ReadSources
  <2>1. /\ UNCHANGED <<vars, input, record>> /\ stage = "layers" /\ stage' = "gathered"
        /\ unparsed' \subseteq Sources
    BY <1>6 DEF ReadSources
  <2>2. IInv'
    BY <2>1, NextIInv DEF SInv
  <2>3. Loaded'
    BY <2>1 DEF SInv, Loaded, rs
  <2>4. UnparsedAreSources'
    BY <2>1 DEF UnparsedAreSources, Sources, PyFiles, PathsOf, Symlinks, vars
  <2> QED
    BY <2>1, <2>2, <2>3, <2>4, NotYetReported DEF vars
<1>7. CASE Report
  <2>1. /\ stage = "gathered" /\ stage' = "done" /\ UNCHANGED <<input, unparsed>> /\ Resolve
        /\ record' \in Records(rs, input.max, Cut(Gathered), Rest, answer')
    BY <1>7 DEF Report
  <2>2. IInv'
    BY <2>1, NextIInv DEF SInv, Next
  <2>3. Gathered' = Gathered /\ Rest' = Rest /\ UnparsedAreSources' /\ Resolved'
    <3>1. UNCHANGED <<wheel, next, binaries, errors, skipped>>
      BY <2>1 DEF Resolve
    <3>2. Resolved'
      <4>1. answer' = ResolveLinkage(Gathered)
        BY <2>1 DEF Resolve
      <4> QED
        BY <4>1, LinkageIsAnAnswer DEF Resolved
    <3> QED
      BY <2>1, <3>1, <3>2, RestStays
         DEF Gathered, Symlinks, SInv, UnparsedAreSources, Sources, PyFiles, PathsOf
  <2>4. rs' = rs /\ input' = input /\ Accepted(rs) /\ Loaded' /\ RecordIsLast'
    BY <2>1 DEF SInv, Loaded, rs, RecordIsLast
  <2>5. binaries \subseteq Objects
    BY DEF SInv, IInv, Typed
  <2>6. Cut(Gathered) = Gathered
    BY <2>4, <2>5, CutIsNothing DEF SInv, Loaded
  <2>7. Cut(Gathered)' = Gathered
    BY <2>3, <2>4, <2>6 DEF Cut
  <2>8. RecordIsOfTheEvidence'
    BY <2>1, <2>3, <2>4, <2>6, <2>7 DEF RecordIsOfTheEvidence
  <2> QED
    BY <2>2, <2>3, <2>4, <2>8 DEF SInv
<1>8. CASE UNCHANGED scanVars
  <2>1. UNCHANGED <<vars, input, stage, unparsed, record>>
    BY <1>8 DEF scanVars
  <2>2. IInv'
    BY <2>1, NextIInv DEF SInv
  <2>3. rs' = rs /\ Gathered' = Gathered /\ Rest' = Rest /\ answer' = answer
    BY <2>1, RestStays DEF rs, Gathered, Symlinks, vars
  <2>4. Loaded' /\ RecordIsLast' /\ UnparsedAreSources'
    BY <2>1, <2>3 DEF SInv, Loaded, RecordIsLast, Reported, Resolved, UnparsedAreSources, Sources,
                      PyFiles, PathsOf, Symlinks, vars
  <2>5. RecordIsOfTheEvidence'
    <3>1. Cut(Gathered)' = Cut(Gathered)
      BY <2>3 DEF Cut
    <3> QED
      BY <2>1, <2>3, <3>1 DEF SInv, RecordIsOfTheEvidence, Reported, Resolved
  <2> QED
    BY <2>2, <2>4, <2>5 DEF SInv
<1> QED
  BY <1>1, <1>2, <1>3, <1>4, <1>5, <1>6, <1>7, <1>8 DEF ScanNext

LEMMA SInvHolds == ScanSpec => []SInv
BY InitSInv, NextSInv, PTL DEF ScanSpec

(***************************************************************************)
(* The theorems.                                                           *)
(***************************************************************************)

\* What stays of all that matches in all that was gathered, with its linkage.
Stays(linkage) == ApplySuppression(rs, Fired(rs, Gathered, Rest, linkage, input.max))

\* A record with the linkage is of all that was gathered, under a ruleset that
\* loaded.
LEMMA CollectedIs ==
  ASSUME SInv, Collected
  PROVE  /\ input.ruleset \in DOMAIN Rulesets /\ Accepted(rs) /\ rs = Rulesets[input.ruleset]
         /\ Cut(Gathered) = Gathered /\ answer = ResolveLinkage(Gathered)
         /\ record \in Records(rs, input.max, Gathered, Rest, answer)
         /\ record.findings = Findings(rs, Stays(answer))
<1>1. input.ruleset \in DOMAIN Rulesets /\ Accepted(rs) /\ rs = Rulesets[input.ruleset]
  BY DEF SInv, Loaded, RecordIsLast, Collected, rs
<1>2. Cut(Gathered) = Gathered /\ record \in Records(rs, input.max, Gathered, Rest, answer)
  BY DEF SInv, RecordIsOfTheEvidence, Collected
<1>3. answer = ResolveLinkage(Gathered)
  BY DEF SInv, IInv, AnswerIsLinkages, Collected
<1>4. record.findings = Findings(rs, ApplySuppression(rs, Fired(rs, Gathered, Rest, answer, input.max)))
  BY <1>2, MadeOf
<1>5. record.findings = Findings(rs, Stays(answer))
  BY <1>4, Zenon DEF Stays
<1> QED
  BY <1>1, <1>2, <1>3, <1>5

\* Scanning a wheel does to its evidence what BinaryScan says, loading, opening
\* and an interruption aside, which leave it alone (scan.scan_wheel,
\* scan._collect).  So every theorem on BinaryScan holds of a scan.
THEOREM ScanImplements == ScanSpec => Spec
<1>1. ScanInit => Init
  BY DEF ScanInit
<1>2. [ScanNext]_scanVars => [Next]_vars
  BY DEF ScanNext, Load, Open, CannotOpen, Interrupt, ScanBinaries, ReadSources, Report, Next,
         scanVars
<1> QED
  BY <1>1, <1>2, PTL DEF ScanSpec, Spec

\* Findings give way to more specific ones and never to nothing, whatever the
\* ruleset that loaded says (engine._apply_suppression,
\* ruleset_coherence.check_suppression_acyclic).
THEOREM NothingSilenced == ScanSpec => []NothingIsSilenced
<1>1. SInv => NothingIsSilenced
  <2> SUFFICES ASSUME SInv, Reported, NEW path \in record.fired
               PROVE  \E f \in record.findings : path \in f.paths
    BY DEF NothingIsSilenced
  <2>1. input.ruleset \in DOMAIN Rulesets /\ Accepted(rs) /\ rs = Rulesets[input.ruleset]
    BY DEF SInv, Loaded, RecordIsLast, rs
  <2>2. CASE Resolved
    <3>1. record \in Records(rs, input.max, Gathered, Rest, answer)
      BY <2>2, CollectedIs DEF Collected
    <3>2. Gathered.binaries = binaries
      BY DEF Gathered, Evidence
    <3>3. \A o \in Gathered.binaries : o.crates \subseteq RustCrates
      BY <3>2 DEF Objects, SInv, IInv, Typed
    <3> QED
      BY <2>1, <3>1, <3>3, RecordsSilenceNothing
  <2>3. CASE ~Resolved
    <3>1. PICK kind : record \in UnreadableRecords(rs, input.max, kind)
      BY <2>3 DEF SInv, RecordIsOfTheEvidence
    <3>2. record \in Records(rs, input.max, Nothing, NoRest(kind), ResolveLinkage(Nothing))
      BY <3>1, Zenon DEF UnreadableRecords
    <3>3. Nothing.binaries = {}
      BY DEF Nothing, Evidence
    <3> QED
      BY <2>1, <3>2, <3>3, RecordsSilenceNothing
  <2> QED
    BY <2>2, <2>3
<1> QED
  BY <1>1, SInvHolds, PTL

\* What the caps cut off an object changes no linkage and no finding, under any
\* ruleset that loaded (caps.cap,
\* ruleset_loader._check_limits_leave_room_for_every_key).
THEOREM CapsNeverSilence == ScanSpec => []CapsSilenceNothing
<1>1. SInv => CapsSilenceNothing
  <2> SUFFICES ASSUME SInv, Collected
               PROVE  LET all == Fired(rs, Gathered, Rest, answer, input.max) IN
                      /\ ResolveLinkage(Cut(Gathered)) = answer
                      /\ {<<f.rule, f.subject, f.paths>> : f \in Findings(rs, ApplySuppression(rs, all))}
                         = {<<f.rule, f.subject, f.paths>> : f \in record.findings}
    BY Zenon DEF CapsSilenceNothing
  <2> DEFINE left == ApplySuppression(rs, Fired(rs, Gathered, Rest, answer, input.max))
  <2>1. record.findings = Findings(rs, left)
    BY CollectedIs, Zenon DEF Stays
  <2> HIDE DEF left
  <2> QED
    BY <2>1, CollectedIs DEF left
<1> QED
  BY <1>1, SInvHolds, PTL

\* A linkage an SBOM moves has a finding that says so, on that library or a
\* crate of its, in that document: no rule of a ruleset that loaded drops it
\* (linkage._declared_by_sbom, engine._match_sbom_component,
\* ruleset_coherence.validate_sbom_suppression_leaves_linkage_explained).
THEOREM DeclaredReported == ScanSpec => []DeclaredIsReported
<1>1. SInv => DeclaredIsReported
  <2> SUFFICES ASSUME SInv, Collected, NEW lib \in Libraries, DeclaredBySbom(lib, wheel.components, {})
               PROVE  \E f \in record.findings : /\ f.subject \in {lib} \cup CratesOf[lib]
                                                 /\ Rest.document \in f.paths
    BY DEF DeclaredIsReported
  <2> DEFINE left == Stays(answer)
  <2>1. record.findings = Findings(rs, left)
    BY CollectedIs
  <2>2. Accepted(Rulesets[input.ruleset]) /\ input.ruleset \in DOMAIN Rulesets
    BY CollectedIs
  <2>3. PICK c \in wheel.components : c.name \in {lib} \cup CratesOf[lib]
    BY DEF DeclaredBySbom
  <2>4. c \in Gathered.components
    BY DEF Gathered, Evidence
  <2>5. PICK k \in left : k.subject = c.name /\ k.path = Rest.document
    <3>1. ASSUME NEW rest
          PROVE  \E k \in ApplySuppression(Rulesets[input.ruleset],
                            Fired(Rulesets[input.ruleset], Gathered, rest, answer, input.max)) :
                   k.subject = c.name /\ k.path = rest.document
      BY <2>2, <2>3, <2>4, ComponentStays, ZenonT(60)
    <3> QED
      BY <3>1, Zenon DEF rs, Stays
  <2> HIDE DEF left
  <2>6. \E f \in Findings(rs, left) : f.subject = k.subject /\ k.path \in f.paths
    BY <2>5, HitMakesAFinding
  <2> QED
    BY <2>1, <2>3, <2>5, <2>6
<1> QED
  BY <1>1, SInvHolds, PTL

\* The Python of a wheel is finitely many files.
LEMMA PythonIsFinite == IInv => IsFiniteSet(PyFiles)
<1> SUFFICES ASSUME IInv
             PROVE  IsFiniteSet(PyFiles)
  OBVIOUS
<1> DEFINE all == DOMAIN wheel.members
           places == {j \in all : wheel.members[j].suffix = "py"}
           f == [i \in places |-> wheel.members[i].path]
<1>1. wheel.members \in Seq(Members)
  BY WheelsAssumption DEF IInv, Typed
<1>2. IsFiniteSet(all)
  <2>1. all = 1..Len(wheel.members) /\ Len(wheel.members) \in Nat
    BY <1>1
  <2> HIDE DEF all
  <2> QED
    BY <2>1, FS_Interval
<1>3. IsFiniteSet(places)
  BY <1>2, FS_Subset
<1>4. f \in Surjection(places, PyFiles)
  BY DEF Surjection, PyFiles, PathsOf
<1> HIDE DEF f, places
<1> QED
  BY <1>3, <1>4, FS_Surjection

\* Python none of which could be read, and no symlink for it, is told of.
LEMMA SourcesAreUnread ==
  ASSUME SInv, NoPythonRead, PyFiles = Sources
  PROVE  Rest.sources = "unread"
<1>1. unparsed = PyFiles
  BY DEF SInv, UnparsedAreSources, NoPythonRead
<1>2. IsFiniteSet(PyFiles)
  BY PythonIsFinite DEF SInv
<1>3. Cardinality(PyFiles) \in Nat
  BY <1>2, FS_CardinalityType
<1>4. ~SourceAvailable
  BY <1>1, <1>3 DEF SourceAvailable, NoPythonRead
<1>5. "sources" \in DOMAIN input.rest
  BY DEF SInv, Loaded
<1> QED
  BY <1>4, <1>5 DEF Rest

\* Where the ruleset rates all that is unread, a wheel that is not OPAQUE was read.
LEMMA NotOpaqueIsRead ==
  ASSUME SInv, RatesUnread(rs), Reported, "OPAQUE" \notin record.classes
  PROVE  /\ Resolved /\ errors = {} /\ Unreadable = {}
         /\ NoPythonRead => PyFiles # Sources
         /\ \A o \in binaries : ~IsOpaque(o) /\ (o.partial => o.reasons # {} /\ ~CostsAnAnswer(o.reasons))
<1>1. KindsAreKnown(rs)
  BY DEF SInv, Loaded, RecordIsLast, Accepted, rs
<1>2. Resolved
  <2> SUFFICES ASSUME ~Resolved
               PROVE  FALSE
    OBVIOUS
  <2>1. PICK kind \in {"bad_zip", "unexpected_error"} : record \in UnreadableRecords(rs, input.max, kind)
    BY DEF SInv, RecordIsOfTheEvidence
  <2>2. record \in Records(rs, input.max, Nothing, NoRest(kind), ResolveLinkage(Nothing))
    BY <2>1, Zenon DEF UnreadableRecords
  <2>3. [kind |-> kind, path |-> WheelPath] \in Errors(Nothing, NoRest(kind))
    BY DEF Errors, NoRest
  <2>4. [kind |-> kind, path |-> WheelPath].kind \notin {"bad_zip", "unexpected_error", "unread", "refused"}
    BY <1>1, <2>2, <2>3, UnreadIsTold
  <2> QED
    BY <2>4
<1>3. record \in Records(rs, input.max, Gathered, Rest, answer)
  BY <1>2, CollectedIs DEF Collected
<1>4. /\ \A e \in Errors(Gathered, Rest) : e.kind \notin {"bad_zip", "unexpected_error", "unread", "refused"}
      /\ Rest.sources # "unread"
      /\ \A o \in Gathered.binaries :
           ~IsOpaque(o) /\ (o.partial => o.reasons # {} /\ o.reasons \cap Costing = {})
  BY <1>1, <1>3, UnreadIsTold
<1>5. Gathered.binaries = binaries /\ Gathered.errors = errors /\ Gathered.skipped = skipped
  BY DEF Gathered, Evidence
<1>6. errors = {}
  <2> SUFFICES ASSUME NEW path \in errors
               PROVE  FALSE
    OBVIOUS
  <2>1. [kind |-> "unread", path |-> path] \in Errors(Gathered, Rest)
    BY <1>5 DEF Errors
  <2> QED
    BY <1>4, <2>1
<1>7. Unreadable = {}
  <2> SUFFICES ASSUME NEW skip \in skipped, skip[2] = "refused"
               PROVE  FALSE
    BY DEF Unreadable
  <2>1. [kind |-> skip[2], path |-> skip[1]] \in Errors(Gathered, Rest)
    BY <1>5 DEF Errors
  <2> QED
    BY <1>4, <2>1
<1>8. NoPythonRead => PyFiles # Sources
  BY <1>4, SourcesAreUnread
<1>9. \A o \in binaries : ~IsOpaque(o) /\ (o.partial => o.reasons # {} /\ ~CostsAnAnswer(o.reasons))
  <2>1. \A o \in binaries : o.reasons \subseteq Routine \cup Costing
    BY DEF SInv, IInv, Typed, Objects
  <2> QED
    BY <1>4, <1>5, <2>1 DEF CostsAnAnswer
<1> QED
  BY <1>2, <1>6, <1>7, <1>8, <1>9

\* Nothing unread passes for read, for every wheel and every way a scan may go:
\* under rulesets that rate all that is unread, as the package's own does, the
\* wheel is OPAQUE (scan._unreadable, engine._match_scan_error,
\* _match_partial_binary, inventory.build_inventory).
THEOREM UnreadOpaque ==
  ASSUME \A name \in DOMAIN Rulesets : Accepted(Rulesets[name]) => RatesUnread(Rulesets[name])
  PROVE  ScanSpec => []UnreadIsOpaque
<1>1. SInv => UnreadIsOpaque
  <2> SUFFICES ASSUME SInv, Reported, "OPAQUE" \notin record.classes
               PROVE  /\ Resolved /\ errors = {} /\ Unreadable = {}
                      /\ NoPythonRead => PyFiles # Sources
                      /\ \A o \in binaries :
                           ~IsOpaque(o) /\ (o.partial => o.reasons # {} /\ ~CostsAnAnswer(o.reasons))
    BY DEF UnreadIsOpaque
  <2>1. RatesUnread(rs)
    BY DEF SInv, Loaded, RecordIsLast, rs
  <2> QED
    BY <2>1, NotOpaqueIsRead
<1> QED
  BY <1>1, SInvHolds, PTL

\* What the theorems on NO_CRYPTO_DETECTED ask of the rulesets: the package's own,
\* and any that has its rules, is Discerning.
AllDiscerning ==
  \A name \in DOMAIN Rulesets : Accepted(Rulesets[name]) => Discerning(Rulesets[name])

\* The records of a wheel in which nothing has a class tell of nothing.
LEMMA NothingTold ==
  ASSUME AllDiscerning, SInv, Collected, record.classes = {"NO_CRYPTO_DETECTED"}
  PROVE  /\ Rated(rs, Gathered, answer)
         /\ ~Tells(rs, Fired(rs, Gathered, Rest, answer, input.max))
         /\ errors = {} /\ Unreadable = {} /\ \A r \in binaries : ~Costly(r)
<1>1. /\ input.ruleset \in DOMAIN Rulesets /\ Accepted(rs) /\ rs = Rulesets[input.ruleset]
      /\ answer = ResolveLinkage(Gathered) /\ record \in Records(rs, input.max, Gathered, Rest, answer)
  BY CollectedIs
<1>2. Discerning(rs)
  BY <1>1 DEF AllDiscerning
<1>3. Gathered.binaries = binaries /\ Gathered.errors = errors /\ Gathered.skipped = skipped
  BY DEF Gathered, Evidence
<1>4. DOMAIN answer \subseteq Libraries
  BY <1>1, LinkageIsAnAnswer
<1>5. binaries \subseteq Objects
  BY DEF SInv, IInv, Typed
<1>6. Rated(rs, Gathered, answer)
  BY <1>1, <1>2, <1>3, <1>4, <1>5 DEF Rated
<1>7. ~Tells(rs, Fired(rs, Gathered, Rest, answer, input.max))
  <2> SUFFICES ASSUME Tells(rs, Fired(rs, Gathered, Rest, answer, input.max))
               PROVE  FALSE
    OBVIOUS
  <2>1. PICK h \in Fired(rs, Gathered, Rest, answer, input.max) :
          Sure(rs, Fired(rs, Gathered, Rest, answer, input.max), h)
    BY DEF Tells
  <2> QED
    BY <1>1, <1>6, <2>1, SureIsTold
<1>8. "OPAQUE" \notin record.classes /\ Accepted(rs)
  BY <1>1
<1>9. errors = {} /\ Unreadable = {} /\ \A r \in binaries : r.partial => ~CostsAnAnswer(r.reasons)
  BY <1>1, <1>2, <1>8, NotOpaqueIsRead DEF Collected, Discerning
<1> QED
  BY <1>6, <1>7, <1>9 DEF Costly

\* A linkage NO_CRYPTO_DETECTED leaves: none; or unknown, of a library that is
\* not always reported, which an entry of some object alone made so.
LEMMA LinkageLeft ==
  ASSUME AllDiscerning, SInv, SourceInv, Collected, record.classes = {"NO_CRYPTO_DETECTED"},
         NEW lib \in DOMAIN answer
  PROVE  /\ lib \in Libraries /\ answer[lib] = Value(lib, Gathered)
         /\ \/ answer[lib] = "none"
            \/ /\ answer[lib] = "unknown" /\ lib \notin AlwaysReport
               /\ \E o \in binaries : \E e \in o.needed : NeededPosture(e, o, Gathered) = "unknown"
<1> DEFINE hits == Fired(rs, Gathered, Rest, answer, input.max)
<1>1. Rated(rs, Gathered, answer) /\ ~Tells(rs, hits)
  BY NothingTold
<1>2. lib \in Libraries /\ IInv /\ Resolved
  BY <1>1 DEF Rated, SInv, Collected
<1>3. answer[lib] = Value(lib, Gathered)
  BY <1>2, AnswerIs
<1>4. Gathered.binaries = binaries /\ Gathered.components = wheel.components
  BY DEF Gathered, Evidence
<1>5. /\ BundledIsRated(rs, lib)
      /\ \A value \in {"system", "static", "mixed"} : ValueIsRated(rs, lib, value)
      /\ lib \in AlwaysReport => ValueIsRated(rs, lib, "unknown")
  BY <1>1, <1>2 DEF Rated, Discerning
<1> DEFINE postures == ObjectPostures(lib, Gathered)
           unanswered == LeftUnanswered(Gathered) /\ lib \in AlwaysReport
           declared == DeclaredBySbom(lib, Gathered.components, {})
<1>6. postures \in SUBSET Postures /\ \A p \in postures : \E o \in binaries : p = BinaryPosture(o, lib, Gathered)
  BY <1>4, BinaryPostureType DEF ObjectPostures
<1>7. answer[lib] = Aggregate(postures, unanswered, declared)
  BY <1>3, Zenon DEF Value
<1>8. ASSUME declared
      PROVE  FALSE
  <2>1. PICK c \in wheel.components : c.name \in {lib} \cup CratesOf[lib]
    BY <1>4, <1>8 DEF DeclaredBySbom
  <2>2. wheel.components \subseteq Components
    BY WheelsAssumption DEF SInv, IInv, Typed
  <2>3. c.name \in Libraries \cup RatedCrates(rs)
    <3>1. /\ Crates(rs) = RustCrates
          /\ ({lib} \cup CratesOf[lib]) \cap Crates(rs) \subseteq RatedCrates(rs)
      BY <1>1, <1>2, RulesetIs DEF CratesAreRated
    <3> QED
      BY <1>2, <2>1, <2>2, <3>1 DEF Components
  <2>4. Tells(rs, Fired(rs, Gathered, Rest, answer, input.max))
    BY <1>1, <1>4, <2>1, <2>3, ComponentTells
  <2> QED
    BY <1>1, <2>4
<1>9. ~ValueIsRated(rs, lib, answer[lib])
  BY <1>1, LinkageTells
<1>10. answer[lib] # "bundled"
  <2> SUFFICES ASSUME answer[lib] = "bundled"
               PROVE  FALSE
    OBVIOUS
  <2>1. "bundled" \in postures
    <3>1. Aggregate(postures, unanswered, declared) \in Definite
      BY <1>7 DEF Definite
    <3> HIDE DEF postures, unanswered, declared
    <3>2. Aggregate(postures, unanswered, declared) \in postures
      BY <3>1, AggregateIsOnes
    <3> QED
      BY <1>7, <3>2
  <2>2. PICK o \in binaries : BinaryPosture(o, lib, Gathered) = "bundled"
    BY <1>6, <2>1
  <2> QED
    BY <1>1, <1>2, <1>4, <1>5, <2>2, BundledTells
<1>11. answer[lib] \in Postures
  BY <1>7, AggregateType, Zenon
<1>12. answer[lib] \in {"none", "unknown"}
  BY <1>5, <1>9, <1>10, <1>11 DEF Postures, Definite
<1>13. ASSUME answer[lib] = "unknown"
       PROVE  lib \notin AlwaysReport /\ \E o \in binaries : \E e \in o.needed : NeededPosture(e, o, Gathered) = "unknown"
  <2>1. lib \notin AlwaysReport
    BY <1>5, <1>9, <1>13
  <2>2. "unknown" \in postures
    <3>1. "unknown" \in postures \/ unanswered \/ declared
      <4>1. postures \in SUBSET Postures /\ Aggregate(postures, unanswered, declared) = "unknown"
        BY <1>6, <1>7, <1>13
      <4> HIDE DEF postures, unanswered, declared
      <4> QED
        BY <4>1, AggregateUnknown
    <3> QED
      BY <1>8, <2>1, <3>1
  <2>3. PICK o \in binaries : BinaryPosture(o, lib, Gathered) = "unknown"
    BY <1>6, <2>2
  <2>4. o.imported \subseteq Imported /\ o.forks \subseteq Forked
    BY <1>2, RecordsInventNothing
  <2> QED
    BY <1>1, <1>2, <1>4, <2>1, <2>3, <2>4, UnknownTells
<1> QED
  BY <1>2, <1>3, <1>12, <1>13

\* A linkage the record states is one its class knows of, for every wheel: under
\* rulesets that discern, what NO_CRYPTO_DETECTED leaves of one is an entry that
\* a symlink or another member of a name may answer (engine._match_linkage,
\* linkage.needed_posture).
THEOREM LinkageRated ==
  ASSUME AllDiscerning
  PROVE  ScanSpec => []LinkageIsRated
<1>1. SInv /\ SourceInv => LinkageIsRated
  <2> SUFFICES ASSUME SInv, SourceInv, Collected, record.classes = {"NO_CRYPTO_DETECTED"},
                      NEW lib \in DOMAIN record.conditions, record.conditions[lib] # "none"
               PROVE  /\ record.conditions[lib] = "unknown" /\ lib \notin AlwaysReport
                      /\ Symlinks # {} \/ \E skip \in skipped : skip[2] = "duplicate"
    BY DEF LinkageIsRated
  <2>1. record.conditions = answer
    BY CollectedIs, MadeOf
  <2>2. /\ answer[lib] = "unknown" /\ lib \notin AlwaysReport
        /\ \E o \in binaries : \E e \in o.needed : NeededPosture(e, o, Gathered) = "unknown"
    BY <2>1, LinkageLeft
  <2>3. WheelIncompletelyRead(Gathered)
    BY <2>2 DEF NeededPosture
  <2>4. errors = {} /\ Unreadable = {}
    BY NothingTold
  <2>5. Symlinks # {} \/ skipped # {}
    BY <2>3, <2>4 DEF WheelIncompletelyRead, Gathered, Evidence
  <2>6. ASSUME NEW skip \in skipped
        PROVE  skip[2] = "duplicate"
    <3>1. skip[2] \in {"refused", "duplicate"}
      BY DEF SInv, IInv, Typed, Skips
    <3>2. skip[2] # "refused"
      BY <2>4 DEF Unreadable
    <3> QED
      BY <3>1, <3>2
  <2> QED
    BY <2>1, <2>2, <2>5, <2>6
<1>2. Spec => []SourceInv
  BY SourceHolds
<1> QED
  BY <1>1, <1>2, ScanImplements, SInvHolds, PTL

\* NO_CRYPTO_DETECTED is earned, for every wheel and every way a scan may go:
\* under rulesets that discern, every member left a record that keeps what the
\* rules read, and nothing of a library, or rated crate, is in it but what one
\* that is not always reported may have in an entry (verdict.classify,
\* engine.apply_rules).
THEOREM NoCryptoEarned ==
  ASSUME AllDiscerning
  PROVE  ScanSpec => []NoCryptoIsEarned
<1>1. SInv /\ SourceInv => NoCryptoIsEarned
  <2> SUFFICES ASSUME SInv, SourceInv, Collected, record.classes = {"NO_CRYPTO_DETECTED"}
               PROVE  /\ \A c \in wheel.components : c.name \notin Libraries \cup RatedCrates(rs)
                      /\ \A i \in DOMAIN wheel.members :
                           LET m == wheel.members[i] IN
                           IsBinary(m) => /\ ~m.large
                                          /\ \A o \in ObjectsOf(m) :
                                               o.crates \cap RatedCrates(rs) = {} /\ \A lib \in Libraries :
                                               \/ ~Speaks(o, lib)
                                               \/ lib \notin AlwaysReport /\ "unknown" = BinaryPosture(o, lib, Gathered)
    BY Zenon DEF NoCryptoIsEarned
  <2>1. /\ Rated(rs, Gathered, answer) /\ ~Tells(rs, Fired(rs, Gathered, Rest, answer, input.max))
        /\ errors = {} /\ Unreadable = {} /\ \A r \in binaries : ~Costly(r)
    BY NothingTold
  <2>2. Gathered.binaries = binaries /\ Gathered.components = wheel.components
    BY DEF Gathered, Evidence
  <2>3. IInv /\ Resolved
    BY DEF SInv, Collected
  <2>4. ASSUME NEW c \in wheel.components
        PROVE  c.name \notin Libraries \cup RatedCrates(rs)
    BY <2>1, <2>2, ComponentTells
  <2>5. ASSUME NEW i \in DOMAIN wheel.members, IsBinary(wheel.members[i])
        PROVE  /\ ~wheel.members[i].large
               /\ \A o \in ObjectsOf(wheel.members[i]) : \E r \in binaries : Kept(o, r)
    <3>1. i \in 1..(next - 1)
      <4>1. wheel.members \in Seq(Members)
        BY <2>3, WheelsAssumption DEF IInv, Typed
      <4> QED
        BY <2>3, <4>1 DEF IInv, AnswerIsLinkages
    <3>2. ~wheel.members[i].large
      <4> SUFFICES ASSUME wheel.members[i].large
                   PROVE  FALSE
        OBVIOUS
      <4>1. <<wheel.members[i].path, "refused">> \in skipped
        BY <2>3, <2>5, <3>1 DEF IInv, Accounted
      <4>2. wheel.members[i].path \in Unreadable
        BY <4>1 DEF Unreadable
      <4> QED
        BY <2>1, <4>2
    <3> QED
      BY <2>1, <2>3, <2>5, <3>1, <3>2 DEF IInv, Accounted
  <2>6. ASSUME NEW i \in DOMAIN wheel.members, IsBinary(wheel.members[i]),
               NEW o \in ObjectsOf(wheel.members[i])
        PROVE  o.crates \cap RatedCrates(rs) = {}
    <3>1. PICK r \in binaries : Kept(o, r)
      BY <2>5, <2>6
    <3>2. r.crates \cap RatedCrates(rs) = {}
      BY <2>1, <2>2, CrateTells
    <3> QED
      BY <3>1, <3>2 DEF Kept
  <2>7. ASSUME NEW i \in DOMAIN wheel.members, IsBinary(wheel.members[i]),
               NEW o \in ObjectsOf(wheel.members[i]), NEW lib \in Libraries, Speaks(o, lib)
        PROVE  lib \notin AlwaysReport /\ "unknown" = BinaryPosture(o, lib, Gathered)
    <3>1. PICK r \in binaries : Kept(o, r)
      BY <2>5, <2>7
    <3> DEFINE posture == BinaryPosture(r, lib, Gathered)
               postures == ObjectPostures(lib, Gathered)
               unanswered == LeftUnanswered(Gathered) /\ lib \in AlwaysReport
               declared == DeclaredBySbom(lib, Gathered.components, {})
    <3>2. posture # "none"
      BY <2>7, <3>1, NoneIsSilent DEF Kept, Speaks
    <3>3. postures \in SUBSET Postures /\ posture \in postures
      BY <2>2, BinaryPostureType DEF ObjectPostures
    <3>4. Value(lib, Gathered) = Aggregate(postures, unanswered, declared)
      BY Zenon DEF Value
    <3>5. Value(lib, Gathered) # "none"
      <4> HIDE DEF posture, postures, unanswered, declared
      <4> QED
        BY <3>2, <3>3, <3>4, AggregateNone
    <3>6. lib \in DOMAIN answer
      BY <2>3, <3>5, AnswerIs
    <3>7. Value(lib, Gathered) = "unknown" /\ lib \notin AlwaysReport
      BY <3>5, <3>6, LinkageLeft
    <3>8. posture = "unknown"
      <4> HIDE DEF posture, postures, unanswered, declared
      <4> QED
        BY <3>2, <3>3, <3>4, <3>7, AggregateUnknown
    <3> QED
      BY <3>1, <3>7, <3>8, KeptUnknown
  <2> HIDE DEF Speaks
  <2> QED
    BY <2>4, <2>5, <2>6, <2>7
<1>2. Spec => []SourceInv
  BY SourceHolds
<1> QED
  BY <1>1, <1>2, ScanImplements, SInvHolds, PTL

\* The input of a scan is one of those to do, throughout.
InputIsAScans == \E scan \in Scans : input = scan.input

LEMMA InputHolds == ScanSpec => []InputIsAScans
<1>1. ScanInit => InputIsAScans
  BY DEF ScanInit, InputIsAScans
<1>2. InputIsAScans /\ [ScanNext]_scanVars => InputIsAScans'
  BY DEF InputIsAScans, ScanNext, Load, Open, CannotOpen, Interrupt, ScanBinaries, ReadSources, Report,
         scanVars
<1> QED
  BY <1>1, <1>2, PTL DEF ScanSpec

\* Every finding that names objects has one of them in binaries[] where there is
\* room for one each, for any ruleset that loaded and any cap: findings are one
\* to a rule and subject, so the order they are visited in passes none over
\* (record._cap_by_findings).
THEOREM FindingsKeepObjects == ScanSpec => []EveryFindingKeepsAnObject
<1>1. SInv /\ InputIsAScans => EveryFindingKeepsAnObject
  <2> DEFINE naming == {f \in record.findings : \E o \in binaries : o.path \in f.paths}
  <2> SUFFICES ASSUME SInv, InputIsAScans, Collected, Cardinality(naming) <= input.max, NEW f \in naming
               PROVE  f.paths \cap record.listed # {}
    BY DEF EveryFindingKeepsAnObject
  <2>1. /\ input.ruleset \in DOMAIN Rulesets /\ Accepted(rs) /\ rs = Rulesets[input.ruleset]
        /\ answer = ResolveLinkage(Gathered) /\ record \in Records(rs, input.max, Gathered, Rest, answer)
        /\ record.findings = Findings(rs, Stays(answer))
    BY CollectedIs
  <2>2. Gathered.binaries = binaries /\ Gathered.components = wheel.components
    BY DEF Gathered, Evidence
  <2>3. PICK scan \in Scans : input = scan.input
    BY DEF InputIsAScans
  <2>4. input.max \in Nat
    BY <2>3, OrdersAssumption
  <2>5. NamesPlaced(rs, Gathered, Rest, answer)
    <3>1. binaries \subseteq Objects /\ wheel.components \subseteq Components
      BY WheelsAssumption DEF SInv, IInv, Typed
    <3>2. DOMAIN answer \subseteq Libraries
      BY <2>1, LinkageIsAnAnswer
    <3>3. "sites" \in DOMAIN input.rest
      BY <2>3, ScansAssumption
    <3>4. Rest.sites \subseteq input.rest.sites
      BY <3>3 DEF Rest
    <3>5. \A site \in input.rest.sites : site.kind # "call" => site.target \in Placed
      BY <2>3, OrdersAssumption DEF Placed
    <3> QED
      BY <2>2, <3>1, <3>2, <3>4, <3>5 DEF NamesPlaced
  <2>6. \A h \in Stays(answer) : h.rule \in Placed /\ h.subject \in Placed
    <3>1. \A h \in Fired(rs, Gathered, Rest, answer, input.max) : h.rule \in Placed /\ h.subject \in Placed
      <4>1. KindsAreKnown(Rulesets[input.ruleset]) /\ NamesPlaced(Rulesets[input.ruleset], Gathered, Rest, answer)
        BY <2>1, <2>5, Zenon DEF Accepted
      <4>2. \A h \in Fired(Rulesets[input.ruleset], Gathered, Rest, answer, input.max) :
              h.rule \in Placed /\ h.subject \in Placed
        BY <2>1, <4>1, HitIsPlaced
      <4> QED
        BY <2>1, <4>2
    <3> QED
      BY <3>1 DEF Stays, ApplySuppression
  <2>7. Keyed(record.findings)
    BY <2>1, <2>6, FindingsAreKeyed
  <2>8. \A g \in record.findings : Names(g, Gathered) # {} <=> \E o \in binaries : o.path \in g.paths
    BY <2>2 DEF Names
  <2>9. naming = {g \in record.findings : Names(g, Gathered) # {}} /\ Names(f, Gathered) # {}
    BY <2>8
  <2>10. record.listed = Listed(record.findings, Gathered, input.max)
    BY <2>1, MadeOf
  <2>11. binaries \subseteq Objects /\ f \in record.findings
    BY DEF SInv, IInv, Typed
  <2> HIDE DEF naming
  <2>12. f.paths \cap Listed(record.findings, Gathered, input.max) # {}
    BY <2>2, <2>4, <2>7, <2>9, <2>11, ListedNames
  <2> QED
    BY <2>10, <2>12
<1> QED
  BY <1>1, InputHolds, SInvHolds, PTL
=============================================================================
