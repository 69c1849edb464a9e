---------------------------- MODULE Suppression ----------------------------
(***************************************************************************)
(* suppressed_by: a finding gives way to a more specific one on the same   *)
(* object.  What engine._apply_suppression drops, which crates drop a      *)
(* crate's SBOM finding (Ruleset.crate_suppressors), and what a ruleset    *)
(* must satisfy for none of it to go wrong (ruleset_coherence).            *)
(*                                                                         *)
(* Of a ruleset rs this module reads                                       *)
(*   suppressedBy  of each rule, the rules it gives way to;                *)
(*   owner         of each [[rust_crate]], the rule that reports it, or    *)
(*                 "none";                                                 *)
(*   crateBy       of each [[rust_crate]], the crates it gives way to;     *)
(*   tables        of each rule, the tables its sbom_component matches     *)
(*                 look in.                                                *)
(* A hit has a rule, a subject, a kind, the path it is located on, and by: *)
(* the <<rule, subject>> pairs it gives way to itself.                     *)
(***************************************************************************)
Rules(rs) == DOMAIN rs.suppressedBy
Crates(rs) == DOMAIN rs.owner

\* The names a ruleset uses are names it defines (_validate_rule_references,
\* _entry_rule).
NamesAreDefined(rs) ==
  /\ "none" \notin Rules(rs)
  /\ \A rule \in Rules(rs) : rs.suppressedBy[rule] \subseteq Rules(rs)
  /\ \A crate \in Crates(rs) : /\ rs.owner[crate] \in Rules(rs) \cup {"none"}
                              /\ rs.crateBy[crate] \subseteq Crates(rs)

\* The tables that move a linkage when an SBOM names an entry of theirs.
Moving == {"crypto_library", "rust_crate"}

----------------------------------------------------------------------------
(* What gives way.                                                         *)

\* RustCrateEntry.suppressed_by.
EntrySuppressors(rs, crate) == {<<rs.owner[other], other>> : other \in rs.crateBy[crate]}

\* The other crates whose finding drops this one's: its own, and those whose
\* rule its rule gives way to.
CrateSuppressors(rs, crate) ==
  rs.crateBy[crate]
  \cup {other \in Crates(rs) \ {crate} :
          rs.owner[crate] # "none" /\ rs.owner[other] \in rs.suppressedBy[rs.owner[crate]]}

\* What a hit gives way to itself: the crates its [[rust_crate]] entry names;
\* for a component that resolves to such an entry, the same rule's findings for
\* the crates that drop it; for any other hit, nothing.
Fits(rs, h) ==
  /\ h.rule \in Rules(rs)
  /\ h.by # {} =>
       \/ /\ h.kind = "crate" /\ h.subject \in Crates(rs)
          /\ rs.owner[h.subject] \in {h.rule, "none"}
          /\ h.by = EntrySuppressors(rs, h.subject)
       \/ /\ h.kind = "component" /\ h.entry \in Crates(rs)
          /\ h.subject \in Crates(rs) => h.subject = h.entry
          /\ rs.tables[h.rule] \cap Moving # {}
          /\ h.by = {<<h.rule, other>> : other \in CrateSuppressors(rs, h.entry)}

\* g has h give way.
Drops(rs, g, h) ==
  /\ g.path = h.path
  /\ g.rule \in rs.suppressedBy[h.rule] \/ <<g.rule, g.subject>> \in h.by

\* Mutant: a suppressor counts wherever in the wheel it fired.
ApplySuppressionAnywhere(rs, hits) ==
  {h \in hits : \A g \in hits :
     g.rule \notin rs.suppressedBy[h.rule] /\ <<g.rule, g.subject>> \notin h.by}

\* Every hit that fired is read before any is dropped: a hit that gives way
\* still has others give way.
ApplySuppression(rs, hits) == {h \in hits : \A g \in hits : ~Drops(rs, g, h)}

----------------------------------------------------------------------------
(* What the loader refuses.                                                *)

RuleNode(rule) == <<"rule", rule>>
CrateNode(crate) == <<"crate", crate>>

\* What check_suppression_acyclic follows: u gives way to v.
RuleEdges(rs) ==
  UNION {{<<RuleNode(rule), RuleNode(other)>> : other \in rs.suppressedBy[rule]} : rule \in Rules(rs)}
CrateEdges(rs, crate) ==
  LET owner == rs.owner[crate] IN
  IF owner = "none" THEN {}
  ELSE {<<CrateNode(crate), RuleNode(other)>> : other \in rs.suppressedBy[owner]}
       \cup {<<CrateNode(crate), CrateNode(other)>> : other \in rs.crateBy[crate]}
       \cup IF rs.crateBy[crate] = {} THEN {} ELSE {<<RuleNode(owner), CrateNode(crate)>>}

\* Mutant: the check follows the rules' suppressed_by alone.
EdgesOfRules(rs) == RuleEdges(rs)

Edges(rs) == RuleEdges(rs) \cup UNION {CrateEdges(rs, crate) : crate \in Crates(rs)}

\* No set of nodes in which each gives way to one of the set.
Acyclic(rs) ==
  LET edges == Edges(rs) IN
  \A S \in SUBSET {e[1] : e \in edges} :
    S # {} => \E u \in S : \A v \in S : <<u, v>> \notin edges

\* Every crate that gives way, and every one it gives way to, has one rule.
CratesAreOwned(rs) ==
  \A crate \in Crates(rs) : rs.crateBy[crate] # {} =>
    /\ rs.owner[crate] # "none" /\ crate \notin rs.crateBy[crate]
    /\ \A other \in rs.crateBy[crate] : rs.owner[other] # "none"

\* The moving tables are reported on, by rules that never give way.
SbomIsCovered(rs) ==
  /\ Moving \subseteq UNION {rs.tables[rule] : rule \in Rules(rs)}
  /\ \A rule \in Rules(rs) : rs.tables[rule] \cap Moving # {} => rs.suppressedBy[rule] = {}

\* check_suppression_acyclic, validate_sbom_component_coverage and the checks
\* of parse_ruleset on [[rust_crate]] entries.
Coherent(rs) == NamesAreDefined(rs) /\ CratesAreOwned(rs) /\ SbomIsCovered(rs) /\ Acyclic(rs)
=============================================================================
