------------------------- MODULE SuppressionProofs -------------------------
(***************************************************************************)
(* What a ruleset that loads promises of suppression: it never takes the   *)
(* last finding of an object or a document.                                *)
(***************************************************************************)
EXTENDS Suppression, TLAPS

----------------------------------------------------------------------------
(* The edges check_suppression_acyclic follows.                            *)

\* A rule gives way to the rules its suppressed_by names.
LEMMA RuleToRule ==
  ASSUME NEW rs, NEW rule \in Rules(rs), NEW other \in rs.suppressedBy[rule]
  PROVE  <<RuleNode(rule), RuleNode(other)>> \in Edges(rs)
BY DEF Edges, RuleEdges

\* A crate's rule gives way to the crate when the crate gives way to another.
LEMMA RuleToCrate ==
  ASSUME NEW rs, NEW crate \in Crates(rs), rs.owner[crate] # "none", rs.crateBy[crate] # {}
  PROVE  <<RuleNode(rs.owner[crate]), CrateNode(crate)>> \in Edges(rs)
<1>1. <<RuleNode(rs.owner[crate]), CrateNode(crate)>> \in CrateEdges(rs, crate)
  BY DEF CrateEdges
<1> QED
  BY <1>1 DEF Edges

\* A crate gives way to what its rule gives way to.
LEMMA CrateToRule ==
  ASSUME NEW rs, NEW crate \in Crates(rs), rs.owner[crate] # "none",
         NEW other \in rs.suppressedBy[rs.owner[crate]]
  PROVE  <<CrateNode(crate), RuleNode(other)>> \in Edges(rs)
<1>1. <<CrateNode(crate), RuleNode(other)>> \in CrateEdges(rs, crate)
  BY DEF CrateEdges
<1> QED
  BY <1>1 DEF Edges

\* A crate gives way to the crates its suppressed_by names.
LEMMA CrateToCrate ==
  ASSUME NEW rs, NEW crate \in Crates(rs), rs.owner[crate] # "none",
         NEW other \in rs.crateBy[crate]
  PROVE  <<CrateNode(crate), CrateNode(other)>> \in Edges(rs)
<1>1. <<CrateNode(crate), CrateNode(other)>> \in CrateEdges(rs, crate)
  BY DEF CrateEdges
<1> QED
  BY <1>1 DEF Edges

\* No set of nodes each of which gives way to another of the set.
LEMMA NoneGivesWayForever ==
  ASSUME NEW rs, Acyclic(rs), NEW S, \A u \in S : \E v \in S : <<u, v>> \in Edges(rs)
  PROVE  S = {}
<1>1. S \in SUBSET {e[1] : e \in Edges(rs)}
  <2> SUFFICES ASSUME NEW u \in S
               PROVE  u \in {e[1] : e \in Edges(rs)}
    OBVIOUS
  <2>1. PICK v \in S : <<u, v>> \in Edges(rs)
    OBVIOUS
  <2>2. <<u, v>>[1] = u
    OBVIOUS
  <2> QED
    BY <2>1, <2>2
<1> QED
  BY <1>1 DEF Acyclic

----------------------------------------------------------------------------
(* The hits of one path, were all of them to give way.                     *)

\* A component's finding that names the crates it gives way to.
Component(h) == h.kind = "component" /\ h.by # {}

\* Every one of the hits gives way to one of them.
AllGiveWay(rs, hits) ==
  /\ \A h \in hits : Fits(rs, h)
  /\ \A h \in hits : \E g \in hits : g.rule \in rs.suppressedBy[h.rule] \/ <<g.rule, g.subject>> \in h.by

\* A hit that does not give way through its rule, and is not a component's, is
\* a crate's finding, under the crate's own rule, for a crate that gives way.
LEMMA CrateGivesWay ==
  ASSUME NEW rs, CratesAreOwned(rs), NEW h, Fits(rs, h), ~Component(h), h.by # {}
  PROVE  /\ h.subject \in Crates(rs) /\ rs.owner[h.subject] = h.rule /\ h.rule # "none"
         /\ rs.crateBy[h.subject] # {} /\ h.by = EntrySuppressors(rs, h.subject)
<1>1. /\ h.subject \in Crates(rs) /\ rs.owner[h.subject] \in {h.rule, "none"}
      /\ h.by = EntrySuppressors(rs, h.subject)
  BY DEF Fits, Component
<1>2. rs.crateBy[h.subject] # {}
  BY <1>1 DEF EntrySuppressors
<1> QED
  BY <1>1, <1>2 DEF CratesAreOwned

\* What a component's finding gives way to: the same rule's finding for another
\* crate, which is a component's too, or that crate's own under its own rule.
LEMMA ComponentGivesWay ==
  ASSUME NEW rs, Coherent(rs), NEW hits, AllGiveWay(rs, hits),
         NEW h \in hits, Component(h)
  PROVE  /\ h.entry \in Crates(rs) /\ rs.owner[h.entry] # "none"
         /\ h.subject \in Crates(rs) => h.subject = h.entry
         /\ \E g \in hits :
              /\ g.rule = h.rule /\ g.subject \in CrateSuppressors(rs, h.entry)
              /\ g.subject \in Crates(rs)
              /\ ~Component(g) => rs.owner[g.subject] = g.rule
<1>1. /\ h.entry \in Crates(rs)
      /\ h.subject \in Crates(rs) => h.subject = h.entry
      /\ rs.tables[h.rule] \cap Moving # {} /\ h.rule \in Rules(rs)
      /\ h.by = {<<h.rule, other>> : other \in CrateSuppressors(rs, h.entry)}
  BY DEF AllGiveWay, Fits, Component
<1>2. rs.suppressedBy[h.rule] = {}
  BY <1>1 DEF Coherent, SbomIsCovered
<1>3. PICK g \in hits : <<g.rule, g.subject>> \in h.by
  BY <1>2 DEF AllGiveWay
<1>4. PICK other \in CrateSuppressors(rs, h.entry) : <<g.rule, g.subject>> = <<h.rule, other>>
  BY <1>1, <1>3
<1>5. g.rule = h.rule /\ g.subject \in CrateSuppressors(rs, h.entry)
  BY <1>4
<1>6. g.subject \in Crates(rs)
  BY <1>1, <1>5 DEF CrateSuppressors, Coherent, NamesAreDefined
<1>7. rs.owner[h.entry] # "none"
  BY <1>1, <1>5 DEF CrateSuppressors, Coherent, CratesAreOwned
<1>8. ASSUME ~Component(g)
      PROVE  rs.owner[g.subject] = g.rule
  <2>1. g.by # {}
    BY <1>2, <1>5 DEF AllGiveWay
  <2> QED
    BY <1>8, <2>1, CrateGivesWay DEF AllGiveWay, Coherent
<1> QED
  BY <1>1, <1>5, <1>6, <1>7, <1>8

\* From a component's crate, and from that crate's rule, an edge leads to the
\* crate its finding gives way to, or to that crate's rule.
LEMMA ComponentEdges ==
  ASSUME NEW rs, Coherent(rs), NEW crate \in Crates(rs), rs.owner[crate] # "none",
         NEW other \in CrateSuppressors(rs, crate),
         NEW S, CrateNode(crate) \in S, CrateNode(other) \in S, RuleNode(rs.owner[other]) \in S
  PROVE  /\ \E v \in S : <<CrateNode(crate), v>> \in Edges(rs)
         /\ \E v \in S : <<RuleNode(rs.owner[crate]), v>> \in Edges(rs)
<1>1. CASE other \in rs.crateBy[crate]
  <2>1. <<CrateNode(crate), CrateNode(other)>> \in Edges(rs)
    BY <1>1, CrateToCrate
  <2>2. <<RuleNode(rs.owner[crate]), CrateNode(crate)>> \in Edges(rs)
    BY <1>1, RuleToCrate
  <2> QED
    BY <2>1, <2>2
<1>2. CASE rs.owner[other] \in rs.suppressedBy[rs.owner[crate]]
  <2>1. rs.owner[crate] \in Rules(rs)
    BY DEF Coherent, NamesAreDefined
  <2>2. <<CrateNode(crate), RuleNode(rs.owner[other])>> \in Edges(rs)
    BY <1>2, CrateToRule
  <2>3. <<RuleNode(rs.owner[crate]), RuleNode(rs.owner[other])>> \in Edges(rs)
    BY <1>2, <2>1, RuleToRule
  <2> QED
    BY <2>2, <2>3
<1> QED
  BY <1>1, <1>2 DEF CrateSuppressors

\* No rule's hits are all components': their crates would give way in a circle.
LEMMA NotComponentsAlone ==
  ASSUME NEW rs, Coherent(rs), NEW hits, AllGiveWay(rs, hits), NEW h \in hits
  PROVE  \E g \in hits : g.rule = h.rule /\ ~Component(g)
<1> SUFFICES ASSUME \A g \in hits : g.rule = h.rule => Component(g)
             PROVE  FALSE
  OBVIOUS
<1> DEFINE mine == {g \in hits : g.rule = h.rule}
           S == {CrateNode(g.entry) : g \in mine} \cup {RuleNode(rs.owner[g.entry]) : g \in mine}
<1>1. ASSUME NEW g \in mine
      PROVE  /\ \E v \in S : <<CrateNode(g.entry), v>> \in Edges(rs)
             /\ \E v \in S : <<RuleNode(rs.owner[g.entry]), v>> \in Edges(rs)
  <2>1. Component(g)
    OBVIOUS
  <2>2. PICK k \in hits : /\ k.rule = g.rule /\ k.subject \in CrateSuppressors(rs, g.entry)
                          /\ k.subject \in Crates(rs)
    BY <2>1, ComponentGivesWay
  <2>3. k \in mine /\ Component(k)
    BY <2>2
  <2>4. k.entry = k.subject
    BY <2>2, <2>3, ComponentGivesWay
  <2>5. g.entry \in Crates(rs) /\ rs.owner[g.entry] # "none"
    BY <2>1, ComponentGivesWay
  <2>6. CrateNode(g.entry) \in S /\ CrateNode(k.subject) \in S /\ RuleNode(rs.owner[k.subject]) \in S
    BY <2>3, <2>4
  <2> HIDE DEF S, mine
  <2> QED
    BY <2>2, <2>5, <2>6, ComponentEdges
<1>2. \A u \in S : \E v \in S : <<u, v>> \in Edges(rs)
  <2> SUFFICES ASSUME NEW u \in S
               PROVE  \E v \in S : <<u, v>> \in Edges(rs)
    OBVIOUS
  <2>1. PICK g \in mine : u = CrateNode(g.entry) \/ u = RuleNode(rs.owner[g.entry])
    OBVIOUS
  <2> HIDE DEF S, mine
  <2> QED
    BY <1>1, <2>1
<1>3. CrateNode(h.entry) \in S
  OBVIOUS
<1> HIDE DEF S, mine
<1>4. S = {}
  BY <1>2, NoneGivesWayForever DEF Coherent
<1> QED
  BY <1>3, <1>4

\* The hits of one path cannot all give way.
LEMMA SomeStays ==
  ASSUME NEW rs, Coherent(rs), NEW hits, AllGiveWay(rs, hits)
  PROVE  hits = {}
<1> DEFINE owned == {g \in hits : /\ ~Component(g) /\ g.subject \in Crates(rs)
                                  /\ rs.owner[g.subject] = g.rule}
           named == {g \in hits : Component(g)}
           S == {RuleNode(g.rule) : g \in hits} \cup {CrateNode(g.subject) : g \in owned}
                \cup {CrateNode(g.entry) : g \in named} \cup {RuleNode(rs.owner[g.entry]) : g \in named}
<1>1. \A g \in hits : RuleNode(g.rule) \in S
  OBVIOUS
<1>2. \A g \in hits : g.subject \in Crates(rs) /\ (~Component(g) => rs.owner[g.subject] = g.rule)
        => CrateNode(g.subject) \in S /\ RuleNode(rs.owner[g.subject]) \in S
  <2> SUFFICES ASSUME NEW g \in hits, g.subject \in Crates(rs),
                      ~Component(g) => rs.owner[g.subject] = g.rule
               PROVE  CrateNode(g.subject) \in S /\ RuleNode(rs.owner[g.subject]) \in S
    OBVIOUS
  <2>1. CASE Component(g)
    <3>1. g.subject = g.entry
      BY <2>1, ComponentGivesWay
    <3>2. g \in named
      BY <2>1
    <3> QED
      BY <3>1, <3>2
  <2>2. CASE ~Component(g)
    <3>1. g \in owned /\ rs.owner[g.subject] = g.rule
      BY <2>2
    <3> QED
      BY <3>1
  <2> QED
    BY <2>1, <2>2
<1>3. ASSUME NEW g \in hits, ~Component(g)
      PROVE  /\ \E v \in S : <<RuleNode(g.rule), v>> \in Edges(rs)
             /\ g \in owned => \E v \in S : <<CrateNode(g.subject), v>> \in Edges(rs)
  <2>1. g.rule \in Rules(rs) /\ g.rule # "none" /\ Fits(rs, g)
    BY DEF AllGiveWay, Fits, Coherent, NamesAreDefined
  <2>2. g \in owned => g.subject \in Crates(rs) /\ rs.owner[g.subject] = g.rule
    OBVIOUS
  <2>3. PICK k \in hits : k.rule \in rs.suppressedBy[g.rule] \/ <<k.rule, k.subject>> \in g.by
    BY DEF AllGiveWay
  <2>4. RuleNode(k.rule) \in S
    BY <1>1
  <2> HIDE DEF S, owned, named
  <2>5. CASE k.rule \in rs.suppressedBy[g.rule]
    <3>1. <<RuleNode(g.rule), RuleNode(k.rule)>> \in Edges(rs)
      BY <2>1, <2>5, RuleToRule
    <3>2. g \in owned => <<CrateNode(g.subject), RuleNode(k.rule)>> \in Edges(rs)
      BY <2>1, <2>2, <2>5, CrateToRule
    <3> QED
      BY <2>4, <3>1, <3>2
  <2>6. CASE <<k.rule, k.subject>> \in g.by
    <3>1. /\ g.subject \in Crates(rs) /\ rs.owner[g.subject] = g.rule /\ rs.crateBy[g.subject] # {}
          /\ g.by = EntrySuppressors(rs, g.subject)
      BY <1>3, <2>1, <2>6, CrateGivesWay DEF Coherent
    <3>2. PICK other \in rs.crateBy[g.subject] : <<k.rule, k.subject>> = <<rs.owner[other], other>>
      BY <2>6, <3>1 DEF EntrySuppressors
    <3>3. k.subject \in rs.crateBy[g.subject] /\ rs.owner[k.subject] = k.rule
      BY <3>2
    <3>4. k.subject \in Crates(rs)
      BY <3>1, <3>3 DEF Coherent, NamesAreDefined
    <3>5. CrateNode(k.subject) \in S
      BY <1>2, <3>3, <3>4
    <3>6. CrateNode(g.subject) \in S
      BY <1>2, <3>1
    <3>7. <<RuleNode(g.rule), CrateNode(g.subject)>> \in Edges(rs)
      BY <2>1, <3>1, RuleToCrate
    <3>8. <<CrateNode(g.subject), CrateNode(k.subject)>> \in Edges(rs)
      BY <2>1, <3>1, <3>3, CrateToCrate
    <3> QED
      BY <3>5, <3>6, <3>7, <3>8
  <2> QED
    BY <2>3, <2>5, <2>6
<1>4. ASSUME NEW g \in named
      PROVE  /\ \E v \in S : <<CrateNode(g.entry), v>> \in Edges(rs)
             /\ \E v \in S : <<RuleNode(rs.owner[g.entry]), v>> \in Edges(rs)
  <2>1. g.entry \in Crates(rs) /\ rs.owner[g.entry] # "none"
    BY ComponentGivesWay
  <2>2. PICK k \in hits : /\ k.rule = g.rule /\ k.subject \in CrateSuppressors(rs, g.entry)
                          /\ k.subject \in Crates(rs)
                          /\ ~Component(k) => rs.owner[k.subject] = k.rule
    BY ComponentGivesWay
  <2>3. CrateNode(g.entry) \in S
    OBVIOUS
  <2>4. CrateNode(k.subject) \in S /\ RuleNode(rs.owner[k.subject]) \in S
    BY <1>2, <2>2
  <2> HIDE DEF S, owned, named
  <2> QED
    BY <2>1, <2>2, <2>3, <2>4, ComponentEdges
<1>5. ASSUME NEW u \in S
      PROVE  \E v \in S : <<u, v>> \in Edges(rs)
  <2>1. CASE \E g \in hits : u = RuleNode(g.rule)
    <3>1. PICK g \in hits : u = RuleNode(g.rule)
      BY <2>1
    <3>2. PICK k \in hits : k.rule = g.rule /\ ~Component(k)
      BY NotComponentsAlone
    <3> HIDE DEF S, owned, named
    <3> QED
      BY <1>3, <3>1, <3>2
  <2>2. CASE \E g \in owned : u = CrateNode(g.subject)
    <3>1. PICK g \in owned : u = CrateNode(g.subject)
      BY <2>2
    <3>2. g \in hits /\ ~Component(g)
      OBVIOUS
    <3> HIDE DEF S, owned, named
    <3> QED
      BY <1>3, <3>1, <3>2
  <2>3. CASE \E g \in named : u = CrateNode(g.entry) \/ u = RuleNode(rs.owner[g.entry])
    <3> HIDE DEF S, owned, named
    <3> QED
      BY <1>4, <2>3
  <2> QED
    BY <2>1, <2>2, <2>3
<1>6. \A g \in hits : RuleNode(g.rule) \in S
  BY <1>1
<1> HIDE DEF S, owned, named
<1>7. S = {}
  BY <1>5, NoneGivesWayForever DEF Coherent
<1> QED
  BY <1>6, <1>7

\* Of hits that give way only to one another, one stays on every object.
LEMMA OneOfThemStays ==
  ASSUME NEW rs, Coherent(rs), NEW hits, \A h \in hits : Fits(rs, h),
         NEW S \in SUBSET hits, \A h \in S : \A g \in hits : Drops(rs, g, h) => g \in S,
         NEW h \in S
  PROVE  \E k \in S : k \in ApplySuppression(rs, hits) /\ k.path = h.path
<1> SUFFICES ASSUME \A k \in S : k \in ApplySuppression(rs, hits) => k.path # h.path
             PROVE  FALSE
  OBVIOUS
<1> DEFINE here == {g \in S : g.path = h.path}
<1>1. ASSUME NEW g \in here
      PROVE  \E k \in here : k.rule \in rs.suppressedBy[g.rule] \/ <<k.rule, k.subject>> \in g.by
  <2>1. PICK k \in hits : Drops(rs, k, g)
    BY DEF ApplySuppression
  <2>2. k \in S
    BY <2>1
  <2> QED
    BY <2>1, <2>2 DEF Drops
<1>2. AllGiveWay(rs, here)
  BY <1>1 DEF AllGiveWay
<1>3. h \in here /\ \A g \in here : Fits(rs, g)
  OBVIOUS
<1> HIDE DEF here
<1> QED
  BY <1>2, <1>3, SomeStays

----------------------------------------------------------------------------
\* Whatever fired on an object or a document of a wheel, something is left of
\* it: a ruleset that loads cannot have every finding there give way to another.
THEOREM LastFindingStays ==
  ASSUME NEW rs, Coherent(rs), NEW hits, \A h \in hits : Fits(rs, h), NEW h \in hits
  PROVE  \E k \in ApplySuppression(rs, hits) : k.path = h.path
<1>1. hits \in SUBSET hits /\ \A g, k \in hits : Drops(rs, g, k) => g \in hits
  OBVIOUS
<1> QED
  BY <1>1, OneOfThemStays
=============================================================================
