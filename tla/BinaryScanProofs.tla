--------------------------- MODULE BinaryScanProofs ---------------------------
(***************************************************************************)
(* What holds of linkage's answer for any wheel, any libraries and any way *)
(* its members are read: facts about the operators of Linkage first, then  *)
(* the invariants of scan_binaries that connect them to the wheel.         *)
(***************************************************************************)
EXTENDS BinaryScan, TLAPS

(***************************************************************************)
(* One entry, one object.                                                  *)
(***************************************************************************)

\* An entry is answered one of three ways.
LEMMA NeededPostureType ==
  ASSUME NEW e, NEW o, NEW ev
  PROVE  NeededPosture(e, o, ev) \in {"bundled", "system", "unknown"}
BY DEF NeededPosture

\* Every object has one of the documented postures.
LEMMA BinaryPostureType ==
  ASSUME NEW o, NEW lib, NEW ev
  PROVE  BinaryPosture(o, lib, ev) \in Postures
BY DEF BinaryPosture, Postures, Definite

\* An object reads "none" only when there is nothing of the library in it, and
\* nothing imported from it:
\* no branch of _binary_posture forgets a kind of evidence.
LEMMA NoneIsSilent ==
  ASSUME NEW o, NEW lib, NEW ev, BinaryPosture(o, lib, ev) = "none"
  PROVE  ~Speaks(o, lib) /\ lib \notin o.imported
<1> DEFINE answers == NeededAnswers(o, lib, ev)
<1>1. ~(o.vendored /\ o.base = lib) BY DEF BinaryPosture
<1>2. answers \cap {"system", "bundled", "unknown"} = {} BY DEF BinaryPosture
<1>3. ~CompiledIn(o, lib, answers) BY DEF BinaryPosture
<1>4. ~MerelyUsed(o, lib, answers) BY <1>3 DEF BinaryPosture
<1>5. \A e \in o.needed : e.lib # lib
  BY <1>2, NeededPostureType, Zenon DEF NeededAnswers
<1>6. answers \cap Definite = {} BY <1>2, NeededPostureType DEF Definite, NeededAnswers
<1>7. ~BannerSeen(o, lib)
  BY <1>3, <1>4, <1>6 DEF CompiledIn, Banner, HeaderText, MerelyUsed
<1> QED BY <1>1, <1>3, <1>4, <1>5, <1>7 DEF Speaks, CompiledIn, MerelyUsed, BannerSeen

\* A definite answer to one of its entries is the object's answer, or part of
\* a mixed one, whatever the other entries, symbols and banners say.
LEMMA EntryIsHeard ==
  ASSUME NEW o, NEW lib, NEW ev, NEW e \in o.needed, e.lib = lib,
         NeededPosture(e, o, ev) \in Definite, ~(o.vendored /\ o.base = lib)
  PROVE  BinaryPosture(o, lib, ev) \in {NeededPosture(e, o, ev), "mixed"}
<1> DEFINE answers == NeededAnswers(o, lib, ev)
           found == NeededPosture(e, o, ev)
           static == IF CompiledIn(o, lib, answers) THEN {"static"} ELSE {}
<1>1. found \in answers BY DEF NeededAnswers
<1>2. found \in {"system", "bundled"} BY NeededPostureType DEF Definite
<1>3. CASE Several((answers \cap Definite) \cup static) BY <1>3 DEF BinaryPosture
<1>4. CASE ~Several((answers \cap Definite) \cup static)
  <2>1. \A a \in answers \cap Definite : a = found BY <1>1, <1>4 DEF Several
  <2>2. CASE found = "system" BY <1>1, <1>4, <2>2 DEF BinaryPosture
  <2>3. CASE found = "bundled"
    <3>1. "system" \notin answers BY <2>1, <2>3 DEF Definite
    <3> QED BY <1>1, <1>4, <2>3, <3>1 DEF BinaryPosture
  <2> QED BY <1>2, <2>2, <2>3
<1> QED BY <1>3, <1>4

\* What makes an object's posture unknown, each of which a rule may read: an
\* entry nothing answers, a fork, a banner without its copy, an import, a crate.
LEMMA UnknownBecause ==
  ASSUME NEW o, NEW lib, NEW ev, BinaryPosture(o, lib, ev) = "unknown"
  PROVE  \/ \E e \in o.needed : e.lib = lib /\ NeededPosture(e, o, ev) = "unknown"
         \/ lib \in o.forks
         \/ BannerSeen(o, lib) /\ lib \in CopyMarked
         \/ lib \in o.imported
         \/ o.crates \cap CratesOf[lib] # {}
<1> DEFINE answers == NeededAnswers(o, lib, ev)
<1>1. CASE "unknown" \in answers
  BY <1>1 DEF NeededAnswers
<1>2. CASE "unknown" \notin answers
  <2>1. OnlyTheFork(o, lib, answers) \/ MerelyUsed(o, lib, answers)
    BY <1>2 DEF BinaryPosture
  <2> QED BY <2>1 DEF OnlyTheFork, MerelyUsed, Uncorroborated, LacksCopyMarker
<1> QED BY <1>1, <1>2

\* What makes it bundled.
LEMMA BundledBecause ==
  ASSUME NEW o, NEW lib, NEW ev, BinaryPosture(o, lib, ev) = "bundled"
  PROVE  \/ o.vendored /\ o.base = lib
         \/ \E e \in o.needed : e.lib = lib /\ NeededPosture(e, o, ev) = "bundled"
<1> DEFINE answers == NeededAnswers(o, lib, ev)
<1>1. (o.vendored /\ o.base = lib) \/ "bundled" \in answers
  BY DEF BinaryPosture
<1> QED BY <1>1 DEF NeededAnswers

(***************************************************************************)
(* The wheel: _aggregate.                                                  *)
(***************************************************************************)

\* _aggregate answers in the documented vocabulary.
LEMMA AggregateType ==
  ASSUME NEW P, NEW u, NEW d
  PROVE  Aggregate(P, u, d) \in Postures
<1>1. P \cap Definite # {} => (CHOOSE p \in Definite : p \in P) \in Definite OBVIOUS
<1> QED BY <1>1 DEF Aggregate, Postures

\* A definite posture is never outvoted: it is the answer, or part of mixed.
LEMMA DefiniteIsKept ==
  ASSUME NEW P, NEW u, NEW d, NEW p \in P \cap Definite
  PROVE  Aggregate(P, u, d) \in {p, "mixed"}
<1>1. CASE "mixed" \in P \/ Several(P \cap Definite) BY <1>1 DEF Aggregate
<1>2. CASE ~("mixed" \in P \/ Several(P \cap Definite))
  <2>1. (CHOOSE q \in Definite : q \in P) \in P \cap Definite OBVIOUS
  <2>2. (CHOOSE q \in Definite : q \in P) = p BY <1>2, <2>1 DEF Several
  <2> QED BY <1>2, <2>2 DEF Aggregate
<1> QED BY <1>1, <1>2

\* Beside a definite posture, what was unanswered or declared is not consulted.
LEMMA DefiniteDecides ==
  ASSUME NEW P, NEW u, NEW d, NEW v, NEW c, P \cap Definite # {}
  PROVE  Aggregate(P, u, d) = Aggregate(P, v, c)
BY DEF Aggregate

\* "none" means that every object reads none, that nothing was left
\* unanswered, and that the SBOM does not name the library.
LEMMA AggregateNone ==
  ASSUME NEW P \in SUBSET Postures, NEW u, NEW d, Aggregate(P, u, d) = "none"
  PROVE  P \subseteq {"none"} /\ ~u /\ ~d
<1>1. P \cap Definite = {}
  <2> SUFFICES ASSUME NEW p \in P \cap Definite PROVE FALSE OBVIOUS
  <2>1. Aggregate(P, u, d) \in {p, "mixed"} BY DefiniteIsKept
  <2> QED BY <2>1 DEF Definite
<1>2. "mixed" \notin P /\ "unknown" \notin P /\ ~u /\ ~d BY <1>1 DEF Aggregate
<1> QED BY <1>1, <1>2 DEF Postures

\* A definite answer is the posture of an object.
LEMMA AggregateIsOnes ==
  ASSUME NEW P, NEW u, NEW d, Aggregate(P, u, d) \in Definite
  PROVE  Aggregate(P, u, d) \in P
<1>1. ~("mixed" \in P \/ Several(P \cap Definite)) /\ P \cap Definite # {}
  BY DEF Aggregate, Definite
<1>2. (CHOOSE p \in Definite : p \in P) \in P BY <1>1
<1> QED BY <1>1, <1>2 DEF Aggregate

\* "unknown" means that no object reads more than unknown, and that one does
\* or that something was unanswered or declared.
LEMMA AggregateUnknown ==
  ASSUME NEW P \in SUBSET Postures, NEW u, NEW d, Aggregate(P, u, d) = "unknown"
  PROVE  P \subseteq {"unknown", "none"} /\ ("unknown" \in P \/ u \/ d)
<1>1. P \cap Definite = {}
  <2> SUFFICES ASSUME NEW p \in P \cap Definite PROVE FALSE OBVIOUS
  <2>1. Aggregate(P, u, d) \in {p, "mixed"} BY DefiniteIsKept
  <2> QED BY <2>1 DEF Definite
<1>2. "mixed" \notin P /\ ("unknown" \in P \/ u \/ d) BY <1>1 DEF Aggregate
<1> QED BY <1>1, <1>2 DEF Postures

(***************************************************************************)
(* What a member records is what is in it, or says that it is not.         *)
(***************************************************************************)

\* The members of a wheel, and the objects in them, are typed.
LEMMA MembersTyped ==
  ASSUME wheel \in Wheels, NEW i \in 1..Len(wheel.members)
  PROVE  /\ wheel.members[i] \in Members
         /\ wheel.members[i].path \in Paths
         /\ wheel.members[i].parts \subseteq Objects
         /\ IsBinary(wheel.members[i]) => wheel.members[i].parts # {}
<1>1. wheel.members \in Seq(Members) BY WheelsAssumption
<1>2. i \in DOMAIN wheel.members BY <1>1
<1>3. wheel.members[i] \in Members BY <1>1
<1>4. IsBinary(wheel.members[i]) => wheel.members[i].parts # {}
  BY <1>2, WheelsAssumption DEF IsBinary
<1> QED BY <1>3, <1>4 DEF Members

\* Merging slices makes an object: one of them, with what any of them has.
LEMMA MergeType ==
  ASSUME NEW slices \in SUBSET Objects, slices # {}
  PROVE  LET m == Merge(slices) IN
         /\ m \in Objects
         /\ \E o \in slices : /\ m.path = o.path /\ m.stem = o.stem /\ m.base = o.base
                             /\ m.vendored = o.vendored /\ m.archive = o.archive
                             /\ m.partial = o.partial /\ m.reasons = o.reasons
         /\ \A o \in slices :
              /\ o.needed \subseteq m.needed /\ o.defined \subseteq m.defined
              /\ o.banners \subseteq m.banners /\ o.forkBanners \subseteq m.forkBanners
              /\ o.copies \subseteq m.copies /\ (o.rpath => m.rpath)
         /\ m.imported = UNION {o.imported : o \in slices} /\ m.forks = UNION {o.forks : o \in slices}
<1> DEFINE first == CHOOSE o \in slices : TRUE
           rpath == \E o \in slices : o.rpath
           other == \E o \in slices : o.other
           needed == UNION {o.needed : o \in slices}
           defined == UNION {o.defined : o \in slices}
           imported == UNION {o.imported : o \in slices}
           banners == UNION {o.banners : o \in slices}
           forkBanners == UNION {o.forkBanners : o \in slices}
           copies == UNION {o.copies : o \in slices}
           forks == UNION {o.forks : o \in slices}
           crates == UNION {o.crates : o \in slices}
           merged == [first EXCEPT !.rpath = rpath, !.other = other, !.needed = needed,
                                   !.defined = defined, !.imported = imported,
                                   !.banners = banners, !.forkBanners = forkBanners,
                                   !.copies = copies, !.forks = forks, !.crates = crates]
<1>1. Merge(slices) = merged BY Zenon DEF Merge
<1>2. first \in Objects OBVIOUS
<1>3. /\ needed \in SUBSET Entries /\ defined \in SUBSET Libraries
      /\ imported \in SUBSET Libraries /\ banners \in SUBSET Libraries
      /\ forkBanners \in SUBSET Libraries /\ copies \in SUBSET Libraries
      /\ forks \in SUBSET Libraries /\ crates \in SUBSET RustCrates
  BY DEF Objects
<1>4. rpath \in BOOLEAN /\ other \in BOOLEAN OBVIOUS
<1>6. \A o \in slices :
        /\ o.needed \subseteq needed /\ o.defined \subseteq defined /\ o.banners \subseteq banners
        /\ o.forkBanners \subseteq forkBanners /\ o.copies \subseteq copies /\ (o.rpath => rpath)
  OBVIOUS
<1>7. first \in slices OBVIOUS
<1>9. imported = UNION {o.imported : o \in slices} /\ forks = UNION {o.forks : o \in slices} OBVIOUS
<1> HIDE DEF first, rpath, other, needed, defined, imported, banners, forkBanners, copies,
             forks, crates
<1>5. merged \in Objects BY <1>2, <1>3, <1>4 DEF Objects
<1>8. /\ merged.path = first.path /\ merged.stem = first.stem /\ merged.base = first.base
      /\ merged.vendored = first.vendored /\ merged.archive = first.archive
      /\ merged.partial = first.partial /\ merged.reasons = first.reasons
      /\ merged.needed = needed /\ merged.defined = defined /\ merged.banners = banners
      /\ merged.forkBanners = forkBanners /\ merged.copies = copies /\ merged.rpath = rpath
      /\ merged.imported = imported /\ merged.forks = forks
  BY <1>2 DEF Objects
<1> HIDE DEF merged
<1> QED BY <1>1, <1>5, <1>6, <1>7, <1>8, <1>9

\* Reading a member in full records objects.
LEMMA ObjectsOfType ==
  ASSUME NEW m, m.parts \in SUBSET Objects, IsBinary(m) => m.parts # {}, IsBinary(m)
  PROVE  ObjectsOf(m) \in SUBSET Objects /\ ObjectsOf(m) # {}
BY MergeType DEF ObjectsOf

\* What linkage reads of o is in r as well, or r says that it is partial and
\* lacks imports.
Kept(o, r) ==
  /\ r.path = o.path /\ r.stem = o.stem /\ r.base = o.base /\ r.vendored = o.vendored
  /\ r.rpath = o.rpath /\ r.needed = o.needed /\ r.defined = o.defined
  /\ r.banners = o.banners /\ r.forkBanners = o.forkBanners /\ r.copies = o.copies
  /\ r.forks = o.forks /\ r.crates = o.crates /\ r.imported \subseteq o.imported
  /\ r.partial \/ r = o

\* What was kept makes an object unknown only when all of it would.
LEMMA KeptUnknown ==
  ASSUME NEW o, NEW r, Kept(o, r), NEW lib, NEW ev, BinaryPosture(r, lib, ev) = "unknown"
  PROVE  BinaryPosture(o, lib, ev) = "unknown"
<1>1. CASE r = o
  BY <1>1
<1>2. CASE r.partial
  <2> DEFINE answers == NeededAnswers(r, lib, ev)
  <2>1. \A e : NeededPosture(e, o, ev) = NeededPosture(e, r, ev)
    BY DEF Kept, NeededPosture, ResolvesWithinWheel, LooksVendored
  <2>2. NeededAnswers(o, lib, ev) = answers
    BY <2>1 DEF NeededAnswers, Kept
  <2>3. ~LacksCopyMarker(r, lib)
    BY <1>2 DEF LacksCopyMarker
  <2>4. BannerSeen(o, lib) <=> BannerSeen(r, lib)
    BY DEF Kept, BannerSeen
  <2>5. /\ ~(r.vendored /\ r.base = lib) /\ answers \cap {"system", "bundled"} = {}
        /\ "unknown" \in answers => ~CompiledIn(r, lib, answers)
        /\ "unknown" \notin answers =>
             \/ OnlyTheFork(r, lib, answers) /\ CompiledIn(r, lib, answers)
             \/ MerelyUsed(r, lib, answers) /\ ~CompiledIn(r, lib, answers)
    BY DEF BinaryPosture
  <2>6. answers \cap Definite = {}
    BY <2>5, NeededPostureType DEF Definite, NeededAnswers
  <2> HIDE DEF answers
  <2>7. /\ Banner(r, lib, answers) <=> BannerSeen(o, lib)
        /\ CompiledIn(o, lib, answers) => CompiledIn(r, lib, answers)
        /\ Banner(o, lib, answers) => Banner(r, lib, answers)
    BY <2>3, <2>4 DEF Banner, Uncorroborated, HeaderText, CompiledIn, Kept
  <2>8. OnlyTheFork(r, lib, answers) => OnlyTheFork(o, lib, answers)
    BY <2>7 DEF OnlyTheFork, Kept
  <2>9. MerelyUsed(r, lib, answers) => MerelyUsed(o, lib, answers)
    BY <2>3 DEF MerelyUsed, Uncorroborated, Kept
  <2>10. CompiledIn(r, lib, answers) /\ ~CompiledIn(o, lib, answers) /\ "unknown" \notin answers =>
           MerelyUsed(o, lib, answers)
    BY <2>6, <2>7 DEF CompiledIn, Kept, Banner, HeaderText, MerelyUsed
  <2>11. /\ ~(o.vendored /\ o.base = lib) /\ "unknown" \in answers => ~CompiledIn(o, lib, answers)
         /\ "unknown" \notin answers =>
              IF CompiledIn(o, lib, answers) THEN OnlyTheFork(o, lib, answers)
              ELSE MerelyUsed(o, lib, answers)
    BY <2>5, <2>7, <2>8, <2>9, <2>10 DEF Kept
  <2>12. ~Several((answers \cap Definite) \cup (IF CompiledIn(o, lib, answers) THEN {"static"} ELSE {}))
    BY <2>6 DEF Several
  <2>13. ~(o.vendored /\ o.base = lib)
    BY <2>5 DEF Kept
  <2> QED BY <2>2, <2>5, <2>11, <2>12, <2>13 DEF BinaryPosture
<1> QED BY <1>1, <1>2 DEF Kept

\* A record whose cause is not on linkage_policy's list.
Costly(r) == r.partial /\ CostsAnAnswer(r.reasons)

\* What costs an answer may cost everything but identity, and says so.
LEMMA AtACost ==
  ASSUME NEW o \in Objects, NEW r \in LessAtACost(o)
  PROVE  /\ r \in Objects /\ Costly(r) /\ r.needed \subseteq o.needed
         /\ r.path = o.path /\ r.archive = o.archive /\ r.vendored = o.vendored
         /\ r.stem = o.stem /\ r.base = o.base /\ r.rpath = o.rpath /\ r.reasons # {}
         /\ r.imported \subseteq o.imported /\ r.forks \subseteq o.forks
<1>1. PICK cut \in [reason : Costing, other : {o.other, FALSE}, needed : SUBSET o.needed,
                    defined : SUBSET o.defined, imported : SUBSET o.imported,
                    banners : SUBSET o.banners, forkBanners : SUBSET o.forkBanners,
                    copies : SUBSET o.copies, forks : SUBSET o.forks,
                    crates : SUBSET o.crates] :
        r = [o EXCEPT !.partial = TRUE, !.reasons = {cut.reason}, !.other = cut.other,
                      !.needed = cut.needed, !.defined = cut.defined,
                      !.imported = cut.imported, !.banners = cut.banners,
                      !.forkBanners = cut.forkBanners, !.copies = cut.copies,
                      !.forks = cut.forks, !.crates = cut.crates]
  BY DEF LessAtACost
<1>2. /\ cut.other \in BOOLEAN /\ cut.needed \in SUBSET Entries
      /\ cut.defined \in SUBSET Libraries /\ cut.imported \in SUBSET Libraries
      /\ cut.banners \in SUBSET Libraries /\ cut.forkBanners \in SUBSET Libraries
      /\ cut.copies \in SUBSET Libraries /\ cut.forks \in SUBSET Libraries
      /\ cut.crates \in SUBSET RustCrates /\ cut.reason \in Costing
      /\ {cut.reason} \in SUBSET (Routine \cup Costing)
  BY DEF Objects
<1>3. r \in Objects BY <1>1, <1>2 DEF Objects
<1>4. /\ r.partial = TRUE /\ r.reasons = {cut.reason} /\ r.needed = cut.needed
      /\ r.path = o.path /\ r.archive = o.archive /\ r.vendored = o.vendored
      /\ r.stem = o.stem /\ r.base = o.base /\ r.rpath = o.rpath
      /\ r.imported = cut.imported /\ r.forks = cut.forks
  BY <1>1 DEF Objects
<1>5. {cut.reason} \ Routine # {} BY <1>2, LinkageAssumption
<1>6. cut.needed \subseteq o.needed /\ cut.imported \subseteq o.imported /\ cut.forks \subseteq o.forks
  OBVIOUS
<1> QED BY <1>3, <1>4, <1>5, <1>6 DEF Costly, CostsAnAnswer

\* r is the record of o: o itself, or less of it, which it says, and no other
\* object unless it says that it may be.
Shows(o, r) ==
  /\ r.path = o.path /\ r.archive = o.archive /\ r.vendored = o.vendored
  /\ r.needed \subseteq o.needed /\ r.imported \subseteq o.imported /\ r.forks \subseteq o.forks
  /\ Misidentified(r) \/ (r.stem = o.stem /\ r.base = o.base /\ r.rpath = o.rpath)
  /\ r.partial \/ r = o

\* A partial record is an object, and keeps what linkage reads or says that it
\* may not have: the contract of the readers.
LEMMA LessIsHonest ==
  ASSUME NEW m, m.stem \in Stems, m.base \in Libraries \cup {"none"},
         NEW o \in Objects, NEW r \in Less(m, o)
  PROVE  r \in Objects /\ (Kept(o, r) \/ Costly(r)) /\ Shows(o, r)
<1>1. CASE r \in LessRoutinely(o)
  <2>1. PICK cut \in [reason : Routine, imported : SUBSET o.imported] :
          r = [o EXCEPT !.partial = TRUE, !.reasons = {cut.reason}, !.imported = cut.imported]
    BY <1>1 DEF LessRoutinely
  <2>2. {cut.reason} \in SUBSET (Routine \cup Costing) /\ cut.imported \in SUBSET Libraries
    BY DEF Objects
  <2>3. r \in Objects BY <2>1, <2>2 DEF Objects
  <2>4. Kept(o, r) BY <2>1 DEF Kept, Objects
  <2>5. Shows(o, r) BY <2>1 DEF Shows, Objects
  <2> QED BY <2>3, <2>4, <2>5
<1>2. CASE r \in LessAtACost(o)
  <2>1. Shows(o, r) BY <1>2, AtACost DEF Shows, Costly
  <2> QED BY <1>2, <2>1, AtACost
<1>3. CASE \E n \in Unidentified(m, o) : r \in LessAtACost(n) /\ r.reasons \subseteq Identity
  <2>1. PICK n \in Unidentified(m, o) : r \in LessAtACost(n) /\ r.reasons \subseteq Identity
    BY <1>3
  <2>2. /\ n \in Objects /\ n.path = o.path /\ n.archive = o.archive
        /\ n.vendored = o.vendored /\ n.needed = o.needed
        /\ n.imported = o.imported /\ n.forks = o.forks
    <3>1. ByFileName(m, o) \in Objects BY DEF ByFileName, Objects
    <3>2. /\ ByFileName(m, o).path = o.path /\ ByFileName(m, o).archive = o.archive
          /\ ByFileName(m, o).vendored = o.vendored /\ ByFileName(m, o).needed = o.needed
          /\ ByFileName(m, o).imported = o.imported /\ ByFileName(m, o).forks = o.forks
      BY DEF ByFileName, Objects
    <3>3. PICK k \in {o, ByFileName(m, o)} :
            \E rpath \in {o.rpath, FALSE} : n = [k EXCEPT !.rpath = rpath]
      BY <2>1, SMT DEF Unidentified
    <3>4. /\ k \in Objects /\ k.path = o.path /\ k.archive = o.archive
          /\ k.vendored = o.vendored /\ k.needed = o.needed
          /\ k.imported = o.imported /\ k.forks = o.forks
      BY <3>1, <3>2, <3>3
    <3>5. PICK rpath \in {o.rpath, FALSE} : n = [k EXCEPT !.rpath = rpath] BY <3>3
    <3>6. rpath \in BOOLEAN BY DEF Objects
    <3> QED BY <3>4, <3>5, <3>6 DEF Objects
  <2>3. /\ r \in Objects /\ Costly(r) /\ r.needed \subseteq n.needed /\ r.path = n.path
        /\ r.archive = n.archive /\ r.vendored = n.vendored /\ r.reasons # {}
        /\ r.imported \subseteq n.imported /\ r.forks \subseteq n.forks
    BY <2>1, <2>2, AtACost
  <2>4. Misidentified(r) BY <2>1, <2>3 DEF Misidentified
  <2>5. Shows(o, r) BY <2>2, <2>3, <2>4 DEF Shows, Costly
  <2> QED BY <2>3, <2>5
<1> QED BY <1>1, <1>2, <1>3, Zenon DEF Less

\* Each object read is recorded, whole, kept or at a cost, and once.
LEMMA ReadingsAreHonest ==
  ASSUME NEW m, m.stem \in Stems, m.base \in Libraries \cup {"none"},
         NEW objects \in SUBSET Objects, NEW some \in Readings(m, objects)
  PROVE  /\ some \subseteq Objects
         /\ \A o \in objects : \E r \in some : Kept(o, r) \/ Costly(r)
         /\ \E read : /\ some = {read[o] : o \in objects}
                     /\ \A o \in objects : Shows(o, read[o])
<1>1. PICK read \in [objects -> objects \cup UNION {Less(m, o) : o \in objects}] :
        /\ some = {read[o] : o \in objects}
        /\ \A o \in objects : read[o] \in {o} \cup Less(m, o)
  BY Zenon DEF Readings
<1>2. \A o \in objects : /\ read[o] \in Objects /\ (Kept(o, read[o]) \/ Costly(read[o]))
                         /\ Shows(o, read[o])
  <2> SUFFICES ASSUME NEW o \in objects
               PROVE  /\ read[o] \in Objects /\ (Kept(o, read[o]) \/ Costly(read[o]))
                      /\ Shows(o, read[o])
    OBVIOUS
  <2>1. CASE read[o] = o BY <2>1 DEF Kept, Shows
  <2>2. CASE read[o] \in Less(m, o) BY <2>2, LessIsHonest
  <2> QED BY <1>1, <2>1, <2>2
<1> QED BY <1>1, <1>2, Zenon

\* The strings of an archive are an object.
LEMMA StringsOfType ==
  ASSUME NEW m, m.path \in Paths, m.stem \in Stems, m.base \in Libraries \cup {"none"},
         m.parts \in SUBSET Objects, NEW r \in StringsOf(m)
  PROVE  r \in Objects
<1>1. PICK found \in [banners : SUBSET UNION {o.banners : o \in m.parts},
                      forkBanners : SUBSET UNION {o.forkBanners : o \in m.parts},
                      copies : SUBSET UNION {o.copies : o \in m.parts},
                      forks : SUBSET UNION {o.forks : o \in m.parts},
                      crates : SUBSET UNION {o.crates : o \in m.parts},
                      other : BOOLEAN, reason : Costing] :
        r = [path |-> m.path, stem |-> m.stem, base |-> m.base,
             vendored |-> \E o \in m.parts : o.vendored, archive |-> FALSE, rpath |-> FALSE, needed |-> {}, defined |-> {},
             imported |-> {}, banners |-> found.banners, forkBanners |-> found.forkBanners,
             copies |-> found.copies, forks |-> found.forks, crates |-> found.crates,
             other |-> found.other, partial |-> TRUE, reasons |-> {found.reason}]
  BY DEF StringsOf
<1>2. /\ found.banners \in SUBSET Libraries /\ found.forkBanners \in SUBSET Libraries
      /\ found.forks \in SUBSET Libraries /\ found.copies \in SUBSET Libraries
      /\ found.crates \in SUBSET RustCrates /\ found.other \in BOOLEAN
      /\ {found.reason} \in SUBSET (Routine \cup Costing)
  BY DEF Objects
<1> QED BY <1>1, <1>2 DEF Objects

(***************************************************************************)
(* The invariant of scan_binaries.                                         *)
(***************************************************************************)

Typed ==
  /\ wheel \in Wheels /\ next \in 1..(Len(wheel.members) + 1)
  /\ binaries \subseteq Objects /\ errors \subseteq Paths /\ skipped \subseteq Skips

\* A member that is behind was refused, or has an error, or each of its objects
\* has a record that keeps what linkage reads or is partial at a cost.
Accounted ==
  \A i \in 1..(next - 1) :
    IsBinary(wheel.members[i]) =>
      IF wheel.members[i].large THEN <<wheel.members[i].path, "refused">> \in skipped
      ELSE \/ wheel.members[i].path \in errors
           \/ \A o \in ObjectsOf(wheel.members[i]) : \E r \in binaries : Kept(o, r) \/ Costly(r)

\* The answer is linkage's on everything gathered, all members behind.
AnswerIsLinkages ==
  Resolved => answer = ResolveLinkage(Gathered) /\ next = Len(wheel.members) + 1

IInv == Typed /\ Accounted /\ AnswerIsLinkages

LEMMA InitIInv == Init => IInv
<1> SUFFICES ASSUME Init PROVE IInv OBVIOUS
<1>1. wheel.members \in Seq(Members) BY WheelsAssumption DEF Init
<1>2. Typed
  <2>1. \A i \in DOMAIN wheel.members : wheel.members[i] \in Members BY <1>1
  <2>2. skipped \subseteq Skips BY <2>1 DEF Init, Skips, Members
  <2> QED BY <1>1, <2>2 DEF Init, Typed
<1>3. Accounted BY DEF Init, Accounted
<1>4. AnswerIsLinkages BY DEF Init, AnswerIsLinkages, Resolved
<1> QED BY <1>2, <1>3, <1>4 DEF IInv

\* A step past a member keeps the invariant if it keeps what was recorded and
\* accounts for the member.
LEMMA PastAMember ==
  ASSUME IInv, Scanning, Advance,
         binaries \subseteq binaries', binaries' \subseteq Objects,
         errors \subseteq errors', errors' \subseteq Paths,
         skipped \subseteq skipped', skipped' \subseteq Skips,
         IsBinary(Member) /\ Member.large => <<Member.path, "refused">> \in skipped',
         IsBinary(Member) /\ ~Member.large =>
           \/ Member.path \in errors'
           \/ \A o \in ObjectsOf(Member) : \E r \in binaries' : Kept(o, r) \/ Costly(r)
  PROVE  IInv'
<1>1. wheel.members \in Seq(Members) /\ Len(wheel.members) \in Nat
  BY WheelsAssumption DEF IInv, Typed
<1>2. next \in 1..Len(wheel.members) BY <1>1 DEF IInv, Typed, Scanning
<1>3. Typed' BY <1>1, <1>2 DEF IInv, Typed, Advance
<1>4. Accounted'
  <2> SUFFICES ASSUME NEW i \in 1..(next' - 1), IsBinary(wheel.members[i])
               PROVE  IF wheel.members[i].large THEN <<wheel.members[i].path, "refused">> \in skipped'
                      ELSE \/ wheel.members[i].path \in errors'
                           \/ \A o \in ObjectsOf(wheel.members[i]) :
                                \E r \in binaries' : Kept(o, r) \/ Costly(r)
    BY DEF Accounted, Advance
  <2>1. CASE i = next BY <2>1 DEF Member
  <2>2. CASE i # next
    <3>1. i \in 1..(next - 1) BY <1>2, <2>2 DEF Advance
    <3> QED BY <3>1 DEF IInv, Accounted
  <2> QED BY <2>1, <2>2
<1>5. AnswerIsLinkages' BY DEF Scanning, Advance, AnswerIsLinkages, Resolved
<1> QED BY <1>3, <1>4, <1>5 DEF IInv

\* The member at hand is typed, and has objects when it is a binary.
LEMMA MemberTyped ==
  ASSUME IInv, Scanning
  PROVE  /\ Member \in Members /\ Member.path \in Paths /\ Member.stem \in Stems
         /\ Member.base \in Libraries \cup {"none"}
         /\ Member.parts \subseteq Objects
         /\ IsBinary(Member) => ObjectsOf(Member) \in SUBSET Objects
         /\ binaries \subseteq Objects /\ errors \subseteq Paths /\ skipped \subseteq Skips
<1>1. wheel.members \in Seq(Members) BY WheelsAssumption DEF IInv, Typed
<1>2. next \in 1..Len(wheel.members) BY <1>1 DEF IInv, Typed, Scanning
<1>3. /\ Member \in Members /\ Member.path \in Paths /\ Member.parts \subseteq Objects
      /\ IsBinary(Member) => Member.parts # {}
  BY <1>2, MembersTyped DEF IInv, Typed, Member
<1>4. IsBinary(Member) => ObjectsOf(Member) \in SUBSET Objects BY <1>3, ObjectsOfType
<1> QED BY <1>3, <1>4 DEF IInv, Typed, Members

LEMMA NextIInv == IInv /\ [Next]_vars => IInv'
<1> SUFFICES ASSUME IInv, [Next]_vars PROVE IInv' OBVIOUS
<1> USE DEF Readable
<1>1. CASE PassOver BY <1>1, MemberTyped, PastAMember DEF PassOver
<1>10. CASE ReadElsewhereFails
  <2>1. Scanning /\ Advance /\ ~IsBinary(Member) /\ skipped' \subseteq Skips /\ skipped \subseteq skipped'
        /\ UNCHANGED <<binaries, errors>>
    BY <1>10, MemberTyped DEF ReadElsewhereFails, Skips
  <2> QED BY <2>1, MemberTyped, PastAMember
<1>2. CASE Refuse
  <2>1. Scanning /\ Advance /\ Member.large /\ skipped' \subseteq Skips
        /\ skipped \subseteq skipped' /\ <<Member.path, "refused">> \in skipped'
        /\ UNCHANGED <<binaries, errors>>
    BY <1>2, MemberTyped DEF Refuse, Skips
  <2> QED BY <2>1, MemberTyped, PastAMember
<1>3. CASE OpenRaises
  <2>1. /\ Scanning /\ Advance /\ Member.path \in errors' /\ errors \subseteq errors'
        /\ errors' \subseteq Paths /\ skipped' \subseteq Skips /\ UNCHANGED binaries
        /\ ~Member.large /\ skipped \subseteq skipped'
    BY <1>3, MemberTyped DEF OpenRaises, Skips
  <2> QED BY <2>1, MemberTyped, PastAMember
<1>4. CASE ReadRaises
  <2>1. /\ Scanning /\ Advance /\ Member.path \in errors' /\ errors \subseteq errors'
        /\ errors' \subseteq Paths /\ UNCHANGED <<binaries, skipped>> /\ ~Member.large
    BY <1>4, MemberTyped DEF ReadRaises
  <2> QED BY <2>1, MemberTyped, PastAMember
<1>5. CASE ReadWhole
  <2>1. /\ Scanning /\ Advance /\ IsBinary(Member) /\ ~Member.large
        /\ binaries' = binaries \cup ObjectsOf(Member) /\ UNCHANGED <<errors, skipped>>
    BY <1>5 DEF ReadWhole
  <2>2. \A o \in ObjectsOf(Member) : o \in binaries' /\ Kept(o, o) BY <2>1 DEF Kept
  <2>3. binaries \subseteq binaries' /\ binaries' \subseteq Objects BY <2>1, MemberTyped
  <2> QED BY <2>1, <2>2, <2>3, MemberTyped, PastAMember
<1>6. CASE ReadPartly
  <2>1. /\ Scanning /\ Advance /\ IsBinary(Member) /\ ~Member.large /\ errors \subseteq errors'
        /\ errors' \subseteq Paths /\ UNCHANGED skipped
    BY <1>6, MemberTyped, Zenon DEF ReadPartly
  <2>2. PICK some \in Readings(Member, ObjectsOf(Member)) : binaries' = binaries \cup some
    BY <1>6 DEF ReadPartly
  <2>3. /\ some \subseteq Objects
        /\ \A o \in ObjectsOf(Member) : \E r \in some : Kept(o, r) \/ Costly(r)
    BY <2>1, MemberTyped, ReadingsAreHonest
  <2>4. binaries \subseteq binaries' /\ binaries' \subseteq Objects
    BY <2>1, <2>2, <2>3, MemberTyped
  <2>5. \A o \in ObjectsOf(Member) : \E r \in binaries' : Kept(o, r) \/ Costly(r)
    BY <2>2, <2>3
  <2> QED BY <2>1, <2>4, <2>5, MemberTyped, PastAMember
<1>7. CASE ReadArchivePartly
  <2>1. /\ Scanning /\ Advance /\ Member.path \in errors' /\ errors \subseteq errors'
        /\ errors' \subseteq Paths /\ UNCHANGED skipped /\ ~Member.large
    BY <1>7, MemberTyped DEF ReadArchivePartly
  <2>2. binaries \subseteq binaries' /\ binaries' \subseteq Objects
    <3>1. CASE \E reached \in (SUBSET Member.parts) \ {{}} :
                 \E some \in Readings(Member, reached) : binaries' = binaries \cup some
      <4>1. PICK reached \in (SUBSET Member.parts) \ {{}} :
                   \E some \in Readings(Member, reached) : binaries' = binaries \cup some
        BY <3>1
      <4>2. PICK some \in Readings(Member, reached) : binaries' = binaries \cup some BY <4>1
      <4>3. reached \in SUBSET Objects BY <2>1, MemberTyped
      <4>4. some \subseteq Objects BY <2>1, <4>2, <4>3, MemberTyped, ReadingsAreHonest
      <4> QED BY <2>1, <4>2, <4>4, MemberTyped
    <3>2. CASE \E strings \in StringsOf(Member) : binaries' = binaries \cup {strings}
      <4>1. PICK strings \in StringsOf(Member) : binaries' = binaries \cup {strings} BY <3>2
      <4>2. strings \in Objects BY <2>1, MemberTyped, StringsOfType
      <4> QED BY <2>1, <4>1, <4>2, MemberTyped
    <3> QED BY <1>7, <3>1, <3>2 DEF ReadArchivePartly
  <2> QED BY <2>1, <2>2, MemberTyped, PastAMember
<1>8. CASE Resolve
  <2>1. wheel.members \in Seq(Members) BY WheelsAssumption DEF IInv, Typed
  <2>2. Len(wheel.members) \in Nat BY <2>1
  <2>3. Typed' /\ Accounted' BY <1>8 DEF Resolve, IInv, Typed, Accounted
  <2>4. next' = Len(wheel'.members) + 1 BY <1>8, <2>2 DEF Resolve, IInv, Typed
  <2>5. Gathered' = Gathered BY <1>8 DEF Resolve, Gathered, Symlinks
  <2>6. answer' = ResolveLinkage(Gathered') BY <1>8, <2>5, Zenon DEF Resolve
  <2> QED BY <2>3, <2>4, <2>6 DEF IInv, AnswerIsLinkages
<1>9. CASE UNCHANGED vars
  <2>1. Gathered' = Gathered BY <1>9 DEF vars, Gathered, Symlinks
  <2>2. UNCHANGED <<wheel, next, binaries, errors, skipped, answer>> BY <1>9 DEF vars
  <2>3. Typed' /\ Accounted' BY <2>2 DEF IInv, Typed, Accounted
  <2>4. ResolveLinkage(Gathered') = ResolveLinkage(Gathered) BY <2>1, Zenon
  <2> QED BY <2>2, <2>3, <2>4 DEF IInv, AnswerIsLinkages, Resolved
<1> QED BY <1>1, <1>2, <1>3, <1>4, <1>5, <1>6, <1>7, <1>8, <1>9, <1>10 DEF Next

LEMMA IInvHolds == Spec => []IInv
BY InitIInv, NextIInv, PTL DEF Spec

(***************************************************************************)
(* The theorems.                                                           *)
(***************************************************************************)

\* A library's answer is its value, and it has one when the value is not none
\* or it is always reported.
LEMMA AnswerIs ==
  ASSUME IInv, Resolved, NEW lib \in Libraries
  PROVE  /\ lib \in DOMAIN answer <=> Value(lib, Gathered) # "none" \/ lib \in AlwaysReport
         /\ lib \in DOMAIN answer => answer[lib] = Value(lib, Gathered)
<1>1. answer = ResolveLinkage(Gathered) BY DEF IInv, AnswerIsLinkages
<1> QED BY <1>1 DEF ResolveLinkage

\* Every variable keeps its type, and the answer is one documented posture for
\* each library that is always reported and for none that is not in the
\* ruleset (scan.scan_wheel, linkage.resolve_linkage).
THEOREM TypeCorrect == Spec => []TypeOK
<1>1. IInv => TypeOK
  <2> SUFFICES ASSUME IInv PROVE TypeOK OBVIOUS
  <2>1. next \in 1..(Len(wheel.members) + 1) /\ binaries \subseteq Objects
        /\ errors \subseteq Paths /\ skipped \subseteq Skips
    BY DEF IInv, Typed
  <2>2. ASSUME Resolved
        PROVE  /\ DOMAIN answer \subseteq Libraries /\ AlwaysReport \subseteq DOMAIN answer
               /\ \A lib \in DOMAIN answer : answer[lib] \in Postures
    <3>1. answer = ResolveLinkage(Gathered) BY <2>2 DEF IInv, AnswerIsLinkages
    <3>2. DOMAIN answer \subseteq Libraries /\ AlwaysReport \subseteq DOMAIN answer
      BY <3>1, LinkageAssumption DEF ResolveLinkage
    <3>3. ASSUME NEW lib \in DOMAIN answer PROVE answer[lib] \in Postures
      <4>1. answer[lib] = Value(lib, Gathered) BY <2>2, <3>2, AnswerIs
      <4>2. Value(lib, Gathered) \in Postures BY AggregateType, Zenon DEF Value
      <4> QED BY <4>1, <4>2
    <3> QED BY <3>2, <3>3
  <2> QED BY <2>1, <2>2 DEF TypeOK
<1> QED BY <1>1, IInvHolds, PTL

\* "none" is earned, for any wheel and however its members were read: the
\* invariant accounts for every member that is behind, and "none" leaves only
\* the account in which nothing of it was lost (linkage._left_unanswered).
THEOREM NoneEarned == Spec => []NoneIsEarned
<1>1. IInv => NoneIsEarned
  <2> SUFFICES ASSUME IInv, Resolved, NEW lib \in AlwaysReport, answer[lib] = "none",
                      NEW i \in DOMAIN wheel.members, IsBinary(wheel.members[i]),
                      ~wheel.members[i].large, NEW o \in ObjectsOf(wheel.members[i])
               PROVE  /\ ~Speaks(o, lib)
                      /\ lib \in o.imported => \E r \in binaries : r.path = o.path /\ r.partial
    BY DEF NoneIsEarned
  <2>1. lib \in Libraries BY LinkageAssumption
  <2>2. Value(lib, Gathered) = "none" BY <2>1, AnswerIs
  <2>3. /\ ObjectPostures(lib, Gathered) \subseteq {"none"}
        /\ ~(LeftUnanswered(Gathered) /\ lib \in AlwaysReport)
    <3>1. ObjectPostures(lib, Gathered) \in SUBSET Postures
      BY BinaryPostureType DEF ObjectPostures
    <3> QED BY <2>2, <3>1, AggregateNone, Zenon DEF Value
  <2>4. errors = {} /\ \A r \in binaries : ~Costly(r)
    BY <2>3 DEF LeftUnanswered, Gathered, Evidence, Costly
  <2>5. i \in 1..(next - 1)
    <3>1. wheel.members \in Seq(Members) BY WheelsAssumption DEF IInv, Typed
    <3> QED BY <3>1 DEF IInv, AnswerIsLinkages
  <2>6. PICK r \in binaries : Kept(o, r) BY <2>4, <2>5 DEF IInv, Accounted
  <2>7. BinaryPosture(r, lib, Gathered) = "none"
    BY <2>3 DEF ObjectPostures, Gathered, Evidence
  <2>8. ~Speaks(r, lib) /\ lib \notin r.imported BY <2>7, NoneIsSilent
  <2> QED BY <2>6, <2>8 DEF Kept, Speaks
<1> QED BY <1>1, IInvHolds, PTL

\* Leaving out what an object that reads system accounts for never changes the
\* field, as linkage.declared_by_sbom says.
THEOREM FilterNeverTells == Spec => []FilterIsNoOp
<1>1. FilterIsNoOp
  <2> SUFFICES ASSUME NEW lib \in Libraries
               PROVE  Aggregate(ObjectPostures(lib, Gathered),
                                LeftUnanswered(Gathered) /\ lib \in AlwaysReport,
                                DeclaredBeside(lib, Gathered))
                      = Value(lib, Gathered)
    BY DEF FilterIsNoOp
  <2>1. CASE ObjectPostures(lib, Gathered) \cap Definite # {}
    BY <2>1, DefiniteDecides, Zenon DEF Value
  <2>2. CASE ObjectPostures(lib, Gathered) \cap Definite = {}
    <3>1. "system" \notin ObjectPostures(lib, Gathered) BY <2>2 DEF Definite
    <3>2. ConfirmedCrates(lib, Gathered) = {} BY <3>1 DEF ConfirmedCrates, ObjectPostures
    <3> QED BY <3>2, Zenon DEF Value, DeclaredBeside
  <2> QED BY <2>1, <2>2
<1> QED BY <1>1, PTL

\* A definite answer to an entry is in the field, as itself or as mixed: the
\* field and the dt_needed findings never contradict each other.
THEOREM FindingsNeverDisagree == Spec => []FindingsAgree
<1>1. IInv => FindingsAgree
  <2> SUFFICES ASSUME IInv, Resolved, NEW o \in binaries, NEW e \in o.needed,
                      NeededPosture(e, o, Gathered) \in Definite,
                      ~(o.vendored /\ o.base = e.lib)
               PROVE  /\ e.lib \in DOMAIN answer
                      /\ answer[e.lib] \in {NeededPosture(e, o, Gathered), "mixed"}
    BY DEF FindingsAgree
  <2> DEFINE found == NeededPosture(e, o, Gathered)
             posture == BinaryPosture(o, e.lib, Gathered)
  <2>1. e.lib \in Libraries
    <3>1. o \in Objects BY DEF IInv, Typed
    <3> QED BY <3>1 DEF Objects, Entries
  <2>2. posture \in {found, "mixed"} BY EntryIsHeard, Zenon
  <2>3. posture \in ObjectPostures(e.lib, Gathered)
    BY DEF ObjectPostures, Gathered, Evidence
  <2>4. Value(e.lib, Gathered) \in {found, "mixed"}
    <3>1. CASE posture = "mixed" BY <2>3, <3>1 DEF Value, Aggregate
    <3>2. CASE posture = found
      <4>1. found \in ObjectPostures(e.lib, Gathered) \cap Definite BY <2>3, <3>2
      <4> QED BY <4>1, DefiniteIsKept, Zenon DEF Value
    <3> QED BY <2>2, <3>1, <3>2
  <2>5. Value(e.lib, Gathered) # "none" BY <2>4 DEF Definite
  <2> QED BY <2>1, <2>4, <2>5, AnswerIs
<1> QED BY <1>1, IInvHolds, PTL

\* What a static archive holds is never what an entry of another object
\* resolves to, whatever it calls itself (linkage.member_stem_counts).
THEOREM ArchivesNeverSettle == Spec => []ArchivesSettleNothing
<1>1. ArchivesSettleNothing
  <2> DEFINE others == {o \in binaries : ~o.archive}
             without == [Gathered EXCEPT !.binaries = others]
  <2>1. \A stem : Bearers(stem, Gathered.binaries) = Bearers(stem, without.binaries)
    BY DEF Bearers, Gathered, Evidence
  <2>2. WheelIncompletelyRead(Gathered) = WheelIncompletelyRead(without)
    BY DEF WheelIncompletelyRead, Gathered, Evidence
  <2> HIDE DEF without
  <2>3. \A o, e : NeededPosture(e, o, Gathered) = NeededPosture(e, o, without)
    BY <2>1, <2>2 DEF NeededPosture, ResolvesWithinWheel
  <2>4. \A o, lib : NeededAnswers(o, lib, Gathered) = NeededAnswers(o, lib, without)
    BY <2>3 DEF NeededAnswers
  <2>5. \A o, lib : BinaryPosture(o, lib, Gathered) = BinaryPosture(o, lib, without)
    BY <2>4 DEF BinaryPosture
  <2> QED BY <2>5 DEF ArchivesSettleNothing, without
<1> QED BY <1>1, PTL

(***************************************************************************)
(* Slices.                                                                 *)
(***************************************************************************)

\* The slices of a universal binary, one of them, and what is merged of all.
SliceOf(o, m) ==
  /\ o.stem = m.stem /\ o.base = m.base /\ o.vendored = m.vendored
  /\ o.needed \subseteq m.needed /\ o.defined \subseteq m.defined
  /\ o.banners \subseteq m.banners /\ o.forkBanners \subseteq m.forkBanners
  /\ o.copies \subseteq m.copies /\ ~o.partial

\* An rpath that o does not have may make an entry of o's look vendored.
RpathDoubts(o, m, ev) == m.rpath /\ ~o.rpath /\ WheelIncompletelyRead(ev)

\* An entry reads the same of the merged record, short of such a doubt.
LEMMA EntryInMerge ==
  ASSUME NEW o, NEW m, SliceOf(o, m), o.rpath => m.rpath, NEW ev, NEW e
  PROVE  \/ NeededPosture(e, m, ev) = NeededPosture(e, o, ev)
         \/ NeededPosture(e, o, ev) = "system" /\ RpathDoubts(o, m, ev)
<1>1. ResolvesWithinWheel(m, e, ev.binaries) = ResolvesWithinWheel(o, e, ev.binaries)
  BY DEF SliceOf, ResolvesWithinWheel
<1>2. LooksVendored(e, o) => LooksVendored(e, m) BY DEF LooksVendored
<1>3. LooksVendored(e, m) /\ ~LooksVendored(e, o) => m.rpath /\ ~o.rpath BY DEF LooksVendored
<1> QED BY <1>1, <1>2, <1>3 DEF NeededPosture, RpathDoubts

\* What "static" on its own means: a copy is in it that no other slice's
\* evidence talks away.
LEMMA StaticSlice ==
  ASSUME NEW o, NEW m, SliceOf(o, m), NEW lib, NEW ev, BinaryPosture(o, lib, ev) = "static",
         NEW answers
  PROVE  /\ ~(o.vendored /\ o.base = lib)
         /\ CompiledIn(m, lib, answers)
         /\ OnlyTheFork(m, lib, answers) => lib \in m.forks
<1> DEFINE own == NeededAnswers(o, lib, ev)
           static == IF CompiledIn(o, lib, own) THEN {"static"} ELSE {}
<1> HIDE DEF own
<1>p. /\ ~(o.vendored /\ o.base = lib) /\ "system" \notin own /\ "bundled" \notin own
      /\ "unknown" \notin own /\ CompiledIn(o, lib, own)
  BY DEF BinaryPosture, own
<1>1. own = {}
  <2> SUFFICES ASSUME NEW found \in own PROVE FALSE OBVIOUS
  <2>1. PICK e \in o.needed : found = NeededPosture(e, o, ev) BY DEF own, NeededAnswers
  <2> QED BY <1>p, <2>1, NeededPostureType
<1>2. CompiledIn(m, lib, answers)
  <2>1. CASE lib \in o.defined BY <2>1 DEF CompiledIn, SliceOf
  <2>2. CASE lib \notin o.defined
    <3>1. BannerSeen(o, lib) /\ ~LacksCopyMarker(o, lib)
      BY <1>p, <1>1, <2>2 DEF CompiledIn, Banner, Uncorroborated
    <3>2. BannerSeen(m, lib) /\ ~LacksCopyMarker(m, lib)
      BY <3>1 DEF BannerSeen, LacksCopyMarker, SliceOf
    <3> QED BY <3>2 DEF CompiledIn, Banner, Uncorroborated, HeaderText
  <2> QED BY <2>1, <2>2
<1>3. OnlyTheFork(m, lib, answers) => lib \in m.forks BY DEF OnlyTheFork
<1> QED BY <1>p, <1>2, <1>3

\* What a slice reads on its own is among what decides the merged record.
LEMMA SliceIsHeard ==
  ASSUME NEW o, NEW m, SliceOf(o, m), o.rpath => m.rpath, NEW lib, NEW ev,
         ~(m.vendored /\ m.base = lib), NEW p \in Definite, BinaryPosture(o, lib, ev) = p,
         ~(p = "system" /\ RpathDoubts(o, m, ev))
  PROVE  LET answers == NeededAnswers(m, lib, ev) IN
         p \in (answers \cap Definite) \cup (IF CompiledIn(m, lib, answers) THEN {"static"} ELSE {})
<1> DEFINE answers == NeededAnswers(m, lib, ev)
<1>v. ~(o.vendored /\ o.base = lib) BY DEF SliceOf
<1>1. CASE p \in {"system", "bundled"}
  <2>1. p \in NeededAnswers(o, lib, ev)
    BY <1>v, <1>1 DEF BinaryPosture
  <2>2. PICK e \in o.needed : e.lib = lib /\ NeededPosture(e, o, ev) = p
    BY <2>1 DEF NeededAnswers
  <2>3. NeededPosture(e, m, ev) = p
    <3>1. \/ NeededPosture(e, m, ev) = NeededPosture(e, o, ev)
          \/ NeededPosture(e, o, ev) = "system" /\ RpathDoubts(o, m, ev)
      BY EntryInMerge
    <3> QED BY <2>2, <3>1
  <2>4. e \in m.needed BY <2>2 DEF SliceOf
  <2>5. p \in answers BY <2>2, <2>3, <2>4 DEF NeededAnswers
  <2> QED BY <2>5
<1>2. CASE p = "static"
  <2>1. CompiledIn(m, lib, answers) BY <1>2, StaticSlice
  <2> QED BY <1>2, <2>1
<1> QED BY <1>1, <1>2 DEF Definite

\* A merged record that has p among what decides it reads p, or mixed; a copy
\* beside a fork may read unknown.
LEMMA MergedSays ==
  ASSUME NEW m, NEW lib, NEW ev, ~(m.vendored /\ m.base = lib),
         NEW p \in (NeededAnswers(m, lib, ev) \cap Definite)
                    \cup (IF CompiledIn(m, lib, NeededAnswers(m, lib, ev)) THEN {"static"} ELSE {})
  PROVE  \/ BinaryPosture(m, lib, ev) \in {p, "mixed"}
         \/ p = "static" /\ lib \in m.forks /\ BinaryPosture(m, lib, ev) = "unknown"
<1> DEFINE answers == NeededAnswers(m, lib, ev)
           static == IF CompiledIn(m, lib, answers) THEN {"static"} ELSE {}
           decides == (answers \cap Definite) \cup static
<1>1. answers \subseteq {"system", "bundled", "unknown"}
  BY NeededPostureType DEF NeededAnswers
<1> HIDE DEF answers
<1>2. CASE Several(decides)
  BY <1>2 DEF BinaryPosture, answers
<1>3. CASE ~Several(decides)
  <2>1. decides = {p} BY <1>3 DEF Several, answers
  <2>2. CASE p \in {"system", "bundled"}
    <3>1. p \in answers BY <2>2 DEF answers
    <3> QED BY <1>3, <2>1, <2>2, <3>1 DEF BinaryPosture, Definite, answers
  <2>3. CASE p = "static"
    <3>1. "system" \notin answers /\ "bundled" \notin answers /\ static # {}
      BY <1>1, <2>1, <2>3 DEF Definite
    <3>2. OnlyTheFork(m, lib, answers) => lib \in m.forks BY DEF OnlyTheFork
    <3> QED BY <1>3, <2>3, <3>1, <3>2 DEF BinaryPosture, answers
  <2> QED BY <1>1, <2>1, <2>2, <2>3 DEF Definite, answers
<1> QED BY <1>2, <1>3

\* Merging the slices of a universal binary loses no definite answer of one,
\* but for a copy beside a fork and a system entry beside an rpath
\* (binfmt/macho.read_macho, linkage._binary_posture).
THEOREM SlicesHeard == Spec => []SlicesAreHeard
<1>1. IInv => SlicesAreHeard
  <2> SUFFICES ASSUME IInv, NEW i \in DOMAIN wheel.members, wheel.members[i].kind = "fat",
                      NEW merged \in binaries \cap ObjectsOf(wheel.members[i]),
                      NEW lib \in Libraries
               PROVE  LET read(o) == BinaryPosture(o, lib, Gathered)
                          doubted(o) == read(o) = "system" /\ merged.rpath /\ ~o.rpath
                                          /\ WheelIncompletelyRead(Gathered)
                          alone == {read(o) : o \in {p \in wheel.members[i].parts : ~doubted(p)}}
                                     \cap Definite
                          whole == read(merged) IN
                      /\ Several(alone) => whole = "mixed"
                      /\ \A p \in alone : \/ whole \in {p, "mixed"}
                                          \/ p = "static" /\ lib \in merged.forks /\ whole = "unknown"
    BY DEF SlicesAreHeard
  <2> DEFINE parts == wheel.members[i].parts
             read(o) == BinaryPosture(o, lib, Gathered)
             doubted(o) == read(o) = "system" /\ RpathDoubts(o, merged, Gathered)
             alone == {read(o) : o \in {p \in parts : ~doubted(p)}} \cap Definite
             answers == NeededAnswers(merged, lib, Gathered)
             decides == (answers \cap Definite)
                          \cup (IF CompiledIn(merged, lib, answers) THEN {"static"} ELSE {})
  <2>1. merged = Merge(parts) BY DEF ObjectsOf
  <2>2. parts \in SUBSET Objects /\ parts # {}
    BY MembersTyped DEF IInv, Typed, IsBinary
  <2>3. \A o \in parts : SliceOf(o, merged) /\ (o.rpath => merged.rpath)
    BY <2>1, <2>2, MergeType, WheelsAssumption DEF IInv, Typed, SliceOf
  <2>4. CASE merged.vendored /\ merged.base = lib
    <3>1. read(merged) = "bundled" BY <2>4 DEF BinaryPosture
    <3>2. \A o \in parts : read(o) = "bundled" BY <2>3, <2>4 DEF BinaryPosture, SliceOf
    <3>3. alone \subseteq {"bundled"} BY <3>2
    <3> QED BY <3>1, <3>3 DEF Several, RpathDoubts
  <2>5. CASE ~(merged.vendored /\ merged.base = lib)
    <3>1. \A p \in alone : p \in decides
      <4> SUFFICES ASSUME NEW p \in alone PROVE p \in decides OBVIOUS
      <4>1. PICK o \in parts : ~doubted(o) /\ p = read(o) OBVIOUS
      <4> QED BY <2>3, <2>5, <4>1, SliceIsHeard
    <3>2. Several(alone) => read(merged) = "mixed"
      <4>1. Several(alone) => Several(decides) BY <3>1 DEF Several
      <4> QED BY <2>5, <4>1 DEF BinaryPosture
    <3>3. \A p \in decides : \/ read(merged) \in {p, "mixed"}
                             \/ p = "static" /\ lib \in merged.forks /\ read(merged) = "unknown"
      BY <2>5, MergedSays
    <3> QED BY <3>1, <3>2, <3>3 DEF RpathDoubts
  <2> QED BY <2>4, <2>5
<1> QED BY <1>1, IInvHolds, PTL

(***************************************************************************)
(* Whose the records are.                                                  *)
(***************************************************************************)

\* r is a record of m's: of an object in it, or of its strings.
RecordOf(m, r) ==
  \/ \E o \in ObjectsOf(m) : Shows(o, r)
  \/ m.kind = "archive" /\ r \in StringsOf(m)

\* Every record is of a member that is behind.
Sourced ==
  \A r \in binaries : \E i \in 1..(next - 1) :
    IsBinary(wheel.members[i]) /\ RecordOf(wheel.members[i], r)

\* An object that a loader could find has one record.
RecordedOnce ==
  \A r, s \in binaries : ~r.archive /\ ~s.archive /\ r.path = s.path => r = s

\* Lost names are told.
LossesAreTold == \A r \in binaries : Misidentified(r) => errors # {}

\* A wheel read without a complaint has a record of each object that is behind.
AllAreThere ==
  errors = {} /\ skipped = {} =>
    \A i \in 1..(next - 1) :
      IsBinary(wheel.members[i]) => \A o \in ObjectsOf(wheel.members[i]) : \E r \in binaries : Shows(o, r)

SourceInv == Sourced /\ RecordedOnce /\ LossesAreTold /\ AllAreThere

\* What a member's objects are.
LEMMA ObjectsOfMember ==
  ASSUME wheel \in Wheels, NEW i \in 1..Len(wheel.members)
  PROVE  LET m == wheel.members[i] IN
         /\ m.kind # "archive" => \A o \in ObjectsOf(m) : o.path = m.path
         /\ \A o \in ObjectsOf(m) : /\ o \in Objects /\ (o.archive <=> m.kind = "archive")
         /\ m.kind # "archive" => \A o, p \in ObjectsOf(m) : o = p
<1> DEFINE m == wheel.members[i]
<1>1. i \in DOMAIN wheel.members /\ m.parts \subseteq Objects
  BY MembersTyped, WheelsAssumption
<1>2. /\ m.kind \in {"object", "symlink"} => \A o, p \in m.parts : o = p
      /\ m.kind = "other" => m.parts = {}
      /\ m.kind \in Kinds
      /\ \A o \in m.parts : /\ o.archive <=> m.kind = "archive"
                            /\ m.kind # "archive" => o.path = m.path
      /\ m.kind = "fat" => m.parts # {}
  BY <1>1, MembersTyped, WheelsAssumption DEF Members
<1>3. CASE m.kind = "fat"
  <2>1. ObjectsOf(m) = {Merge(m.parts)} BY <1>3 DEF ObjectsOf
  <2>2. Merge(m.parts) \in Objects
        /\ \E o \in m.parts : Merge(m.parts).path = o.path /\ Merge(m.parts).archive = o.archive
    BY <1>1, <1>2, <1>3, MergeType
  <2> QED BY <1>2, <1>3, <2>1, <2>2
<1>4. CASE m.kind # "fat"
  <2>1. ObjectsOf(m) = m.parts BY <1>4 DEF ObjectsOf
  <2> QED BY <1>1, <1>2, <1>4, <2>1 DEF Kinds
<1> QED BY <1>3, <1>4

\* A record that is not of an object in an archive is at its member's path.
LEMMA RecordPath ==
  ASSUME wheel \in Wheels, NEW i \in 1..Len(wheel.members), NEW r,
         RecordOf(wheel.members[i], r), ~r.archive
  PROVE  r.path = wheel.members[i].path
<1>1. CASE \E o \in ObjectsOf(wheel.members[i]) : Shows(o, r)
  BY <1>1, ObjectsOfMember DEF Shows
<1>2. CASE r \in StringsOf(wheel.members[i])
  BY <1>2 DEF StringsOf
<1> QED BY <1>1, <1>2 DEF RecordOf

\* A step past a member that adds some records of it keeps the invariant.
LEMMA PastItsRecords ==
  ASSUME IInv, SourceInv, Scanning, Advance, NEW some,
         binaries' = binaries \cup some, errors \subseteq errors', skipped \subseteq skipped',
         some # {} => IsBinary(Member),
         \A r \in some : RecordOf(Member, r),
         \A r, s \in some : ~r.archive /\ ~s.archive => r = s,
         \A r \in some : Misidentified(r) => errors' # {},
         IsBinary(Member) /\ errors' = {} /\ skipped' = {} =>
           \A o \in ObjectsOf(Member) : \E r \in some : Shows(o, r)
  PROVE  SourceInv'
<1>1. wheel.members \in Seq(Members) /\ Len(wheel.members) \in Nat /\ wheel \in Wheels
  BY WheelsAssumption DEF IInv, Typed
<1>2. next \in 1..Len(wheel.members) /\ next' = next + 1 /\ wheel' = wheel
  BY <1>1 DEF IInv, Typed, Scanning, Advance
<1>3. 1..(next - 1) \subseteq 1..Len(wheel.members) /\ next \notin 1..(next - 1)
      /\ 1..(next' - 1) = 1..(next - 1) \cup {next}
  BY <1>1, <1>2
<1>5. Sourced'
  <2> SUFFICES ASSUME NEW r \in binaries'
               PROVE  \E i \in 1..(next' - 1) : IsBinary(wheel.members[i]) /\ RecordOf(wheel.members[i], r)
    BY <1>2 DEF Sourced
  <2>1. CASE r \in some BY <1>3, <2>1 DEF Member
  <2>2. CASE r \in binaries
    <3>1. PICK i \in 1..(next - 1) : IsBinary(wheel.members[i]) /\ RecordOf(wheel.members[i], r)
      BY <2>2 DEF SourceInv, Sourced
    <3> QED BY <1>3, <3>1
  <2> QED BY <2>1, <2>2
<1>6. RecordedOnce'
  <2>1. \A r \in some, s \in binaries : ~r.archive /\ ~s.archive => r.path # s.path
    <3> SUFFICES ASSUME NEW r \in some, NEW s \in binaries, ~r.archive, ~s.archive
                 PROVE  r.path # s.path
      OBVIOUS
    <3>1. PICK i \in 1..(next - 1) : RecordOf(wheel.members[i], s)
      BY DEF SourceInv, Sourced
    <3>2. s.path = wheel.members[i].path BY <1>1, <1>3, <3>1, RecordPath
    <3>3. r.path = Member.path
      <4>1. CASE \E o \in ObjectsOf(Member) : Shows(o, r)
        BY <1>1, <1>2, <4>1, ObjectsOfMember DEF Shows, Member
      <4>2. CASE r \in StringsOf(Member) BY <4>2 DEF StringsOf
      <4> QED BY <4>1, <4>2 DEF RecordOf
    <3>4. i \in DOMAIN wheel.members /\ next \in DOMAIN wheel.members /\ i # next
      BY <1>1, <1>2, <1>3
    <3> QED BY <1>1, <3>2, <3>3, <3>4, WheelsAssumption DEF Member
  <2> QED BY <2>1 DEF SourceInv, RecordedOnce
<1>7. LossesAreTold' BY DEF SourceInv, LossesAreTold
<1>8. AllAreThere'
  <2> SUFFICES ASSUME errors' = {}, skipped' = {}, NEW i \in 1..(next' - 1),
                      IsBinary(wheel.members[i]), NEW o \in ObjectsOf(wheel.members[i])
               PROVE  \E r \in binaries' : Shows(o, r)
    BY <1>2 DEF AllAreThere
  <2>1. CASE i = next BY <2>1 DEF Member
  <2>2. CASE i # next
    <3>1. i \in 1..(next - 1) /\ errors = {} /\ skipped = {} BY <1>3, <2>2
    <3> QED BY <3>1 DEF SourceInv, AllAreThere
  <2> QED BY <2>1, <2>2
<1> QED BY <1>5, <1>6, <1>7, <1>8 DEF SourceInv

LEMMA InitSource == Init => SourceInv
BY DEF Init, SourceInv, Sourced, RecordedOnce, LossesAreTold, AllAreThere

LEMMA NextSource == IInv /\ SourceInv /\ [Next]_vars => SourceInv'
<1> SUFFICES ASSUME IInv, SourceInv, [Next]_vars PROVE SourceInv' OBVIOUS
<1> USE DEF Readable
<1>m. ASSUME Scanning
      PROVE  /\ wheel \in Wheels /\ next \in 1..Len(wheel.members)
             /\ IsBinary(Member) => ObjectsOf(Member) \in SUBSET Objects
             /\ \A o \in ObjectsOf(Member) : o.archive <=> Member.kind = "archive"
             /\ Member.kind \in {"object", "fat"} => \A o, p \in ObjectsOf(Member) : o = p
             /\ IsBinary(Member) => Member.kind \in {"object", "fat", "archive"}
  <2>1. wheel.members \in Seq(Members) /\ wheel \in Wheels BY WheelsAssumption DEF IInv, Typed
  <2>2. next \in 1..Len(wheel.members) BY <1>m, <2>1 DEF IInv, Typed, Scanning
  <2> QED BY <1>m, <2>1, <2>2, ObjectsOfMember, MemberTyped DEF Member, IsBinary
<1>1. CASE PassOver \/ ReadElsewhereFails \/ Refuse \/ OpenRaises \/ ReadRaises
  <2>1. /\ Scanning /\ Advance /\ binaries' = binaries \cup {}
        /\ errors \subseteq errors' /\ skipped \subseteq skipped'
        /\ IsBinary(Member) => errors' # {} \/ skipped' # {}
    BY <1>1 DEF PassOver, ReadElsewhereFails, Refuse, OpenRaises, ReadRaises
  <2> DEFINE none == {}
  <2>2. /\ binaries' = binaries \cup none /\ none = {}
        /\ \A r \in none : RecordOf(Member, r) /\ (Misidentified(r) => errors' # {})
        /\ \A r, s \in none : ~r.archive /\ ~s.archive => r = s
        /\ ~(IsBinary(Member) /\ errors' = {} /\ skipped' = {})
    BY <2>1
  <2> HIDE DEF none
  <2> QED BY <2>1, <2>2, PastItsRecords
<1>2. CASE ReadWhole
  <2>1. /\ Scanning /\ Advance /\ IsBinary(Member) /\ UNCHANGED <<errors, skipped>>
        /\ binaries' = binaries \cup ObjectsOf(Member)
    BY <1>2 DEF ReadWhole
  <2>2. \A o \in ObjectsOf(Member) : Shows(o, o) /\ RecordOf(Member, o)
    BY DEF Shows, RecordOf
  <2>3. \A o \in ObjectsOf(Member) : ~Misidentified(o)
    <3>1. PICK i \in DOMAIN wheel.members : Member = wheel.members[i]
      BY <1>m, <2>1, WheelsAssumption DEF Member
    <3>2. \A o \in Member.parts : o.reasons = {}
      BY <1>m, <2>1, <3>1, WheelsAssumption
    <3>3. CASE Member.kind = "fat"
      <4>1. Member.parts # {} /\ Member.parts \in SUBSET Objects BY <2>1, <3>1, <3>3, <1>m, MemberTyped, WheelsAssumption
      <4>2. \A o \in Member.parts : o.reasons = {} BY <3>2
      <4>3. Merge(Member.parts).reasons = {} BY <4>1, <4>2, MergeType
      <4> QED BY <3>3, <4>3 DEF ObjectsOf, Misidentified
    <3>4. CASE Member.kind # "fat" BY <3>2, <3>4 DEF ObjectsOf, Misidentified
    <3> QED BY <3>3, <3>4
  <2>4. \A o, p \in ObjectsOf(Member) : ~o.archive /\ ~p.archive => o = p BY <1>m, <2>1
  <2> QED BY <2>1, <2>2, <2>3, <2>4, PastItsRecords
<1>3. ASSUME NEW objects \in SUBSET ObjectsOf(Member), NEW some \in Readings(Member, objects),
             Scanning, Advance, IsBinary(Member), binaries' = binaries \cup some,
             errors \subseteq errors', skipped \subseteq skipped',
             \A r \in some : Misidentified(r) => errors' # {},
             errors' = {} => objects = ObjectsOf(Member)
      PROVE  SourceInv'
  <2>1. objects \in SUBSET Objects /\ Member.stem \in Stems /\ Member.base \in Libraries \cup {"none"}
    BY <1>m, <1>3, MemberTyped
  <2>2. PICK read : /\ some = {read[o] : o \in objects}
                    /\ \A o \in objects : Shows(o, read[o])
    BY <1>3, <2>1, ReadingsAreHonest
  <2>3. \A r \in some : RecordOf(Member, r) BY <2>2 DEF RecordOf
  <2>4. \A r, s \in some : ~r.archive /\ ~s.archive => r = s
    <3> SUFFICES ASSUME NEW o \in objects, NEW p \in objects, ~read[o].archive, ~read[p].archive
                 PROVE  o = p
      BY <2>2
    <3>1. ~o.archive /\ ~p.archive BY <2>2 DEF Shows
    <3> QED BY <1>m, <1>3, <3>1
  <2>5. errors' = {} => \A o \in ObjectsOf(Member) : \E r \in some : Shows(o, r) BY <1>3, <2>2
  <2> QED BY <1>3, <2>3, <2>4, <2>5, PastItsRecords
<1>4. CASE ReadPartly
  <2>1. /\ Scanning /\ Advance /\ IsBinary(Member) /\ UNCHANGED skipped
    BY <1>4 DEF ReadPartly
  <2>2. PICK some \in Readings(Member, ObjectsOf(Member)) :
          /\ binaries' = binaries \cup some
          /\ \/ errors' = errors \cup {Member.path}
             \/ errors' = errors /\ \A r \in some : ~Misidentified(r)
    BY <1>4 DEF ReadPartly
  <2>3. errors \subseteq errors' /\ \A r \in some : Misidentified(r) => errors' # {}
    BY <2>2
  <2>4. ObjectsOf(Member) \in SUBSET ObjectsOf(Member) /\ skipped \subseteq skipped' BY <2>1
  <2> QED BY <1>3, <2>1, <2>2, <2>3, <2>4
<1>5. CASE ReadArchivePartly
  <2>1. /\ Scanning /\ Advance /\ IsBinary(Member) /\ Member.kind = "archive"
        /\ errors \subseteq errors' /\ errors' # {} /\ UNCHANGED skipped
    BY <1>5 DEF ReadArchivePartly
  <2>2. CASE \E reached \in (SUBSET Member.parts) \ {{}} :
               \E some \in Readings(Member, reached) : binaries' = binaries \cup some
    <3>1. PICK reached \in SUBSET Member.parts :
                 \E some \in Readings(Member, reached) : binaries' = binaries \cup some
      BY <2>2
    <3>2. PICK some \in Readings(Member, reached) : binaries' = binaries \cup some BY <3>1
    <3>3. reached \in SUBSET ObjectsOf(Member) BY <2>1 DEF ObjectsOf
    <3> QED BY <1>3, <2>1, <3>2, <3>3
  <2>3. CASE \E strings \in StringsOf(Member) : binaries' = binaries \cup {strings}
    <3>1. PICK strings \in StringsOf(Member) : binaries' = binaries \cup {strings} BY <2>3
    <3>2. RecordOf(Member, strings) BY <2>1 DEF RecordOf
    <3> DEFINE some == {strings}
    <3>3. /\ binaries' = binaries \cup some
          /\ \A r \in some : RecordOf(Member, r) /\ (Misidentified(r) => errors' # {})
          /\ \A r, s \in some : ~r.archive /\ ~s.archive => r = s
          /\ ~(errors' = {})
      BY <2>1, <3>1, <3>2
    <3> HIDE DEF some
    <3> QED BY <2>1, <3>3, PastItsRecords
  <2> QED BY <1>5, <2>2, <2>3 DEF ReadArchivePartly
<1>6. CASE Resolve \/ UNCHANGED vars
  <2>1. UNCHANGED <<wheel, next, binaries, errors, skipped>> BY <1>6 DEF Resolve, vars
  <2> QED BY <2>1 DEF SourceInv, Sourced, RecordedOnce, LossesAreTold, AllAreThere
<1> QED BY <1>1, <1>2, <1>4, <1>5, <1>6 DEF Next

LEMMA SourceHolds == Spec => []SourceInv
<1>1. IInv /\ SourceInv /\ [Next]_vars => SourceInv' BY NextSource
<1> QED BY <1>1, InitSource, IInvHolds, PTL DEF Spec

\* No record has imports or a fork that no member has.
LEMMA RecordsInventNothing ==
  ASSUME IInv, SourceInv, NEW r \in binaries
  PROVE  r.imported \subseteq Imported /\ r.forks \subseteq Forked
<1>1. PICK i \in 1..(next - 1) : IsBinary(wheel.members[i]) /\ RecordOf(wheel.members[i], r)
  BY DEF SourceInv, Sourced
<1> DEFINE m == wheel.members[i]
<1>2. wheel \in Wheels /\ i \in 1..Len(wheel.members) /\ i \in DOMAIN wheel.members
  <2>1. wheel.members \in Seq(Members) /\ wheel \in Wheels BY WheelsAssumption DEF IInv, Typed
  <2>2. Len(wheel.members) \in Nat BY <2>1
  <2> QED BY <1>1, <2>1, <2>2 DEF IInv, Typed
<1>3. m.parts \subseteq Objects /\ m.parts # {} BY <1>1, <1>2, MembersTyped
<1>4. UNION {o.imported : o \in m.parts} \subseteq Imported
      /\ UNION {o.forks : o \in m.parts} \subseteq Forked
  <2>1. m.parts \subseteq Parts BY <1>2 DEF Parts
  <2> QED BY <2>1 DEF Imported, Forked
<1>5. CASE \E o \in ObjectsOf(m) : Shows(o, r)
  <2>1. PICK o \in ObjectsOf(m) : Shows(o, r) BY <1>5
  <2>2. o.imported \subseteq Imported /\ o.forks \subseteq Forked
    <3>1. CASE m.kind = "fat" BY <1>3, <1>4, <2>1, <3>1, MergeType DEF ObjectsOf
    <3>2. CASE m.kind # "fat" BY <1>4, <2>1, <3>2 DEF ObjectsOf
    <3> QED BY <3>1, <3>2
  <2> QED BY <2>1, <2>2 DEF Shows
<1>6. CASE r \in StringsOf(m)
  <2>1. r.imported = {} /\ r.forks \subseteq UNION {o.forks : o \in m.parts} BY <1>6 DEF StringsOf
  <2> QED BY <1>4, <2>1
<1> QED BY <1>1, <1>5, <1>6 DEF RecordOf

(***************************************************************************)
(* Definite answers.                                                       *)
(***************************************************************************)

\* All that the wheel holds.
Held == UNION {ObjectsOf(wheel.members[i]) : i \in DOMAIN wheel.members}

\* Everything is evidence of a wheel that was read in full.
LEMMA EverythingIs ==
  /\ Everything.binaries = Held /\ ~WheelIncompletelyRead(Everything)
  /\ Gathered.binaries = binaries
  /\ WheelIncompletelyRead(Gathered) <=> errors # {} \/ skipped # {} \/ Symlinks # {}
BY DEF Everything, Evidence, Held, WheelIncompletelyRead, Gathered

\* Objects a loader could find, one to a path.
LEMMA HeldOnce ==
  ASSUME IInv
  PROVE  \A o, p \in Held : ~o.archive /\ ~p.archive /\ o.path = p.path => o = p
<1>1. wheel \in Wheels /\ wheel.members \in Seq(Members) BY WheelsAssumption DEF IInv, Typed
<1> SUFFICES ASSUME NEW i \in DOMAIN wheel.members, NEW o \in ObjectsOf(wheel.members[i]),
                    NEW j \in DOMAIN wheel.members, NEW p \in ObjectsOf(wheel.members[j]),
                    ~o.archive, ~p.archive, o.path = p.path
             PROVE  o = p
  BY DEF Held
<1>2. i \in 1..Len(wheel.members) /\ j \in 1..Len(wheel.members) BY <1>1
<1>3. /\ wheel.members[i].kind # "archive" /\ wheel.members[j].kind # "archive"
      /\ o.path = wheel.members[i].path /\ p.path = wheel.members[j].path
  BY <1>1, <1>2, ObjectsOfMember
<1>4. i = j
  <2>1. \A k, l \in DOMAIN wheel.members : k # l => wheel.members[k].path # wheel.members[l].path
    BY <1>1, WheelsAssumption
  <2> QED BY <1>3, <2>1
<1> QED BY <1>1, <1>2, <1>3, <1>4, ObjectsOfMember

\* A record that is not the strings of an archive is of an object in the wheel.
LEMMA RecordIsHeld ==
  ASSUME IInv, SourceInv, NEW r \in binaries
  PROVE  \/ \E o \in Held : Shows(o, r)
         \/ \E i \in DOMAIN wheel.members :
              wheel.members[i].kind = "archive" /\ r \in StringsOf(wheel.members[i])
<1>1. wheel.members \in Seq(Members) /\ Len(wheel.members) \in Nat
  BY WheelsAssumption DEF IInv, Typed
<1>2. PICK i \in 1..(next - 1) : RecordOf(wheel.members[i], r) BY DEF SourceInv, Sourced
<1>3. i \in DOMAIN wheel.members BY <1>1 DEF IInv, Typed
<1> QED BY <1>2, <1>3 DEF RecordOf, Held

\* The strings of an archive are partial, need nothing and go by its own name.
LEMMA StringsAre ==
  ASSUME NEW m, NEW r \in StringsOf(m)
  PROVE  r.needed = {} /\ r.stem = m.stem /\ r.base = m.base /\ r.partial /\ ~r.archive
BY DEF StringsOf

\* What a record resolves to is in the wheel: with every record going by its
\* own name, an entry that resolves within what was read resolves in full.
LEMMA ReadResolves ==
  ASSUME IInv, SourceInv, Vendored(wheel), \A s \in binaries : ~Misidentified(s),
         NEW r \in binaries, NEW o \in Held, Shows(o, r), NEW e \in r.needed,
         ResolvesWithinWheel(r, e, binaries)
  PROVE  ResolvesWithinWheel(o, e, Held)
<1>1. e \in o.needed /\ o.stem = r.stem BY DEF Shows
<1>2. ASSUME NEW b \in Bearers(e.stem, binaries)
      PROVE  \E h \in Bearers(e.stem, Held) : h.path = b.path
  <2>1. b \in binaries /\ b.stem = e.stem /\ ~b.archive BY DEF Bearers
  <2>2. CASE \E h \in Held : Shows(h, b)
    <3>1. PICK h \in Held : Shows(h, b) BY <2>2
    <3>2. h.stem = b.stem /\ h.path = b.path /\ h.archive = b.archive BY <2>1, <3>1 DEF Shows
    <3> QED BY <2>1, <3>2 DEF Bearers
  <2>3. CASE \E i \in DOMAIN wheel.members :
               wheel.members[i].kind = "archive" /\ b \in StringsOf(wheel.members[i])
    <3>1. PICK i \in DOMAIN wheel.members :
                 wheel.members[i].kind = "archive" /\ b \in StringsOf(wheel.members[i])
      BY <2>3
    <3>2. b.stem = wheel.members[i].stem BY <3>1, StringsAre
    <3>3. e.stem # wheel.members[i].stem BY <1>1, <3>1 DEF Vendored, Held
    <3> QED BY <2>1, <3>2, <3>3
  <2> QED BY <2>1, <2>2, <2>3, RecordIsHeld
<1>3. CASE e.stem = r.stem
  <2>1. PICK a \in Bearers(e.stem, binaries), b \in Bearers(e.stem, binaries) : a # b
    BY <1>3 DEF ResolvesWithinWheel, Several
  <2>2. a.path # b.path BY <2>1 DEF Bearers, SourceInv, RecordedOnce
  <2>3. PICK h \in Bearers(e.stem, Held) : h.path = a.path BY <1>2
  <2>4. PICK k \in Bearers(e.stem, Held) : k.path = b.path BY <1>2
  <2> QED BY <1>1, <1>3, <2>2, <2>3, <2>4 DEF ResolvesWithinWheel, Several
<1>4. CASE e.stem # r.stem BY <1>1, <1>2, <1>4 DEF ResolvesWithinWheel
<1> QED BY <1>3, <1>4

\* In a wheel read in full, an entry that resolves within all of it resolves
\* within what was read.
LEMMA HeldResolves ==
  ASSUME IInv, SourceInv, Resolved, ~WheelIncompletelyRead(Gathered),
         NEW r, NEW o, Shows(o, r), r.stem = o.stem, NEW e, ResolvesWithinWheel(o, e, Held)
  PROVE  ResolvesWithinWheel(r, e, binaries)
<1>1. errors = {} /\ skipped = {} /\ Symlinks = {} BY EverythingIs
<1>2. ASSUME NEW h \in Bearers(e.stem, Held)
      PROVE  \E b \in Bearers(e.stem, binaries) : b.path = h.path
  <2>1. wheel.members \in Seq(Members) /\ next = Len(wheel.members) + 1 /\ Len(wheel.members) \in Nat
    BY WheelsAssumption DEF IInv, Typed, AnswerIsLinkages
  <2>2. PICK i \in DOMAIN wheel.members : h \in ObjectsOf(wheel.members[i])
    BY DEF Bearers, Held
  <2>3. i \in 1..(next - 1) BY <2>1
  <2>4. IsBinary(wheel.members[i])
    <3>1. wheel.members[i].kind \in Kinds BY <2>1, MembersTyped DEF IInv, Typed, Members
    <3>2. wheel.members[i].kind # "symlink" BY <1>1 DEF Symlinks
    <3>3. wheel.members[i].kind # "other" BY <2>2, WheelsAssumption DEF ObjectsOf, IInv, Typed
    <3> QED BY <3>1, <3>2, <3>3 DEF Kinds, IsBinary
  <2>5. PICK b \in binaries : Shows(h, b) BY <1>1, <2>2, <2>3, <2>4 DEF SourceInv, AllAreThere
  <2>6. ~Misidentified(b) BY <1>1 DEF SourceInv, LossesAreTold
  <2>7. h.stem = e.stem /\ ~h.archive BY DEF Bearers
  <2>8. b.stem = h.stem /\ b.path = h.path /\ b.archive = h.archive BY <2>5, <2>6 DEF Shows
  <2> QED BY <2>7, <2>8 DEF Bearers
<1>3. CASE e.stem = o.stem
  <2>1. PICK a \in Bearers(e.stem, Held), b \in Bearers(e.stem, Held) : a # b
    BY <1>3 DEF ResolvesWithinWheel, Several
  <2>2. a.path # b.path BY <2>1, HeldOnce DEF Bearers
  <2>3. PICK h \in Bearers(e.stem, binaries) : h.path = a.path BY <1>2
  <2>4. PICK k \in Bearers(e.stem, binaries) : k.path = b.path BY <1>2
  <2> QED BY <1>3, <2>2, <2>3, <2>4 DEF ResolvesWithinWheel, Several
<1>4. CASE e.stem # o.stem
  <2>1. PICK h \in Bearers(e.stem, Held) : TRUE BY <1>4 DEF ResolvesWithinWheel
  <2>2. PICK b \in Bearers(e.stem, binaries) : b.path = h.path BY <1>2
  <2> QED BY <1>4, <2>2 DEF ResolvesWithinWheel
<1> QED BY <1>3, <1>4

\* The system reads an entry: in full, the object reads system, or mixed.
LEMMA SystemStands ==
  ASSUME IInv, SourceInv, Resolved, Vendored(wheel),
         \A s \in binaries : Misidentified(s) => s.needed = {},
         NEW lib \in Libraries, NEW r \in binaries, BinaryPosture(r, lib, Gathered) = "system"
  PROVE  \E o \in Held : BinaryPosture(o, lib, Everything) \in {"system", "mixed"}
<1>1. ~(r.vendored /\ r.base = lib) /\ "system" \in NeededAnswers(r, lib, Gathered)
  BY DEF BinaryPosture
<1>2. PICK e \in r.needed : e.lib = lib /\ NeededPosture(e, r, Gathered) = "system"
  BY <1>1 DEF NeededAnswers
<1>3. PICK o \in Held : Shows(o, r) BY <1>2, RecordIsHeld, StringsAre
<1>4. e \in o.needed /\ o.stem = r.stem /\ o.base = r.base /\ o.rpath = r.rpath /\ o.vendored = r.vendored
  BY <1>2, <1>3 DEF Shows
<1>5. ~e.mangled /\ ~e.absolute => ~ResolvesWithinWheel(o, e, Held)
  <2> SUFFICES ASSUME ~e.mangled, ~e.absolute, ResolvesWithinWheel(o, e, Held) PROVE FALSE
    OBVIOUS
  <2>1. LooksVendored(e, o) BY <1>4 DEF Vendored, Held
  <2>2. LooksVendored(e, r) BY <1>4, <2>1 DEF LooksVendored
  <2>3. ~ResolvesWithinWheel(r, e, binaries) /\ ~WheelIncompletelyRead(Gathered)
    BY <1>2, <2>2, EverythingIs DEF NeededPosture
  <2> QED BY <1>3, <1>4, <2>3, HeldResolves
<1>6. NeededPosture(e, o, Everything) = "system"
  BY <1>2, <1>5, EverythingIs DEF NeededPosture
<1>7. BinaryPosture(o, lib, Everything) \in {"system", "mixed"}
  BY <1>1, <1>2, <1>4, <1>6, EntryIsHeard DEF Definite
<1> QED BY <1>7

\* An object is the library, or needs what is in the wheel: in full as well.
LEMMA BundledStands ==
  ASSUME IInv, SourceInv, Vendored(wheel), \A s \in binaries : ~Misidentified(s),
         NEW lib \in Libraries, NEW r \in binaries, BinaryPosture(r, lib, Gathered) = "bundled"
  PROVE  \E o \in Held : BinaryPosture(o, lib, Everything) \in {"bundled", "mixed"}
<1>1. CASE r.vendored /\ r.base = lib
  <2>1. CASE \E o \in Held : Shows(o, r)
    <3>1. PICK o \in Held : Shows(o, r) BY <2>1
    <3>2. o.vendored /\ o.base = lib BY <1>1, <3>1 DEF Shows
    <3>3. BinaryPosture(o, lib, Everything) = "bundled" BY <3>2 DEF BinaryPosture
    <3> QED BY <3>3
  <2>2. CASE \E i \in DOMAIN wheel.members :
               wheel.members[i].kind = "archive" /\ r \in StringsOf(wheel.members[i])
    <3>1. PICK i \in DOMAIN wheel.members :
                 wheel.members[i].kind = "archive" /\ r \in StringsOf(wheel.members[i])
      BY <2>2
    <3>2. r.base = "none" BY <3>1, StringsAre DEF Vendored
    <3> QED BY <1>1, <3>2, LinkageAssumption
  <2> QED BY <2>1, <2>2, RecordIsHeld
<1>2. CASE ~(r.vendored /\ r.base = lib)
  <2>1. "bundled" \in NeededAnswers(r, lib, Gathered) BY <1>2 DEF BinaryPosture
  <2>2. PICK e \in r.needed : e.lib = lib /\ NeededPosture(e, r, Gathered) = "bundled"
    BY <2>1 DEF NeededAnswers
  <2>3. PICK o \in Held : Shows(o, r) BY <2>2, RecordIsHeld, StringsAre
  <2>4. e \in o.needed /\ o.base = r.base /\ o.vendored = r.vendored BY <2>3 DEF Shows
  <2>5. e.mangled \/ (~e.absolute /\ ResolvesWithinWheel(r, e, binaries))
    BY <2>2, EverythingIs DEF NeededPosture
  <2>6. e.mangled \/ (~e.absolute /\ ResolvesWithinWheel(o, e, Held))
    BY <2>3, <2>5, ReadResolves
  <2>7. NeededPosture(e, o, Everything) = "bundled" BY <2>6, EverythingIs DEF NeededPosture
  <2>8. BinaryPosture(o, lib, Everything) \in {"bundled", "mixed"}
    BY <1>2, <2>2, <2>4, <2>7, EntryIsHeard DEF Definite
  <2> QED BY <2>8
<1> QED BY <1>1, <1>2

\* A copy in an object that was read in full is one whatever else the wheel has.
LEMMA StaticStands ==
  ASSUME IInv, SourceInv, \A s \in binaries : ~s.partial,
         NEW lib \in Libraries, NEW r \in binaries, BinaryPosture(r, lib, Gathered) = "static"
  PROVE  \E o \in Held : BinaryPosture(o, lib, Everything) = "static"
<1>1. PICK o \in Held : Shows(o, r) BY RecordIsHeld, StringsAre
<1>2. r = o BY <1>1 DEF Shows
<1>3. /\ "system" \notin NeededAnswers(r, lib, Gathered)
      /\ "bundled" \notin NeededAnswers(r, lib, Gathered)
      /\ "unknown" \notin NeededAnswers(r, lib, Gathered)
  BY DEF BinaryPosture
<1>4. \A e \in r.needed : e.lib # lib
  BY <1>3, NeededPostureType, Zenon DEF NeededAnswers
<1>5. NeededAnswers(r, lib, Gathered) = NeededAnswers(r, lib, Everything)
  BY <1>4 DEF NeededAnswers
<1>6. BinaryPosture(r, lib, Everything) = "static" BY <1>5 DEF BinaryPosture
<1> QED BY <1>2, <1>6

\* What one object reads of all there is, is the wheel's answer, or mixed.
LEMMA HeldIsHeard ==
  ASSUME NEW lib, NEW p \in Definite, NEW o \in Held,
         BinaryPosture(o, lib, Everything) \in {p, "mixed"}
  PROVE  Value(lib, Everything) \in {p, "mixed"}
<1>1. BinaryPosture(o, lib, Everything) \in ObjectPostures(lib, Everything)
  BY EverythingIs DEF ObjectPostures
<1>2. CASE BinaryPosture(o, lib, Everything) = "mixed" BY <1>1, <1>2 DEF Value, Aggregate
<1>3. CASE BinaryPosture(o, lib, Everything) = p
  <2>1. p \in ObjectPostures(lib, Everything) \cap Definite BY <1>1, <1>3
  <2> QED BY <2>1, DefiniteIsKept, Zenon DEF Value
<1> QED BY <1>2, <1>3

\* A definite answer would still be the answer, or part of a mixed one, had
\* nothing been refused, lost, cut or left a symlink: for any wheel whose
\* vendored entries look vendored (linkage.needed_posture, member_stem_counts).
THEOREM DefiniteHolds == Spec => []DefiniteStands
<1>1. IInv /\ SourceInv => DefiniteStands
  <2> SUFFICES ASSUME IInv, SourceInv, Resolved, Vendored(wheel), NEW lib \in DOMAIN answer,
                      \/ answer[lib] = "system" /\ \A r \in binaries : Misidentified(r) => r.needed = {}
                      \/ answer[lib] = "bundled" /\ \A r \in binaries : ~Misidentified(r)
                      \/ answer[lib] = "static" /\ \A r \in binaries : ~r.partial
               PROVE  Value(lib, Everything) \in {answer[lib], "mixed"}
    BY DEF DefiniteStands
  <2>1. lib \in Libraries
    <3>1. answer = ResolveLinkage(Gathered) BY DEF IInv, AnswerIsLinkages
    <3> QED BY <3>1 DEF ResolveLinkage
  <2>2. answer[lib] = Value(lib, Gathered) /\ answer[lib] \in Definite BY <2>1, AnswerIs DEF Definite
  <2>3. answer[lib] \in ObjectPostures(lib, Gathered) BY <2>2, AggregateIsOnes, Zenon DEF Value
  <2>4. PICK r \in binaries : BinaryPosture(r, lib, Gathered) = answer[lib]
    BY <2>3, EverythingIs DEF ObjectPostures
  <2>5. \E o \in Held : BinaryPosture(o, lib, Everything) \in {answer[lib], "mixed"}
    <3>1. CASE answer[lib] = "system"
      BY <2>1, <2>4, <3>1, SystemStands
    <3>2. CASE answer[lib] = "bundled"
      BY <2>1, <2>4, <3>2, BundledStands
    <3>3. CASE answer[lib] = "static"
      BY <2>1, <2>4, <3>3, StaticStands
    <3> QED BY <2>2, <3>1, <3>2, <3>3 DEF Definite
  <2> QED BY <2>2, <2>5, HeldIsHeard
<1> QED BY <1>1, IInvHolds, SourceHolds, PTL
=============================================================================
