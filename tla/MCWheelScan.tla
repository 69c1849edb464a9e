---------------------------- MODULE MCWheelScan ----------------------------
EXTENDS MCBinaryScan, WheelScan

\* The crates beside OpenSSL's: AWS-LC, plain and FIPS, and three of no library's,
\* one of them without a verdict.
MCRustCrates ==
  {"openssl", "openssl-sys", "argon2", "aws-lc-rs", "aws-lc-fips-sys", "getrandom", "ring", "sha1"}

\* No wheel here has strings of argon2's.
MCGroupName ==
  [g \in {"banner", "copy", "fork"} \X {"openssl", "argon2"} |->
     CASE g[1] = "banner" -> "openssl_banner"
       [] g[1] = "copy" -> "openssl_copy"
       [] g[1] = "fork" -> "boringssl"]

----------------------------------------------------------------------------
(* The shipped ruleset, in short.                                          *)

ScanErrors(kinds) == [kind |-> "scan_error", errorKinds |-> kinds]
Tables(tables) == [kind |-> "sbom_component", tables |-> tables]
Bundled(libs) == [kind |-> "bundled_library", libraries |-> libs]
Needed(libs, mangled, resolved) ==
  [kind |-> "dt_needed", libraries |-> libs, mangled |-> mangled, resolved |-> resolved]
Symbols(lib, bindings) == [kind |-> "dynamic_symbol", groups |-> {lib}, bindings |-> bindings]
Strings(group) == [kind |-> "binary_string", groups |-> {group}]
Linked(names, values) ==
  [kind |-> "linkage", names |-> names, values |-> values, declared |-> BOOLEAN,
   objects |-> {}, unless |-> {}, inherit |-> FALSE]
Partial(claims, unnamed) == [kind |-> "partial_binary", claims |-> claims, unnamed |-> unnamed]
Plainly(kind) == [kind |-> kind]
Sites(site, targets) == [kind |-> "py_site", site |-> site, targets |-> targets]

OpenSSL == {"openssl"}
Rule(verdict, matches) == [verdict |-> verdict, matches |-> matches]

ShippedRules ==
  [DIST_NON_APPROVED_CRYPTO |-> Rule("NON_APPROVED_CRYPTO", {Plainly("dist_name")}),
   DIST_DEPENDS_ON_CRYPTO |-> Rule("none", {[kind |-> "requires_dist", anyEntry |-> TRUE]}),
   WHEEL_GENERATOR |-> Rule("none", {Plainly("wheel_generator")}),
   WHEEL_NO_PYTHON_SOURCE |-> Rule("OPAQUE", {Plainly("no_source")}),
   WHEEL_METADATA_UNPARSEABLE |-> Rule("OPAQUE", {ScanErrors({"metadata"})}),
   WHEEL_UNREADABLE |-> Rule("OPAQUE", {ScanErrors({"bad_zip"})}),
   WHEEL_SCAN_INTERRUPTED |-> Rule("OPAQUE", {ScanErrors({"unexpected_error"})}),
   WHEEL_MEMBER_UNREADABLE |-> Rule("OPAQUE", {ScanErrors({"unread", "refused"})}),
   WHEEL_ARCHIVE_ANOMALY |-> Rule("none", {ScanErrors({"duplicate"})}),
   WHEEL_RECORD_MISMATCH |-> Rule("none", {Plainly("record_mismatch")}),
   WHEEL_BINARIES_TRUNCATED |-> Rule("none", {Plainly("binaries_truncated")}),
   SBOM_CRYPTO_COMPONENT |-> Rule("none", {Tables(<<"crypto_library", "rust_crate", "crypto_distribution">>)}),
   BIN_BUNDLED_OPENSSL |-> Rule("CONDITIONAL", {Bundled(OpenSSL)}),
   BIN_BUNDLED_CRYPTO_LIB |-> Rule("none", {Bundled(Libraries \ OpenSSL)}),
   BIN_NEEDED_SYSTEM_OPENSSL |-> Rule("none", {Needed(OpenSSL, {FALSE}, BOOLEAN)}),
   BIN_NEEDED_MANGLED_CRYPTO |-> Rule("CONDITIONAL", {Needed(Libraries, {TRUE}, BOOLEAN)}),
   BIN_NEEDED_VENDORED_CRYPTO |-> Rule("CONDITIONAL", {Needed(Libraries, BOOLEAN, {TRUE})}),
   BIN_OPENSSL_SYMBOLS_IMPORTED |-> Rule("none", {Symbols("openssl", {"imported"})}),
   BIN_OPENSSL_SYMBOLS_DEFINED |-> Rule("CONDITIONAL", {Symbols("openssl", {"defined"})}),
   BIN_OPENSSL_BANNER |-> Rule("none", {Strings("openssl_banner")}),
   BIN_BORINGSSL |-> Rule("NON_APPROVED_CRYPTO", {Strings("boringssl")}),
   BIN_ARGON2 |-> Rule("NON_APPROVED_CRYPTO", {Symbols("argon2", {"defined", "imported"})}),
   BIN_AWS_LC_FIPS |-> Rule("CONDITIONAL", {Plainly("rust_crate")}),
   BIN_AWS_LC_RS_CRATE |-> Rule("none", {Plainly("rust_crate")}),
   BIN_RUST_CRYPTO_CRATE |-> Rule("none", {Plainly("rust_crate")}),
   BIN_STATIC_OPENSSL |-> Rule("CONDITIONAL", {Linked(OpenSSL, {"static"})}),
   DERIVED_SYSTEM_OPENSSL_ONLY |-> Rule("CONDITIONAL",
        {[Linked(OpenSSL, {"system"}) EXCEPT !.unless = {"unknown"}, !.declared = {FALSE}]}),
   DERIVED_OPENSSL_UNRESOLVED_BESIDE_SYSTEM |-> Rule("OPAQUE",
        {[Linked(OpenSSL, {"system"}) EXCEPT !.objects = {"unknown"}]}),
   DERIVED_OPENSSL_DECLARED_BESIDE_SYSTEM |-> Rule("OPAQUE",
        {[Linked(OpenSSL, {"system"}) EXCEPT !.declared = {TRUE}]}),
   BIN_LINKED_CRYPTO_LIBRARY |-> Rule("none",
        {[Linked(Libraries \ OpenSSL, {"system", "bundled", "static", "mixed"}) EXCEPT !.inherit = TRUE]}),
   BIN_OPENSSL_LINKAGE_UNKNOWN |-> Rule("OPAQUE", {Linked(OpenSSL, {"unknown", "mixed"})}),
   BIN_OPAQUE |-> Rule("OPAQUE", {Plainly("opaque_binary")}),
   BIN_PARTIAL_FORMAT |-> Rule("OPAQUE", {Partial(Costing, TRUE)}),
   BIN_PARTIAL_ROUTINE |-> Rule("none", {Partial(Routine, FALSE)}),
   PY_IMPORT_CRYPTO_MODULE |-> Rule("none", {Plainly("py_import")}),
   PY_UNREADABLE |-> Rule("none", {ScanErrors({"python"})}),
   PY_WEAK_HASH_CALL |-> Rule("FIPS_BREAKING", {Sites("call", {"hashlib.md5"})}),
   PY_TLS_VERSION_PINNED |-> Rule("CONDITIONAL", {Sites("attr", {"minimum_version"})})]

TablesOf(rule) ==
  UNION {{m.tables[i] : i \in DOMAIN m.tables} : m \in {x \in rule.matches : x.kind = "sbom_component"}}

\* A ruleset of these rules: what gives way to what, and how much is kept.
Ruleset(rules, suppressedBy(_), crateBy(_), limits) ==
  LET ids == DOMAIN rules
      verdict(name) == IF name = "openssl" THEN "CONDITIONAL" ELSE "NON_APPROVED_CRYPTO" IN
  [verdict |-> [id \in ids |-> rules[id].verdict],
   matches |-> [id \in ids |-> rules[id].matches],
   tables |-> [id \in ids |-> TablesOf(rules[id])],
   suppressedBy |-> [id \in ids |-> suppressedBy(id)],
   owner |-> [c \in RustCrates |-> CASE c = "aws-lc-rs" -> "BIN_AWS_LC_RS_CRATE"
                                     [] c = "aws-lc-fips-sys" -> "BIN_AWS_LC_FIPS"
                                     [] OTHER -> "BIN_RUST_CRYPTO_CRATE"],
   crateBy |-> [c \in RustCrates |-> crateBy(c)],
   crateVerdict |-> [c \in RustCrates |-> CASE c = "aws-lc-fips-sys" -> "CONDITIONAL"
                                           [] c = "getrandom" -> "none"
                                           [] OTHER -> verdict(c)],
   libraryVerdict |-> [l \in Libraries |-> verdict(l)],
   libraryOwner |-> [l \in Libraries |-> "none"],
   distRule |-> [d \in {"pycrypto"} |-> "DIST_NON_APPROVED_CRYPTO"],
   distVerdict |-> [d \in {"pycrypto"} |-> "NON_APPROVED_CRYPTO"],
   moduleOwner |-> [x \in {"hashlib", "ssl"} |-> IF x = "ssl" THEN "PY_IMPORT_CRYPTO_MODULE" ELSE "none"],
   moduleVerdict |-> [x \in {"hashlib", "ssl"} |-> "CONTEXT_DEPENDENT"],
   limits |-> limits]

ShippedSuppression(id) == IF id = "BIN_AWS_LC_RS_CRATE" THEN {"BIN_AWS_LC_FIPS"} ELSE {}
NoCrate(c) == {}
Ample == [strings |-> 64, symbols |-> 64, crates |-> 64]
Exact == [strings |-> 3, symbols |-> 4, crates |-> 8]

RingByFips(c) == IF c = "ring" THEN {"aws-lc-fips-sys", "sha1"} ELSE {}
BothWays(c) == CASE c = "ring" -> {"aws-lc-rs"} [] c = "aws-lc-rs" -> {"ring"} [] OTHER -> {}
FipsByCrate(c) == IF c = "aws-lc-fips-sys" THEN {"aws-lc-rs"} ELSE {}
SysByRing(c) == IF c = "openssl-sys" THEN {"ring"} ELSE {}
SbomSuppression(id) == IF id = "SBOM_CRYPTO_COMPONENT" THEN {"WHEEL_GENERATOR"} ELSE {}

\* The shipped one, variants a user may write, and variants that do not load.
MCRulesets ==
  [shipped |-> Ruleset(ShippedRules, ShippedSuppression, NoCrate, Ample),
   exact |-> [Ruleset(ShippedRules, ShippedSuppression, RingByFips, Exact) EXCEPT
                !.crateVerdict["argon2"] = "CONTEXT_DEPENDENT"],
   circle |-> Ruleset(ShippedRules, ShippedSuppression, BothWays, Ample),
   crossed |-> Ruleset(ShippedRules, ShippedSuppression, FipsByCrate, Ample),
   unexplained |-> Ruleset(ShippedRules, ShippedSuppression, SysByRing, Ample),
   passing |-> [Ruleset(ShippedRules, ShippedSuppression, NoCrate, Ample) EXCEPT
                  !.crateVerdict["ring"] = "NO_CRYPTO_DETECTED"],
   misrouted |-> [Ruleset(ShippedRules, ShippedSuppression, NoCrate, Ample) EXCEPT
                    !.owner["ring"] = "BIN_OPENSSL_BANNER"],
   silent |-> Ruleset(ShippedRules, SbomSuppression, NoCrate, Ample),
   narrow |-> Ruleset(ShippedRules, ShippedSuppression, NoCrate, [Exact EXCEPT !.strings = 2]),
   fewCrates |-> Ruleset(ShippedRules, ShippedSuppression, NoCrate, [Exact EXCEPT !.crates = 2])]

----------------------------------------------------------------------------
(* Scans.                                                                  *)

MCPathOrder == <<"a", "b", "b(x)", "c", "info", "m.py", "n.py", "n.pyc", "sbom", "wheel">>
MCNameOrder ==
  <<"BIN_ARGON2", "BIN_AWS_LC_FIPS", "BIN_AWS_LC_RS_CRATE", "BIN_BORINGSSL",
    "BIN_BUNDLED_CRYPTO_LIB", "BIN_BUNDLED_OPENSSL", "BIN_LINKED_CRYPTO_LIBRARY",
    "BIN_NEEDED_MANGLED_CRYPTO", "BIN_NEEDED_SYSTEM_OPENSSL", "BIN_NEEDED_VENDORED_CRYPTO",
    "BIN_OPAQUE", "BIN_OPENSSL_BANNER", "BIN_OPENSSL_LINKAGE_UNKNOWN",
    "BIN_OPENSSL_SYMBOLS_DEFINED", "BIN_OPENSSL_SYMBOLS_IMPORTED", "BIN_PARTIAL_FORMAT",
    "BIN_PARTIAL_ROUTINE", "BIN_RUST_CRYPTO_CRATE", "BIN_STATIC_OPENSSL",
    "DERIVED_OPENSSL_DECLARED_BESIDE_SYSTEM", "DERIVED_OPENSSL_UNRESOLVED_BESIDE_SYSTEM",
    "DERIVED_SYSTEM_OPENSSL_ONLY", "DIST_DEPENDS_ON_CRYPTO", "DIST_NON_APPROVED_CRYPTO",
    "PY_IMPORT_CRYPTO_MODULE", "PY_TLS_VERSION_PINNED", "PY_UNREADABLE", "PY_WEAK_HASH_CALL",
    "SBOM_CRYPTO_COMPONENT", "WHEEL_ARCHIVE_ANOMALY", "WHEEL_BINARIES_TRUNCATED", "WHEEL_GENERATOR",
    "WHEEL_MEMBER_UNREADABLE", "WHEEL_METADATA_UNPARSEABLE", "WHEEL_NO_PYTHON_SOURCE",
    "WHEEL_RECORD_MISMATCH", "WHEEL_SCAN_INTERRUPTED", "WHEEL_UNREADABLE", "adler", "ahash",
    "anyhow", "argon2", "autocfg",
    "aws-lc-fips-sys", "aws-lc-rs", "boringssl", "generator", "getrandom", "hashlib", "minimum_version",
    "none", "object", "openssl", "openssl-sys", "openssl_banner", "openssl_copy",
    "pycrypto", "ring", "sha1", "ssl">>

\* Metadata and Python with nothing in them, and with something of everything; of
\* sources the scan has its own to say.
Quiet ==
  [name |-> {}, requires |-> {}, generator |-> FALSE, mismatched |-> {}, sources |-> "read",
   sites |-> {}, errors |-> {}, distInfo |-> "info",
   metadata |-> "info/METADATA", wheelFile |-> "info/WHEEL", document |-> "sbom"]
Site(kind, target) == [kind |-> kind, target |-> target, path |-> "m.py"]
Busy ==
  [Quiet EXCEPT !.name = {"pycrypto"}, !.requires = {"pycrypto"}, !.generator = TRUE,
                !.mismatched = {"a"}, !.sites = {Site("import", "ssl"), Site("import", "hashlib"),
                Site("call", "hashlib.md5"), Site("attr", "minimum_version")}]

Scan(w, ruleset, rest, max, faulty) ==
  [wheel |-> w, input |-> [ruleset |-> ruleset, rest |-> rest, max |-> max, faulty |-> faulty]]

One(m) == [members |-> <<m>>, components |-> {}]
Three(l, m, n) == [members |-> <<l, m, n>>, components |-> {}]
Crate(path, crates) == [Plain(path, "ext") EXCEPT !.crates = crates]
Declaring(components) == [members |-> <<>>, components |-> {Named(c, TRUE) : c \in components}]

Argon == [Entry("argon2") EXCEPT !.lib = "argon2", !.vendor = TRUE]
NeedsArgon == [Plain("a", "ext") EXCEPT !.needed = {Argon}]
Marked == [Plain("a", "ext") EXCEPT !.banners = SSL, !.copies = SSL, !.forks = SSL]

AwsCrates == {"aws-lc-rs", "aws-lc-fips-sys", "ring", "sha1"}

\* The wheels that bring out what the rules may lose.
Pointed ==
  {One(Object(Crate("a", crates))) : crates \in SUBSET AwsCrates}
  \cup {Declaring(crates) : crates \in SUBSET AwsCrates}
  \cup UNION {{One(Object(Crate("a", crates))), Declaring(crates)} :
                crates \in {{"getrandom"}, {"getrandom", "sha1"}, AwsCrates \cup {"getrandom"}}}
  \cup {One([Object(NeedsArgon) EXCEPT !.twice = TRUE])}
  \cup {Declaring(crates \cup {"openssl-sys"}) : crates \in SUBSET {"ring", "sha1"}}
  \cup {[members |-> <<>>, components |-> {Named("argon2", TRUE), Named("argon2", FALSE)}]}
  \cup {Wheel(Object(Crate("a", {"aws-lc-rs"})), Object(Crate("b", {"aws-lc-fips-sys"})), {}),
        One(Object(Marked)), One(Object([Marked EXCEPT !.crates = {"ring", "sha1", "openssl"}]))}
  \cup {Wheel(Object(NeedsArgon), n, {}) :
          n \in {Of("other", "b", {}), Of("symlink", "b", {Plain("b", "argon2")}),
                 Object([Plain("b", "argon2") EXCEPT !.base = "argon2", !.vendored = TRUE])}}

\* Three objects, and a list of fewer.
Crowd ==
  {Three(Object(Crate("a", {"ring"})), Object(Crate("b", {crate})), Object(n)) :
     crate \in {"ring", "sha1"},
     n \in {[Plain("c", "ext") EXCEPT !.defined = {"argon2"}], Crate("c", {"sha1"})}}
  \cup {Three(Object(Plain("a", "ext")), Object(Plain("b", "ext")), Object(Crate("c", {"sha1"})))}

\* Python that may not parse, alone and beside a symlink, bytecode, or another of
\* its name; and beside an object whose linkage turns on what was read.
Script(path) == [Of("other", path, {}) EXCEPT !.suffix = "py"]
Link == [Of("symlink", "n.py", {}) EXCEPT !.suffix = "py"]
Bytecode == [Of("other", "n.pyc", {}) EXCEPT !.suffix = "pyc"]
Scripts ==
  {One(m) : m \in {Script("m.py"), Link, Bytecode, [Script("m.py") EXCEPT !.twice = TRUE]}}
  \cup {Wheel(Script("m.py"), n, {}) : n \in {Script("n.py"), Link, Bytecode}}
  \cup {Wheel(Link, Bytecode, {}), Wheel(Object(NeedsArgon), Script("m.py"), {})}
  \cup {Wheel([o EXCEPT !.twice = TRUE], Script("m.py"), {}) :
          o \in {Object([Plain("a", "ext") EXCEPT !.needed = {e}]) : e \in {Host, Bare}}}

MCScans ==
  {Scan(w, "shipped", Quiet, 4, FALSE) : w \in MCWheels}
  \cup {Scan(w, r, Quiet, 4, FALSE) : w \in Pointed, r \in DOMAIN MCRulesets}
  \cup {Scan(w, "shipped", Quiet, 2, FALSE) : w \in Crowd}
  \cup {Scan(w, "shipped", Quiet, 1, FALSE) : w \in {c \in Crowd : c.members[1].parts = {Plain("a", "ext")}}}
  \cup {Scan(w, "shipped", rest, 4, FALSE) : w \in Scripts, rest \in {Quiet, Busy}}
  \cup {Scan(w, "shipped", rest, 4, TRUE) :
          w \in {Wheel(Object(NeedsArgon), Script("m.py"), {}), Declaring({"ring"})},
          rest \in {Quiet, [Quiet EXCEPT !.errors = {[kind |-> "metadata", path |-> "info"]}]}}
MCScanWheels == {s.wheel : s \in MCScans}

\* Whatever loads here rates what the theorems on classes ask of a ruleset.
ASSUME ShippedIsDiscerning ==
  /\ Accepted(MCRulesets.shipped) /\ Accepted(MCRulesets.exact)
  /\ \A name \in DOMAIN MCRulesets : Accepted(MCRulesets[name]) => Discerning(MCRulesets[name])
=============================================================================
