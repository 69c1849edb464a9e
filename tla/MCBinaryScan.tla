---------------------------- MODULE MCBinaryScan ----------------------------
EXTENDS BinaryScan

MCCratesOf == [lib \in Libraries |-> IF lib = "openssl" THEN {"openssl", "openssl-sys"} ELSE {}]

\* An object with nothing in it but what every object has.
Plain(path, stem) ==
  [path |-> path, stem |-> stem, base |-> "none", vendored |-> FALSE, archive |-> FALSE,
   rpath |-> FALSE, needed |-> {}, defined |-> {}, imported |-> {}, banners |-> {},
   forkBanners |-> {}, copies |-> {}, forks |-> {}, crates |-> {}, other |-> TRUE,
   partial |-> FALSE, reasons |-> {}]

SSL == {"openssl"}
Entry(stem) ==
  [lib |-> "openssl", stem |-> stem, mangled |-> FALSE, absolute |-> FALSE, vendor |-> FALSE]

Host == [Entry("crypto") EXCEPT !.absolute = TRUE]
Bare == Entry("crypto")
Loader == [Entry("crypto") EXCEPT !.vendor = TRUE]
Renamed == [Entry("crypto-hash") EXCEPT !.mangled = TRUE]
OwnName == [Entry("ext") EXCEPT !.vendor = TRUE]

\* What an extension may have of a copy of OpenSSL compiled into it.
Copies(path) ==
  {[Plain(path, "ext") EXCEPT !.defined = defined, !.banners = banners, !.copies = copies, !.forks = forks] :
     defined \in {{}, SSL}, banners \in {{}, SSL}, copies \in {{}, SSL}, forks \in {{}, SSL}}

\* What else it may have of it.
Extensions(path) ==
  LET ext == Plain(path, "ext") IN
  {ext, [ext EXCEPT !.other = FALSE], [ext EXCEPT !.imported = SSL]}
  \cup {[ext EXCEPT !.needed = needed, !.imported = imported] :
          needed \in {{Host}, {Bare}, {Loader}, {Renamed}, {OwnName}, {Host, Loader}},
          imported \in {{}, SSL}}
  \cup {[ext EXCEPT !.needed = {entry}, !.rpath = TRUE] : entry \in {Host, Bare, OwnName}}
  \cup {[ext EXCEPT !.needed = {entry}, !.banners = SSL] : entry \in {Host, Loader, Renamed}}
  \cup {[ext EXCEPT !.forkBanners = SSL, !.forks = SSL],
        [ext EXCEPT !.crates = {"openssl-sys"}],
        [ext EXCEPT !.crates = {"openssl-sys"}, !.needed = {Host}],
        [ext EXCEPT !.needed = {Host}, !.imported = SSL, !.banners = SSL],
        [ext EXCEPT !.defined = {"argon2"}]}

\* What may be next to it.
Library(path) == [Plain(path, "crypto") EXCEPT !.base = "openssl", !.vendored = TRUE]
Neighbours(path) ==
  {Library(path), Plain(path, "crypto"), Plain(path, "ext"),
   [Library(path) EXCEPT !.needed = {[Host EXCEPT !.stem = "ssl"]}],
   [Plain(path, "ext") EXCEPT !.crates = {"openssl-sys"}],
   [Plain(path, "other") EXCEPT !.needed = {Host}],
   [Plain(path, "other") EXCEPT !.defined = SSL]}

Of(kind, path, parts) ==
  [path |-> path, stem |-> "other", base |-> "none", kind |-> kind, suffix |-> "none", large |-> FALSE,
   twice |-> FALSE, parts |-> parts]
\* Files named like their soname, and files that are not.
Object(o) == [Of("object", o.path, {o}) EXCEPT !.stem = o.stem, !.base = o.base]
Objs(S) == {Object(o) : o \in S}
Disguised(S) == {Of("object", o.path, {o}) : o \in S}
Large(S) == {[m EXCEPT !.large = TRUE] : m \in S}

\* Slices that bring out what merging could lose.
Slices(path) ==
  LET ext == Plain(path, "ext") IN
  {[ext EXCEPT !.needed = {Host}], [ext EXCEPT !.needed = {Loader}, !.imported = SSL],
   [ext EXCEPT !.needed = {Renamed}], [ext EXCEPT !.defined = SSL],
   [ext EXCEPT !.needed = {Bare}],
   [ext EXCEPT !.banners = SSL], [ext EXCEPT !.banners = SSL, !.copies = SSL],
   [ext EXCEPT !.forks = SSL, !.forkBanners = SSL], [ext EXCEPT !.rpath = TRUE]}

First == Objs(Extensions("a"))
Fats == {[Of("fat", "a", {s, t}) EXCEPT !.stem = "ext"] : s, t \in Slices("a")}
Unread == {Of("other", "b", {}), Of("symlink", "b", {Library("b")})}
Second ==
  Objs(Neighbours("b")) \cup Disguised({Library("b"), Plain("b", "crypto")}) \cup Unread
  \cup Large(Objs({Library("b"), [Plain("b", "other") EXCEPT !.defined = SSL]}))
  \cup {Of("archive", "b", {[o EXCEPT !.archive = TRUE]}) :
          o \in {Plain("b(x)", "crypto"), [Plain("b(x)", "x") EXCEPT !.defined = SSL, !.banners = SSL]}}
  \cup {[m EXCEPT !.stem = "crypto", !.base = "openssl"] :
          m \in Disguised({Plain("b", "other")})
                 \cup {Of("archive", "b", {[Plain("b(x)", "x") EXCEPT !.archive = TRUE]})}}

Named(name, cargo) == [name |-> name, cargo |-> cargo]
Boms == {{}, {Named("openssl-sys", TRUE)}, {Named("openssl", FALSE)},
         {Named("argon2", TRUE)}, {Named("argon2", FALSE)}}

Wheel(m, n, components) == [members |-> <<m, n>>, components |-> components]

\* The members whose linkage turns on what else the wheel has.
Pivotal ==
  LET ext == Plain("a", "ext") IN
  Objs({ext, [ext EXCEPT !.imported = SSL], [ext EXCEPT !.needed = {Host}],
        [ext EXCEPT !.needed = {Bare}], [ext EXCEPT !.needed = {Loader}],
        [ext EXCEPT !.crates = {"openssl-sys"}]})
Beside ==
  Unread \cup Objs({Library("b"), Plain("b", "crypto"), [Plain("b", "other") EXCEPT !.defined = SSL]})

\* Every member beside one that decides its linkage, and those whose linkage
\* turns on the other beside every other; compiled-in copies, and universal
\* binaries, beside one that is there, and one that is not read; and SBOMs beside
\* the objects they may speak of.
MCWheels ==
  {Wheel(m, n, {}) : m \in First, n \in Beside}
  \cup {Wheel(m, n, {}) : m \in Pivotal, n \in Second}
  \cup {Wheel(m, n, {}) : m \in Disguised({[Plain("a", "ext") EXCEPT !.needed = {OwnName}]}), n \in Second}
  \cup {Wheel(m, n, {}) : m \in Objs(Copies("a")),
          n \in Unread \cup Objs({Library("b"), [Plain("b", "other") EXCEPT !.needed = {Host}]})}
  \cup {Wheel(m, n, {}) : m \in Fats, n \in Unread}
  \cup {Wheel(Object(o), n, c) :
          o \in {e \in Extensions("a") :
                   \/ e.crates # {} \/ e.defined = {"argon2"}
                   \/ e.needed = {Host} /\ e.imported = {} /\ ~e.rpath},
          n \in Objs({Plain("b", "ext"), [Plain("b", "ext") EXCEPT !.crates = {"openssl-sys"}]}),
          c \in Boms}
=============================================================================
