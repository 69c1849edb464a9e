# A verification project for wheel-crypto-scan

TLA+ modules that model the parts of wheel-crypto-scan whose behaviour is hard
to test, TLC configurations that check them on small instances, and theorems
that TLAPS checks for every value of the constants. Source references are to
`src/wheel_crypto_scan/` unless they say otherwise; `PROJECT.json` maps every
definition to the lines it models.

## The system and its parts

`wheel-crypto-scan scan` reads wheels and writes one JSON record per wheel.

| Part | State it keeps | Operations | What is hard about it |
|---|---|---|---|
| Discovery (`discovery.py`) | files in the download directory | expand inputs, fetch an index | a killed download, equal names |
| Scan run (`cli.py`) | output file, `.partial`, kept records, position in the merge | start, resume, merge, write, publish | worker interleavings, crashes, write errors, resume |
| Record cache (`cache.py`) | entries on disk, shared by workers and runs | `get`, `put` | staleness, damage, races, failed scans |
| Wheel scan (`scan.py`, `errors.py`) | none between wheels | hash, collect, link, classify, build | hash and scan read the file twice; what counts as aborted |
| Archive and member stream (`wheelfile.py`) | open zip, recorded errors; position, window, stream | limits, `read`, `open_member`; `readinto`, `seek` | window arithmetic, reads that raise half way |
| Layers (`layers/`) | none | metadata, Python AST, binaries, inventory | error paths per member |
| Binary readers (`binfmt/`) | position in the stream, budgets, the table of an archive | ELF, Mach-O, PE, ar, strings | damaged, doubled and oversized structures: what is lost must be told |
| Linkage (`linkage.py`) | none | posture of every entry, object, wheel | evidence that is missing in part |
| Rules and verdict (`engine.py`, `verdict.py`, `findings.py`) | none | match, suppress, classify | rules and crates that give way to one another; values no rule rates |
| Record (`record.py`, `caps.py`, `evidence.py`) | none | cap, serialise | a cap that silences a rule or hides what a finding cites |
| Ruleset (`ruleset*.py`, `conventions.py`, `standards.py`) | the loaded ruleset | load, validate, coherence | many cross-field rules |
| Progress view (`progress.py`) | tallies, last frame's height, two locks | `update`, ticker, `close` | two threads, a terminal that can be paused |
| Reports (`report.py`) | none | render | formatting only |

They interact as follows. The main process asks discovery for the wheels,
reads kept records back for `--resume`, and pulls one line per wheel through
`_merge` from a pool of workers (or from itself, with one job), through the
progress view, into the output file. A worker hashes the wheel, asks the
cache, and otherwise scans: it opens the archive, runs the layers, which open
members as streams and hand them to the binary readers, then links, matches
rules, classifies and builds the record, and stores the line in the cache.

## Modules

| Module | Models |
|---|---|
| `ByteRuns` | runs of a file's bytes (a byte is its offset) |
| `SeekableFile` | what a reader relies on: a seekable read-only file |
| `SeekableZipMember` | `SeekableZipMember`: window, re-opening, skipping, raising reads |
| `SeekableZipMemberProofs` | theorems about it |
| `RecordCache` | `RecordCache` and record lines |
| `AtomicReport` | what a reader of the `-o` file relies on |
| `ScanRun` | runs of `scan`: main process, workers, cache, faults |
| `ScanRunProofs` | theorems about it: types, cache, output file, and whose answers a finished report has |
| `ProgressView` | the live progress view: two threads, two locks, a terminal |
| `ProgressViewProofs` | theorems about it |
| `Linkage` | `linkage.py`: postures of entries, objects and the wheel, as operators |
| `BinaryScan` | `scan_binaries` over one wheel's members, and `resolve_linkage` on the result; EXTENDS `Linkage` |
| `BinaryScanProofs` | theorems about both |
| `ReaderContract` | what every binary reader promises: which reason accounts for which evidence |
| `ElfReader`, `MachoReader`, `PeReader` | `read_elf`, `read_macho`, `read_pe` on damaged files, as operators; EXTEND `ReaderContract` |
| `MemberRead` | one member: `read_binary`, or the walk of a static archive; EXTENDS the readers |
| `MemberReadProofs` | theorems about it and the readers |
| `Caps` | `cap` and `_cap_by_findings`, as operators |
| `CapsProofs` | theorems about them |
| `Suppression` | what gives way to what, and the checks that keep it from going in circles |
| `SuppressionProofs` | theorems about it |
| `RuleEngine` | the matchers, `apply_rules`, `classify`; EXTENDS `Linkage`, `Suppression`, `Caps` |
| `WheelScan` | `scan_wheel` from file to record; EXTENDS `BinaryScan` and `RuleEngine` |
| `WheelScanProofs` | theorems about it; EXTENDS the three proof modules above it |
| `MC...` | instances for TLC |

Definitions whose comment starts with "Mutant" are not part of a model. Each is
a plausible bug of the definition that follows; putting it in that
definition's place makes a property fail, which shows that the property says
something about the code (`PROJECT.json`, "mutants").

### SeekableZipMember

`position`, `window`, `windowStart` are the attributes of the same names;
`streamPos` is where the underlying `ZipExtFile` is. `readinto` is one step
(`ReadFromWindow`, `ReadFromStream`, or `ReadRaises`). `seek` is one step up
to the call of `_skip_forward`, whose loop is one step a turn, because every
turn can raise. A read of the stream may raise after it has decompressed some
bytes (a bad CRC, a read error, no memory): those bytes are counted in `lost`.
`_reopen` closes the old stream before it opens a new one, and that may raise
too (`SeekReopenRaises`): position and window stay, `closed` is true, and every
read that the window cannot serve raises until a seek manages to re-open.
`reopens` is a statistic and left out.

* `WindowTracksStream`: the window ends where the stream is, short only of
  the lost bytes. It is the invariant all correctness rests on, and inductive.
* `SoundUntilAReadRaises`: while nothing is lost, bytes handed out are the
  member's bytes at the position, and end of file is told only at the end.
* `FileSpec`: the member implements `SeekableFile`, which says that only a call
  that failed leaves a file astray; the refinement maps a seek under way to
  where it will stop, and bytes lost in a failed call to being astray.
* `SeekReturns`: the skip loop ends. Fairness: the loop is sequential code.

Bounds: a member of 4 or 5 bytes, a window of 2, skips of 2, reads of up to 3,
seeks from 3 before the start to past the end by every `whence`. Window, skip
chunk and member are smaller than one another in turn, so the window wraps, a
skip takes several turns, starts in the window and ends past it, and a
declared size larger than the real one is met. The theorems cover every
value, a window of 0 bytes included.

### ScanRun, RecordCache, AtomicReport

Wheels are positions in discovery order. A wheel's `content` stands for its
bytes, its digest and everything the layers find in it; `Broken` contents are
those whose scan always aborts. A record line carries what it says of itself
(`name`, `digest`, `salt`), the content that was really read (`body`), and
what has become of it (`kind`): "full"; "aborted", with an error of
`SCAN_ABORTED_KINDS`; "short", when a failure that another attempt would not
meet cost it evidence and left no such error; "cut" or "undecodable" on disk.
Such a failure (fault "transient") takes one of two ways, by which catch it
meets. `ScanAborts` is the first: `MEMBER_READ_ERROR`, a `*_PARSE_ERROR`,
`UNEXPECTED_ERROR`; `_scan_was_aborted` sees it, so nothing is cached, and
`--resume` drops the line. `ShortForCache` and `ShortUncached` are the second: a
`MemoryError` or a failing read under `ELFFile()` is recorded as
`BINARY_UNKNOWN_FORMAT` (`binfmt/elf.py:591-607`), a `RecursionError` in the SBOM
reader as `SBOM_PARSE_ERROR` (`layers/metadata.py:456`), a code section that
cannot be read not at all (`binfmt/elf.py:1304`); the record is cached, and kept
by `--resume`, like a full one. The program cannot tell "short" from "full": the
difference is history, and `TakenFor` forgets it. The actions `HashWheel`, `CacheHit`,
`CacheMiss`, `ScanForCache`, `CachePut`, ... are the steps of `_scan_path` in a
worker, `EmitKept` and `EmitScanned` those of `_merge` inside `_write`,
`FinishRun` the rename. Several runs follow one another over the same cache
and output; `Crash` kills every process at any step and leaves any prefix of
the file, its last line perhaps cut; `WriteError`, `WorkerDies`, `HashRaises`,
`ScanAborts`, `ShortForCache`, `ShortUncached`, `CachePutRaises`, `ReplaceWheel`,
`CacheDamaged` are what else may go wrong, each switched on by name in `Faults`
and bounded by `MaxFaults`.

Simplifications: a target that is not a regular file is treated like a
redirected stdout; Markdown and HTML, which consume every line before the
first write, are `jsonl` runs whose writes all come last; the pool's
submission window is unlimited, as `Executor.map` submits every call at once;
`put` is one step because nobody reads its temporary file.

* `SameAsFromScratch`: an undisturbed run that finishes has written the
  records of a scan from scratch (`docs/usage.md:92-95`), but that a record may
  be one an earlier run's failure left short.
* `CacheIsTrue`: a hit is the record of exactly the content, filename and
  analyser asked for (`cache.py:3-10`), and never of an aborted scan.
* `NoStaleAnswer`: with analysers and wheels changing between runs, an
  undisturbed run has current records wherever `--resume` kept none, with the
  same exception.
* `FailuresAreFresh`: a failure under an aborted kind is never remembered
  (`cli.py:232, 272`).
* `FailuresAreForgotten`: no failure that another attempt would not meet is, as
  `cli.py:241-246` and `errors.py:122-126` want it. It is violated: see
  Findings.
* `AtomicOutput`: the run implements `AtomicReport` (`docs/usage.md:47`).
* `RunsEnd`: a run ends, even with a worker killed under it. Fairness: weak,
  for the main process and each worker, which is what an operating system
  gives runnable processes; nothing promises a next run or a fault.
* `NeverAborted` and `SameAsFromScratch` with equal filenames are violated.

Bounds: 2 or 3 wheels, 2 contents of which one is broken, 2 workers, 2 or 3
runs, 2 faults. `scan_resume` has crashes, transient failures, wheels that
cannot be read, files that cannot be written and entries that no longer decode;
`scan_cache` adds dead workers, a cache that cannot be written and wheels
replaced between runs. No passing run has a wheel replaced under its scan, or an
entry cut into other readable text: both break `CacheIsTrue` (see Findings). Two workers on three wheels reach every order in which lines
can arrive early, late or be hit in the cache; a second run is what meets what
the first left behind, and a third meets what a resumed one left; two faults
allow a failure during the recovery from another.

### ProgressView

`BuildFrame`, `TakeOutput`, `WriteFrame`, `FrameWritten` are the ticker's loop,
`Update` and `CallClose` ... `SummaryWritten` the main thread. A frame's text is
the cursor movements and row writes `_frame_text` produces, and the terminal
carries them out one at a time, so that a pause (Ctrl-S) or the other thread
can come between any two. The join's time-out may always have passed. The
wording of rows is abstracted to the frame and place they belong to; plain
mode, which has no second thread, and interruptions inside `close` are left
out, and so are terminals too short for a frame.

* `WholeFrames`: when nothing is waiting to be written, the terminal shows the
  frame built last, whole, above it what was there before, below it nothing
  of an older frame, the cursor where the next redraw expects it.
* `MessageStands`: nothing is drawn after the summary.
* `NeverStalled`, `CloseReturns`: a paused terminal stalls the redraw but not
  the scan, and close returns once it is resumed. Fairness: weak, for each
  thread; none for the user.

Bounds: frames of 1, 2 and 4 rows (growing and shrinking by more than one), 3
frames and the summary, 2 pauses, 2 records. A redraw depends only on the
frame before it, so three in a row meet every pair of heights.

### Linkage, BinaryScan

`Linkage` has one operator per function of `linkage.py`, over evidence in the
shape of `evidence.py`. A file name is what the conventions make of it (its
stem, the library it names, whether it is hash-renamed, absolute or in a vendor
directory); a symbol, string or crate is the library its group belongs to; an
SBOM component carries its folded name. `BinaryScan` gathers that evidence the
way `scan_binaries` does: members in name order, each passed over
(`PassOver`), refused by a limit (`Refuse`), failing to open (`OpenRaises`) or in
the reader (`ReadRaises`), or read (`ReadWhole`, `ReadPartly`,
`ReadArchivePartly`); then `Resolve` answers. `skipped` is what the archive has an
error for, and of which kind: a name listed twice has its error from the start,
a member refused or unreadable gets its own when it is met. A member that is no
binary may fail in the layer that reads it, or as a symlink whose target is read
(`ReadElsewhereFails`); linkage sees that error too, so it is taken with the
member, although the layer comes later. A universal binary is several
objects merged into one (`Merge`), a static archive several objects in one
member. The readers are modelled by their contract (`binfmt/__init__.py:15-30`):
a partial read may have lost any evidence, and marks the record. A cause on
`linkage_policy`'s list loses imports at most, which is what the ruleset's
comment on `pe_ordinal_import` says it gives up. A cause in `Identity`
(`elf_dynamic_unread`, an unread load command) may cost an object its soname and
rpaths as well, and never without an error; the object then goes by the name of
its file (`Conventions.own_base`, `raw_stem`), or has another member's name. An
archive without an object goes by its own name.

The properties relate the answer to what is in the wheel, read or not:

* `NoneIsEarned`: no failure of a member within limits turns into `none`.
* `DefiniteStands`: an answer given of a wheel read in part would still be the
  answer, or part of `mixed`, had everything been read. It assumes that an
  entry resolved inside the wheel looks vendored, as vendoring tools leave it,
  and that no static archive is named like a library that is loaded. What a
  partial read may take back is named answer by answer: `system` when an object
  that keeps a dependency may have lost the rpath that makes it look vendored
  (the comment at `binfmt/macho.py:868` knows), `bundled` when an object may have
  lost its soname, `static` when an object is partial at all, because a partial
  read gives a banner the benefit of the doubt.
* `FilterIsNoOp`: what `declared_by_sbom`'s docstring says of its filter.
* `FindingsAgree`: what `needed_posture`'s docstring says of field and finding.
* `SlicesAreHeard`: a merged object drops no slice's definite answer, but for a
  copy beside another slice's fork, and for a `system` entry that another slice's
  rpath makes look vendored in a wheel that was not read in full.
* `ArchivesSettleNothing`: what `member_stem_counts`' docstring says.
* `UnrecordedIsUnanswered` is violated: see Findings.

Bounds: two members a wheel, and two libraries: one always reported, with a
copy marker, forks and crates, and one whose name is also a crate's. Postures
depend on one object and on which stems the others answer to, so a second
member is enough for a dependency, a disagreement or a missing file; some 400
wheels cover each kind of evidence next to a member that decides its linkage,
and each member whose linkage turns on the other next to every kind of
neighbour, and members whose file name is, or is not, what their soname says. Not
modelled: archives holding no object. The scan of one wheel ends, so deadlock is not checked. These
properties are invariants of whole scans: run `wheel_scan` checks them under
`WheelScan`, and `ScanImplements` says why that is the same.

### ReaderContract, ElfReader, MachoReader, PeReader, MemberRead

A reader is a function from a file to a record, so each is an operator. A file
is not its bytes but what reading them meets: a table that fits, is cut or
absent; a section whose header cannot be read, whose read raises, whose type is
not the one its name promises, or of which fewer bytes are there than it
declares; rows counted for less than the string table names; a budget or a cap
that is spent. Evidence is items of a kind (`needed`, `imported`, `strings`,
...) and a name; decoding a name and matching it against the ruleset is
abstracted to the name. A record has what was found (`got`), the
`partial_reasons` (`why`) and whether there is an error.

`Costs` is the contract, taken from `evidence.py`: which kinds of evidence a
record may be short of when it gives a reason. `MemberRead` reads one member of
a wheel: an object at once (`ReadObject`), an archive by first walking its table
to the end (`TakeNames`, `PassIndex`, `TakeMember`, `StopWalk`, `StopAtCap`) and
then reading each object it found (`ReadMember`), or only the strings when there
is none (`ReadNoMember`).

* `LossesAreTold`: what a file carries is in its record, or a reason of the
  record accounts for its kind. This is what `BinaryScan` assumes of readers.
* `WholeIsExact`: a record without a reason is the object, with nothing taken
  from a decoy or counted on the wrong side of imported and defined.
* `ErrorsAndReasonsAgree`: an error never stands without a reason, nor a reason
  without an error but for the routine ones.
* `NoObjectIsLost`: every object of an archive is read, in order and once each,
  or an error says the walk stopped before it.
* `PathsAreUnique`: no two records of an archive share a path. It leaves out
  archives with a member whose name ends in `#2`: `_dedupe` gives a second `x`
  the path of a third member called `x#2` (`ar.py:204-216`). A made-up name is
  counted like any other (`ar.py:332`), so a member that is really called
  `member@8` is no exception.

Two losses are not told, and left out of the first two properties by `LeftOpen`.
`ElfReader.StrtabReplaced`: a string table of NULs with the very address
`DT_STRTAB` names, or one whose names are all known from elsewhere; the docstring
of `_validated_strtab` says so of the first. `ElfReader.StrtabUnasked`: a symbol
table none of whose rows has a name. Each row that has one asks for the linked string
table, and is unread when nothing vouches for it (`elf.py:213-256`); a table of only
its null row asks for nothing, and as there is no string table to check it against,
the check that finds rows counted short (`binfmt/symtab.py`) does not run either. An
object without `.dynamic`, whose `.dynsym` is cut to the null row, has no reason.
`LessRoutinely` of `BinaryScan`, that a routine reason costs imports at most, is
`Costs` read at `pe_ordinal_import`, `elf_go_buildinfo_unread` and
`pe_no_import_directory`, the reasons on `linkage_policy`'s list.

Bounds: every table of an ELF file in every state, in every combination (two
dynamic symbol tables, two string tables, one of each of the others); one or two
sections of strings against a budget of 4; every load command in every state,
two slices of three; two import descriptors with two thunks, budgets of 3;
archives of up to three members in every state, and four against a cap of 3. The
readers take structures one after another and combine what they gave, so a pair
of damaged structures is what can go wrong together.

### Caps, Suppression, RuleEngine, WheelScan

`Caps` has the two operators every limit goes through: `Cap`, which keeps a
round of pinned items, one of every key, and the rest in order; and
`CapByFindings`, which decides what `binaries[]` lists.
`Suppression` has `_apply_suppression`, in which a hit gives way to
rules, or to `(rule, subject)` pairs of its own, at the same path, and a hit
that gives way still has others give way; `CrateSuppressors`, by which an SBOM's
component gives way; and what the loader refuses so that none of it goes in
circles (`Edges`, `Acyclic`, `SbomIsCovered`, `CratesAreOwned`).
`RuleEngine` has one operator per matcher, `Fired` and `Findings` for
`apply_rules`, `Classes` for `classify`, and `Accepted` for what a ruleset must
satisfy to load: next to the checks of `Suppression`, a verdict is one a finding may
have (`VerdictsAreFindings`), the rule that an entry of a table names has a match
that reads the table (`RoutesAreRead`), and limits leave room for what can be matched.
What the loader does not ask, though the classes depend on it, is `Discerning`: every
way of being unread, every crate and every linkage has a verdict that nothing else
takes away.

`WheelScan` is `scan_wheel`: `Load` the ruleset or refuse it, `Open` the wheel
(`CannotOpen`: the hash or the archive fails), the binary layer step by step
(`ScanBinaries` is any step of `BinaryScan` but the last), the Python layer
(`ReadSources`: any of the sources may have failed, and those the archive could
not read have), and `Report`, which resolves linkage, applies the rules, classifies and caps. `Interrupt` is an
exception anywhere in `_collect`: what was gathered is dropped and the wheel
reported as unreadable. A scan's input is a wheel, a ruleset, and what the
metadata and the Python of the wheel have to say; `Rest` is what is left of it: a
source that failed leaves an error and no sites, and `SourceAvailable` is
`build_inventory`'s count. `fired`, where a rule matched at all, is kept
in the record for the properties; the program's record does not have it.

* `UnreadIsOpaque`: whatever could not be opened or read, and Python none of which
  could be parsed, leaves `OPAQUE` among the classes. It excepts a wheel with a
  symlink named as Python, which `FailedSourceIsOpaque` shows (see Findings).
* `NothingIsSilenced`: where a rule matched, a finding is left.
* `DeclaredIsReported`: an SBOM that moves a library's linkage has a finding
  that says so.
* `LinkageIsRated`: NO_CRYPTO_DETECTED goes with no linkage but `none`, and
  `unknown` of a library that is not always reported, in a wheel with a symlink
  or a name listed twice; `EmptyInventory` shows that exception (see Findings).
* `NoCryptoIsEarned`: NO_CRYPTO_DETECTED means that every member was within limits,
  and none has anything of a library, but that same kind of entry, or a crate
  that has a verdict.
* `EveryFindingKeepsAnObject`: when there is room for one object each, a finding
  that names objects has one listed.
* `CapsSilenceNothing`: the caps on an object's strings, symbols and crates
  change neither linkage nor findings.

Bounds: the shipped ruleset with its 38 rules of interest, at two libraries and
eight crates, one of which has no verdict; a variant whose limits are exactly as many as the checks demand
and whose crates give way to one another; and eight that must not load, for one
reason each. The wheels of `BinaryScan`, and those that bring out what rules may
lose: every set of the crates that give way to one another, in an object and in
an SBOM, three objects against lists of one and two, metadata and Python of
every kind, and sources that may fail alone and beside another source, a symlink,
bytecode, an object that turns on them, and a duplicate of the name. Two matches a key against room for one a key is the tightest cap;
four crates no ruleset names sort before those it does.

Abstractions. Errors are of the kinds the rules tell apart: "unread" for what a
member or reader failed at, "refused" for what the archive would not or could not
read, "duplicate" for a name listed twice, "python" for a source that was read and
did not parse or was over its limit. One
SBOM document a wheel. Each library has one symbol group, and string groups for
banners, copies and forks; matches of one object sort by key in blocks of
`Matches`, where the program sorts symbols by group, name and binding. A call,
attribute, constant or ctypes site is its target. A finding whose hits disagree
on a verdict takes the first hit's in the program and any of them here. Not
modelled: `max_locations_per_finding`, severity, relation and basis of a
finding, `check_suppression_can_fire`, standards, and the caps on `errors[]`,
`skipped`, `symlinks` and `bundled_libs`, which go through the same operators.
`Report` looks at the uncut evidence for linkage; `CapsSilenceNothing` says that
it makes no difference.

## Runs

| Run | Checks | Shows |
|---|---|---|
| `member` | member stream | a seekable file, until and after reads that raise |
| `scan_resume` | three wheels, two runs, `--resume` | a run that finishes undisturbed has the records of a scan from scratch, short ones excepted; aborted records are that run's own |
| `scan_cache` | three runs, replaced wheels, upgrades | hits are true, no answer is stale, `-o` changes into whole reports only, runs end |
| `scan_forgotten` | one transient failure, two runs | violated: a failure is remembered, see Findings |
| `scan_same_name`, `scan_worker_dies` | two claims of the docs | violated: see Findings |
| `view` | progress view | whole frames, and a scan no terminal can hold up |
| `read_binary` | readers and archives | nothing is lost without a word |
| `wheel_scan` | whole scans | linkage, rules, suppression and caps, from file to record |
| `wheel_scan_unrated`, `wheel_scan_unparsed`, `binary_scan_refused` | three claims of comments and docs | violated: see Findings |

Deadlock is checked for the member stream and the view. The scan may stop for
good (`MaxRuns` runs are over), so it is not checked there; `RunsEnd` takes its
place. The read of a member and the scan of a wheel end.

## Proofs

`SeekableZipMemberProofs`: `TypeOK` and `WindowTracksStream` are inductive
together with the bound of `position` by the window's end; `SoundUntilAReadRaises`
needs in addition that the window holds the run of bytes that ends at
`streamPos`; the refinement maps each action to one of `SeekableFile` or to a
stutter (`SeekReopenRaises` to a call that failed and moved nothing). Assumed: `MemberAssumption` (sizes are naturals, the declared size is
not smaller than the real one).

`ScanRunProofs`: `TypeOK` with "no worker is busy between runs"; `CacheIsTrue`
with "what a worker is about to look up or store is about the content it holds"
(`WorkersHold`), which is where a wheel replaced during its scan breaks it, so
the theorem excludes that fault and entries cut into other readable text. A hit
may be short of evidence: the theorem says whose record it is, and that it is not
of an aborted scan, no more; and
`AtomicOutput` with `ReportInv`: every line that can reach the report carries the
name it is found by (`NamesInv`), the main process has pulled exactly the pending
wheels it is past (`Aligned`), and the stream holds their answers in order
(`StreamAnswers`). It holds for any number of wheels, workers and runs, with
equal filenames too. Assumed: `ScanAssumption`, and `-o` naming a file.

Its second part says whose answers a finished report has, to a file or to a
stream. `FailuresStayFresh` needs no assumption on faults: `BirthInv` follows a
record under an aborted kind from the worker that made it, through the pool and
`_merge`, to the report, and says that neither the cache nor what `--resume` reads
back ever holds one. Of records left short it says nothing, and could not:
`scan_forgotten` shows one come back. `AnswersAreCurrent` rests on `AnswerInv`: as long as the run is
undisturbed, what the pool has finished and the stream has taken are the
answers to the pending wheels in order, each taken for the record of the content
the worker holds (`TakenFor`: it may be one left short before), or the record
`--resume` kept. It excludes the two faults that
break it: a wheel replaced between its hash and its scan, and an entry cut into
other readable text. `AnswersAreFromScratch` adds `ScratchInv` for a steady
world (`Steady`: distinct filenames, one salt, no wheel replaced at all): every
record anywhere, in the cache, in old output, in `.partial`, is taken for the one a
scan from scratch would write, so keeping one is as good as scanning again. Without
distinct filenames it is false, as `scan_same_name` shows.

`ProgressViewProofs`: `TypeOK`, and `MessagesStand` from `WriterInv`: the output
lock hands the terminal from one thread to the other (`Handed`), the ticker is
out of it once the view is closed and the summary has begun (`Quiet`), and a
message is printed only after that (`Last`). `FramesAreWhole` follows the screen
through half-written frames. A frame's text is a way back (`Back`), the rows laid
over those that are there, with blanks down to the taller of the two (`Rowed`),
and a way up; `Painted` and `CursorAt` say what the terminal shows and where its
cursor is after the first k steps of it. `FrameInv` says which of five things is the
case: nothing is drawn yet, a frame is being redrawn over the one before it, the
summary waits for a frame to be carried out, the summary is carried out, or all is
over; and in each what the terminal has left to do and what it shows. A message
goes below what is shown, and what is below a frame stays blank. All three hold
for any number of records, rows, redraws and pauses, and frames of any heights.
Assumed: `ViewAssumption`.

`BinaryScanProofs`: facts about `Linkage` first (an object reads `none` only when
no branch found anything, `NoneIsSilent`; a definite entry is heard,
`EntryIsHeard`; `_aggregate` keeps what is definite, `DefiniteIsKept`,
`AggregateNone`), then the invariant `Accounted`: a member that is behind has an
error, or each of its objects has a record that keeps what linkage reads or is
partial at a cost. `NoneIsEarned` is not inductive, since it speaks of the
answer alone; `Accounted` is what the scan keeps for it. `TypeOK`,
`NoneIsEarned`, `FilterIsNoOp`, `FindingsAgree` and `ArchivesSettleNothing` follow
for any ruleset, wheels and number of members. `SlicesAreHeard` follows from what
merging keeps: an entry reads the same of the merged record (`EntryInMerge`), and
no other slice's evidence talks a copy away (`StaticSlice`). `DefiniteStands` needs
a second invariant, `SourceInv`, which says whose the records are: each is of an
object in the wheel or of an archive's strings (`Sourced`), a path a loader could
find has one (`RecordedOnce`), a lost name comes with an error (`LossesAreTold`),
and a wheel read without a complaint has a record of each object (`AllAreThere`).
With it, what an entry resolves to among the records is in the wheel
(`ReadResolves`), and in a wheel read in full the other way round
(`HeldResolves`). Assumed: `LinkageAssumption`; `NoAnswerAssumption`; `WheelsAssumption` (paths are
distinct, an object that is not in an archive has its member's path, the slices
of a universal binary have one soname).

`CapsProofs`: `Cap` stays within its limit (`CapBounded`); when the keys are no
more than the limit every key keeps an item (`CapKeepsEveryKey`), and when only
the pinned ones are, every pinned key does (`CapKeepsPinnedKeys`). The argument:
the first items of every key are as many as the keys, and what was taken before
them is of pinned keys, so it takes the place of a first item and never crowds
one out. `FindingsKeepAnObject` says the same of `binaries[]`: a finding that
finds its first object taken leaves room for another. They hold for any finite
set of items.

`SuppressionProofs`: `LastFindingStays`. If every hit at a path gave way, then
from each hit's rule, from the crate it is about, and from the rule that owns
that crate, an edge of `Edges` would lead to another such node; an acyclic set
of edges has no such set of nodes (`NoneGivesWayForever`). A component of an SBOM
is not an edge of its own, which is why rules that look in the moving tables may
not give way at all (`SbomIsCovered`).

`WheelScanProofs` joins them. `SInv` extends `IInv` by: only a ruleset that
loaded is used (`Loaded`), linkage and record come last (`RecordIsLast`), only
Python fails to parse (`UnparsedAreSources`), and the record is of everything
gathered, or of a wheel that was given up (`RecordIsOfTheEvidence`). The last rests
on `CutIsNothing`: with room for one of everything a ruleset can match, an object's
keys are no more than its limits, so by the theorems on `Cap` the caps leave it as
it is. `NothingSilenced` needs that every hit a matcher makes gives way only as the
loader has checked (`FiredFit`); `DeclaredReported` that the hit of a component that
moves a linkage gives way to nothing (`ComponentStays`). `ScanImplements` carries the
theorems of `BinaryScanProofs` over to scans. They hold for every ruleset that is
accepted, whatever its rules, and for any number of members, matches and crates.

Three theorems are about classes, and a class depends on what a ruleset rates. Their
hypothesis is about the rulesets that load: each rates all that is unread
(`RatesUnread`) for `UnreadOpaque`, each is `Discerning` for `LinkageRated` and
`NoCryptoEarned`. The loader asks neither, so a user's ruleset may leave a rule out;
the package's `ruleset.toml` has both, and TLC evaluates that of the rulesets in
`MCWheelScan` (`ShippedIsDiscerning`). `UnreadOpaque` looks for one OPAQUE rule that
gives way to nothing for each way of being unread. The other two go the opposite
way, from a class that tells of nothing to evidence that has nothing. Which hit of
a finding gives it its verdict depends on order, so a hit counts only when all it
shares a finding with have verdicts (`Sure`); a hit that counts shows in the class
even if it gives way, since it does so to one that counts (`Tells`). Where nothing
tells (`NothingTold`), no reading failed, no crate with a verdict is in any object,
and no linkage is one that has a verdict. What is left is an entry of a library
not always reported, and `SourceInv` says when it may be unresolved.

`FindingsKeepObjects` takes `FindingsKeepAnObject` to the record: findings are one to
a rule and subject (`Keyed`), and on those `Before`, the order `_cap_by_findings`
visits them in, is strict and total, so no finding is passed over.

`WheelScanProofs` assumes `RulesetsAssumption` (a ruleset speaks of the crates and libraries the
evidence names, and its limits are naturals), `ScansAssumption`, `NamesAssumption` and
`OrdersAssumption` (names and paths sort, and a cap is a natural).

Proving these changed three things. `NoCryptoIsEarned` had said that no crate at all is
left, which an unrated one such as `getrandom` breaks; `LinkageIsRated` had excepted
symlinks alone, and a name listed twice does the same; and `Accepted` had left out
the two checks of the loader that the theorems on classes turned out to rest on.
The instances of `MCWheelScan` had met none of them, and now have all.

`MemberReadProofs`: a reading is `Proper` when its reasons are known, what it found
is of a kind, and an error and a reason come together. Nothing, a loss, a find are
proper, and so are two proper readings taken together (`BothIsProper`) or any set of
them (`TogetherIsProper`); every reader is built of these, so every reading is
(`ElfIsProper`, `MachoIsProper`, `PeIsProper`), whatever the file. What a recursive
function computes does not matter there, only what is done with it. The walk has
the invariant `ReadInv`: the objects found are the members behind the walk, each at
its place among them (`WalkInv`; `Place` counts the members up to one); paths are
names numbered by a use that was counted (`NamesInv`); and there is a record for each
of the first so many objects, in order (`RecordsInv`). `NoObjectIsLost` and
`ErrorsAndReasonsAgree` follow. For `PathsAreUnique`, a numbered name is told from every
other (`NumbersAreTold`), so a path made of a use not counted yet is new
(`TakeMemberPaths`).

`LossesTold` and `WholeExact` are proved reader by reader. A reading covers an item when
it has it or a reason that accounts for its kind (`Covers`), and is exact when it has
nothing else unless it has a reason (`Exact`). Both pass from the parts to what is put
together of them (`TogetherCovers`, `TogetherIsExact`), so for each item a file carries
one part is found that covers it:

* Mach-O (`MachoIsTold`, `MachoIsExact`): the part is the slice's commands or its
  symbol table, or the loss of the slice. Every slice the header names is parsed unless
  one is unread (`SlicesAreParsed`), and a table without a shortfall was read to its
  last row, every name in it a row's or an alias's (`TableRead`).
* PE (`PeIsTold`): imports go through a walk that a recursive function describes. It
  exists (`WalkExists`, by the least place at which there would be no such function),
  and after so many descriptors each entry behind it is read or the walk is incomplete
  (`EveryWalk`, in the same way).
* ELF (`ElfIsTold`): an item is in a row of `.dynsym`, of `.symtab`, or only in a
  string table behind them; a tag; a string; or build information. A row is covered by
  the reading of its own table, or by the reason that table was not found, was doubled,
  or was not vouched for (`DynsymTells`, `SymtabTells`); a name that no row has by the
  cross-check (`CrossCheckCovers`). The pass over string sections keeps that what is
  behind it was taken, cut by the budget, or unread (`EveryPass`), as the walk of PE does.

`ObjectIsTold` joins them with a file no reader is made for, and `ObjectsAreFormed` says
that each record is of a file, or an object, that is formed as the assumption says.

Assumed: `MembersAssumption`, `BudgetAssumption`, `SlicesAssumption`,
`DirectoriesAssumption` (caps and budgets are naturals, most not zero), and
`FilesAssumption`: what a file is, however damaged. Arrays are sequences. In an ELF
(`ElfFormed`), a section has no more bytes than it says, reading `.dynamic` raises
where it is cut, a table of NULs spells no name, and only `.symtab` has rows of
sections and files. In a Mach-O (`MachoFormed`), rows and names lie within the sizes
the table gives, the slices of a universal binary have one install name (the record
has room for one), and the target of an alias that the budget of names left unread is
not defined in the same table (then the alias alone says it is imported). In a PE (`PeFormed`), a descriptor
has one lookup table at most. TLC evaluates all of it on the instances. They hold for any
files, archives of any length, and any cap.

Proving these changed the model in four places. In `ElfReader`, a row without a name had
been unread when its string table was, while `_iter_symbols` never asks for the empty
name; with that put right, TLC found the second loss above. The
instances of `MCMemberRead` had no table with a null row, and no alias that is ever
read, and now have both. And `UNION A \cup B`, which TLC reads as `(UNION A) \cup B`,
TLAPS reads as `UNION (A \cup B)`, so what is proved about is now put in parentheses.

Only model-checked: liveness (`SeekReturns`, `RunsEnd`, `NeverStalled`,
`CloseReturns`), which TLAPS cannot prove under fairness.

## Findings

* **A symlink counts as Python that was read** (`layers/inventory.py:51` against
  the comment at 48-50 and `docs/usage.md:132-133`, run `wheel_scan_unparsed`): a
  wheel whose every source failed, and that has a symlink named `.py`, has
  `source_available` true and comes out NO_CRYPTO_DETECTED.
* **Some failures are remembered** (`binfmt/elf.py:597` against
  `errors.py:122-126` and `cli.py:241-246`, run `scan_forgotten`): a `MemoryError`
  or a failing read under `ELFFile()` is recorded as `BINARY_UNKNOWN_FORMAT`, which
  `SCAN_ABORTED_KINDS` (`errors.py:159-169`) leaves out, so the record of a wheel
  that was not read in full is cached, kept by `--resume`, and repeated by every
  later run. The two other ways to the same end are a `RecursionError` in the SBOM
  reader (`layers/metadata.py:456`; `errors.py:152-156` leaves it open) and a code
  section whose read fails (`binfmt/elf.py:1304`), which leaves no error. It is why
  `SameAsFromScratch`, `NoStaleAnswer` and the theorems on them except such records.
* **`--resume` confuses wheels of the same filename** (`cli.py:274, 159`, run
  `scan_same_name`).
* **A killed worker aborts the run** (`cli.py:182, 314`, run `scan_worker_dies`).
* **A refused member is not a failure to answer** (`linkage.py:892` against the
  docstring at 846, run `binary_scan_refused`): the limit leaves an
  archive-stage error, and only binary-stage errors count.
* **NO_CRYPTO_DETECTED with a library in the inventory** (`record.py:455`
  against the comment at 449, run `wheel_scan_unrated`): a dependency on a
  vendored-looking library that nothing in the wheel answers is `unknown` once
  the wheel has a symlink, or another member of the same name, and no rule rates `unknown` for a library other than
  OpenSSL.

Six more are excluded or left out by assumption rather than shown by a run: two
members `x` and one `x#2` of a static archive give two records one path, which
`_dedupe`'s docstring says must not be (`binfmt/ar.py:204-216`; `PathsAreUnique`
leaves such names out); an ELF object whose symbol table names nothing is read as whole, though nothing vouches for
its string table (`StrtabUnasked`, above; `elf.py:213-256` has "fail closed"); a
read of a member that raises after it decompressed some bytes leaves the stream
ahead of the position, and `binfmt/elf.py`, which catches the exception section by
section (381, 597), reads on from bytes of a later offset (`wheelfile.py:137, 191`;
`SoundUntilAReadRaises` and `SeekableFile`'s `Fail` leave that out); a wheel
replaced between its hash and its scan is cached under the old digest
(`cli.py:223-233`; fault "replaced" breaks `CacheIsTrue`), and a cache entry cut
short but readable is served as a record (`cache.py:79` against the docstring of
line 75; fault "cut" breaks `CacheIsTrue` and `SameAsFromScratch`); and matches of one string group
are not "interchangeable to every consumer" (`caps.py:16-19`):
`_banner_is_fork_text` (`linkage.py:791-823`) reads the text of banners, so an
object with its own banner and a fork's may keep only the fork's when its strings
are cut, and read `unknown` for `static`. In the models the banners of a library,
its own and a fork's, have one string group and stand or fall together.

## Not modelled

* `WheelArchive`'s arithmetic (`wheelfile.py`): sizes and ratios are seen only as
  members that are refused, and the total of all sizes, whose error names no
  member, not at all.
* Discovery: it turns arguments into paths one by one, and keeps nothing. A
  download that was cut short and is not fetched again is a wheel that does not
  open, or some of whose members do not.
* Metadata parsing, and what is recognised in a syntax tree: string and syntax
  work without state; the results are inputs of `WheelScan`.
* Field-by-field validation of a ruleset, standards, reports, package data and
  entry points, and the corpus tool: formatting and data.
* A second Ctrl-C inside `close`, plain mode, argument checking.

## Plan

1. Member stream, scan run, progress view, linkage, binary readers, rules, caps
   and whole scans (done).
2. `WheelArchive`'s limits as a component that `BinaryScan` refuses members by.
3. Proofs: every property the passing runs check has its theorem but the four that need
   fairness; what item 2 adds comes next.
