------------------------------- MODULE ScanRun -------------------------------
(***************************************************************************)
(* wheel-crypto-scan scan, run after run over the same wheels: the main    *)
(* process that merges, writes and publishes the records (cli._run_scan,   *)
(* _merge, _write), the workers that produce them (cli._scan_path through  *)
(* scan.scan_wheel), the cache they share (RecordCache), and what can      *)
(* happen to a run from outside.                                           *)
(*                                                                         *)
(* Wheels are the positions 1..Wheels of discovery order.  What the layers *)
(* find in a wheel is abstracted to the content they found it in; whether  *)
(* the content can be scanned at all is kept (Broken).                     *)
(***************************************************************************)
EXTENDS RecordCache, Sequences

CONSTANTS Wheels, NameOf,   \* the wheels discovered, and their filenames
          Broken,           \* contents whose scan always aborts
          Jobs,             \* --jobs
          Modes,            \* "file": -o PATH, "redirect": > PATH
          MaxRuns,          \* how often the command is run
          Faults,           \* what may go wrong from outside
          MaxFaults,        \* how often
          NoFile, NoLine    \* a file, a line that is not there

ASSUME ScanAssumption ==
  /\ Wheels \in Nat /\ NameOf \in [1..Wheels -> Names]
  /\ Broken \subseteq Digests /\ "none" \notin Digests /\ Salts # {}
  /\ Jobs \in Nat \ {0}
  /\ Modes \subseteq {"file", "redirect"}
  /\ MaxRuns \in Nat /\ MaxFaults \in Nat
  /\ NoFile \notin Seq(Lines) /\ NoLine \notin Lines

VARIABLES
  content,   \* the content of each wheel now
  output,    \* the lines of the output file, or NoFile
  partial,   \* the lines of its .partial sibling, or NoFile
  run,       \* the run: its number, arguments and status
  existing,  \* _existing_records: kept lines by filename
  pending,   \* the wheels to scan, in order
  taken,     \* how many of them a worker has begun
  results,   \* the lines scanned so far, by index in pending
  pulled,    \* how many of them main has consumed
  next,      \* the wheel _merge is at
  broken,    \* has the pool lost a worker?
  worker,    \* what each worker is at
  faults,    \* how many faults have happened (bounds the model)
  clean      \* has nothing disturbed this run's scans or wheels? (history)

reportVars == <<output, partial>>
poolVars == <<taken, results, broken, worker>>
mainVars == <<existing, pending, pulled, next>>
vars == <<content, cache, reportVars, run, mainVars, poolVars, faults, clean>>

Workers == 1..Jobs
Task(pc, index, digest, line) ==
  [pc |-> pc, index |-> index, digest |-> digest, line |-> line]
Idle == Task("idle", 0, "none", NoLine)
Empty == [x \in {} |-> NoLine]

Init ==
  /\ content \in [1..Wheels -> Digests]
  /\ cache = Empty /\ output = NoFile /\ partial = NoFile
  /\ run = [number |-> 0, status |-> "none", salt |-> CHOOSE s \in Salts : TRUE,
            resume |-> FALSE, mode |-> "file"]
  /\ existing = Empty /\ pending = <<>> /\ pulled = 0 /\ next = 0
  /\ taken = 0 /\ results = Empty /\ broken = FALSE /\ worker = [w \in Workers |-> Idle]
  /\ faults = 0 /\ clean = TRUE

Writing == run.status = "writing"

Fault(name) == name \in Faults /\ faults < MaxFaults /\ faults' = faults + 1

----------------------------------------------------------------------------
(* Starting a run.                                                         *)

\* The lines of some kinds by filename, the last of each.
LastOfEach(lines, kinds) ==
  LET good == IF lines = NoFile THEN {} ELSE {i \in DOMAIN lines : lines[i].kind \in kinds} IN
  {kept \in [{lines[i].name : i \in good} -> {lines[i] : i \in good}] :
     \A name \in DOMAIN kept :
       \E i \in good : /\ lines[i] = kept[name] /\ lines[i].name = name
                      /\ \A j \in good : lines[j].name = name => j <= i}

\* Mutant: a line that does not parse is kept.
ExistingRecordsUnparsed(lines) == LastOfEach(lines, {"full", "short", "cut"})

\* What --resume keeps: lines with an aborted kind and lines that do not parse
\* are dropped, and a file that cannot be read has none.
ExistingRecords(lines) == LastOfEach(lines, {"full", "short"})

\* The wheels of S in discovery order.
InOrder(S) ==
  {wheels \in UNION {[1..n -> S] : n \in 0..Wheels} :
     /\ S = {wheels[i] : i \in DOMAIN wheels}
     /\ \A i, j \in DOMAIN wheels : i < j => wheels[i] < wheels[j]}

NotIn(kept) == {i \in 1..Wheels : NameOf[i] \notin DOMAIN kept}

StartRun(salt, resume, mode) ==
  /\ ~Writing /\ run.number < MaxRuns
  /\ run' = [number |-> run.number + 1, status |-> "writing", salt |-> salt,
             resume |-> resume, mode |-> mode]
  /\ existing' \in IF resume /\ mode = "file" THEN ExistingRecords(output) ELSE {Empty}
  /\ pending' \in InOrder(NotIn(existing'))
  /\ next' = 1 /\ pulled' = 0 /\ clean' = TRUE
  /\ IF mode = "file" THEN partial' = <<>> /\ UNCHANGED output
                      ELSE output' = <<>> /\ UNCHANGED partial
  /\ UNCHANGED <<content, cache, poolVars, faults>>

----------------------------------------------------------------------------
(* _scan_path, in a worker.                                                *)

\* _merge has asked for a scanned line and waits for it.
MainWaits == Writing /\ next <= Wheels /\ NameOf[next] \notin DOMAIN existing

Path(w) == pending[worker[w].index]
Name(w) == NameOf[Path(w)]
At(w, pc) == Writing /\ worker[w].pc = pc
Goto(w, pc, digest, line) ==
  worker' = [worker EXCEPT ![w] = Task(pc, worker[w].index, digest, line)]

Deliver(w, line) ==
  /\ results' = [i \in DOMAIN results \cup {worker[w].index} |->
                   IF i = worker[w].index THEN line ELSE results[i]]
  /\ worker' = [worker EXCEPT ![w] = Idle]

WorkerFrame == UNCHANGED <<content, reportVars, run, mainVars, broken>>

Aborted(w, digest) == Line(Name(w), digest, "none", run.salt, "aborted", run.number)

\* Mutant: a worker reaches for a wheel past the last.
TakePastTheEnd(w) ==
  /\ At(w, "idle") /\ ~broken /\ taken <= Len(pending)
  /\ MainWaits \/ (Jobs > 1 /\ pulled > 0)
  /\ Jobs = 1 => taken = pulled
  /\ taken' = taken + 1
  /\ worker' = [worker EXCEPT ![w] = Task("hash", taken + 1, "none", NoLine)]
  /\ WorkerFrame /\ UNCHANGED <<cache, results, faults, clean>>

\* A pool starts on everything once _merge asks for the first line; without
\* one, the wheel is scanned when _merge asks for it.
Take(w) ==
  /\ At(w, "idle") /\ ~broken /\ taken < Len(pending)
  /\ MainWaits \/ (Jobs > 1 /\ pulled > 0)
  /\ Jobs = 1 => taken = pulled
  /\ taken' = taken + 1
  /\ worker' = [worker EXCEPT ![w] = Task("hash", taken + 1, "none", NoLine)]
  /\ WorkerFrame /\ UNCHANGED <<cache, results, faults, clean>>

HashWheel(w) ==
  /\ At(w, "hash")
  /\ Goto(w, "get", content[Path(w)], NoLine)
  /\ WorkerFrame /\ UNCHANGED <<cache, taken, results, faults, clean>>

\* hash_wheel raised: scan_wheel hashes again, and nothing is cached.
HashRaises(w) ==
  /\ At(w, "hash") /\ Fault("unreadable")
  /\ Goto(w, "rehash", "none", NoLine)
  /\ WorkerFrame /\ UNCHANGED <<cache, taken, results, clean>>

Rehash(w) ==
  /\ At(w, "rehash")
  /\ Goto(w, "collect uncached", content[Path(w)], NoLine)
  /\ WorkerFrame /\ UNCHANGED <<cache, taken, results, faults, clean>>

RehashRaises(w) ==
  /\ At(w, "rehash")
  /\ Deliver(w, Aborted(w, "none"))
  /\ clean' = FALSE
  /\ WorkerFrame /\ UNCHANGED <<cache, taken, faults>>

\* Mutant: the key without the filename.
CacheKeyOfContent(w) == <<worker[w].digest, CHOOSE name \in Names : TRUE, run.salt>>
\* Mutant: the key without the analyser.
CacheKeyOfAnyAnalyser(w) == <<worker[w].digest, Name(w), CHOOSE salt \in Salts : TRUE>>
CacheKey(w) == <<worker[w].digest, Name(w), run.salt>>

CacheHit(w) ==
  /\ At(w, "get") /\ Held(CacheKey(w))
  /\ Deliver(w, cache[CacheKey(w)])
  /\ WorkerFrame /\ UNCHANGED <<cache, taken, faults, clean>>

CacheMiss(w) ==
  /\ At(w, "get") /\ ~Held(CacheKey(w))
  /\ Goto(w, "collect", worker[w].digest, NoLine)
  /\ WorkerFrame /\ UNCHANGED <<cache, taken, results, faults, clean>>

\* scan_wheel: the archive is opened again, after the hash was taken.
Scanned(w) ==
  LET body == content[Path(w)] IN
  IF body \in Broken THEN Aborted(w, worker[w].digest)
  ELSE Line(Name(w), worker[w].digest, body, run.salt, "full", 0)

ScanForCache(w) ==
  /\ At(w, "collect") /\ content[Path(w)] \notin Broken
  /\ Goto(w, "put", worker[w].digest, Scanned(w))
  /\ WorkerFrame /\ UNCHANGED <<cache, taken, results, faults, clean>>

\* A record of an aborted scan, or of a wheel first unreadable, is not cached.
ScanUncached(w) ==
  /\ At(w, "collect uncached") \/ (At(w, "collect") /\ content[Path(w)] \in Broken)
  /\ Deliver(w, Scanned(w))
  /\ WorkerFrame /\ UNCHANGED <<cache, taken, faults, clean>>

\* Mutant: the record of an aborted scan is cached as well.
ScanAbortsCached(w) ==
  /\ At(w, "collect")
  /\ Fault("transient") /\ clean' = FALSE
  /\ Goto(w, "put", worker[w].digest, Aborted(w, worker[w].digest))
  /\ WorkerFrame /\ UNCHANGED <<cache, taken, results>>

\* A MemoryError, or a read error, that another attempt would not meet, where
\* it is recorded under a kind of SCAN_ABORTED_KINDS.
ScanAborts(w) ==
  /\ At(w, "collect") \/ At(w, "collect uncached")
  /\ Fault("transient") /\ clean' = FALSE
  /\ Deliver(w, Aborted(w, worker[w].digest))
  /\ WorkerFrame /\ UNCHANGED <<cache, taken>>

Short(w) ==
  Line(Name(w), worker[w].digest, content[Path(w)], run.salt, "short", run.number)

\* The same where the catch around it records another kind, or none: under
\* ELFFile() a BINARY_UNKNOWN_FORMAT, in an SBOM nested too deep for the
\* interpreter an SBOM_PARSE_ERROR, at a section of code no error at all.
\* _scan_was_aborted does not see it, and the record goes the way of a
\* finished one.
ShortForCache(w) ==
  /\ At(w, "collect") /\ content[Path(w)] \notin Broken
  /\ Fault("transient") /\ clean' = FALSE
  /\ Goto(w, "put", worker[w].digest, Short(w))
  /\ WorkerFrame /\ UNCHANGED <<cache, taken, results>>

ShortUncached(w) ==
  /\ At(w, "collect uncached") /\ content[Path(w)] \notin Broken
  /\ Fault("transient") /\ clean' = FALSE
  /\ Deliver(w, Short(w))
  /\ WorkerFrame /\ UNCHANGED <<cache, taken>>

CachePut(w) ==
  /\ At(w, "put")
  /\ Put(CacheKey(w), worker[w].line)
  /\ Deliver(w, worker[w].line)
  /\ WorkerFrame /\ UNCHANGED <<taken, faults, clean>>

\* A cache that cannot be written is not a scan failure.
CachePutRaises(w) ==
  /\ At(w, "put") /\ Fault("cache unwritable")
  /\ Deliver(w, worker[w].line)
  /\ WorkerFrame /\ UNCHANGED <<cache, taken, clean>>

\* Mutant: a pool that replaces a dead worker and says nothing.
WorkerDiesUnnoticed(w) ==
  /\ Jobs > 1 /\ Writing /\ worker[w].pc # "idle" /\ Fault("worker dies")
  /\ clean' = FALSE /\ worker' = [worker EXCEPT ![w] = Idle]
  /\ UNCHANGED <<content, cache, reportVars, run, mainVars, taken, results, broken>>

\* The operating system kills a pool's worker: the executor is broken, and
\* what it had not delivered it never will.
WorkerDies(w) ==
  /\ Jobs > 1 /\ Writing /\ worker[w].pc # "idle" /\ Fault("worker dies")
  /\ broken' = TRUE /\ clean' = FALSE
  /\ worker' = [v \in Workers |-> Idle]
  /\ UNCHANGED <<content, cache, reportVars, run, mainVars, taken, results>>

WorkerStep(w) ==
  \/ Take(w)
  \/ HashWheel(w) \/ HashRaises(w) \/ Rehash(w) \/ RehashRaises(w)
  \/ CacheHit(w) \/ CacheMiss(w)
  \/ ScanForCache(w) \/ ScanUncached(w)
  \/ ScanAborts(w) \/ ShortForCache(w) \/ ShortUncached(w)
  \/ CachePut(w) \/ CachePutRaises(w)

----------------------------------------------------------------------------
(* _merge and _write, in the main process.                                 *)

\* The file the stream is open on.
Stream == IF run.mode = "file" THEN partial ELSE output
SetStream(lines) ==
  IF run.mode = "file" THEN partial' = lines /\ UNCHANGED output
                       ELSE output' = lines /\ UNCHANGED partial

Emit(line) ==
  /\ SetStream(Append(Stream, line))
  /\ next' = next + 1

EmitKept ==
  /\ Writing /\ next <= Wheels /\ NameOf[next] \in DOMAIN existing
  /\ Emit(existing[NameOf[next]])
  /\ UNCHANGED <<content, cache, run, existing, pending, pulled, poolVars, faults, clean>>

EmitScanned ==
  /\ MainWaits /\ pulled + 1 \in DOMAIN results
  /\ Emit(results[pulled + 1])
  /\ pulled' = pulled + 1
  /\ UNCHANGED <<content, cache, run, existing, pending, poolVars, faults, clean>>

\* The run is over and its processes are gone; what it kept stays in view.
EndRun(status) ==
  /\ run' = [run EXCEPT !.status = status]
  /\ pending' = <<>> /\ pulled' = 0 /\ next' = 0
  /\ taken' = 0 /\ results' = Empty /\ broken' = FALSE
  /\ worker' = [w \in Workers |-> Idle]
  /\ UNCHANGED <<content, existing>>

FinishRun ==
  /\ Writing /\ next > Wheels
  /\ EndRun("ok")
  /\ IF run.mode = "file" THEN output' = partial /\ partial' = NoFile
                          ELSE UNCHANGED reportVars
  /\ UNCHANGED <<cache, faults, clean>>

\* BrokenProcessPool is no OSError: it leaves _write, .partial and all.
PoolIsBroken ==
  /\ MainWaits /\ broken /\ pulled + 1 \notin DOMAIN results
  /\ EndRun("died")
  /\ UNCHANGED <<cache, reportVars, faults, clean>>

\* Mutant: the rename happens whether or not the write got through.
WriteErrorPublished ==
  /\ Writing /\ Fault("unwritable")
  /\ IF run.mode = "file"
       THEN EndRun("failed") /\ partial' = NoFile /\ output' = partial
       ELSE EndRun("died") /\ UNCHANGED reportVars
  /\ UNCHANGED <<cache, clean>>

\* mkdir, open, write or replace raised.  _discard may fail too.
WriteError ==
  /\ Writing /\ Fault("unwritable")
  /\ IF run.mode = "file"
       THEN /\ EndRun("failed") /\ partial' \in {NoFile, partial} /\ UNCHANGED output
       ELSE EndRun("died") /\ UNCHANGED reportVars
  /\ UNCHANGED <<cache, clean>>

MainStep == EmitKept \/ EmitScanned \/ FinishRun \/ PoolIsBroken

----------------------------------------------------------------------------
(* From outside.                                                           *)

\* What a killed writer leaves on disk: some of its lines, the last perhaps cut.
Prefixes(lines) ==
  {SubSeq(lines, 1, k) : k \in 0..Len(lines)} \cup
  {Append(SubSeq(lines, 1, k - 1), [lines[k] EXCEPT !.kind = "cut"]) : k \in 1..Len(lines)}

\* Every process is killed, at any point.
Crash ==
  /\ Writing /\ Fault("crash")
  /\ EndRun("crashed")
  /\ \E left \in Prefixes(Stream) : SetStream(left)
  /\ UNCHANGED <<cache, clean>>

\* A wheel is replaced by another of its name: between runs, or under one.
ReplaceWheel ==
  /\ Fault(IF Writing THEN "replaced" ELSE "replaced between runs")
  /\ clean' = FALSE
  /\ \E i \in 1..Wheels, d \in Digests :
       content[i] # d /\ content' = [content EXCEPT ![i] = d]
  /\ UNCHANGED <<cache, reportVars, run, mainVars, poolVars>>

\* A cache entry stops being UTF-8, or is cut short and still is.
CacheDamaged ==
  /\ \E kind \in {"undecodable", "cut"} : Fault(kind) /\ Damage(kind)
  /\ UNCHANGED <<content, reportVars, run, mainVars, poolVars, clean>>

Next ==
  \/ \E salt \in Salts, resume \in BOOLEAN, mode \in Modes : StartRun(salt, resume, mode)
  \/ MainStep \/ WriteError
  \/ \E w \in Workers : WorkerStep(w) \/ WorkerDies(w)
  \/ Crash \/ ReplaceWheel \/ CacheDamaged

\* A running process runs on.  Nothing promises another run, or a fault.
Spec ==
  /\ Init /\ [][Next]_vars
  /\ WF_vars(MainStep)
  /\ \A w \in Workers : WF_vars(WorkerStep(w))

----------------------------------------------------------------------------
(* Properties.                                                             *)

FileContents == Seq(Lines) \cup {NoFile}

\* What a worker can be at, when n wheels have been begun.
Tasks(n) ==
  [pc : {"hash", "rehash"}, index : 1..n, digest : {"none"}, line : {NoLine}]
  \cup [pc : {"get", "collect", "collect uncached"}, index : 1..n, digest : Digests, line : {NoLine}]
  \cup [pc : {"put"}, index : 1..n, digest : Digests, line : Lines]

RunType ==
  /\ run \in [number : 0..MaxRuns, salt : Salts, resume : BOOLEAN, mode : {"file", "redirect"},
              status : {"none", "writing", "ok", "failed", "died", "crashed"}]
  /\ faults \in 0..MaxFaults /\ clean \in BOOLEAN

FileType ==
  /\ content \in [1..Wheels -> Digests]
  /\ output \in FileContents /\ partial \in FileContents
  /\ Writing => Stream \in Seq(Lines)

MainType ==
  /\ DOMAIN existing \subseteq Names /\ \A name \in DOMAIN existing : existing[name] \in Lines
  /\ pending \in Seq(1..Wheels) /\ next \in 0..(Wheels + 1) /\ pulled \in Nat

PoolType ==
  /\ taken \in 0..Len(pending)
  /\ DOMAIN results \subseteq 1..taken /\ \A i \in DOMAIN results : results[i] \in Lines
  /\ broken \in BOOLEAN
  /\ worker \in [Workers -> Tasks(taken) \cup {Idle}]

TypeOK == RunType /\ FileType /\ CacheType /\ MainType /\ PoolType

\* A cache hit can only ever be the record of the content, filename and
\* analyser it is asked for, of a scan that got through: never one under an
\* aborted kind, whatever raised, was killed, was replaced between runs or was
\* scanned by another worker before.  What it may be is short of evidence.
\* (cache.py:3-10, cli.py:232)
CacheIsTrue ==
  \A key \in DOMAIN cache :
    LET line == cache[key] IN
    line.kind # "undecodable" =>
      /\ line.kind \in {"full", "short"}
      /\ <<line.digest, line.name, line.salt>> = key
      /\ line.body = line.digest

\* The line a scan of wheel i from scratch would give, but for its birth.
FromScratch(i, salt) ==
  IF content[i] \in Broken THEN Line(NameOf[i], content[i], "none", salt, "aborted", 0)
  ELSE Line(NameOf[i], content[i], content[i], salt, "full", 0)

\* What a line is taken for, but for its birth: one that a failure left short
\* of evidence without an aborted kind says nothing of it (cli.py:248).
TakenFor(line) ==
  Line(line.name, line.digest, line.body, line.salt,
       IF line.kind = "short" THEN "full" ELSE line.kind, 0)

Done == run.status = "ok"
Kept(i) == NameOf[i] \in DOMAIN existing

\* An undisturbed run that finishes has written what a scan from scratch would
\* write, whatever earlier runs left in the cache, the output file and
\* .partial, and however its workers raced - but for a record that an earlier
\* run's failure left short of evidence, under a kind that does not count as
\* aborted; FailuresAreForgotten says what becomes of those.
\* (usage.md:94-95, cli.py:134-136)
SameAsFromScratch ==
  Done /\ clean =>
    /\ Len(output) = Wheels
    /\ \A i \in 1..Wheels : TakenFor(output[i]) = FromScratch(i, run.salt)

\* With analysers and wheels changing between runs, the same of every line
\* that was not kept by --resume, and a kept line is the old file's, unchanged.
NoStaleAnswer ==
  Done /\ clean =>
    \A i \in 1..Wheels :
      IF Kept(i) THEN output[i] = existing[NameOf[i]]
                 ELSE TakenFor(output[i]) = FromScratch(i, run.salt)

\* A failure recorded under a kind of SCAN_ABORTED_KINDS is never remembered:
\* such a line in a finished report is this run's own, not one that a cache
\* hit or --resume brought back.  (cli.py:232, 272)
FailuresAreFresh ==
  Done => \A i \in DOMAIN output :
            output[i].kind = "aborted" => output[i].born = run.number

\* The same of every failure that another attempt would not meet: to remember
\* one "would serve the same stale non-answer forever even after a later
\* attempt would read the wheel correctly" (cli.py:241-246), so a kind a broad
\* catch can record "belongs in this set entirely" (errors.py:122-126).
FailuresAreForgotten ==
  Done => \A i \in DOMAIN output :
            output[i].kind \in {"aborted", "short"} => output[i].born = run.number

\* The output file named by -o only ever changes into a whole report, one
\* record per wheel in discovery order, whatever is killed or fails.
\* (usage.md:47, cli.py:300-303)
Report == INSTANCE AtomicReport
AtomicOutput == Report!ReportSpec

\* One bad wheel never aborts a run: "Failures become error records"
\* (docs/invariants.md:66-68).
NeverAborted == run.status # "died"

\* A run that starts comes to an end, even with a worker killed under it.
RunsEnd == Writing ~> ~Writing
=============================================================================
