--------------------------- MODULE ScanRunProofs ---------------------------
(***************************************************************************)
(* Facts about ScanRun for any number of wheels, workers, runs and faults. *)
(***************************************************************************)
EXTENDS ScanRun, TLAPS

----------------------------------------------------------------------------
(* Types.                                                                  *)

\* The start is well typed.
LEMMA InitType ==
  ASSUME ScanAssumption, Init
  PROVE  TypeOK
  <1>1. RunType
    BY DEF Init, RunType, ScanAssumption
  <1>2. FileType /\ CacheType /\ MainType
    BY DEF Init, FileType, FileContents, CacheType, MainType, Writing, Stream, Empty, ScanAssumption
  <1>3. PoolType
    <2>1. taken \in 0..Len(pending)
      BY DEF Init
    <2>2. DOMAIN results = {}
      BY DEF Init, Empty
    <2>3. worker \in [Workers -> Tasks(taken) \cup {Idle}]
      BY DEF Init
    <2>4. broken \in BOOLEAN
      BY DEF Init
    <2> QED
      BY <2>1, <2>2, <2>3, <2>4 DEF PoolType
  <1> QED
    BY <1>1, <1>2, <1>3 DEF TypeOK

\* A fault that may happen keeps the count of faults within its bound.
LEMMA FaultType ==
  ASSUME ScanAssumption, RunType, NEW name, Fault(name)
  PROVE  faults' \in 0..MaxFaults
  BY DEF Fault, RunType, ScanAssumption

\* Lines are made of a name, contents, a salt, a kind and a run.
LEMMA LineType ==
  ASSUME NEW name \in Names, NEW digest \in Digests \cup {"none"},
         NEW body \in Digests \cup {"none"}, NEW salt \in Salts,
         NEW kind \in {"full", "short", "aborted", "cut", "undecodable"}, NEW born \in Nat
  PROVE  Line(name, digest, body, salt, kind, born) \in Lines
  BY DEF Line, Lines

\* No more wheels have been begun than there are to scan.
LEMMA TakenType ==
  ASSUME TypeOK
  PROVE  /\ taken \in Nat /\ Len(pending) \in Nat
         /\ taken <= taken /\ taken <= Len(pending)
  <1>1. Len(pending) \in Nat
    BY DEF TypeOK, MainType
  <1>2. taken \in 0..Len(pending)
    BY DEF TypeOK, PoolType
  <1> QED
    BY <1>1, <1>2

\* A worker that is at something is at one of the wheels begun.
LEMMA TaskType ==
  ASSUME ScanAssumption, TypeOK, NEW w \in Workers, worker[w].pc # "idle"
  PROVE  /\ worker[w] \in Tasks(taken)
         /\ worker[w].index \in 1..taken /\ worker[w].index \in 1..Len(pending)
         /\ Path(w) \in 1..Wheels /\ Name(w) \in Names
         /\ worker[w].digest \in Digests \cup {"none"}
         /\ worker[w].pc \in {"get", "collect", "collect uncached", "put"}
              => worker[w].digest \in Digests
         /\ worker[w].pc = "put" => worker[w].line \in Lines
  <1>1. worker[w] \in Tasks(taken)
    BY DEF TypeOK, PoolType, Idle, Task
  <1>2. /\ worker[w].index \in 1..taken
        /\ worker[w].digest \in Digests \cup {"none"}
        /\ worker[w].pc \in {"get", "collect", "collect uncached", "put"}
              => worker[w].digest \in Digests
        /\ worker[w].pc = "put" => worker[w].line \in Lines
    BY <1>1 DEF Tasks
  <1>3. worker[w].index \in 1..Len(pending)
    <2>1. taken \in Nat /\ taken <= Len(pending) /\ Len(pending) \in Nat
      BY TakenType
    <2> DEFINE k == worker[w].index
    <2>2. k \in 1..taken
      BY <1>2
    <2> HIDE DEF k
    <2>3. k \in 1..Len(pending)
      BY <2>1, <2>2
    <2> QED
      BY <2>3 DEF k
  <1>4. Path(w) \in 1..Wheels
    BY <1>3 DEF Path, TypeOK, MainType
  <1>5. Name(w) \in Names
    BY <1>4 DEF Name, ScanAssumption
  <1> QED
    BY <1>1, <1>2, <1>3, <1>4, <1>5

\* A run has an analyser and a number.
LEMMA RunFields ==
  ASSUME ScanAssumption, TypeOK
  PROVE  run.salt \in Salts /\ run.number \in Nat
  BY DEF TypeOK, RunType, ScanAssumption

\* A record of an aborted scan is a line.
LEMMA AbortedType ==
  ASSUME ScanAssumption, TypeOK, NEW w \in Workers, worker[w].pc # "idle",
         NEW digest \in Digests \cup {"none"}
  PROVE  Aborted(w, digest) \in Lines
  <1>1. Name(w) \in Names
    BY TaskType
  <1>2. run.salt \in Salts /\ run.number \in Nat
    BY RunFields
  <1> QED
    BY <1>1, <1>2, LineType DEF Aborted

\* So is a record of a scan.
LEMMA ScannedType ==
  ASSUME ScanAssumption, TypeOK, NEW w \in Workers,
         worker[w].pc \in {"collect", "collect uncached"}
  PROVE  Scanned(w) \in Lines
  <1>1. /\ Name(w) \in Names /\ worker[w].digest \in Digests /\ Path(w) \in 1..Wheels
        /\ worker[w].pc # "idle"
    BY TaskType
  <1>2. content[Path(w)] \in Digests
    BY <1>1 DEF TypeOK, FileType
  <1>3. run.salt \in Salts
    BY DEF TypeOK, RunType
  <1>4. Line(Name(w), worker[w].digest, content[Path(w)], run.salt, "full", 0) \in Lines
    BY <1>1, <1>2, <1>3, LineType
  <1>5. Aborted(w, worker[w].digest) \in Lines
    BY <1>1, AbortedType
  <1> QED
    BY <1>4, <1>5 DEF Scanned

\* And a record that a failure left short of evidence.
LEMMA ShortType ==
  ASSUME ScanAssumption, TypeOK, NEW w \in Workers,
         worker[w].pc \in {"collect", "collect uncached"}
  PROVE  Short(w) \in Lines
  <1>1. Name(w) \in Names /\ worker[w].digest \in Digests /\ Path(w) \in 1..Wheels
    BY TaskType
  <1>2. content[Path(w)] \in Digests
    BY <1>1 DEF TypeOK, FileType
  <1>3. run.salt \in Salts /\ run.number \in Nat
    BY RunFields
  <1> QED
    BY <1>1, <1>2, <1>3, LineType DEF Short

\* Where a worker goes, when that is typed, the pool stays typed.
LEMMA GotoType ==
  ASSUME ScanAssumption, TypeOK, NEW w \in Workers, NEW n \in Nat, taken <= n, n <= Len(pending),
         NEW t \in Tasks(n) \cup {Idle}, worker' = [worker EXCEPT ![w] = t],
         taken' = n, UNCHANGED <<pending, broken>>,
         DOMAIN results' \subseteq 1..n, \A i \in DOMAIN results' : results'[i] \in Lines
  PROVE  PoolType'
  <1>1. taken \in Nat /\ Len(pending) \in Nat
    BY DEF TypeOK, PoolType, MainType
  <1>2. Tasks(taken) \subseteq Tasks(n)
    <2>1. 1..taken \subseteq 1..n
      BY <1>1
    <2> QED
      BY <2>1 DEF Tasks
  <1>3. worker' \in [Workers -> Tasks(n) \cup {Idle}]
    BY <1>2 DEF TypeOK, PoolType
  <1>4. taken' \in 0..Len(pending') /\ broken' \in BOOLEAN
    BY <1>1 DEF TypeOK, PoolType
  <1> QED
    BY <1>3, <1>4 DEF PoolType

\* Delivering a line keeps the pool typed.
LEMMA DeliverType ==
  ASSUME ScanAssumption, TypeOK, NEW w \in Workers, worker[w].pc # "idle",
         NEW line \in Lines, Deliver(w, line), UNCHANGED <<taken, pending, broken>>
  PROVE  PoolType'
  <1>1. /\ taken \in Nat /\ taken <= Len(pending) /\ DOMAIN results \subseteq 1..taken
        /\ \A i \in DOMAIN results : results[i] \in Lines
    BY DEF TypeOK, PoolType, MainType
  <1>2. worker[w].index \in 1..taken
    BY TaskType
  <1>3. DOMAIN results' \subseteq 1..taken /\ \A i \in DOMAIN results' : results'[i] \in Lines
    BY <1>1, <1>2 DEF Deliver
  <1>4. worker' = [worker EXCEPT ![w] = Idle]
    BY DEF Deliver
  <1> DEFINE n == taken
  <1>5. /\ n \in Nat /\ taken <= n /\ n <= Len(pending) /\ taken' = n
        /\ DOMAIN results' \subseteq 1..n
    BY <1>1, <1>3
  <1> HIDE DEF n
  <1>6. Idle \in Tasks(n) \cup {Idle}
    OBVIOUS
  <1> QED
    BY <1>3, <1>4, <1>5, <1>6, GotoType

\* What no worker touches stays typed.
LEMMA FrameType ==
  ASSUME TypeOK, WorkerFrame
  PROVE  FileType' /\ MainType' /\ (faults' \in 0..MaxFaults /\ clean' \in BOOLEAN => RunType')
  BY DEF WorkerFrame, TypeOK, FileType, MainType, RunType, mainVars, reportVars, Writing, Stream

\* A step from one stage to another keeps the pool typed.
LEMMA StageType ==
  ASSUME ScanAssumption, TypeOK, NEW w \in Workers, worker[w].pc # "idle",
         NEW pc, NEW digest, NEW line, Goto(w, pc, digest, line),
         \/ pc \in {"hash", "rehash"} /\ digest = "none" /\ line = NoLine
         \/ pc \in {"get", "collect", "collect uncached"} /\ digest \in Digests /\ line = NoLine
         \/ pc = "put" /\ digest \in Digests /\ line \in Lines,
         UNCHANGED <<taken, results, pending, broken>>
  PROVE  PoolType'
  <1> DEFINE n == taken
             t == Task(pc, worker[w].index, digest, line)
  <1>1. worker[w].index \in 1..n
    BY TaskType
  <1>2. t \in Tasks(n) \cup {Idle}
    BY <1>1 DEF Tasks, Task
  <1>3. worker' = [worker EXCEPT ![w] = t]
    BY DEF Goto
  <1>4. DOMAIN results' \subseteq 1..n /\ \A i \in DOMAIN results' : results'[i] \in Lines
    BY DEF TypeOK, PoolType
  <1>5. n \in Nat /\ taken <= n /\ n <= Len(pending) /\ taken' = n
    <2>1. taken \in Nat /\ taken <= taken /\ taken <= Len(pending)
      BY TakenType, Zenon
    <2> QED
      BY <2>1, Zenon
  <1> HIDE DEF n, t
  <1> QED
    BY <1>2, <1>3, <1>4, <1>5, GotoType

\* Every step of a worker keeps every variable typed.
LEMMA WorkerStepType ==
  ASSUME ScanAssumption, TypeOK, NEW w \in Workers, WorkerStep(w)
  PROVE  TypeOK'
  <1>f. WorkerFrame
    BY DEF WorkerStep, Take, HashWheel, HashRaises, Rehash, RehashRaises, CacheHit, CacheMiss,
       ScanForCache, ScanUncached, ScanAborts,
       ShortForCache, ShortUncached, CachePut, CachePutRaises
  <1>p. UNCHANGED <<pending, broken>>
    BY <1>f DEF WorkerFrame, mainVars
  <1>r. faults \in 0..MaxFaults /\ clean \in BOOLEAN /\ CacheType
    BY DEF TypeOK, RunType
  <1>t. ASSUME faults' \in 0..MaxFaults, clean' \in BOOLEAN, CacheType', PoolType'
        PROVE  TypeOK'
    BY <1>f, <1>t, FrameType DEF TypeOK
  <1>c. cache' = cache => CacheType'
    BY <1>r DEF CacheType
  <1>1. CASE Take(w)
    <2> DEFINE n == taken + 1
               t == Task("hash", n, "none", NoLine)
    <2>1. /\ taken \in Nat /\ taken < Len(pending) /\ worker' = [worker EXCEPT ![w] = t]
          /\ taken' = n /\ UNCHANGED <<cache, results, faults, clean>>
          /\ DOMAIN results \subseteq 1..taken /\ \A i \in DOMAIN results : results[i] \in Lines
          /\ Len(pending) \in Nat
      BY <1>1 DEF Take, TypeOK, PoolType, MainType
    <2>2. n \in Nat /\ taken <= n /\ n <= Len(pending) /\ n \in 1..n /\ DOMAIN results \subseteq 1..n
      BY <2>1
    <2>3. t \in Tasks(n) \cup {Idle}
      BY <2>2 DEF Tasks, Task
    <2> HIDE DEF n, t
    <2>4. PoolType'
      BY <1>p, <2>1, <2>2, <2>3, GotoType
    <2> QED
      BY <1>c, <1>r, <1>t, <2>1, <2>4
  <1>2. CASE HashWheel(w)
    <2>1. worker[w].pc # "idle" /\ Goto(w, "get", content[Path(w)], NoLine)
          /\ UNCHANGED <<cache, taken, results, faults, clean>>
      BY <1>2 DEF HashWheel, At
    <2>2. content[Path(w)] \in Digests
      BY <2>1, TaskType DEF TypeOK, FileType
    <2>3. PoolType'
      BY <1>p, <2>1, <2>2, StageType
    <2> QED
      BY <1>c, <1>r, <1>t, <2>1, <2>3
  <1>3. CASE HashRaises(w)
    <2>1. worker[w].pc # "idle" /\ Goto(w, "rehash", "none", NoLine) /\ Fault("unreadable")
          /\ UNCHANGED <<cache, taken, results, clean>>
      BY <1>3 DEF HashRaises, At
    <2>2. PoolType'
      BY <1>p, <2>1, StageType
    <2>3. faults' \in 0..MaxFaults
      BY <2>1, FaultType DEF TypeOK
    <2> QED
      BY <1>c, <1>r, <1>t, <2>1, <2>2, <2>3
  <1>4. CASE Rehash(w)
    <2>1. worker[w].pc # "idle" /\ Goto(w, "collect uncached", content[Path(w)], NoLine)
          /\ UNCHANGED <<cache, taken, results, faults, clean>>
      BY <1>4 DEF Rehash, At
    <2>2. content[Path(w)] \in Digests
      BY <2>1, TaskType DEF TypeOK, FileType
    <2>3. PoolType'
      BY <1>p, <2>1, <2>2, StageType
    <2> QED
      BY <1>c, <1>r, <1>t, <2>1, <2>3
  <1>5. CASE RehashRaises(w)
    <2>1. worker[w].pc # "idle" /\ Deliver(w, Aborted(w, "none")) /\ clean' = FALSE
          /\ UNCHANGED <<cache, taken, faults>>
      BY <1>5 DEF RehashRaises, At
    <2>2. Aborted(w, "none") \in Lines
      BY <2>1, AbortedType
    <2>3. PoolType'
      BY <1>p, <2>1, <2>2, DeliverType
    <2> QED
      BY <1>c, <1>r, <1>t, <2>1, <2>3
  <1>6. CASE CacheHit(w)
    <2>1. worker[w].pc # "idle" /\ Deliver(w, cache[CacheKey(w)]) /\ CacheKey(w) \in DOMAIN cache
          /\ UNCHANGED <<cache, taken, faults, clean>>
      BY <1>6 DEF CacheHit, At, Held
    <2>2. cache[CacheKey(w)] \in Lines
      BY <1>r, <2>1 DEF CacheType
    <2>3. PoolType'
      BY <1>p, <2>1, <2>2, DeliverType
    <2> QED
      BY <1>c, <1>r, <1>t, <2>1, <2>3
  <1>7. CASE CacheMiss(w)
    <2>1. worker[w].pc = "get" /\ Goto(w, "collect", worker[w].digest, NoLine)
          /\ UNCHANGED <<cache, taken, results, faults, clean>>
      BY <1>7 DEF CacheMiss, At
    <2>2. worker[w].pc # "idle" /\ worker[w].digest \in Digests
      BY <2>1, TaskType
    <2>3. PoolType'
      BY <1>p, <2>1, <2>2, StageType
    <2> QED
      BY <1>c, <1>r, <1>t, <2>1, <2>3
  <1>8. CASE ScanForCache(w)
    <2>1. worker[w].pc = "collect" /\ Goto(w, "put", worker[w].digest, Scanned(w))
          /\ UNCHANGED <<cache, taken, results, faults, clean>>
      BY <1>8 DEF ScanForCache, At
    <2>2. worker[w].pc # "idle" /\ worker[w].digest \in Digests /\ Scanned(w) \in Lines
      BY <2>1, TaskType, ScannedType
    <2>3. PoolType'
      BY <1>p, <2>1, <2>2, StageType
    <2> QED
      BY <1>c, <1>r, <1>t, <2>1, <2>3
  <1>9. CASE ScanUncached(w)
    <2>1. worker[w].pc \in {"collect", "collect uncached"} /\ Deliver(w, Scanned(w))
          /\ UNCHANGED <<cache, taken, faults, clean>>
      BY <1>9 DEF ScanUncached, At
    <2>2. worker[w].pc # "idle" /\ Scanned(w) \in Lines
      BY <2>1, ScannedType
    <2>3. PoolType'
      BY <1>p, <2>1, <2>2, DeliverType
    <2> QED
      BY <1>c, <1>r, <1>t, <2>1, <2>3
  <1>10. CASE ScanAborts(w)
    <2>1. worker[w].pc # "idle" /\ Deliver(w, Aborted(w, worker[w].digest))
          /\ Fault("transient") /\ clean' = FALSE /\ UNCHANGED <<cache, taken>>
      BY <1>10 DEF ScanAborts, At
    <2>2. Aborted(w, worker[w].digest) \in Lines
      BY <2>1, TaskType, AbortedType
    <2>3. PoolType'
      BY <1>p, <2>1, <2>2, DeliverType
    <2>4. faults' \in 0..MaxFaults
      BY <2>1, FaultType DEF TypeOK
    <2> QED
      BY <1>c, <1>r, <1>t, <2>1, <2>3, <2>4
  <1>11. CASE CachePut(w)
    <2>1. worker[w].pc = "put" /\ Put(CacheKey(w), worker[w].line) /\ Deliver(w, worker[w].line)
          /\ UNCHANGED <<taken, faults, clean>>
      BY <1>11 DEF CachePut, At
    <2>2. /\ worker[w].pc # "idle" /\ worker[w].digest \in Digests /\ Name(w) \in Names
          /\ worker[w].line \in Lines
      BY <2>1, TaskType
    <2>3. CacheKey(w) \in Keys
      BY <2>2 DEF CacheKey, Keys, TypeOK, RunType
    <2>4. CacheType'
      BY <1>r, <2>1, <2>2, <2>3 DEF CacheType, Put
    <2>5. PoolType'
      BY <1>p, <2>1, <2>2, DeliverType
    <2> QED
      BY <1>r, <1>t, <2>1, <2>4, <2>5
  <1>12. CASE CachePutRaises(w)
    <2>1. worker[w].pc = "put" /\ Deliver(w, worker[w].line) /\ Fault("cache unwritable")
          /\ UNCHANGED <<cache, taken, clean>>
      BY <1>12 DEF CachePutRaises, At
    <2>2. worker[w].pc # "idle" /\ worker[w].line \in Lines
      BY <2>1, TaskType
    <2>3. PoolType'
      BY <1>p, <2>1, <2>2, DeliverType
    <2>4. faults' \in 0..MaxFaults
      BY <2>1, FaultType DEF TypeOK
    <2> QED
      BY <1>c, <1>r, <1>t, <2>1, <2>3, <2>4
  <1>13. CASE ShortForCache(w)
    <2>1. worker[w].pc = "collect" /\ Goto(w, "put", worker[w].digest, Short(w))
          /\ Fault("transient") /\ clean' = FALSE /\ UNCHANGED <<cache, taken, results>>
      BY <1>13 DEF ShortForCache, At
    <2>2. worker[w].pc # "idle" /\ worker[w].digest \in Digests /\ Short(w) \in Lines
      BY <2>1, TaskType, ShortType
    <2>3. PoolType'
      BY <1>p, <2>1, <2>2, StageType
    <2>4. faults' \in 0..MaxFaults
      BY <2>1, FaultType DEF TypeOK
    <2> QED
      BY <1>c, <1>r, <1>t, <2>1, <2>3, <2>4
  <1>14. CASE ShortUncached(w)
    <2>1. worker[w].pc = "collect uncached" /\ Deliver(w, Short(w))
          /\ Fault("transient") /\ clean' = FALSE /\ UNCHANGED <<cache, taken>>
      BY <1>14 DEF ShortUncached, At
    <2>2. worker[w].pc # "idle" /\ Short(w) \in Lines
      BY <2>1, ShortType
    <2>3. PoolType'
      BY <1>p, <2>1, <2>2, DeliverType
    <2>4. faults' \in 0..MaxFaults
      BY <2>1, FaultType DEF TypeOK
    <2> QED
      BY <1>c, <1>r, <1>t, <2>1, <2>3, <2>4
  <1> QED
    BY <1>1, <1>2, <1>3, <1>4, <1>5, <1>6, <1>7, <1>8, <1>9, <1>10, <1>11, <1>12, <1>13, <1>14
    DEF WorkerStep

\* What the main process has open is a file of lines.
LEMMA StreamType ==
  ASSUME TypeOK, Writing
  PROVE  /\ Stream \in Seq(Lines)
         /\ \A lines \in Seq(Lines) :
              SetStream(lines) => /\ output' \in FileContents /\ partial' \in FileContents
                                  /\ run' = run => Stream' = lines
  BY DEF TypeOK, FileType, FileContents, SetStream, Stream

\* Writing one more line keeps every variable typed.
LEMMA EmitType ==
  ASSUME ScanAssumption, TypeOK, Writing, next <= Wheels, NEW line \in Lines, Emit(line),
         pulled' \in Nat,
         UNCHANGED <<content, cache, run, existing, pending, poolVars, faults, clean>>
  PROVE  TypeOK'
  <1>1. Append(Stream, line) \in Seq(Lines)
    BY StreamType
  <1>2. FileType'
    BY <1>1, StreamType DEF Emit, TypeOK, FileType, Writing
  <1>3. next \in Nat /\ next' = next + 1 /\ Wheels \in Nat
    BY DEF Emit, TypeOK, MainType, ScanAssumption
  <1>4. MainType'
    BY <1>3 DEF TypeOK, MainType
  <1>5. PoolType'
    BY DEF TypeOK, PoolType, poolVars
  <1>6. RunType' /\ CacheType'
    BY DEF TypeOK, RunType, CacheType
  <1> QED
    BY <1>2, <1>4, <1>5, <1>6 DEF TypeOK

\* So does ending the run.
LEMMA EndRunType ==
  ASSUME ScanAssumption, TypeOK, NEW status \in {"ok", "failed", "died", "crashed"},
         EndRun(status), output' \in FileContents, partial' \in FileContents,
         CacheType', faults' \in 0..MaxFaults, clean' \in BOOLEAN
  PROVE  TypeOK'
  <1>1. FileType'
    BY DEF EndRun, TypeOK, FileType, RunType, Writing
  <1>2. MainType'
    BY DEF EndRun, TypeOK, MainType, ScanAssumption
  <1>3. PoolType'
    <2>1. taken' \in 0..Len(pending')
      BY DEF EndRun
    <2>2. DOMAIN results' = {}
      BY DEF EndRun, Empty
    <2>3. broken' \in BOOLEAN
      BY DEF EndRun
    <2>4. worker' \in [Workers -> Tasks(taken') \cup {Idle}]
      BY DEF EndRun
    <2> QED
      BY <2>1, <2>2, <2>3, <2>4 DEF PoolType
  <1>4. RunType'
    BY DEF EndRun, TypeOK, RunType
  <1> QED
    BY <1>1, <1>2, <1>3, <1>4 DEF TypeOK

\* A prefix of a file, its last line cut or not, is a file of lines.
LEMMA PrefixType ==
  ASSUME NEW lines \in Seq(Lines), NEW left \in Prefixes(lines)
  PROVE  left \in Seq(Lines)
  <1>1. CASE \E k \in 0..Len(lines) : left = SubSeq(lines, 1, k)
    BY <1>1
  <1>2. ASSUME NEW k \in 1..Len(lines),
               left = Append(SubSeq(lines, 1, k - 1), [lines[k] EXCEPT !.kind = "cut"])
        PROVE  left \in Seq(Lines)
    <2>1. [lines[k] EXCEPT !.kind = "cut"] \in Lines
      <3>1. lines[k] \in Lines
        OBVIOUS
      <3> DEFINE l == lines[k]
      <3> HIDE DEF l
      <3>2. l \in Lines => [l EXCEPT !.kind = "cut"] \in Lines
        BY DEF Lines
      <3> QED
        BY <3>1, <3>2 DEF l
    <2>2. SubSeq(lines, 1, k - 1) \in Seq(Lines)
      OBVIOUS
    <2> QED
      BY <1>2, <2>1, <2>2
  <1> QED
    BY <1>1, <1>2 DEF Prefixes

\* What is read back from an output file is lines by their own names.
LEMMA ExistingType ==
  ASSUME NEW lines \in FileContents, NEW kept \in ExistingRecords(lines)
  PROVE  /\ DOMAIN kept \subseteq Names
         /\ \A name \in DOMAIN kept : /\ kept[name] \in Lines
                                      /\ kept[name].name = name
                                      /\ kept[name].kind \in {"full", "short"}
  <1> DEFINE good == IF lines = NoFile THEN {}
                     ELSE {i \in DOMAIN lines : lines[i].kind \in {"full", "short"}}
  <1>1. /\ kept \in [{lines[i].name : i \in good} -> {lines[i] : i \in good}]
        /\ \A name \in DOMAIN kept : \E i \in good : lines[i] = kept[name] /\ lines[i].name = name
    BY DEF ExistingRecords, LastOfEach
  <1>2. \A i \in good : lines[i] \in Lines /\ lines[i].kind \in {"full", "short"}
    BY DEF FileContents
  <1>3. \A i \in good : lines[i].name \in Names
    BY <1>2 DEF Lines
  <1> HIDE DEF good
  <1> QED
    BY <1>1, <1>2, <1>3

\* Starting a run keeps every variable typed.
LEMMA StartRunType ==
  ASSUME ScanAssumption, TypeOK, NEW salt \in Salts, NEW resume \in BOOLEAN, NEW mode \in Modes,
         StartRun(salt, resume, mode), worker = [w \in Workers |-> Idle], taken = 0, DOMAIN results = {}
  PROVE  TypeOK'
  <1>1. mode \in {"file", "redirect"} /\ Wheels \in Nat /\ MaxRuns \in Nat
    BY DEF ScanAssumption
  <1>2. RunType'
    BY <1>1 DEF StartRun, TypeOK, RunType
  <1>3. FileType'
    <2>1. content' \in [1..Wheels -> Digests]
      BY DEF StartRun, TypeOK, FileType
    <2>2. run'.mode = mode
      BY DEF StartRun
    <2>3. output' \in FileContents /\ partial' \in FileContents /\ Stream' \in Seq(Lines)
      <3> DEFINE none == <<>>
      <3>1. none \in Seq(Lines)
        OBVIOUS
      <3>2. \/ mode = "file" /\ partial' = none /\ output' = output
            \/ mode # "file" /\ output' = none /\ partial' = partial
        BY DEF StartRun
      <3> HIDE DEF none
      <3> QED
        BY <2>2, <3>1, <3>2 DEF TypeOK, FileType, FileContents, Stream
    <2> QED
      BY <2>1, <2>3 DEF FileType
  <1>4. DOMAIN existing' \subseteq Names /\ \A name \in DOMAIN existing' : existing'[name] \in Lines
    BY ExistingType DEF StartRun, TypeOK, FileType, Empty
  <1>5. pending' \in Seq(1..Wheels)
    <2>1. PICK n \in 0..Wheels : pending' \in [1..n -> NotIn(existing')]
      BY DEF StartRun, InOrder
    <2>2. n \in Nat /\ NotIn(existing') \subseteq 1..Wheels
      BY <1>1 DEF NotIn
    <2> QED
      BY <2>1, <2>2
  <1>6. MainType'
    BY <1>1, <1>4, <1>5 DEF StartRun, MainType
  <1>7. PoolType'
    BY <1>5 DEF StartRun, TypeOK, PoolType, poolVars
  <1>8. CacheType'
    BY DEF StartRun, TypeOK, CacheType
  <1> QED
    BY <1>2, <1>3, <1>6, <1>7, <1>8 DEF TypeOK

\* Between runs no worker is at anything.
IdleBetweenRuns ==
  ~Writing => taken = 0 /\ DOMAIN results = {} /\ worker = [w \in Workers |-> Idle]

\* Damage to a cache entry leaves a line in its place.
LEMMA DamageType ==
  ASSUME CacheType, NEW kind \in {"cut", "undecodable"}, Damage(kind)
  PROVE  CacheType'
  <1>1. PICK key \in DOMAIN cache : cache' = [cache EXCEPT ![key].kind = kind]
    BY DEF Damage
  <1>2. /\ DOMAIN cache' = DOMAIN cache
        /\ \A k \in DOMAIN cache : cache'[k] = IF k = key THEN [cache[key] EXCEPT !.kind = kind]
                                              ELSE cache[k]
    BY <1>1
  <1>3. [cache[key] EXCEPT !.kind = kind] \in Lines
    <2> DEFINE l == cache[key]
    <2>1. l \in Lines
      BY DEF CacheType
    <2> HIDE DEF l
    <2>2. [l EXCEPT !.kind = kind] \in Lines
      BY <2>1 DEF Lines
    <2> QED
      BY <2>2 DEF l
  <1> QED
    BY <1>2, <1>3 DEF CacheType

\* Every step keeps every variable typed.
LEMMA NextType ==
  ASSUME ScanAssumption, TypeOK, IdleBetweenRuns, Next
  PROVE  TypeOK'
  <1>0. /\ faults \in 0..MaxFaults /\ clean \in BOOLEAN /\ CacheType /\ RunType
        /\ output \in FileContents /\ partial \in FileContents
        /\ NoFile \in FileContents
    BY DEF TypeOK, RunType, FileType, FileContents
  <1>c. cache' = cache => CacheType'
    BY <1>0 DEF CacheType
  <1>1. ASSUME NEW salt \in Salts, NEW resume \in BOOLEAN, NEW mode \in Modes,
               StartRun(salt, resume, mode)
        PROVE  TypeOK'
    BY <1>1, StartRunType DEF StartRun, IdleBetweenRuns
  <1>2. CASE EmitKept
    <2>1. existing[NameOf[next]] \in Lines
      BY <1>2 DEF EmitKept, TypeOK, MainType
    <2>2. pulled' \in Nat
      BY <1>2 DEF EmitKept, TypeOK, MainType
    <2> QED
      BY <1>2, <2>1, <2>2, EmitType DEF EmitKept
  <1>3. CASE EmitScanned
    <2>1. results[pulled + 1] \in Lines
      BY <1>3 DEF EmitScanned, TypeOK, PoolType
    <2>2. pulled' \in Nat
      BY <1>3 DEF EmitScanned, TypeOK, MainType
    <2> QED
      BY <1>3, <2>1, <2>2, EmitType DEF EmitScanned, MainWaits
  <1>4. CASE FinishRun
    <2>1. output' \in FileContents /\ partial' \in FileContents
      BY <1>0, <1>4 DEF FinishRun, reportVars
    <2> QED
      BY <1>0, <1>4, <1>c, <2>1, EndRunType DEF FinishRun
  <1>5. CASE PoolIsBroken
    BY <1>0, <1>5, <1>c, EndRunType DEF PoolIsBroken, reportVars
  <1>6. CASE WriteError
    <2>1. faults' \in 0..MaxFaults
      BY <1>0, <1>6, FaultType DEF WriteError
    <2>2. output' \in FileContents /\ partial' \in FileContents
      BY <1>0, <1>6 DEF WriteError, reportVars
    <2>3. \E status \in {"failed", "died"} : EndRun(status)
      BY <1>6 DEF WriteError
    <2> QED
      BY <1>0, <1>6, <1>c, <2>1, <2>2, <2>3, EndRunType DEF WriteError
  <1>7. ASSUME NEW w \in Workers, WorkerStep(w)
        PROVE  TypeOK'
    BY <1>7, WorkerStepType
  <1>8. ASSUME NEW w \in Workers, WorkerDies(w)
        PROVE  TypeOK'
    <2>1. faults' \in 0..MaxFaults
      BY <1>0, <1>8, FaultType DEF WorkerDies
    <2>2. RunType' /\ FileType' /\ CacheType' /\ MainType'
      BY <1>0, <1>8, <2>1 DEF WorkerDies, TypeOK, RunType, FileType, CacheType, MainType, mainVars,
         reportVars, Writing, Stream
    <2>3. worker' \in [Workers -> Tasks(taken') \cup {Idle}] /\ broken' \in BOOLEAN
      BY <1>8 DEF WorkerDies
    <2>4. PoolType'
      BY <1>8, <2>3 DEF WorkerDies, TypeOK, PoolType, mainVars
    <2> QED
      BY <2>2, <2>4 DEF TypeOK
  <1>9. CASE Crash
    <2>1. faults' \in 0..MaxFaults
      BY <1>0, <1>9, FaultType DEF Crash
    <2>2. PICK left \in Prefixes(Stream) : SetStream(left)
      BY <1>9 DEF Crash
    <2>3. left \in Seq(Lines)
      BY <1>9, StreamType, PrefixType DEF Crash
    <2>4. output' \in FileContents /\ partial' \in FileContents
      BY <1>9, <2>2, <2>3, StreamType DEF Crash
    <2> QED
      BY <1>0, <1>9, <1>c, <2>1, <2>4, EndRunType DEF Crash
  <1>10. CASE ReplaceWheel
    <2>1. faults' \in 0..MaxFaults /\ clean' \in BOOLEAN
      BY <1>0, <1>10, FaultType DEF ReplaceWheel
    <2>2. content' \in [1..Wheels -> Digests]
      BY <1>10 DEF ReplaceWheel, TypeOK, FileType
    <2> QED
      BY <1>10, <2>1, <2>2 DEF ReplaceWheel, TypeOK, RunType, FileType, CacheType, MainType, PoolType,
         mainVars, poolVars, reportVars, Writing, Stream
  <1>11. CASE CacheDamaged
    <2>1. faults' \in 0..MaxFaults
      BY <1>0, <1>11, FaultType DEF CacheDamaged
    <2>2. PICK kind \in {"undecodable", "cut"} : Damage(kind)
      BY <1>11 DEF CacheDamaged
    <2>3. CacheType'
      BY <1>0, <2>2, DamageType
    <2> QED
      BY <1>11, <2>1, <2>3 DEF CacheDamaged, TypeOK, RunType, FileType, MainType, PoolType,
         mainVars, poolVars, reportVars, Writing, Stream
  <1> QED
    BY <1>1, <1>2, <1>3, <1>4, <1>5, <1>6, <1>7, <1>8, <1>9, <1>10, <1>11 DEF Next, MainStep

\* Every step keeps the workers idle between runs.
LEMMA NextIdle ==
  ASSUME IdleBetweenRuns, Next
  PROVE  IdleBetweenRuns'
  <1>1. ASSUME NEW salt, NEW resume, NEW mode, StartRun(salt, resume, mode)
        PROVE  IdleBetweenRuns'
    BY <1>1 DEF StartRun, IdleBetweenRuns, Writing
  <1>2. CASE EmitKept \/ EmitScanned
    BY <1>2 DEF EmitKept, EmitScanned, MainWaits, IdleBetweenRuns, Writing
  <1>3. CASE FinishRun \/ PoolIsBroken \/ WriteError \/ Crash
    <2>1. \E status : EndRun(status)
      BY <1>3 DEF FinishRun, PoolIsBroken, WriteError, Crash
    <2> QED
      BY <2>1 DEF EndRun, IdleBetweenRuns, Empty
  <1>4. ASSUME NEW w \in Workers, WorkerStep(w) \/ WorkerDies(w)
        PROVE  IdleBetweenRuns'
    <2>1. Writing /\ run' = run
      BY <1>4 DEF WorkerStep, Take, HashWheel, HashRaises, Rehash, RehashRaises, CacheHit, CacheMiss,
         ScanForCache, ScanUncached, ScanAborts,
         ShortForCache, ShortUncached, CachePut, CachePutRaises, WorkerDies, WorkerFrame, At
    <2> QED
      BY <2>1 DEF IdleBetweenRuns, Writing
  <1>5. CASE ReplaceWheel \/ CacheDamaged
    BY <1>5 DEF ReplaceWheel, CacheDamaged, IdleBetweenRuns, Writing, poolVars
  <1> QED
    BY <1>1, <1>2, <1>3, <1>4, <1>5 DEF Next, MainStep

\* The typing invariant: types, and idle workers between runs.
TypeInv == TypeOK /\ IdleBetweenRuns

LEMMA TypeInvariance == Spec => []TypeInv
  <1>1. Init => TypeInv
    <2>1. Init => IdleBetweenRuns
      BY DEF Init, IdleBetweenRuns, Empty
    <2> QED
      BY <2>1, InitType, ScanAssumption DEF TypeInv
  <1>2. TypeInv /\ [Next]_vars => TypeInv'
    <2>1. CASE Next
      BY <2>1, NextType, NextIdle, ScanAssumption DEF TypeInv
    <2>2. CASE UNCHANGED vars
      BY <2>2 DEF vars, reportVars, mainVars, poolVars, TypeOK, RunType, FileType, CacheType,
         MainType, PoolType, IdleBetweenRuns, Writing, Stream, TypeInv
    <2> QED
      BY <2>1, <2>2
  <1> QED
    BY <1>1, <1>2, PTL DEF Spec

\* Every variable of the scan keeps its type.
THEOREM TypeCorrect == Spec => []TypeOK
  <1>1. TypeInv => TypeOK
    BY DEF TypeInv
  <1> QED
    BY <1>1, TypeInvariance, PTL

----------------------------------------------------------------------------
(* The cache.                                                              *)

\* The record of a scan that got through a content, whole or short of evidence.
ScanOf(line, name, digest, salt) ==
  /\ line.kind \in {"full", "short"}
  /\ line.name = name /\ line.digest = digest /\ line.body = digest /\ line.salt = salt

\* What a worker is about to look up or store is about the wheel it holds.
WorkersHold ==
  \A w \in Workers :
    /\ worker[w].pc \in {"get", "collect"} => worker[w].digest = content[Path(w)]
    /\ worker[w].pc = "put" => ScanOf(worker[w].line, Name(w), worker[w].digest, run.salt)

CacheInv == TypeInv /\ CacheIsTrue /\ WorkersHold

\* A step of one worker leaves what the others hold.
LEMMA OthersHold ==
  ASSUME TypeInv, WorkersHold, NEW w \in Workers, NEW t, WorkerFrame,
         worker' = [worker EXCEPT ![w] = t],
         t.pc \in {"get", "collect"} => t.digest = content[pending[t.index]],
         t.pc = "put" => ScanOf(t.line, NameOf[pending[t.index]], t.digest, run.salt)
  PROVE  WorkersHold'
  <1>1. content' = content /\ pending' = pending /\ run' = run
    BY DEF WorkerFrame, mainVars
  <1>2. worker \in [Workers -> Tasks(taken) \cup {Idle}]
    BY DEF TypeInv, TypeOK, PoolType
  <1> SUFFICES ASSUME NEW v \in Workers
               PROVE  /\ worker'[v].pc \in {"get", "collect"} => worker'[v].digest = content[pending[worker'[v].index]]
                      /\ worker'[v].pc = "put" =>
                           ScanOf(worker'[v].line, NameOf[pending[worker'[v].index]], worker'[v].digest,
                                  run.salt)
    BY <1>1 DEF WorkersHold, Path, Name, ScanOf
  <1>3. CASE v = w
    <2>1. worker'[v] = t
      BY <1>2, <1>3
    <2> QED
      BY <2>1
  <1>4. CASE v # w
    <2>1. worker'[v] = worker[v]
      BY <1>2, <1>4
    <2> QED
      BY <2>1 DEF WorkersHold, Path, Name
  <1> QED
    BY <1>3, <1>4

\* A worker's step keeps the cache true and what the workers hold.
LEMMA WorkerStepCache ==
  ASSUME ScanAssumption, CacheInv, NEW w \in Workers, WorkerStep(w)
  PROVE  CacheIsTrue' /\ WorkersHold'
  <1>f. WorkerFrame
    BY DEF WorkerStep, Take, HashWheel, HashRaises, Rehash, RehashRaises, CacheHit, CacheMiss,
       ScanForCache, ScanUncached, ScanAborts,
       ShortForCache, ShortUncached, CachePut, CachePutRaises
  <1>t. TypeInv /\ TypeOK /\ WorkersHold
    BY DEF CacheInv, TypeInv
  <1>c. cache' = cache => CacheIsTrue'
    BY DEF CacheInv, CacheIsTrue
  <1>i. worker' = [worker EXCEPT ![w] = Idle] => WorkersHold'
    <2>1. Idle.pc = "idle"
      BY DEF Idle, Task
    <2> QED
      BY <1>f, <1>t, <2>1, OthersHold
  <1>g. ASSUME NEW pc, NEW digest, NEW line, Goto(w, pc, digest, line),
               pc \in {"get", "collect"} => digest = content[Path(w)],
               pc = "put" => ScanOf(line, Name(w), digest, run.salt)
        PROVE  WorkersHold'
    <2> DEFINE t == Task(pc, worker[w].index, digest, line)
    <2>1. t.pc = pc /\ t.index = worker[w].index /\ t.digest = digest /\ t.line = line
      BY DEF Task
    <2>2. worker' = [worker EXCEPT ![w] = t]
      BY <1>g DEF Goto
    <2> HIDE DEF t
    <2> QED
      BY <1>f, <1>g, <1>t, <2>1, <2>2, OthersHold DEF Path, Name
  <1>1. CASE Take(w)
    <2> DEFINE t == Task("hash", taken + 1, "none", NoLine)
    <2>1. t.pc = "hash"
      BY DEF Task
    <2>2. worker' = [worker EXCEPT ![w] = t] /\ cache' = cache
      BY <1>1 DEF Take
    <2> HIDE DEF t
    <2> QED
      BY <1>c, <1>f, <1>t, <2>1, <2>2, OthersHold
  <1>2. CASE HashWheel(w)
    BY <1>2, <1>c, <1>g DEF HashWheel
  <1>3. CASE HashRaises(w)
    BY <1>3, <1>c, <1>g DEF HashRaises
  <1>4. CASE Rehash(w)
    BY <1>4, <1>c, <1>g DEF Rehash
  <1>5. CASE CacheMiss(w)
    <2>1. worker[w].digest = content[Path(w)]
      BY <1>5, <1>t DEF CacheMiss, At, WorkersHold
    <2> QED
      BY <1>5, <1>c, <1>g, <2>1 DEF CacheMiss
  <1>6. CASE ScanForCache(w)
    <2>1. worker[w].digest = content[Path(w)]
      BY <1>6, <1>t DEF ScanForCache, At, WorkersHold
    <2>2. ScanOf(Scanned(w), Name(w), worker[w].digest, run.salt)
      BY <1>6, <2>1 DEF ScanForCache, Scanned, ScanOf, Line
    <2> QED
      BY <1>6, <1>c, <1>g, <2>2 DEF ScanForCache
  <1>7. CASE \/ RehashRaises(w) \/ CacheHit(w) \/ ScanUncached(w)
             \/ ScanAborts(w) \/ ShortUncached(w) \/ CachePutRaises(w)
    <2>1. worker' = [worker EXCEPT ![w] = Idle] /\ cache' = cache
      BY <1>7 DEF RehashRaises, CacheHit, ScanUncached, ScanAborts, ShortUncached, CachePutRaises, Deliver
    <2> QED
      BY <1>c, <1>i, <2>1
  <1>8. CASE CachePut(w)
    <2>1. worker' = [worker EXCEPT ![w] = Idle] /\ Put(CacheKey(w), worker[w].line)
      BY <1>8 DEF CachePut, Deliver
    <2>2. ScanOf(worker[w].line, Name(w), worker[w].digest, run.salt)
      BY <1>8, <1>t DEF CachePut, At, WorkersHold
    <2> DEFINE line == worker[w].line
               key == CacheKey(w)
    <2>3. /\ line.kind \in {"full", "short"} /\ line.body = line.digest
          /\ <<line.digest, line.name, line.salt>> = key
      BY <2>2 DEF CacheKey, ScanOf
    <2>4. cache' = [k \in DOMAIN cache \cup {key} |-> IF k = key THEN line ELSE cache[k]]
      BY <2>1 DEF Put
    <2> HIDE DEF line, key
    <2>5. CacheIsTrue'
      BY <2>3, <2>4 DEF CacheInv, CacheIsTrue
    <2> QED
      BY <1>i, <2>1, <2>5
  <1>9. CASE ShortForCache(w)
    <2>1. worker[w].digest = content[Path(w)]
      BY <1>9, <1>t DEF ShortForCache, At, WorkersHold
    <2>2. ScanOf(Short(w), Name(w), worker[w].digest, run.salt)
      BY <2>1 DEF Short, ScanOf, Line
    <2> QED
      BY <1>9, <1>c, <1>g, <2>2 DEF ShortForCache
  <1> QED
    BY <1>1, <1>2, <1>3, <1>4, <1>5, <1>6, <1>7, <1>8, <1>9 DEF WorkerStep

\* Idle workers hold nothing.
LEMMA IdleHolds ==
  ASSUME worker' = [w \in Workers |-> Idle]
  PROVE  WorkersHold'
  BY DEF WorkersHold, Idle, Task

\* Every step keeps the cache true, wheels replaced under a run and entries
\* cut short but readable excepted.
LEMMA NextCache ==
  ASSUME ScanAssumption, "replaced" \notin Faults, "cut" \notin Faults, CacheInv, Next
  PROVE  CacheIsTrue' /\ WorkersHold'
  <1>t. TypeInv /\ IdleBetweenRuns /\ WorkersHold /\ CacheIsTrue
    BY DEF CacheInv, TypeInv
  <1>c. cache' = cache => CacheIsTrue'
    BY <1>t DEF CacheIsTrue
  <1>i. ASSUME ~Writing, UNCHANGED <<worker, cache>>
        PROVE  CacheIsTrue' /\ WorkersHold'
    BY <1>c, <1>i, <1>t, IdleHolds DEF IdleBetweenRuns
  <1>1. ASSUME NEW salt, NEW resume, NEW mode, StartRun(salt, resume, mode)
        PROVE  CacheIsTrue' /\ WorkersHold'
    BY <1>1, <1>i DEF StartRun, poolVars
  <1>2. CASE EmitKept \/ EmitScanned
    BY <1>2, <1>c, <1>t DEF EmitKept, EmitScanned, WorkersHold, ScanOf, Path, Name, poolVars
  <1>3. CASE FinishRun \/ PoolIsBroken \/ WriteError \/ Crash
    <2>1. cache' = cache /\ \E status : EndRun(status)
      BY <1>3 DEF FinishRun, PoolIsBroken, WriteError, Crash
    <2> QED
      BY <1>c, <2>1, IdleHolds DEF EndRun
  <1>4. ASSUME NEW w \in Workers, WorkerStep(w)
        PROVE  CacheIsTrue' /\ WorkersHold'
    BY <1>4, WorkerStepCache
  <1>5. ASSUME NEW w \in Workers, WorkerDies(w)
        PROVE  CacheIsTrue' /\ WorkersHold'
    BY <1>5, <1>c, IdleHolds DEF WorkerDies
  <1>6. CASE ReplaceWheel
    <2>1. ~Writing
      BY <1>6 DEF ReplaceWheel, Fault
    <2> QED
      BY <1>6, <1>i, <2>1 DEF ReplaceWheel, poolVars
  <1>7. CASE CacheDamaged
    <2>1. Damage("undecodable")
      BY <1>7 DEF CacheDamaged, Fault
    <2>2. PICK key \in DOMAIN cache : cache' = [cache EXCEPT ![key].kind = "undecodable"]
      BY <2>1 DEF Damage
    <2>3. cache[key] \in Lines
      BY <1>t DEF TypeInv, TypeOK, CacheType
    <2>4. cache'[key].kind = "undecodable" /\ DOMAIN cache' = DOMAIN cache
          /\ \A k \in DOMAIN cache : k # key => cache'[k] = cache[k]
      BY <2>2, <2>3 DEF Lines
    <2>5. CacheIsTrue'
      BY <1>t, <2>4 DEF CacheIsTrue
    <2>6. WorkersHold'
      BY <1>7, <1>t DEF CacheDamaged, WorkersHold, ScanOf, Path, Name, poolVars, mainVars
    <2> QED
      BY <2>5, <2>6
  <1> QED
    BY <1>1, <1>2, <1>3, <1>4, <1>5, <1>6, <1>7 DEF Next, MainStep

\* As long as no wheel is replaced while it is being scanned and no entry is
\* cut short into other readable text, a cache hit is always the record of a
\* scan that got through the content, filename and analyser asked for, whatever
\* else raises, is killed or races: never one under an aborted kind, though it
\* may be one that a failure under another kind left short of evidence
\* (cache.py:3-10, cli.py:232).
THEOREM CacheStaysTrue ==
  ASSUME "replaced" \notin Faults, "cut" \notin Faults
  PROVE  Spec => []CacheIsTrue
  <1>1. Init => CacheIsTrue /\ WorkersHold
    BY DEF Init, CacheIsTrue, WorkersHold, Empty, Idle, Task
  <1>2. TypeInv /\ (CacheIsTrue /\ WorkersHold) /\ [Next]_vars => (CacheIsTrue /\ WorkersHold)'
    <2>1. CASE Next
      BY <2>1, NextCache, ScanAssumption DEF CacheInv
    <2>2. CASE UNCHANGED vars
      BY <2>2 DEF vars, mainVars, poolVars, CacheIsTrue, WorkersHold, ScanOf, Path, Name
    <2> QED
      BY <2>1, <2>2
  <1> QED
    BY <1>1, <1>2, TypeInvariance, PTL DEF Spec

----------------------------------------------------------------------------
(* The report.                                                             *)

\* A whole line for wheel i.
Answers(line, i) == line.name = NameOf[i] /\ line.kind \in {"full", "short", "aborted"}

\* Whatever can become a line of the report carries the name it is found by.
CacheNames ==
  \A key \in DOMAIN cache :
    cache[key].name = key[2] /\ cache[key].kind \in {"full", "short", "undecodable"}
KeptNames ==
  \A name \in DOMAIN existing :
    existing[name].name = name /\ existing[name].kind \in {"full", "short"}
WorkerNames ==
  \A w \in Workers : worker[w].pc = "put" =>
    worker[w].line.name = Name(w) /\ worker[w].line.kind \in {"full", "short"}
ResultNames == \A k \in DOMAIN results : Answers(results[k], pending[k])

\* Main has pulled the results of exactly the pending wheels it is past.
Aligned ==
  Writing =>
    /\ next \in 1..(Wheels + 1)
    /\ NotIn(existing) = {pending[k] : k \in 1..Len(pending)}
    /\ \A j, k \in 1..Len(pending) : j < k => pending[j] < pending[k]
    /\ \A k \in 1..Len(pending) : pending[k] < next <=> k <= pulled

\* The stream holds the answers of the wheels main is past.
StreamAnswers ==
  Writing => Len(Stream) = next - 1 /\ \A i \in 1..(next - 1) : Answers(Stream[i], i)

NamesInv == CacheNames /\ KeptNames /\ WorkerNames /\ ResultNames
ReportInv == NamesInv /\ Aligned /\ StreamAnswers

\* The line a worker delivers is for the wheel it took.
LEMMA DeliverNames ==
  ASSUME TypeInv, NamesInv, NEW w \in Workers, worker[w].pc # "idle", WorkerFrame,
         NEW line, Deliver(w, line), Answers(line, Path(w)), cache' = cache
  PROVE  NamesInv'
  <1>1. pending' = pending /\ existing' = existing
    BY DEF WorkerFrame, mainVars
  <1>2. CacheNames' /\ KeptNames'
    BY <1>1 DEF NamesInv, CacheNames, KeptNames
  <1>3. ResultNames'
    BY <1>1 DEF NamesInv, ResultNames, Deliver, Path, Answers
  <1>4. worker' = [worker EXCEPT ![w] = Idle] /\ worker \in [Workers -> Tasks(taken) \cup {Idle}]
    BY DEF Deliver, TypeInv, TypeOK, PoolType
  <1>5. WorkerNames'
    <2> SUFFICES ASSUME NEW v \in Workers, worker'[v].pc = "put"
                 PROVE  /\ worker'[v].line.name = NameOf[pending[worker'[v].index]]
                        /\ worker'[v].line.kind \in {"full", "short"}
      BY <1>1 DEF WorkerNames, Name, Path
    <2>1. v # w
      BY <1>4 DEF Idle, Task
    <2>2. worker'[v] = worker[v]
      BY <1>4, <2>1
    <2> QED
      BY <2>2 DEF NamesInv, WorkerNames, Name, Path
  <1> QED
    BY <1>2, <1>3, <1>5 DEF NamesInv

\* A stage that stores nothing new leaves the names alone.
LEMMA StageNames ==
  ASSUME TypeInv, NamesInv, NEW w \in Workers, WorkerFrame, NEW t,
         worker' = [worker EXCEPT ![w] = t],
         t.pc = "put" => t.line.name = NameOf[pending[t.index]] /\ t.line.kind \in {"full", "short"},
         UNCHANGED <<cache, results>>
  PROVE  NamesInv'
  <1>1. pending' = pending /\ existing' = existing
    BY DEF WorkerFrame, mainVars
  <1>2. CacheNames' /\ KeptNames' /\ ResultNames'
    BY <1>1 DEF NamesInv, CacheNames, KeptNames, ResultNames, Answers
  <1>3. worker \in [Workers -> Tasks(taken) \cup {Idle}]
    BY DEF TypeInv, TypeOK, PoolType
  <1>4. WorkerNames'
    <2> SUFFICES ASSUME NEW v \in Workers, worker'[v].pc = "put"
                 PROVE  /\ worker'[v].line.name = NameOf[pending[worker'[v].index]]
                        /\ worker'[v].line.kind \in {"full", "short"}
      BY <1>1 DEF WorkerNames, Name, Path
    <2>1. CASE v = w
      <3>1. worker'[v] = t
        BY <1>3, <2>1
      <3> QED
        BY <3>1
    <2>2. CASE v # w
      <3>1. worker'[v] = worker[v]
        BY <1>3, <2>2
      <3> QED
        BY <3>1 DEF NamesInv, WorkerNames, Name, Path
    <2> QED
      BY <2>1, <2>2
  <1> QED
    BY <1>2, <1>4 DEF NamesInv

\* Scans answer for their wheel, aborted or short of evidence or neither.
LEMMA ScanAnswers ==
  ASSUME NEW w \in Workers, NEW digest
  PROVE  /\ Answers(Aborted(w, digest), Path(w)) /\ Answers(Scanned(w), Path(w))
         /\ Answers(Short(w), Path(w))
  BY DEF Answers, Aborted, Scanned, Short, Line, Name

\* Every step of a worker keeps the names.
LEMMA WorkerStepNames ==
  ASSUME TypeInv, NamesInv, NEW w \in Workers, WorkerStep(w)
  PROVE  NamesInv'
  <1>f. WorkerFrame
    BY DEF WorkerStep, Take, HashWheel, HashRaises, Rehash, RehashRaises, CacheHit, CacheMiss,
       ScanForCache, ScanUncached, ScanAborts,
       ShortForCache, ShortUncached, CachePut, CachePutRaises
  <1>g. ASSUME NEW pc, NEW digest, NEW line, Goto(w, pc, digest, line), UNCHANGED <<cache, results>>,
               pc = "put" => line.name = Name(w) /\ line.kind \in {"full", "short"}
        PROVE  NamesInv'
    <2> DEFINE t == Task(pc, worker[w].index, digest, line)
    <2>1. t.pc = pc /\ t.index = worker[w].index /\ t.line = line
      BY DEF Task
    <2>2. worker' = [worker EXCEPT ![w] = t]
      BY <1>g DEF Goto
    <2> HIDE DEF t
    <2> QED
      BY <1>f, <1>g, <2>1, <2>2, StageNames DEF Path, Name
  <1>1. CASE Take(w)
    <2> DEFINE t == Task("hash", taken + 1, "none", NoLine)
    <2>1. t.pc = "hash"
      BY DEF Task
    <2>2. worker' = [worker EXCEPT ![w] = t] /\ UNCHANGED <<cache, results>>
      BY <1>1 DEF Take
    <2> HIDE DEF t
    <2> QED
      BY <1>f, <2>1, <2>2, StageNames
  <1>2. CASE HashWheel(w) \/ HashRaises(w) \/ Rehash(w) \/ CacheMiss(w)
    BY <1>2, <1>g DEF HashWheel, HashRaises, Rehash, CacheMiss
  <1>3. CASE ScanForCache(w)
    <2>1. Scanned(w).name = Name(w) /\ Scanned(w).kind = "full"
      BY <1>3 DEF ScanForCache, Scanned, Line
    <2> QED
      BY <1>3, <1>g, <2>1 DEF ScanForCache
  <1>4. CASE RehashRaises(w) \/ ScanUncached(w) \/ ScanAborts(w) \/ ShortUncached(w)
    <2>1. PICK line : Deliver(w, line) /\ Answers(line, Path(w))
      BY <1>4, ScanAnswers DEF RehashRaises, ScanUncached, ScanAborts, ShortUncached
    <2>2. worker[w].pc # "idle" /\ cache' = cache
      BY <1>4 DEF RehashRaises, ScanUncached, ScanAborts, ShortUncached, At
    <2> QED
      BY <1>f, <2>1, <2>2, DeliverNames
  <1>5. CASE CacheHit(w)
    <2>1. worker[w].pc # "idle" /\ Deliver(w, cache[CacheKey(w)]) /\ cache' = cache
          /\ CacheKey(w) \in DOMAIN cache /\ cache[CacheKey(w)].kind # "undecodable"
      BY <1>5 DEF CacheHit, At, Held
    <2>2. CacheKey(w)[2] = NameOf[Path(w)]
      BY DEF CacheKey, Name
    <2>3. Answers(cache[CacheKey(w)], Path(w))
      BY <2>1, <2>2 DEF NamesInv, CacheNames, Answers
    <2> QED
      BY <1>f, <2>1, <2>3, DeliverNames
  <1>6. CASE CachePut(w) \/ CachePutRaises(w)
    <2>1. worker[w].pc = "put" /\ Deliver(w, worker[w].line)
          /\ (cache' = cache \/ Put(CacheKey(w), worker[w].line))
      BY <1>6 DEF CachePut, CachePutRaises, At
    <2>2. worker[w].line.name = Name(w) /\ worker[w].line.kind \in {"full", "short"}
      BY <2>1 DEF NamesInv, WorkerNames
    <2>3. Answers(worker[w].line, Path(w))
      BY <2>2 DEF Answers, Name
    <2>4. CASE cache' = cache
      BY <1>f, <2>1, <2>3, <2>4, DeliverNames
    <2>5. CASE Put(CacheKey(w), worker[w].line)
      <3> DEFINE key == CacheKey(w)
                 line == worker[w].line
      <3>1. key[2] = Name(w) /\ line.name = Name(w) /\ line.kind \in {"full", "short"}
        BY <2>2 DEF CacheKey
      <3>2. cache' = [k \in DOMAIN cache \cup {key} |-> IF k = key THEN line ELSE cache[k]]
        BY <2>5 DEF Put
      <3> HIDE DEF key, line
      <3>3. CacheNames'
        BY <3>1, <3>2 DEF NamesInv, CacheNames
      <3>4. KeptNames' /\ ResultNames' /\ WorkerNames'
        <4>1. pending' = pending /\ existing' = existing
          BY <1>f DEF WorkerFrame, mainVars
        <4>2. KeptNames'
          BY <4>1 DEF NamesInv, KeptNames
        <4>3. ResultNames'
          BY <2>1, <2>3, <4>1 DEF NamesInv, ResultNames, Deliver, Path, Answers
        <4>4. worker' = [worker EXCEPT ![w] = Idle] /\ worker \in [Workers -> Tasks(taken) \cup {Idle}]
          BY <2>1 DEF Deliver, TypeInv, TypeOK, PoolType
        <4>5. WorkerNames'
          <5> SUFFICES ASSUME NEW v \in Workers, worker'[v].pc = "put"
                       PROVE  /\ worker'[v].line.name = NameOf[pending[worker'[v].index]]
                              /\ worker'[v].line.kind \in {"full", "short"}
            BY <4>1 DEF WorkerNames, Name, Path
          <5>1. v # w
            BY <4>4 DEF Idle, Task
          <5>2. worker'[v] = worker[v]
            BY <4>4, <5>1
          <5> QED
            BY <5>2 DEF NamesInv, WorkerNames, Name, Path
        <4> QED
          BY <4>2, <4>3, <4>5
      <3> QED
        BY <3>3, <3>4 DEF NamesInv
    <2> QED
      BY <2>1, <2>4, <2>5
  <1>7. CASE ShortForCache(w)
    <2>1. Short(w).name = Name(w) /\ Short(w).kind = "short"
      BY DEF Short, Line
    <2> QED
      BY <1>7, <1>g, <2>1 DEF ShortForCache
  <1> QED
    BY <1>1, <1>2, <1>3, <1>4, <1>5, <1>6, <1>7 DEF WorkerStep

\* So does every step, entries cut short but readable excepted.
LEMMA NextNames ==
  ASSUME ScanAssumption, "cut" \notin Faults, TypeInv, NamesInv, Next
  PROVE  NamesInv'
  <1>1. ASSUME NEW salt \in Salts, NEW resume \in BOOLEAN, NEW mode \in Modes,
               StartRun(salt, resume, mode)
        PROVE  NamesInv'
    <2>1. output \in FileContents
      BY DEF TypeInv, TypeOK, FileType
    <2>2. existing' \in ExistingRecords(output) \/ existing' = Empty
      BY <1>1 DEF StartRun
    <2>3. KeptNames'
      BY <2>1, <2>2, ExistingType DEF KeptNames, Empty
    <2>4. /\ ~Writing /\ cache' = cache /\ results' = results /\ worker' = worker
      BY <1>1 DEF StartRun, poolVars
    <2>5. CacheNames'
      BY <2>4 DEF NamesInv, CacheNames
    <2>6. DOMAIN results = {} /\ worker = [w \in Workers |-> Idle]
      BY <2>4 DEF TypeInv, IdleBetweenRuns
    <2>7. ResultNames' /\ WorkerNames'
      BY <2>4, <2>6 DEF ResultNames, WorkerNames, Idle, Task
    <2> QED
      BY <2>3, <2>5, <2>7 DEF NamesInv
  <1>2. CASE EmitKept \/ EmitScanned
    BY <1>2 DEF EmitKept, EmitScanned, poolVars, NamesInv, CacheNames, KeptNames, WorkerNames,
       ResultNames, Answers, Name, Path
  <1>3. CASE FinishRun \/ PoolIsBroken \/ WriteError \/ Crash
    <2>1. cache' = cache /\ \E status : EndRun(status)
      BY <1>3 DEF FinishRun, PoolIsBroken, WriteError, Crash
    <2> QED
      BY <2>1 DEF EndRun, Empty, Idle, Task, NamesInv, CacheNames, KeptNames, WorkerNames, ResultNames
  <1>4. ASSUME NEW w \in Workers, WorkerStep(w)
        PROVE  NamesInv'
    BY <1>4, WorkerStepNames
  <1>5. ASSUME NEW w \in Workers, WorkerDies(w)
        PROVE  NamesInv'
    BY <1>5 DEF WorkerDies, mainVars, Idle, Task, NamesInv, CacheNames, KeptNames, WorkerNames,
       ResultNames, Answers
  <1>6. CASE ReplaceWheel
    BY <1>6 DEF ReplaceWheel, mainVars, poolVars, NamesInv, CacheNames, KeptNames, WorkerNames,
       ResultNames, Answers, Name, Path
  <1>7. CASE CacheDamaged
    <2>1. Damage("undecodable")
      BY <1>7 DEF CacheDamaged, Fault
    <2>2. PICK key \in DOMAIN cache : cache' = [cache EXCEPT ![key].kind = "undecodable"]
      BY <2>1 DEF Damage
    <2>3. cache[key] \in Lines
      BY DEF TypeInv, TypeOK, CacheType
    <2>4. /\ cache'[key].kind = "undecodable" /\ cache'[key].name = cache[key].name
          /\ DOMAIN cache' = DOMAIN cache
          /\ \A k \in DOMAIN cache : k # key => cache'[k] = cache[k]
      BY <2>2, <2>3 DEF Lines
    <2>5. CacheNames'
      BY <2>4 DEF NamesInv, CacheNames
    <2>6. KeptNames' /\ WorkerNames' /\ ResultNames'
      BY <1>7 DEF CacheDamaged, mainVars, poolVars, NamesInv, KeptNames, WorkerNames, ResultNames,
         Answers, Name, Path
    <2> QED
      BY <2>5, <2>6 DEF NamesInv
  <1> QED
    BY <1>1, <1>2, <1>3, <1>4, <1>5, <1>6, <1>7 DEF Next, MainStep

\* The wheel main waits for is the next one pending.
LEMMA NextPending ==
  ASSUME ScanAssumption, TypeInv, Aligned, MainWaits, pulled + 1 \in DOMAIN results
  PROVE  pulled + 1 \in 1..Len(pending) /\ pending[pulled + 1] = next
  <1>1. /\ pulled \in Nat /\ Len(pending) \in Nat /\ Wheels \in Nat
        /\ pending \in Seq(1..Wheels) /\ next \in 0..(Wheels + 1)
    BY DEF TypeInv, TypeOK, MainType, ScanAssumption
  <1>2. pulled + 1 \in 1..Len(pending)
    <2>1. pulled + 1 \in 1..taken /\ taken \in Nat /\ taken <= Len(pending)
      BY TakenType DEF TypeInv, TypeOK, PoolType
    <2> QED
      BY <1>1, <2>1
  <1>3. next \in NotIn(existing)
    BY DEF MainWaits, Aligned, NotIn
  <1>4. PICK j \in 1..Len(pending) : pending[j] = next
    BY <1>3 DEF MainWaits, Aligned
  <1>5. ~(j <= pulled)
    BY <1>1, <1>4 DEF MainWaits, Aligned
  <1>6. ~(pending[pulled + 1] < next)
    BY <1>1, <1>2 DEF MainWaits, Aligned
  <1>7. CASE pulled + 1 < j
    <2>1. pending[pulled + 1] < pending[j]
      BY <1>2, <1>7 DEF MainWaits, Aligned
    <2> QED
      BY <1>4, <1>6, <2>1
  <1> QED
    BY <1>1, <1>2, <1>4, <1>5, <1>7

\* A line written for the wheel main is at keeps the stream in order.
LEMMA EmitReport ==
  ASSUME ScanAssumption, TypeInv, StreamAnswers, Writing, next \in 1..Wheels, NEW line \in Lines,
         Answers(line, next), Emit(line), run' = run
  PROVE  StreamAnswers' /\ (run.mode = "file" => output' = output)
  <1>1. /\ Stream \in Seq(Lines) /\ Len(Stream) = next - 1
        /\ \A i \in 1..(next - 1) : Answers(Stream[i], i)
    BY DEF StreamAnswers, TypeInv, TypeOK, FileType
  <1> DEFINE longer == Append(Stream, line)
  <1>2. SetStream(longer) /\ next' = next + 1
    BY DEF Emit
  <1>3. next \in Nat /\ next >= 1 /\ Wheels \in Nat
    BY DEF ScanAssumption
  <1>4. Len(longer) = next /\ \A i \in 1..next : Answers(longer[i], i)
    <2>1. Len(longer) = next
      BY <1>1, <1>3
    <2> SUFFICES ASSUME NEW i \in 1..next PROVE Answers(longer[i], i)
      BY <2>1
    <2>2. CASE i = next
      BY <1>1, <1>3, <2>2
    <2>3. CASE i # next
      <3>1. i \in 1..(next - 1) /\ longer[i] = Stream[i]
        BY <1>1, <1>3, <2>3
      <3> QED
        BY <1>1, <3>1
    <2> QED
      BY <2>2, <2>3
  <1> HIDE DEF longer
  <1>5. Stream' = longer /\ (run.mode = "file" => output' = output)
    BY <1>2 DEF Stream, SetStream
  <1>6. next' - 1 = next
    BY <1>2, <1>3
  <1> QED
    BY <1>4, <1>5, <1>6 DEF StreamAnswers, Answers

\* A run starts with nothing written and nothing pulled.
LEMMA StartReport ==
  ASSUME ScanAssumption, TypeInv, NEW salt \in Salts, NEW resume \in BOOLEAN,
         NEW mode \in Modes, StartRun(salt, resume, mode)
  PROVE  Aligned' /\ StreamAnswers' /\ (mode = "file" => output' = output)
  <1>1. /\ run'.mode = mode /\ (mode = "file" => output' = output /\ partial' = <<>>)
        /\ (mode # "file" => output' = <<>>)
        /\ next' = 1 /\ pulled' = 0 /\ pending' \in InOrder(NotIn(existing')) /\ Wheels \in Nat
    BY DEF StartRun, ScanAssumption
  <1>2. PICK n \in 0..Wheels : pending' \in [1..n -> NotIn(existing')]
    BY <1>1 DEF InOrder
  <1>3. n \in Nat /\ Len(pending') = n /\ DOMAIN pending' = 1..n
    BY <1>1, <1>2
  <1>4. NotIn(existing') = {pending'[k] : k \in 1..Len(pending')}
    BY <1>1, <1>3 DEF InOrder
  <1>5. \A j, k \in 1..Len(pending') : j < k => pending'[j] < pending'[k]
    BY <1>1, <1>3 DEF InOrder
  <1>6. \A k \in 1..Len(pending') : ~(pending'[k] < 1) /\ ~(k <= 0)
    <2> TAKE k \in 1..Len(pending')
    <2>1. pending'[k] \in 1..Wheels
      BY <1>2, <1>3 DEF NotIn
    <2> QED
      BY <1>1, <1>3, <2>1
  <1>7. NotIn(existing)' = NotIn(existing')
    BY DEF NotIn
  <1>8. Aligned'
    BY <1>1, <1>4, <1>5, <1>6, <1>7 DEF Aligned
  <1>9. Stream' = <<>> /\ next' - 1 = 0
    BY <1>1 DEF Stream
  <1>10. Len(Stream') = next' - 1 /\ 1..(next' - 1) = {}
    BY <1>9
  <1> QED
    BY <1>1, <1>8, <1>10 DEF StreamAnswers

\* Every step keeps what main has pulled and written aligned with discovery
\* order, and changes the file named by -o only into a whole report.
LEMMA NextReport ==
  ASSUME ScanAssumption, TypeInv, ReportInv, Next
  PROVE  /\ Aligned' /\ StreamAnswers'
         /\ Modes = {"file"} /\ run.mode = "file" =>
              run'.mode = "file" /\ (output' = output \/ Report!IsReport(output'))
  <1>t. /\ Wheels \in Nat /\ next \in Int /\ pulled \in Nat /\ Len(pending) \in Nat
        /\ pending \in Seq(1..Wheels) /\ run \in [number : 0..MaxRuns, salt : Salts,
             resume : BOOLEAN, mode : {"file", "redirect"},
             status : {"none", "writing", "ok", "failed", "died", "crashed"}]
    BY DEF TypeInv, TypeOK, MainType, RunType, ScanAssumption
  <1>r. Aligned /\ StreamAnswers /\ NamesInv
    BY DEF ReportInv
  <1>1. ASSUME NEW salt \in Salts, NEW resume \in BOOLEAN, NEW mode \in Modes,
               StartRun(salt, resume, mode)
        PROVE  Aligned' /\ StreamAnswers' /\ (Modes = {"file"} => run'.mode = "file" /\ output' = output)
    BY <1>1, StartReport DEF StartRun
  <1>2. CASE EmitKept
    <2>1. /\ Writing /\ next \in 1..Wheels /\ Emit(existing[NameOf[next]]) /\ run' = run
          /\ next' = next + 1 /\ UNCHANGED <<existing, pending, pulled>>
          /\ NameOf[next] \in DOMAIN existing
      BY <1>2, <1>r, <1>t DEF EmitKept, Aligned, Emit
    <2>2. existing[NameOf[next]] \in Lines /\ Answers(existing[NameOf[next]], next)
      BY <1>r, <2>1 DEF NamesInv, KeptNames, Answers, TypeInv, TypeOK, MainType
    <2>3. StreamAnswers' /\ (run.mode = "file" => output' = output)
      BY <1>r, <2>1, <2>2, EmitReport
    <2>4. next \notin NotIn(existing)
      BY <2>1 DEF NotIn
    <2>5. \A k \in 1..Len(pending) : pending[k] < next + 1 <=> k <= pulled
      <3> TAKE k \in 1..Len(pending)
      <3>1. pending[k] # next /\ pending[k] \in 1..Wheels
        BY <1>r, <1>t, <2>1, <2>4 DEF Aligned
      <3>2. pending[k] < next <=> k <= pulled
        BY <1>r, <2>1 DEF Aligned
      <3> DEFINE p == pending[k]
      <3> HIDE DEF p
      <3>3. p # next /\ p \in 1..Wheels => (p < next + 1 <=> p < next)
        BY <1>t
      <3> QED
        BY <3>1, <3>2, <3>3 DEF p
    <2>6. next + 1 \in 1..(Wheels + 1)
      BY <1>t, <2>1
    <2>7. Aligned'
      BY <1>r, <2>1, <2>5, <2>6 DEF Aligned, NotIn
    <2> QED
      BY <2>1, <2>3, <2>7
  <1>3. CASE EmitScanned
    <2>1. /\ Writing /\ next \in 1..Wheels /\ Emit(results[pulled + 1]) /\ run' = run
          /\ next' = next + 1 /\ pulled' = pulled + 1 /\ UNCHANGED <<existing, pending>>
          /\ MainWaits /\ pulled + 1 \in DOMAIN results
      BY <1>3, <1>r, <1>t DEF EmitScanned, MainWaits, Aligned, Emit
    <2>2. pulled + 1 \in 1..Len(pending) /\ pending[pulled + 1] = next
      BY <1>r, <2>1, NextPending
    <2>3. results[pulled + 1] \in Lines /\ Answers(results[pulled + 1], next)
      BY <1>r, <2>1, <2>2 DEF NamesInv, ResultNames, TypeInv, TypeOK, PoolType
    <2>4. StreamAnswers' /\ (run.mode = "file" => output' = output)
      BY <1>r, <2>1, <2>3, EmitReport
    <2>5. \A k \in 1..Len(pending) : pending[k] < next + 1 <=> k <= pulled + 1
      <3> TAKE k \in 1..Len(pending)
      <3>1. /\ pending[k] \in 1..Wheels /\ (pending[k] < next <=> k <= pulled)
            /\ (k < pulled + 1 => pending[k] < next) /\ (pulled + 1 < k => next < pending[k])
        BY <1>r, <1>t, <2>1, <2>2 DEF Aligned
      <3> DEFINE p == pending[k]
      <3>2. k = pulled + 1 => p = next
        BY <2>2
      <3> HIDE DEF p
      <3>3. p \in Int /\ k \in Int
        BY <3>1 DEF p
      <3>4. (k < pulled + 1 => p < next) /\ (pulled + 1 < k => next < p)
        BY <3>1 DEF p
      <3>5. p < next + 1 <=> k <= pulled + 1
        BY <1>t, <3>2, <3>3, <3>4
      <3> QED
        BY <3>5 DEF p
    <2>6. next + 1 \in 1..(Wheels + 1)
      BY <1>t, <2>1
    <2>7. Aligned'
      BY <1>r, <2>1, <2>5, <2>6 DEF Aligned, NotIn
    <2> QED
      BY <2>1, <2>4, <2>7
  <1>4. CASE FinishRun
    <2>1. EndRun("ok") /\ (run.mode = "file" => output' = partial) /\ Writing /\ next > Wheels
      BY <1>4 DEF FinishRun
    <2>2. run'.status = "ok" /\ run'.mode = run.mode
      BY <1>t, <2>1 DEF EndRun
    <2>3. Aligned' /\ StreamAnswers'
      BY <2>2 DEF Aligned, StreamAnswers, Writing
    <2>4. ASSUME run.mode = "file" PROVE Report!IsReport(output')
      <3>1. next = Wheels + 1
        BY <1>r, <1>t, <2>1 DEF Aligned
      <3>2. Stream = partial /\ partial \in Seq(Lines) /\ partial # NoFile
        BY <2>1, <2>4 DEF Stream, TypeInv, TypeOK, FileType, ScanAssumption
      <3>3. Len(partial) = Wheels /\ \A i \in 1..Wheels : Answers(partial[i], i)
        BY <1>r, <1>t, <2>1, <3>1, <3>2 DEF StreamAnswers
      <3> QED
        BY <2>1, <2>4, <3>2, <3>3 DEF Report!IsReport, Answers
    <2> QED
      BY <2>2, <2>3, <2>4
  <1>5. CASE PoolIsBroken \/ WriteError \/ Crash
    <2>1. \E status \in {"died", "failed", "crashed"} : EndRun(status)
      BY <1>5 DEF PoolIsBroken, WriteError, Crash
    <2>2. run.mode = "file" => output' = output
      BY <1>5 DEF PoolIsBroken, WriteError, Crash, SetStream, reportVars
    <2>3. run'.status # "writing" /\ run'.mode = run.mode
      BY <1>t, <2>1 DEF EndRun
    <2> QED
      BY <2>2, <2>3 DEF Aligned, StreamAnswers, Writing
  <1>6. CASE ReplaceWheel \/ CacheDamaged \/ \E w \in Workers : WorkerStep(w) \/ WorkerDies(w)
    <2>1. UNCHANGED <<reportVars, run, mainVars>>
      BY <1>6 DEF ReplaceWheel, CacheDamaged, WorkerStep, Take, HashWheel, HashRaises, Rehash,
         RehashRaises, CacheHit, CacheMiss, ScanForCache, ScanUncached, ScanAborts,
         ShortForCache, ShortUncached, CachePut, CachePutRaises, WorkerDies, WorkerFrame
    <2>2. Aligned'
      BY <1>r, <2>1, Zenon DEF Aligned, Writing, NotIn, mainVars
    <2>3. StreamAnswers'
      BY <1>r, <2>1 DEF StreamAnswers, Answers, Writing, Stream, reportVars, mainVars
    <2> QED
      BY <2>1, <2>2, <2>3 DEF reportVars
  <1> QED
    BY <1>1, <1>2, <1>3, <1>4, <1>5, <1>6 DEF Next, MainStep

\* With -o naming a file, and no entry cut short into other readable text, the
\* file only ever changes into a whole report: one record per wheel, in
\* discovery order, under the wheel's own name, whatever is killed or fails.
THEOREM OutputIsAtomic ==
  ASSUME Modes = {"file"}, "cut" \notin Faults
  PROVE  Spec => AtomicOutput
  <1> DEFINE Inv == run.mode = "file" /\ ReportInv
  <1>1. Init => Inv /\ Report!ReportInit
    BY DEF Init, ReportInv, NamesInv, CacheNames, KeptNames, WorkerNames, ResultNames, Aligned,
       StreamAnswers, Writing, Empty, Idle, Task, Report!ReportInit
  <1>2. TypeInv /\ Inv /\ [Next]_vars => Inv' /\ [Report!Publish]_output
    <2> SUFFICES ASSUME TypeInv, Inv, [Next]_vars
                 PROVE  Inv' /\ [Report!Publish]_output
      OBVIOUS
    <2>1. CASE Next
      <3>1. Aligned' /\ StreamAnswers' /\ run'.mode = "file"
            /\ (output' = output \/ Report!IsReport(output'))
        BY <2>1, NextReport, ScanAssumption
      <3>2. NamesInv'
        BY <2>1, NextNames, ScanAssumption DEF ReportInv
      <3> QED
        BY <3>1, <3>2 DEF ReportInv, Report!Publish
    <2>2. CASE UNCHANGED vars
      <3>1. UNCHANGED <<cache, run, output, partial, existing, pending, pulled, next, results, worker>>
        BY <2>2 DEF vars, reportVars, mainVars, poolVars
      <3>2. NamesInv'
        BY <3>1 DEF ReportInv, NamesInv, CacheNames, KeptNames, WorkerNames, ResultNames, Answers, Name, Path
      <3>3. Aligned'
        BY <3>1, Zenon DEF ReportInv, Aligned, Writing, NotIn
      <3>4. StreamAnswers'
        BY <3>1 DEF ReportInv, StreamAnswers, Answers, Writing, Stream
      <3> QED
        BY <3>1, <3>2, <3>3, <3>4 DEF ReportInv
    <2> QED
      BY <2>1, <2>2
  <1> HIDE DEF Inv
  <1> QED
    BY <1>1, <1>2, TypeInvariance, PTL DEF Spec, AtomicOutput, Report!ReportSpec

----------------------------------------------------------------------------
(***************************************************************************)
(* Whose answers a finished report has: failures are those of the run      *)
(* itself, and everything else is what a scan from scratch would have      *)
(* written, or what --resume kept.                                         *)
(***************************************************************************)
----------------------------------------------------------------------------
(* Births.                                                                 *)

\* A line the run at hand may write: a finished scan, which carries no run, a
\* failure of its own, or a record short of evidence, whosever it is.
Own(line) ==
  /\ line.kind = "full" => line.born = 0
  /\ line.kind = "aborted" => line.born = run.number

Finished(line) == (line.kind = "full" /\ line.born = 0) \/ line.kind = "short"

\* Nothing that outlives a run remembers a failure under an aborted kind, and what
\* a file remembers of one is told by its kind.
CacheBirths ==
  \A key \in DOMAIN cache :
    cache[key].kind # "aborted" /\ (cache[key].kind = "full" => cache[key].born = 0)
KeptBirths == \A name \in DOMAIN existing : Finished(existing[name])
WorkerBirths == \A w \in Workers : worker[w].pc = "put" => Finished(worker[w].line)
ResultBirths == \A k \in DOMAIN results : Own(results[k])
Lasting(lines) == lines # NoFile => \A i \in DOMAIN lines : lines[i].kind = "full" => lines[i].born = 0
FileBirths == Lasting(output) /\ Lasting(partial)
StreamBirths ==
  Writing => \A i \in DOMAIN Stream : Stream[i].kind = "aborted" => Stream[i].born = run.number

PoolBirths == CacheBirths /\ KeptBirths /\ WorkerBirths /\ ResultBirths
BirthInv == PoolBirths /\ FileBirths /\ StreamBirths /\ FailuresAreFresh

\* Scans make lines of their own.
LEMMA ScanBirths ==
  ASSUME NEW w \in Workers, NEW digest
  PROVE  /\ Own(Aborted(w, digest)) /\ Own(Scanned(w)) /\ Own(Short(w)) /\ Finished(Short(w))
         /\ content[Path(w)] \notin Broken => Finished(Scanned(w))
  BY DEF Own, Finished, Aborted, Scanned, Short, Line

\* A worker at w goes to t, and what it has delivered, if anything, is its own.
LEMMA WorkerBirth ==
  ASSUME TypeInv, PoolBirths, NEW w \in Workers, WorkerFrame, NEW t,
         worker' = [worker EXCEPT ![w] = t], t.pc = "put" => Finished(t.line),
         CacheBirths', \A k \in DOMAIN results' : Own(results'[k])
  PROVE  PoolBirths'
  <1>1. run' = run /\ existing' = existing
    BY DEF WorkerFrame, mainVars
  <1>2. worker \in [Workers -> Tasks(taken) \cup {Idle}]
    BY DEF TypeInv, TypeOK, PoolType
  <1>3. KeptBirths' /\ ResultBirths'
    BY <1>1 DEF PoolBirths, KeptBirths, ResultBirths, Own, Finished
  <1>4. WorkerBirths'
    <2> SUFFICES ASSUME NEW v \in Workers, worker'[v].pc = "put"
                 PROVE  Finished(worker'[v].line)
      BY DEF WorkerBirths, Finished
    <2>1. CASE v = w
      BY <1>2, <2>1
    <2>2. CASE v # w
      <3>1. worker'[v] = worker[v]
        BY <1>2, <2>2
      <3> QED
        BY <3>1 DEF PoolBirths, WorkerBirths
    <2> QED
      BY <2>1, <2>2
  <1> QED
    BY <1>3, <1>4 DEF PoolBirths

\* Every step of a worker.
LEMMA WorkerStepBirths ==
  ASSUME TypeInv, PoolBirths, NEW w \in Workers, WorkerStep(w)
  PROVE  PoolBirths'
  <1>f. WorkerFrame
    BY DEF WorkerStep, Take, HashWheel, HashRaises, Rehash, RehashRaises, CacheHit, CacheMiss,
       ScanForCache, ScanUncached, ScanAborts,
       ShortForCache, ShortUncached, CachePut, CachePutRaises
  <1>b. CacheBirths /\ WorkerBirths /\ \A k \in DOMAIN results : Own(results[k])
    BY DEF PoolBirths, ResultBirths
  <1>c. cache' = cache => CacheBirths'
    BY <1>b DEF CacheBirths
  <1>g. ASSUME NEW pc, NEW digest, NEW line, Goto(w, pc, digest, line), UNCHANGED <<cache, results>>,
               pc = "put" => Finished(line)
        PROVE  PoolBirths'
    <2> DEFINE t == Task(pc, worker[w].index, digest, line)
    <2>1. t.pc = pc /\ t.line = line
      BY DEF Task
    <2>2. worker' = [worker EXCEPT ![w] = t]
      BY <1>g DEF Goto
    <2> HIDE DEF t
    <2> QED
      BY <1>b, <1>c, <1>f, <1>g, <2>1, <2>2, WorkerBirth
  <1>d. ASSUME NEW line, Deliver(w, line), Own(line), CacheBirths'
        PROVE  PoolBirths'
    <2>1. worker' = [worker EXCEPT ![w] = Idle] /\ Idle.pc = "idle"
      BY <1>d DEF Deliver, Idle, Task
    <2>2. \A k \in DOMAIN results' : Own(results'[k])
      BY <1>b, <1>d DEF Deliver
    <2> QED
      BY <1>d, <1>f, <2>1, <2>2, WorkerBirth
  <1>1. CASE Take(w)
    <2> DEFINE t == Task("hash", taken + 1, "none", NoLine)
    <2>1. t.pc = "hash"
      BY DEF Task
    <2>2. worker' = [worker EXCEPT ![w] = t] /\ UNCHANGED <<cache, results>>
      BY <1>1 DEF Take
    <2> HIDE DEF t
    <2> QED
      BY <1>b, <1>c, <1>f, <2>1, <2>2, WorkerBirth
  <1>2. CASE HashWheel(w) \/ HashRaises(w) \/ Rehash(w) \/ CacheMiss(w)
    BY <1>2, <1>g DEF HashWheel, HashRaises, Rehash, CacheMiss
  <1>3. CASE ScanForCache(w) \/ ShortForCache(w)
    BY <1>3, <1>g, ScanBirths DEF ScanForCache, ShortForCache
  <1>4. CASE RehashRaises(w) \/ ScanUncached(w) \/ ScanAborts(w) \/ ShortUncached(w)
    <2>1. PICK line : Deliver(w, line) /\ Own(line)
      BY <1>4, ScanBirths DEF RehashRaises, ScanUncached, ScanAborts, ShortUncached
    <2>2. cache' = cache
      BY <1>4 DEF RehashRaises, ScanUncached, ScanAborts, ShortUncached
    <2> QED
      BY <1>c, <1>d, <2>1, <2>2
  <1>5. CASE CacheHit(w)
    <2>1. Deliver(w, cache[CacheKey(w)]) /\ CacheKey(w) \in DOMAIN cache /\ cache' = cache
      BY <1>5 DEF CacheHit, Held
    <2>2. Own(cache[CacheKey(w)])
      BY <1>b, <2>1 DEF CacheBirths, Own
    <2> QED
      BY <1>c, <1>d, <2>1, <2>2
  <1>6. CASE CachePut(w) \/ CachePutRaises(w)
    <2>1. worker[w].pc = "put" /\ Deliver(w, worker[w].line)
          /\ (cache' = cache \/ Put(CacheKey(w), worker[w].line))
      BY <1>6 DEF CachePut, CachePutRaises, At
    <2> DEFINE line == worker[w].line
               key == CacheKey(w)
    <2>2. Finished(line)
      BY <1>b, <2>1 DEF WorkerBirths
    <2>3. cache' = cache \/ cache' = [k \in DOMAIN cache \cup {key} |-> IF k = key THEN line ELSE cache[k]]
      BY <2>1 DEF Put
    <2>4. Deliver(w, line)
      BY <2>1
    <2> HIDE DEF line, key
    <2>5. CacheBirths'
      BY <1>b, <1>c, <2>2, <2>3 DEF CacheBirths, Finished
    <2>6. Own(line)
      BY <2>2 DEF Own, Finished
    <2> QED
      BY <1>d, <2>4, <2>5, <2>6
  <1> QED
    BY <1>1, <1>2, <1>3, <1>4, <1>5, <1>6 DEF WorkerStep

\* A line of the run's own at the end of the stream.
LEMMA EmitBirths ==
  ASSUME TypeInv, BirthInv, Writing, NEW line \in Lines, Own(line), Emit(line), run' = run
  PROVE  FileBirths' /\ StreamBirths' /\ FailuresAreFresh'
  <1>1. Stream \in Seq(Lines) /\ FileBirths /\ StreamBirths
    BY StreamType DEF TypeInv, BirthInv
  <1> DEFINE longer == Append(Stream, line)
  <1>2. \A i \in DOMAIN longer : longer[i] = line \/ (i \in DOMAIN Stream /\ longer[i] = Stream[i])
    BY <1>1
  <1>3. SetStream(longer)
    BY DEF Emit
  <1> HIDE DEF longer
  <1>4. Lasting(Stream) /\ Stream # NoFile
    <2>1. Stream # NoFile
      BY <1>1, ScanAssumption
    <2>2. Lasting(Stream)
      BY <1>1 DEF FileBirths, Stream
    <2> QED
      BY <2>1, <2>2
  <1>5. \A i \in DOMAIN longer : /\ longer[i].kind = "full" => longer[i].born = 0
                                 /\ longer[i].kind = "aborted" => longer[i].born = run.number
    BY <1>1, <1>2, <1>4 DEF Lasting, StreamBirths, Own
  <1>6. FileBirths'
    BY <1>1, <1>3, <1>5 DEF FileBirths, Lasting, SetStream
  <1>7. Stream' = longer
    BY <1>3 DEF Stream, SetStream
  <1>8. StreamBirths' /\ ~Done'
    BY <1>5, <1>7 DEF StreamBirths, Writing, Done
  <1> QED
    BY <1>6, <1>8 DEF FailuresAreFresh

\* A run that is over leaves what it wrote, or less, or nothing of it.
LEMMA EndBirths ==
  ASSUME TypeInv, BirthInv, NEW status, EndRun(status), cache' = cache
  PROVE  PoolBirths' /\ (run'.status = status) /\ (status # "writing" => StreamBirths')
  <1>1. cache' = cache /\ existing' = existing /\ DOMAIN results' = {}
        /\ worker' = [w \in Workers |-> Idle] /\ run' = [run EXCEPT !.status = status]
    BY DEF EndRun, Empty
  <1>2. PoolBirths'
    BY <1>1 DEF BirthInv, PoolBirths, CacheBirths, KeptBirths, WorkerBirths, ResultBirths, Finished,
       Idle, Task
  <1>3. run'.status = status
    BY <1>1 DEF TypeInv, TypeOK, RunType
  <1> QED
    BY <1>2, <1>3 DEF StreamBirths, Writing

\* A prefix of a file remembers no more than the file.
LEMMA PrefixBirths ==
  ASSUME NEW lines \in Seq(Lines), Lasting(lines), NoFile \notin Seq(Lines),
         NEW left \in Prefixes(lines)
  PROVE  Lasting(left)
  <1>0. \A i \in DOMAIN lines : lines[i].kind = "full" => lines[i].born = 0
    BY DEF Lasting
  <1>1. ASSUME NEW k \in 0..Len(lines), left = SubSeq(lines, 1, k)
        PROVE  Lasting(left)
    <2>1. \A i \in DOMAIN left : i \in DOMAIN lines /\ left[i] = lines[i]
      BY <1>1
    <2> QED
      BY <1>0, <2>1 DEF Lasting
  <1>2. ASSUME NEW k \in 1..Len(lines),
               left = Append(SubSeq(lines, 1, k - 1), [lines[k] EXCEPT !.kind = "cut"])
        PROVE  Lasting(left)
    <2> DEFINE last == [lines[k] EXCEPT !.kind = "cut"]
    <2>1. last.kind = "cut"
      <3>1. lines[k] \in Lines
        OBVIOUS
      <3> DEFINE l == lines[k]
      <3>2. l \in Lines
        BY <3>1
      <3> HIDE DEF l
      <3>3. [l EXCEPT !.kind = "cut"].kind = "cut"
        BY <3>2 DEF Lines
      <3> QED
        BY <3>3 DEF l
    <2> HIDE DEF last
    <2>2. left = Append(SubSeq(lines, 1, k - 1), last)
      BY <1>2 DEF last
    <2>3. \A i \in DOMAIN left : left[i] = last \/ (i \in DOMAIN lines /\ left[i] = lines[i])
      BY <2>2
    <2> QED
      BY <1>0, <2>1, <2>3 DEF Lasting
  <1> QED
    BY <1>1, <1>2 DEF Prefixes

\* Every step keeps births.
LEMMA NextBirths ==
  ASSUME TypeInv, BirthInv, Next
  PROVE  BirthInv'
  <1>t. /\ output \in FileContents /\ partial \in FileContents
        /\ Writing => Stream \in Seq(Lines)
        /\ NoFile \notin Seq(Lines)
    BY ScanAssumption DEF TypeInv, TypeOK, FileType
  <1>b. PoolBirths /\ FileBirths /\ StreamBirths /\ FailuresAreFresh
    BY DEF BirthInv
  <1>1. ASSUME NEW salt \in Salts, NEW resume \in BOOLEAN, NEW mode \in Modes,
               StartRun(salt, resume, mode)
        PROVE  BirthInv'
    <2>1. /\ ~Writing /\ cache' = cache /\ results' = results /\ worker' = worker
          /\ run'.status = "writing"
          /\ existing' \in ExistingRecords(output) \/ existing' = Empty
      BY <1>1 DEF StartRun, poolVars
    <2>2. DOMAIN results = {} /\ worker = [w \in Workers |-> Idle]
      BY <2>1 DEF TypeInv, IdleBetweenRuns
    <2>3. CacheBirths' /\ ResultBirths' /\ WorkerBirths'
      BY <1>b, <2>1, <2>2 DEF PoolBirths, CacheBirths, ResultBirths, WorkerBirths, Idle, Task
    <2>4. KeptBirths'
      <3>1. CASE existing' = Empty
        BY <3>1 DEF KeptBirths, Empty
      <3>2. CASE existing' \in ExistingRecords(output)
        <4> DEFINE good == IF output = NoFile THEN {}
                           ELSE {i \in DOMAIN output : output[i].kind \in {"full", "short"}}
        <4>1. \A name \in DOMAIN existing' : \E i \in good : output[i] = existing'[name]
          BY <3>2 DEF ExistingRecords, LastOfEach
        <4>2. \A i \in good : Finished(output[i])
          BY <1>b DEF FileBirths, Lasting, Finished
        <4> HIDE DEF good
        <4> QED
          BY <4>1, <4>2 DEF KeptBirths, Finished
      <3> QED
        BY <2>1, <3>1, <3>2
    <2> DEFINE none == <<>>
    <2>5. none \in Seq(Lines) /\ DOMAIN none = {}
      OBVIOUS
    <2>6. \/ mode = "file" /\ partial' = none /\ output' = output
          \/ mode # "file" /\ output' = none /\ partial' = partial
      BY <1>1 DEF StartRun
    <2>7. run'.mode = mode
      BY <1>1 DEF StartRun
    <2> HIDE DEF none
    <2>8. FileBirths'
      BY <1>b, <2>5, <2>6 DEF FileBirths, Lasting
    <2>9. Stream' = none
      BY <2>6, <2>7 DEF Stream
    <2>10. StreamBirths' /\ FailuresAreFresh'
      BY <2>1, <2>5, <2>9 DEF StreamBirths, FailuresAreFresh, Done
    <2> QED
      BY <2>3, <2>4, <2>8, <2>10 DEF BirthInv, PoolBirths
  <1>2. CASE EmitKept \/ EmitScanned
    <2>1. /\ Writing /\ run' = run /\ UNCHANGED <<cache, existing, poolVars>>
          /\ \/ Emit(existing[NameOf[next]]) /\ NameOf[next] \in DOMAIN existing
             \/ Emit(results[pulled + 1]) /\ pulled + 1 \in DOMAIN results
      BY <1>2 DEF EmitKept, EmitScanned, MainWaits
    <2>2. PICK line \in Lines : Emit(line) /\ Own(line)
      BY <1>b, <2>1 DEF PoolBirths, KeptBirths, ResultBirths, Own, Finished, TypeInv, TypeOK, MainType,
         PoolType
    <2>3. PoolBirths'
      BY <1>b, <2>1 DEF PoolBirths, CacheBirths, KeptBirths, WorkerBirths, ResultBirths, Own, Finished,
         poolVars
    <2> QED
      BY <2>1, <2>2, <2>3, EmitBirths DEF BirthInv
  <1>3. CASE FinishRun
    <2>1. /\ EndRun("ok") /\ cache' = cache /\ Writing
          /\ IF run.mode = "file" THEN output' = partial /\ partial' = NoFile
             ELSE output' = output /\ partial' = partial
      BY <1>3 DEF FinishRun, reportVars
    <2>2. PoolBirths' /\ StreamBirths'
      BY <2>1, EndBirths
    <2>3. FileBirths' /\ output' = Stream
      BY <1>b, <2>1 DEF FileBirths, Lasting, Stream
    <2>4. run'.number = run.number
      BY <2>1 DEF EndRun, TypeInv, TypeOK, RunType
    <2>5. FailuresAreFresh'
      BY <1>b, <2>1, <2>3, <2>4 DEF FailuresAreFresh, StreamBirths
    <2> QED
      BY <2>2, <2>3, <2>5 DEF BirthInv
  <1>4. CASE PoolIsBroken \/ WriteError \/ Crash
    <2>1. PICK status \in {"died", "failed", "crashed"} : EndRun(status)
      BY <1>4 DEF PoolIsBroken, WriteError, Crash
    <2>2. cache' = cache /\ Writing
      BY <1>4 DEF PoolIsBroken, WriteError, Crash, MainWaits
    <2>3. PoolBirths' /\ StreamBirths' /\ run'.status = status
      BY <2>1, <2>2, EndBirths
    <2>4. FailuresAreFresh'
      BY <2>3 DEF FailuresAreFresh, Done
    <2>5. FileBirths'
      <3>1. CASE PoolIsBroken
        BY <1>b, <3>1 DEF PoolIsBroken, reportVars, FileBirths, Lasting
      <3>2. CASE WriteError
        BY <1>b, <3>2 DEF WriteError, reportVars, FileBirths, Lasting
      <3>3. CASE Crash
        <4>1. PICK left \in Prefixes(Stream) : SetStream(left)
          BY <3>3 DEF Crash
        <4>2. Lasting(Stream)
          BY <1>b DEF FileBirths, Stream
        <4>3. Lasting(left)
          BY <1>t, <2>2, <4>2, PrefixBirths
        <4> QED
          BY <1>b, <4>1, <4>3 DEF SetStream, FileBirths, Lasting
      <3> QED
        BY <1>4, <3>1, <3>2, <3>3
    <2> QED
      BY <2>3, <2>4, <2>5 DEF BirthInv
  <1>5. ASSUME NEW w \in Workers, WorkerStep(w) \/ WorkerDies(w)
        PROVE  BirthInv'
    <2>1. Writing /\ UNCHANGED <<reportVars, run>>
      BY <1>5 DEF WorkerStep, Take, HashWheel, HashRaises, Rehash, RehashRaises, CacheHit, CacheMiss,
         ScanForCache, ScanUncached, ScanAborts,
         ShortForCache, ShortUncached, CachePut, CachePutRaises, WorkerDies, WorkerFrame, At
    <2>2. FileBirths' /\ StreamBirths' /\ FailuresAreFresh'
      BY <1>b, <2>1 DEF FileBirths, Lasting, StreamBirths, FailuresAreFresh, Writing, Stream, Done, reportVars
    <2>3. PoolBirths'
      <3>1. CASE WorkerStep(w)
        BY <1>b, <3>1, WorkerStepBirths
      <3>2. CASE WorkerDies(w)
        BY <1>b, <3>2 DEF WorkerDies, mainVars, PoolBirths, CacheBirths, KeptBirths, WorkerBirths,
           ResultBirths, Own, Finished, Idle, Task
      <3> QED
        BY <1>5, <3>1, <3>2
    <2> QED
      BY <2>2, <2>3 DEF BirthInv
  <1>6. CASE ReplaceWheel
    BY <1>6, <1>b DEF ReplaceWheel, reportVars, mainVars, poolVars, BirthInv, PoolBirths, CacheBirths,
       KeptBirths, WorkerBirths, ResultBirths, FileBirths, Lasting, StreamBirths, FailuresAreFresh,
       Writing, Stream, Done, Own, Finished
  <1>7. CASE CacheDamaged
    <2>1. UNCHANGED <<reportVars, run, mainVars, poolVars>>
      BY <1>7 DEF CacheDamaged
    <2>2. PICK kind \in {"undecodable", "cut"} : Damage(kind)
      BY <1>7 DEF CacheDamaged
    <2>3. PICK key \in DOMAIN cache : cache' = [cache EXCEPT ![key].kind = kind]
      BY <2>2 DEF Damage
    <2>4. cache[key] \in Lines
      BY DEF TypeInv, TypeOK, CacheType
    <2>5. /\ cache'[key].kind = kind /\ DOMAIN cache' = DOMAIN cache
          /\ \A k \in DOMAIN cache : k # key => cache'[k] = cache[k]
      BY <2>3, <2>4 DEF Lines
    <2>6. CacheBirths'
      BY <1>b, <2>5 DEF PoolBirths, CacheBirths
    <2>7. KeptBirths' /\ WorkerBirths' /\ ResultBirths'
      BY <1>b, <2>1 DEF mainVars, poolVars, PoolBirths, KeptBirths, WorkerBirths, ResultBirths, Own,
         Finished
    <2>8. FileBirths' /\ StreamBirths' /\ FailuresAreFresh'
      BY <1>b, <2>1 DEF FileBirths, Lasting, StreamBirths, FailuresAreFresh, Writing, Stream, Done, reportVars
    <2> QED
      BY <2>6, <2>7, <2>8 DEF BirthInv, PoolBirths
  <1> QED
    BY <1>1, <1>2, <1>3, <1>4, <1>5, <1>6, <1>7 DEF Next, MainStep

LEMMA BirthsHold == Spec => []BirthInv
  <1>1. Init => BirthInv
    BY DEF Init, BirthInv, PoolBirths, CacheBirths, KeptBirths, WorkerBirths, ResultBirths, FileBirths,
       Lasting, StreamBirths, FailuresAreFresh, Writing, Done, Empty, Idle, Task
  <1>2. TypeInv /\ BirthInv /\ [Next]_vars => BirthInv'
    <2>1. CASE Next
      BY <2>1, NextBirths
    <2>2. CASE UNCHANGED vars
      BY <2>2 DEF vars, reportVars, mainVars, poolVars, BirthInv, PoolBirths, CacheBirths,
         KeptBirths, WorkerBirths, ResultBirths, FileBirths, Lasting, StreamBirths, FailuresAreFresh,
         Writing, Stream, Done, Own, Finished
    <2> QED
      BY <2>1, <2>2
  <1> QED
    BY <1>1, <1>2, TypeInvariance, PTL DEF Spec

\* Whatever raises, is killed, damaged or replaced, a record under a kind of
\* SCAN_ABORTED_KINDS in a finished report is that run's own: neither the cache
\* nor --resume brings one back (cli.py:232, 272).  Of a failure recorded under
\* any other kind it says nothing.
THEOREM FailuresStayFresh == Spec => []FailuresAreFresh
  <1>1. BirthInv => FailuresAreFresh
    BY DEF BirthInv
  <1> QED
    BY <1>1, BirthsHold, PTL

----------------------------------------------------------------------------
(* Answers.                                                                *)

\* A line the report of this run may have for wheel i: the one it kept, or one
\* that is taken for a scan from scratch.
Answered(line, i) ==
  IF Kept(i) THEN line = existing[NameOf[i]] ELSE TakenFor(line) = FromScratch(i, run.salt)

\* Only contents that can be scanned are cached, a worker holds the content its
\* wheel has, and what it delivered is the answer.
CacheWhole == \A key \in DOMAIN cache : cache[key].kind # "undecodable" => key[1] \notin Broken
WorkersTrue ==
  \A w \in Workers :
    /\ worker[w].pc = "collect uncached" => worker[w].digest = content[Path(w)]
    /\ worker[w].pc = "put" => worker[w].digest = content[Path(w)] /\ content[Path(w)] \notin Broken
ResultsTrue == \A k \in DOMAIN results : TakenFor(results[k]) = FromScratch(pending[k], run.salt)
StreamTrue == Writing => \A i \in 1..(next - 1) : Answered(Stream[i], i)

AnswerInv == CacheWhole /\ WorkersTrue /\ (clean => ResultsTrue /\ StreamTrue) /\ NoStaleAnswer

\* What a worker that holds the content of its wheel delivers is the answer.
LEMMA ScanIsAnswer ==
  ASSUME NEW w \in Workers, worker[w].digest = content[Path(w)]
  PROVE  TakenFor(Scanned(w)) = FromScratch(Path(w), run.salt)
  <1> DEFINE body == content[Path(w)]
  <1>1. CASE body \in Broken
    <2>1. Scanned(w) = Line(Name(w), body, "none", run.salt, "aborted", run.number)
      BY <1>1 DEF Scanned, Aborted
    <2>2. FromScratch(Path(w), run.salt) = Line(Name(w), body, "none", run.salt, "aborted", 0)
      BY <1>1 DEF FromScratch, Name
    <2> HIDE DEF body
    <2> QED
      BY <2>1, <2>2 DEF TakenFor, Line
  <1>2. CASE body \notin Broken
    <2>1. Scanned(w) = Line(Name(w), body, body, run.salt, "full", 0)
      BY <1>2 DEF Scanned
    <2>2. FromScratch(Path(w), run.salt) = Line(Name(w), body, body, run.salt, "full", 0)
      BY <1>2 DEF FromScratch, Name
    <2> HIDE DEF body
    <2> QED
      BY <2>1, <2>2 DEF TakenFor, Line
  <1> QED
    BY <1>1, <1>2

\* So is what it finds in the cache.
LEMMA HitIsAnswer ==
  ASSUME CacheIsTrue, CacheBirths, CacheWhole, WorkersHold, NEW w \in Workers, CacheHit(w)
  PROVE  TakenFor(cache[CacheKey(w)]) = FromScratch(Path(w), run.salt)
  <1> DEFINE line == cache[CacheKey(w)]
             body == content[Path(w)]
             key == CacheKey(w)
  <1>1. key \in DOMAIN cache /\ line = cache[key] /\ line.kind # "undecodable" /\ worker[w].digest = body
    BY DEF CacheHit, Held, At, WorkersHold
  <1>2. key = <<body, Name(w), run.salt>>
    BY <1>1 DEF CacheKey
  <1>3. FromScratch(Path(w), run.salt) =
          IF body \in Broken THEN Line(Name(w), body, "none", run.salt, "aborted", 0)
          ELSE Line(Name(w), body, body, run.salt, "full", 0)
    BY DEF FromScratch, Name
  <1> HIDE DEF line, body, key
  <1>4. /\ line.kind \in {"full", "short"} /\ line.body = line.digest
        /\ <<line.digest, line.name, line.salt>> = key /\ key[1] \notin Broken
        /\ line.kind = "full" => line.born = 0
    BY <1>1 DEF CacheIsTrue, CacheBirths, CacheWhole
  <1>5. body \notin Broken /\ line.digest = body /\ line.name = Name(w) /\ line.salt = run.salt
    BY <1>2, <1>4
  <1>6. TakenFor(line) = Line(Name(w), body, body, run.salt, "full", 0)
    BY <1>4, <1>5 DEF TakenFor
  <1> QED
    BY <1>3, <1>5, <1>6 DEF line

\* A worker at w goes to t, and everything delivered stays the answer.
LEMMA WorkerAnswer ==
  ASSUME TypeInv, WorkersTrue, NEW w \in Workers, WorkerFrame, NEW t,
         worker' = [worker EXCEPT ![w] = t],
         t.pc = "collect uncached" => t.digest = content[pending[t.index]],
         t.pc = "put" => /\ t.digest = content[pending[t.index]]
                         /\ content[pending[t.index]] \notin Broken,
         CacheWhole',
         clean' => \A k \in DOMAIN results' : TakenFor(results'[k]) = FromScratch(pending[k], run.salt)
  PROVE  CacheWhole' /\ WorkersTrue' /\ (clean' => ResultsTrue')
  <1>1. content' = content /\ pending' = pending /\ run' = run
    BY DEF WorkerFrame, mainVars
  <1>2. worker \in [Workers -> Tasks(taken) \cup {Idle}]
    BY DEF TypeInv, TypeOK, PoolType
  <1>3. clean' => ResultsTrue'
    BY <1>1 DEF ResultsTrue, FromScratch, TakenFor
  <1>4. WorkersTrue'
    <2> SUFFICES ASSUME NEW v \in Workers
                 PROVE  /\ worker'[v].pc = "collect uncached" =>
                             worker'[v].digest = content[pending[worker'[v].index]]
                        /\ worker'[v].pc = "put" =>
                             /\ worker'[v].digest = content[pending[worker'[v].index]]
                             /\ content[pending[worker'[v].index]] \notin Broken
      BY <1>1 DEF WorkersTrue, Path
    <2>1. CASE v = w
      <3>1. worker'[v] = t
        BY <1>2, <2>1
      <3> QED
        BY <3>1
    <2>2. CASE v # w
      <3>1. worker'[v] = worker[v]
        BY <1>2, <2>2
      <3> QED
        BY <3>1 DEF WorkersTrue, Path
    <2> QED
      BY <2>1, <2>2
  <1> QED
    BY <1>3, <1>4

\* Every step of a worker: what it delivers is the answer, unless something
\* disturbed it.
LEMMA WorkerStepAnswers ==
  ASSUME TypeInv, CacheInv, CacheBirths, WorkerBirths, AnswerInv, NEW w \in Workers, WorkerStep(w)
  PROVE  CacheWhole' /\ WorkersTrue' /\ (clean' => ResultsTrue')
  <1>f. WorkerFrame
    BY DEF WorkerStep, Take, HashWheel, HashRaises, Rehash, RehashRaises, CacheHit, CacheMiss,
       ScanForCache, ScanUncached, ScanAborts,
       ShortForCache, ShortUncached, CachePut, CachePutRaises
  <1>b. /\ TypeInv /\ WorkersHold /\ CacheIsTrue /\ CacheWhole /\ WorkersTrue
        /\ clean => \A k \in DOMAIN results : TakenFor(results[k]) = FromScratch(pending[k], run.salt)
    BY DEF CacheInv, AnswerInv, ResultsTrue
  <1>c. cache' = cache => CacheWhole'
    BY <1>b DEF CacheWhole
  <1>g. ASSUME NEW pc, NEW digest, NEW line, Goto(w, pc, digest, line), UNCHANGED <<cache, results>>,
               clean' => clean,
               pc = "collect uncached" => digest = content[Path(w)],
               pc = "put" => digest = content[Path(w)] /\ content[Path(w)] \notin Broken
        PROVE  CacheWhole' /\ WorkersTrue' /\ (clean' => ResultsTrue')
    <2> DEFINE t == Task(pc, worker[w].index, digest, line)
    <2>1. t.pc = pc /\ t.index = worker[w].index /\ t.digest = digest
      BY DEF Task
    <2>2. worker' = [worker EXCEPT ![w] = t]
      BY <1>g DEF Goto
    <2> HIDE DEF t
    <2>3. /\ t.pc = "collect uncached" => t.digest = content[pending[t.index]]
          /\ t.pc = "put" => /\ t.digest = content[pending[t.index]]
                             /\ content[pending[t.index]] \notin Broken
      BY <1>g, <2>1 DEF Path
    <2> QED
      BY <1>b, <1>c, <1>f, <1>g, <2>2, <2>3, WorkerAnswer
  <1>d. ASSUME NEW line, Deliver(w, line), CacheWhole', clean' => clean,
               clean' => TakenFor(line) = FromScratch(Path(w), run.salt)
        PROVE  CacheWhole' /\ WorkersTrue' /\ (clean' => ResultsTrue')
    <2>1. worker' = [worker EXCEPT ![w] = Idle] /\ Idle.pc = "idle"
      BY <1>d DEF Deliver, Idle, Task
    <2>2. clean' => \A k \in DOMAIN results' : TakenFor(results'[k]) = FromScratch(pending[k], run.salt)
      BY <1>b, <1>d DEF Deliver, Path
    <2> QED
      BY <1>b, <1>d, <1>f, <2>1, <2>2, WorkerAnswer
  <1>1. CASE Take(w)
    <2> DEFINE t == Task("hash", taken + 1, "none", NoLine)
    <2>1. t.pc = "hash"
      BY DEF Task
    <2>2. worker' = [worker EXCEPT ![w] = t] /\ UNCHANGED <<cache, results, clean>>
      BY <1>1 DEF Take
    <2> HIDE DEF t
    <2> QED
      BY <1>b, <1>c, <1>f, <2>1, <2>2, WorkerAnswer
  <1>2. CASE HashWheel(w) \/ Rehash(w)
    <2>1. CASE HashWheel(w)
      BY <1>g, <2>1 DEF HashWheel
    <2>2. CASE Rehash(w)
      BY <1>g, <2>2 DEF Rehash
    <2> QED
      BY <1>2, <2>1, <2>2
  <1>3. CASE HashRaises(w) \/ CacheMiss(w)
    <2>1. CASE HashRaises(w)
      BY <1>g, <2>1 DEF HashRaises
    <2>2. CASE CacheMiss(w)
      BY <1>g, <2>2 DEF CacheMiss
    <2> QED
      BY <1>3, <2>1, <2>2
  <1>4. CASE ScanForCache(w)
    <2>1. worker[w].digest = content[Path(w)]
      BY <1>4, <1>b DEF ScanForCache, At, WorkersHold
    <2> QED
      BY <1>4, <1>g, <2>1 DEF ScanForCache
  <1>5. CASE RehashRaises(w) \/ ScanAborts(w) \/ ShortUncached(w)
    <2>1. (\E line : Deliver(w, line)) /\ cache' = cache /\ ~clean'
      BY <1>5 DEF RehashRaises, ScanAborts, ShortUncached
    <2> QED
      BY <1>c, <1>d, <2>1
  <1>6. CASE ScanUncached(w)
    <2>1. Deliver(w, Scanned(w)) /\ cache' = cache /\ clean' = clean
      BY <1>6 DEF ScanUncached
    <2>2. worker[w].digest = content[Path(w)]
      BY <1>6, <1>b DEF ScanUncached, At, WorkersHold, WorkersTrue
    <2> QED
      BY <1>c, <1>d, <2>1, <2>2, ScanIsAnswer
  <1>7. CASE CacheHit(w)
    <2>1. Deliver(w, cache[CacheKey(w)]) /\ cache' = cache /\ clean' = clean
      BY <1>7 DEF CacheHit
    <2>2. TakenFor(cache[CacheKey(w)]) = FromScratch(Path(w), run.salt)
      BY <1>7, <1>b, HitIsAnswer
    <2> QED
      BY <1>c, <1>d, <2>1, <2>2
  <1>8. CASE CachePut(w) \/ CachePutRaises(w)
    <2>1. worker[w].pc = "put" /\ Deliver(w, worker[w].line) /\ clean' = clean
          /\ (cache' = cache \/ Put(CacheKey(w), worker[w].line))
      BY <1>8 DEF CachePut, CachePutRaises, At
    <2> DEFINE body == content[Path(w)]
               line == worker[w].line
               key == CacheKey(w)
    <2>2. worker[w].digest = body /\ body \notin Broken
      BY <1>b, <2>1 DEF WorkersTrue
    <2>3. ScanOf(line, Name(w), body, run.salt) /\ (line.kind = "full" => line.born = 0) /\ key[1] = body
      BY <1>b, <2>1, <2>2 DEF WorkersHold, WorkerBirths, Finished, CacheKey
    <2>4. FromScratch(Path(w), run.salt) = Line(Name(w), body, body, run.salt, "full", 0)
      BY <2>2 DEF FromScratch, Name
    <2>5. cache' = cache \/ cache' = [k \in DOMAIN cache \cup {key} |-> IF k = key THEN line ELSE cache[k]]
      BY <2>1 DEF Put
    <2>6. Deliver(w, line)
      BY <2>1
    <2> HIDE DEF body, line, key
    <2>7. CacheWhole'
      BY <1>b, <1>c, <2>2, <2>3, <2>5 DEF CacheWhole
    <2>8. TakenFor(line) = FromScratch(Path(w), run.salt)
      BY <2>3, <2>4 DEF ScanOf, TakenFor
    <2> QED
      BY <1>d, <2>1, <2>6, <2>7, <2>8
  <1>9. CASE ShortForCache(w)
    <2>1. worker[w].digest = content[Path(w)]
      BY <1>9, <1>b DEF ShortForCache, At, WorkersHold
    <2> QED
      BY <1>9, <1>g, <2>1 DEF ShortForCache
  <1> QED
    BY <1>1, <1>2, <1>3, <1>4, <1>5, <1>6, <1>7, <1>8, <1>9 DEF WorkerStep

\* The line main writes is the answer for the wheel it is at.
LEMMA EmitAnswers ==
  ASSUME ScanAssumption, TypeInv, StreamAnswers, StreamTrue, Writing, next \in 1..Wheels,
         NEW line \in Lines, Answered(line, next), Emit(line), UNCHANGED <<run, existing, content>>
  PROVE  StreamTrue'
  <1>1. Stream \in Seq(Lines) /\ Len(Stream) = next - 1 /\ next \in Nat /\ next >= 1
    BY DEF StreamAnswers, TypeInv, TypeOK, FileType
  <1> DEFINE longer == Append(Stream, line)
  <1>2. /\ \A i \in 1..(next - 1) : longer[i] = Stream[i]
        /\ longer[next] = line
    BY <1>1
  <1>3. SetStream(longer) /\ next' = next + 1
    BY DEF Emit
  <1> HIDE DEF longer
  <1>4. Stream' = longer
    BY <1>3 DEF Stream, SetStream
  <1>5. \A i \in 1..next : Answered(longer[i], i)
    <2> TAKE i \in 1..next
    <2>1. CASE i = next
      BY <1>2, <2>1
    <2>2. CASE i # next
      <3>1. i \in 1..(next - 1) /\ longer[i] = Stream[i]
        BY <1>1, <1>2, <2>2
      <3> QED
        BY <3>1 DEF StreamTrue
    <2> QED
      BY <2>1, <2>2
  <1>6. next' - 1 = next
    BY <1>1, <1>3
  <1> QED
    BY <1>4, <1>5, <1>6 DEF StreamTrue, Answered, Kept, FromScratch, TakenFor

\* Whatever leaves the report, the run and what main knows alone leaves the
\* answers alone.
LEMMA ReportStays ==
  ASSUME NoStaleAnswer, clean => StreamTrue, clean' => clean,
         UNCHANGED <<content, reportVars, run, mainVars>>
  PROVE  NoStaleAnswer' /\ (clean' => StreamTrue')
  <1>1. clean' => StreamTrue'
    BY DEF StreamTrue, Writing, Stream, Answered, Kept, FromScratch, TakenFor, reportVars, mainVars
  <1>2. NoStaleAnswer'
    BY DEF NoStaleAnswer, Done, Kept, FromScratch, TakenFor, reportVars, mainVars
  <1> QED
    BY <1>1, <1>2

\* A run that starts or stops short: nothing is delivered, nothing is held.
LEMMA IdleAnswers ==
  ASSUME AnswerInv, UNCHANGED cache, worker' = [w \in Workers |-> Idle], DOMAIN results' = {},
         run'.status # "ok", run'.status = "writing" => next' = 1
  PROVE  AnswerInv'
  <1>1. CacheWhole' /\ WorkersTrue' /\ ResultsTrue'
    BY DEF AnswerInv, CacheWhole, WorkersTrue, ResultsTrue, Idle, Task
  <1>2. NoStaleAnswer'
    BY DEF NoStaleAnswer, Done
  <1>3. StreamTrue'
    <2>1. Writing' => next' = 1
      BY DEF Writing
    <2>2. next' = 1 => 1..(next' - 1) = {}
      OBVIOUS
    <2> QED
      BY <2>1, <2>2 DEF StreamTrue
  <1> QED
    BY <1>1, <1>2, <1>3 DEF AnswerInv

\* A finished run has written the answers.
LEMMA FinishAnswers ==
  ASSUME ScanAssumption, TypeInv, Aligned, StreamAnswers, AnswerInv, FinishRun
  PROVE  AnswerInv'
  <1>1. /\ EndRun("ok") /\ output' = Stream /\ Writing /\ next > Wheels /\ clean' = clean
        /\ cache' = cache
    BY DEF FinishRun, Stream, reportVars
  <1>2. /\ worker' = [w \in Workers |-> Idle] /\ DOMAIN results' = {}
        /\ UNCHANGED <<content, existing>> /\ run' = [run EXCEPT !.status = "ok"]
    BY <1>1 DEF EndRun, Empty
  <1>3. run'.status = "ok" /\ run'.salt = run.salt
    BY <1>2 DEF TypeInv, TypeOK, RunType
  <1>4. next = Wheels + 1 /\ Wheels \in Nat
    BY <1>1 DEF Aligned, ScanAssumption
  <1>5. clean => \A i \in 1..Wheels : Answered(Stream[i], i)
    BY <1>1, <1>4 DEF AnswerInv, StreamTrue
  <1>6. NoStaleAnswer'
    BY <1>1, <1>2, <1>3, <1>5 DEF NoStaleAnswer, Answered, Kept, FromScratch, TakenFor
  <1>7. CacheWhole' /\ WorkersTrue' /\ ResultsTrue' /\ StreamTrue'
    BY <1>1, <1>2, <1>3 DEF AnswerInv, CacheWhole, WorkersTrue, ResultsTrue, StreamTrue, Writing, Idle, Task
  <1> QED
    BY <1>6, <1>7 DEF AnswerInv

\* Every step, wheels replaced under a run and entries cut short but readable
\* excepted.
LEMMA NextAnswers ==
  ASSUME ScanAssumption, "replaced" \notin Faults, "cut" \notin Faults,
         CacheInv, BirthInv, ReportInv, AnswerInv, Next
  PROVE  AnswerInv'
  <1>b. /\ TypeInv /\ CacheBirths /\ WorkerBirths /\ NamesInv /\ Aligned /\ StreamAnswers
        /\ CacheWhole /\ WorkersTrue /\ NoStaleAnswer /\ (clean => ResultsTrue /\ StreamTrue)
    BY DEF CacheInv, BirthInv, PoolBirths, ReportInv, AnswerInv
  <1>t. /\ Wheels \in Nat /\ next \in Int
        /\ run \in [number : 0..MaxRuns, salt : Salts, resume : BOOLEAN, mode : {"file", "redirect"},
                    status : {"none", "writing", "ok", "failed", "died", "crashed"}]
    BY <1>b DEF TypeInv, TypeOK, MainType, RunType, ScanAssumption
  <1>1. ASSUME NEW salt \in Salts, NEW resume \in BOOLEAN, NEW mode \in Modes,
               StartRun(salt, resume, mode)
        PROVE  AnswerInv'
    <2>1. /\ ~Writing /\ cache' = cache /\ results' = results /\ worker' = worker
          /\ run'.status = "writing" /\ next' = 1
      BY <1>1 DEF StartRun, poolVars
    <2>2. DOMAIN results = {} /\ worker = [w \in Workers |-> Idle]
      BY <1>b, <2>1 DEF TypeInv, IdleBetweenRuns
    <2> QED
      BY <2>1, <2>2, IdleAnswers
  <1>2. CASE EmitKept \/ EmitScanned
    <2>1. /\ Writing /\ next \in 1..Wheels
          /\ UNCHANGED <<content, cache, run, existing, pending, poolVars, clean>>
      BY <1>2, <1>b, <1>t DEF EmitKept, EmitScanned, MainWaits, Aligned
    <2>2. PICK line \in Lines : Emit(line) /\ (clean => Answered(line, next))
      <3>1. CASE EmitKept
        <4> DEFINE line == existing[NameOf[next]]
        <4>1. Emit(line) /\ Kept(next) /\ line \in Lines
          BY <1>b, <3>1 DEF EmitKept, Kept, TypeInv, TypeOK, MainType
        <4>2. Answered(line, next)
          BY <4>1 DEF Answered
        <4> HIDE DEF line
        <4> QED
          BY <4>1, <4>2
      <3>2. CASE EmitScanned
        <4>1. /\ Emit(results[pulled + 1]) /\ MainWaits /\ pulled + 1 \in DOMAIN results
              /\ results[pulled + 1] \in Lines /\ ~Kept(next)
          BY <1>b, <3>2 DEF EmitScanned, MainWaits, Kept, TypeInv, TypeOK, PoolType
        <4>2. pending[pulled + 1] = next
          BY <1>b, <4>1, NextPending
        <4>3. clean => TakenFor(results[pulled + 1]) = FromScratch(next, run.salt)
          BY <1>b, <4>1, <4>2 DEF ResultsTrue
        <4>4. clean => Answered(results[pulled + 1], next)
          BY <4>1, <4>3 DEF Answered
        <4> QED
          BY <4>1, <4>4
      <3> QED
        BY <1>2, <3>1, <3>2
    <2>3. clean => StreamTrue'
      BY <1>b, <2>1, <2>2, EmitAnswers
    <2>4. CacheWhole' /\ WorkersTrue' /\ (clean => ResultsTrue')
      BY <1>b, <2>1 DEF CacheWhole, WorkersTrue, ResultsTrue, TakenFor, FromScratch, Path, poolVars
    <2>5. NoStaleAnswer'
      BY <2>1 DEF NoStaleAnswer, Done, Writing
    <2> QED
      BY <2>1, <2>3, <2>4, <2>5 DEF AnswerInv
  <1>3. CASE FinishRun
    BY <1>3, <1>b, FinishAnswers
  <1>4. CASE PoolIsBroken \/ WriteError \/ Crash
    <2>1. PICK status \in {"died", "failed", "crashed"} : EndRun(status)
      BY <1>4 DEF PoolIsBroken, WriteError, Crash
    <2>2. cache' = cache
      BY <1>4 DEF PoolIsBroken, WriteError, Crash
    <2>3. /\ worker' = [w \in Workers |-> Idle] /\ DOMAIN results' = {} /\ run'.status = status
      BY <1>t, <2>1 DEF EndRun, Empty
    <2> QED
      BY <2>2, <2>3, IdleAnswers
  <1>5. ASSUME NEW w \in Workers, WorkerStep(w)
        PROVE  AnswerInv'
    <2>1. UNCHANGED <<content, reportVars, run, mainVars>>
      BY <1>5 DEF WorkerStep, Take, HashWheel, HashRaises, Rehash, RehashRaises, CacheHit, CacheMiss,
         ScanForCache, ScanUncached, ScanAborts,
         ShortForCache, ShortUncached, CachePut, CachePutRaises, WorkerFrame
    <2>4. UNCHANGED clean \/ clean' = FALSE
      BY <1>5 DEF WorkerStep, Take, HashWheel, HashRaises, Rehash, RehashRaises, CacheHit, CacheMiss,
         ScanForCache, ScanUncached, ScanAborts,
         ShortForCache, ShortUncached, CachePut, CachePutRaises
    <2>5. clean' => clean
      BY <2>4
    <2>2. CacheWhole' /\ WorkersTrue' /\ (clean' => ResultsTrue')
      BY <1>5, <1>b, WorkerStepAnswers
    <2>3. NoStaleAnswer' /\ (clean' => StreamTrue')
      BY <1>b, <2>1, <2>5, ReportStays
    <2> QED
      BY <2>2, <2>3 DEF AnswerInv
  <1>6. ASSUME NEW w \in Workers, WorkerDies(w)
        PROVE  AnswerInv'
    BY <1>6, <1>b DEF WorkerDies, AnswerInv, CacheWhole, WorkersTrue, NoStaleAnswer, Idle, Task
  <1>7. CASE ReplaceWheel
    <2>1. ~Writing /\ ~clean' /\ cache' = cache /\ worker' = worker
      BY <1>7 DEF ReplaceWheel, Fault, poolVars
    <2>2. worker = [w \in Workers |-> Idle]
      BY <1>b, <2>1 DEF TypeInv, IdleBetweenRuns
    <2> QED
      BY <1>b, <2>1, <2>2 DEF AnswerInv, CacheWhole, WorkersTrue, NoStaleAnswer, Idle, Task
  <1>8. CASE CacheDamaged
    <2>1. UNCHANGED <<content, reportVars, run, mainVars, poolVars, clean>> /\ Damage("undecodable")
      BY <1>8 DEF CacheDamaged, Fault
    <2>2. PICK key \in DOMAIN cache : cache' = [cache EXCEPT ![key].kind = "undecodable"]
      BY <2>1 DEF Damage
    <2>3. cache[key] \in Lines
      BY <1>b DEF TypeInv, TypeOK, CacheType
    <2>4. /\ cache'[key].kind = "undecodable" /\ DOMAIN cache' = DOMAIN cache
          /\ \A k \in DOMAIN cache : k # key => cache'[k] = cache[k]
      BY <2>2, <2>3 DEF Lines
    <2>5. CacheWhole'
      BY <1>b, <2>4 DEF CacheWhole
    <2>6. WorkersTrue' /\ (clean' => ResultsTrue')
      BY <1>b, <2>1 DEF WorkersTrue, ResultsTrue, TakenFor, FromScratch, Path, poolVars, mainVars
    <2>7. NoStaleAnswer' /\ (clean' => StreamTrue')
      BY <1>b, <2>1, ReportStays
    <2> QED
      BY <2>5, <2>6, <2>7 DEF AnswerInv
  <1> QED
    BY <1>1, <1>2, <1>3, <1>4, <1>5, <1>6, <1>7, <1>8 DEF Next, MainStep

TrueInv == CacheIsTrue /\ WorkersHold /\ ReportInv /\ AnswerInv

LEMMA AnswersHold ==
  ASSUME "replaced" \notin Faults, "cut" \notin Faults
  PROVE  Spec => []TrueInv
  <1>1. Init => TrueInv
    <2>1. Init => CacheIsTrue /\ WorkersHold
      BY DEF Init, CacheIsTrue, WorkersHold, Empty, Idle, Task
    <2>2. Init => ReportInv
      BY DEF Init, ReportInv, NamesInv, CacheNames, KeptNames, WorkerNames, ResultNames, Aligned,
         StreamAnswers, Writing, Empty, Idle, Task
    <2>3. Init => AnswerInv
      <3> SUFFICES ASSUME Init PROVE AnswerInv
        OBVIOUS
      <3>1. CacheWhole /\ WorkersTrue /\ ResultsTrue
        BY DEF Init, CacheWhole, WorkersTrue, ResultsTrue, Empty, Idle, Task
      <3>2. StreamTrue /\ NoStaleAnswer
        <4>1. ~Writing /\ ~Done
          BY DEF Init, Writing, Done
        <4> QED
          BY <4>1 DEF StreamTrue, NoStaleAnswer
      <3> QED
        BY <3>1, <3>2 DEF AnswerInv
    <2> QED
      BY <2>1, <2>2, <2>3 DEF TrueInv
  <1>2. TypeInv /\ BirthInv /\ TrueInv /\ [Next]_vars => TrueInv'
    <2> SUFFICES ASSUME TypeInv, BirthInv, TrueInv, [Next]_vars
                 PROVE  TrueInv'
      OBVIOUS
    <2>1. CASE Next
      <3>1. CacheIsTrue' /\ WorkersHold'
        BY <2>1, NextCache, ScanAssumption DEF TrueInv, CacheInv
      <3>2. Aligned' /\ StreamAnswers'
        BY <2>1, NextReport, ScanAssumption DEF TrueInv
      <3>3. NamesInv'
        BY <2>1, NextNames, ScanAssumption DEF TrueInv, ReportInv
      <3>4. AnswerInv'
        BY <2>1, NextAnswers, ScanAssumption DEF TrueInv, CacheInv
      <3> QED
        BY <3>1, <3>2, <3>3, <3>4 DEF TrueInv, ReportInv
    <2>2. CASE UNCHANGED vars
      <3>1. CacheIsTrue' /\ WorkersHold' /\ ReportInv'
        BY <2>2 DEF vars, reportVars, mainVars, poolVars, TrueInv, CacheIsTrue, WorkersHold, ReportInv, NamesInv,
           CacheNames, KeptNames, WorkerNames, ResultNames, Aligned, StreamAnswers, Answers, Writing,
           Stream, NotIn, Name, Path
      <3>2. UNCHANGED <<content, cache, reportVars, run, mainVars, poolVars, clean>>
        BY <2>2 DEF vars
      <3>3. CacheWhole' /\ WorkersTrue' /\ (clean' => ResultsTrue')
        BY <3>2 DEF TrueInv, AnswerInv, CacheWhole, WorkersTrue, ResultsTrue, TakenFor, FromScratch, Path, poolVars,
           mainVars
      <3>4. NoStaleAnswer' /\ (clean' => StreamTrue')
        BY <3>2, ReportStays DEF TrueInv, AnswerInv
      <3> QED
        BY <3>1, <3>3, <3>4 DEF TrueInv, AnswerInv
    <2> QED
      BY <2>1, <2>2
  <1> QED
    BY <1>1, <1>2, TypeInvariance, BirthsHold, PTL DEF Spec

\* With no wheel replaced while it is scanned and no entry cut short into other
\* readable text, every line of a report that a run finished undisturbed is the
\* one --resume kept, unchanged, or what a scan from scratch would have written,
\* whatever crashed, raised or changed before - but for a record in the cache
\* that a failure left short of evidence under no aborted kind, which is told
\* from a full one by nothing (usage.md:94-95, cli.py:134-136, 159-178, 248).
THEOREM AnswersAreCurrent ==
  ASSUME "replaced" \notin Faults, "cut" \notin Faults
  PROVE  Spec => []NoStaleAnswer
  <1>1. TrueInv => NoStaleAnswer
    BY DEF TrueInv, AnswerInv
  <1>2. Spec => []TrueInv
    BY AnswersHold
  <1> QED
    BY <1>1, <1>2, PTL

----------------------------------------------------------------------------
(* From scratch.                                                           *)

\* Filenames that tell wheels apart, one analyser, and wheels that stay.
Steady ==
  /\ \A i, j \in 1..Wheels : NameOf[i] = NameOf[j] => i = j
  /\ \A s, t \in Salts : s = t
  /\ {"replaced", "replaced between runs", "cut"} \cap Faults = {}

\* A line that is taken for a finished scan is taken for what its wheel would give
\* from scratch, wherever it is.
LineTrue(line) ==
  line.kind \in {"full", "short"} =>
    \A i \in 1..Wheels : line.name = NameOf[i] => TakenFor(line) = FromScratch(i, run.salt)
LinesTrue(lines) == lines # NoFile => \A i \in DOMAIN lines : LineTrue(lines[i])

HeldTrue ==
  /\ \A k \in DOMAIN results : LineTrue(results[k])
  /\ \A name \in DOMAIN existing : LineTrue(existing[name])
FilesTrue == LinesTrue(output) /\ LinesTrue(partial)
WholeWhenDone == Done => Len(output) = Wheels
ScratchInv == HeldTrue /\ FilesTrue /\ WholeWhenDone

\* Neither a wheel nor the analyser changes.
LEMMA NothingChanges ==
  ASSUME Steady, TypeInv, Next
  PROVE  content' = content /\ run'.salt = run.salt
  <1>1. content' = content
    BY DEF Next, StartRun, MainStep, EmitKept, EmitScanned, FinishRun, PoolIsBroken, WriteError, EndRun,
       WorkerStep, Take, HashWheel, HashRaises, Rehash, RehashRaises, CacheHit, CacheMiss, ScanForCache,
       ScanUncached, ScanAborts,
       ShortForCache, ShortUncached, CachePut, CachePutRaises, WorkerFrame, WorkerDies, Crash, ReplaceWheel,
       CacheDamaged, Fault, Steady
  <1>2. run \in [number : 0..MaxRuns, salt : Salts, resume : BOOLEAN, mode : {"file", "redirect"},
                 status : {"none", "writing", "ok", "failed", "died", "crashed"}]
    BY DEF TypeInv, TypeOK, RunType
  <1>3. run'.salt \in Salts
    <2>1. CASE run' = run
      BY <1>2, <2>1
    <2>2. ASSUME NEW status, run' = [run EXCEPT !.status = status]
          PROVE  run'.salt \in Salts
      BY <1>2, <2>2
    <2>3. ASSUME NEW salt \in Salts, NEW resume, NEW mode, StartRun(salt, resume, mode)
          PROVE  run'.salt \in Salts
      BY <2>3 DEF StartRun
    <2>4. \/ run' = run
          \/ \E status : run' = [run EXCEPT !.status = status]
          \/ \E salt \in Salts, resume \in BOOLEAN, mode \in Modes : StartRun(salt, resume, mode)
      BY DEF Next, MainStep, EmitKept, EmitScanned, FinishRun, PoolIsBroken, WriteError, EndRun,
         WorkerStep, Take, HashWheel, HashRaises, Rehash, RehashRaises, CacheHit, CacheMiss, ScanForCache,
         ScanUncached, ScanAborts,
         ShortForCache, ShortUncached, CachePut, CachePutRaises, WorkerFrame, WorkerDies, Crash, ReplaceWheel,
         CacheDamaged
    <2> QED
      BY <2>1, <2>2, <2>3, <2>4
  <1> QED
    BY <1>1, <1>2, <1>3 DEF Steady

\* What a worker delivers is no finished scan, or that of its own wheel.
LEMMA DeliveredTrue ==
  ASSUME Steady, TypeInv, CacheInv, CacheBirths, WorkerBirths, AnswerInv, NEW w \in Workers, WorkerStep(w)
  PROVE  results' = results \/ \E line : Deliver(w, line) /\ LineTrue(line)
  <1>b. WorkersHold /\ CacheIsTrue /\ CacheWhole /\ WorkersTrue
    BY DEF CacheInv, AnswerInv
  <1> DEFINE scratch == FromScratch(Path(w), run.salt)
  <1>1. CASE \/ Take(w) \/ HashWheel(w) \/ HashRaises(w) \/ Rehash(w) \/ CacheMiss(w)
             \/ ScanForCache(w) \/ ShortForCache(w)
    BY <1>1 DEF Take, HashWheel, HashRaises, Rehash, CacheMiss, ScanForCache, ShortForCache
  <1>2. CASE RehashRaises(w) \/ ScanAborts(w)
    <2>1. PICK digest : Deliver(w, Aborted(w, digest))
      BY <1>2 DEF RehashRaises, ScanAborts
    <2>2. Aborted(w, digest).kind = "aborted"
      BY DEF Aborted, Line
    <2> QED
      BY <2>1, <2>2 DEF LineTrue
  <1>3. ASSUME worker[w].pc # "idle", NEW line, TakenFor(line) = scratch
        PROVE  LineTrue(line)
    <2>1. Path(w) \in 1..Wheels
      BY <1>3, TaskType, ScanAssumption DEF TypeInv
    <2>2. scratch.name = NameOf[Path(w)] /\ TakenFor(line).name = line.name
      BY DEF FromScratch, TakenFor, Line
    <2> HIDE DEF scratch
    <2>3. \A i \in 1..Wheels : line.name = NameOf[i] => i = Path(w)
      BY <1>3, <2>1, <2>2 DEF Steady
    <2> QED
      BY <1>3, <2>3 DEF LineTrue, scratch
  <1>4. CASE ScanUncached(w)
    <2>1. Deliver(w, Scanned(w)) /\ worker[w].digest = content[Path(w)] /\ worker[w].pc # "idle"
      BY <1>4, <1>b DEF ScanUncached, At, WorkersHold, WorkersTrue
    <2>2. TakenFor(Scanned(w)) = scratch
      BY <2>1, ScanIsAnswer
    <2> QED
      BY <1>3, <2>1, <2>2
  <1>5. CASE CacheHit(w)
    <2>1. Deliver(w, cache[CacheKey(w)]) /\ worker[w].pc # "idle"
      BY <1>5 DEF CacheHit, At
    <2>2. TakenFor(cache[CacheKey(w)]) = scratch
      BY <1>5, <1>b, HitIsAnswer
    <2> QED
      BY <1>3, <2>1, <2>2
  <1>6. CASE CachePut(w) \/ CachePutRaises(w)
    <2> DEFINE body == content[Path(w)]
               line == worker[w].line
    <2>1. worker[w].pc = "put" /\ Deliver(w, line)
      BY <1>6 DEF CachePut, CachePutRaises, At
    <2>2. ScanOf(line, Name(w), body, run.salt) /\ (line.kind = "full" => line.born = 0)
      BY <1>b, <2>1 DEF WorkersHold, WorkersTrue, WorkerBirths, Finished
    <2>3. scratch = Line(Name(w), body, body, run.salt, "full", 0)
      BY <1>b, <2>1 DEF WorkersTrue, FromScratch, Name
    <2> HIDE DEF line, body
    <2>4. TakenFor(line) = scratch
      BY <2>2, <2>3 DEF ScanOf, TakenFor
    <2> QED
      BY <1>3, <2>1, <2>4
  <1>7. CASE ShortUncached(w)
    <2> DEFINE body == content[Path(w)]
    <2>1. /\ Deliver(w, Short(w)) /\ worker[w].digest = body /\ body \notin Broken
          /\ worker[w].pc # "idle"
      BY <1>7, <1>b DEF ShortUncached, At, WorkersTrue
    <2>2. scratch = Line(Name(w), body, body, run.salt, "full", 0)
      BY <2>1 DEF FromScratch, Name
    <2>3. Short(w) = Line(Name(w), body, body, run.salt, "short", run.number)
      BY <2>1 DEF Short
    <2> HIDE DEF body
    <2>4. TakenFor(Short(w)) = scratch
      BY <2>2, <2>3 DEF TakenFor, Line
    <2> QED
      BY <1>3, <2>1, <2>4
  <1> QED
    BY <1>1, <1>2, <1>4, <1>5, <1>6, <1>7 DEF WorkerStep

\* A prefix of a file is as true as the file.
LEMMA PrefixTrue ==
  ASSUME NEW lines \in Seq(Lines), LinesTrue(lines), NoFile \notin Seq(Lines),
         NEW left \in Prefixes(lines)
  PROVE  LinesTrue(left)
  <1>0. \A i \in DOMAIN lines : LineTrue(lines[i])
    BY DEF LinesTrue
  <1>1. ASSUME NEW k \in 0..Len(lines), left = SubSeq(lines, 1, k)
        PROVE  LinesTrue(left)
    <2>1. \A i \in DOMAIN left : i \in DOMAIN lines /\ left[i] = lines[i]
      BY <1>1
    <2> QED
      BY <1>0, <2>1 DEF LinesTrue
  <1>2. ASSUME NEW k \in 1..Len(lines),
               left = Append(SubSeq(lines, 1, k - 1), [lines[k] EXCEPT !.kind = "cut"])
        PROVE  LinesTrue(left)
    <2> DEFINE last == [lines[k] EXCEPT !.kind = "cut"]
    <2>1. last.kind = "cut"
      <3> DEFINE l == lines[k]
      <3>1. l \in Lines
        OBVIOUS
      <3> HIDE DEF l
      <3>2. [l EXCEPT !.kind = "cut"].kind = "cut"
        BY <3>1 DEF Lines
      <3> QED
        BY <3>2 DEF l
    <2> HIDE DEF last
    <2>2. left = Append(SubSeq(lines, 1, k - 1), last)
      BY <1>2 DEF last
    <2>3. \A i \in DOMAIN left : left[i] = last \/ (i \in DOMAIN lines /\ left[i] = lines[i])
      BY <2>2
    <2>4. LineTrue(last)
      BY <2>1 DEF LineTrue
    <2> QED
      BY <1>0, <2>3, <2>4 DEF LinesTrue
  <1> QED
    BY <1>1, <1>2 DEF Prefixes

\* So what is true of a line stays true.
LEMMA TruthStays ==
  ASSUME content' = content, run'.salt = run.salt,
         \A k \in DOMAIN results' : LineTrue(results'[k]),
         \A name \in DOMAIN existing' : LineTrue(existing'[name]),
         LinesTrue(output'), LinesTrue(partial')
  PROVE  HeldTrue' /\ FilesTrue'
  BY DEF HeldTrue, FilesTrue, LinesTrue, LineTrue, FromScratch, TakenFor

\* A true line at the end of the stream.
LEMMA EmitTrue ==
  ASSUME ScanAssumption, TypeInv, FilesTrue, Writing, NEW line \in Lines, LineTrue(line), Emit(line)
  PROVE  LinesTrue(output') /\ LinesTrue(partial')
  <1>1. Stream \in Seq(Lines) /\ Stream # NoFile
    BY ScanAssumption DEF TypeInv, TypeOK, FileType
  <1>2. \A i \in DOMAIN Stream : LineTrue(Stream[i])
    BY <1>1 DEF FilesTrue, LinesTrue, Stream
  <1> DEFINE longer == Append(Stream, line)
  <1>3. \A i \in DOMAIN longer : longer[i] = line \/ (i \in DOMAIN Stream /\ longer[i] = Stream[i])
    BY <1>1
  <1>4. SetStream(longer)
    BY DEF Emit
  <1> HIDE DEF longer
  <1>5. LinesTrue(longer)
    BY <1>2, <1>3 DEF LinesTrue
  <1> QED
    BY <1>4, <1>5 DEF SetStream, FilesTrue

\* Every step.
LEMMA NextScratch ==
  ASSUME ScanAssumption, Steady, CacheInv, BirthInv, ReportInv, AnswerInv, ScratchInv, Next
  PROVE  ScratchInv'
  <1>b. /\ TypeInv /\ CacheBirths /\ WorkerBirths /\ HeldTrue /\ FilesTrue /\ WholeWhenDone /\ Aligned /\ StreamAnswers
        /\ \A k \in DOMAIN results : LineTrue(results[k])
        /\ \A name \in DOMAIN existing : LineTrue(existing[name])
        /\ LinesTrue(output) /\ LinesTrue(partial)
    BY DEF CacheInv, BirthInv, PoolBirths, ReportInv, ScratchInv, HeldTrue, FilesTrue
  <1>t. /\ output \in FileContents /\ partial \in FileContents /\ NoFile \notin Seq(Lines)
        /\ Writing => Stream \in Seq(Lines)
        /\ Wheels \in Nat /\ next \in Int
        /\ run \in [number : 0..MaxRuns, salt : Salts, resume : BOOLEAN, mode : {"file", "redirect"},
                    status : {"none", "writing", "ok", "failed", "died", "crashed"}]
    BY <1>b, ScanAssumption DEF TypeInv, TypeOK, FileType, MainType, RunType
  <1>c. content' = content /\ run'.salt = run.salt
    BY <1>b, NothingChanges
  <1>1. ASSUME NEW salt \in Salts, NEW resume \in BOOLEAN, NEW mode \in Modes,
               StartRun(salt, resume, mode)
        PROVE  ScratchInv'
    <2>1. results' = results /\ run'.status = "writing"
          /\ (existing' \in ExistingRecords(output) \/ existing' = Empty)
      BY <1>1 DEF StartRun, poolVars
    <2>2. \A name \in DOMAIN existing' : LineTrue(existing'[name])
      <3>1. CASE existing' = Empty
        BY <3>1 DEF Empty
      <3>2. CASE existing' \in ExistingRecords(output)
        <4> DEFINE good == IF output = NoFile THEN {}
                           ELSE {i \in DOMAIN output : output[i].kind \in {"full", "short"}}
        <4>1. \A name \in DOMAIN existing' : \E i \in good : output[i] = existing'[name]
          BY <3>2 DEF ExistingRecords, LastOfEach
        <4>2. \A i \in good : LineTrue(output[i])
          BY <1>b DEF LinesTrue
        <4> HIDE DEF good
        <4> QED
          BY <4>1, <4>2
      <3> QED
        BY <2>1, <3>1, <3>2
    <2> DEFINE none == <<>>
    <2>3. DOMAIN none = {}
      OBVIOUS
    <2>4. \/ partial' = none /\ output' = output
          \/ output' = none /\ partial' = partial
      BY <1>1 DEF StartRun
    <2> HIDE DEF none
    <2>5. LinesTrue(output') /\ LinesTrue(partial')
      BY <1>b, <2>3, <2>4 DEF LinesTrue
    <2>6. WholeWhenDone'
      BY <2>1 DEF WholeWhenDone, Done
    <2> QED
      BY <1>b, <1>c, <2>1, <2>2, <2>5, <2>6, TruthStays DEF ScratchInv
  <1>2. CASE EmitKept \/ EmitScanned
    <2>1. Writing /\ UNCHANGED <<run, existing, results>>
      BY <1>2 DEF EmitKept, EmitScanned, MainWaits, poolVars
    <2>2. PICK line \in Lines : Emit(line) /\ LineTrue(line)
      BY <1>2, <1>b DEF EmitKept, EmitScanned, TypeInv, TypeOK, MainType, PoolType
    <2>3. LinesTrue(output') /\ LinesTrue(partial')
      BY <1>b, <2>1, <2>2, EmitTrue
    <2>4. WholeWhenDone'
      BY <2>1 DEF WholeWhenDone, Done, Writing
    <2> QED
      BY <1>b, <1>c, <2>1, <2>3, <2>4, TruthStays DEF ScratchInv
  <1>3. CASE FinishRun
    <2>1. /\ EndRun("ok") /\ Writing /\ next > Wheels /\ output' = Stream
          /\ partial' = NoFile \/ partial' = partial
      BY <1>3 DEF FinishRun, Stream, reportVars
    <2>2. existing' = existing /\ DOMAIN results' = {}
      BY <2>1 DEF EndRun, Empty
    <2>3. LinesTrue(output') /\ LinesTrue(partial')
      BY <1>b, <2>1 DEF LinesTrue, Stream
    <2>4. Len(output') = Wheels
      <3>1. next = Wheels + 1
        BY <1>b, <1>t, <2>1 DEF Aligned
      <3>2. Len(Stream) = next - 1
        BY <1>b, <2>1 DEF StreamAnswers
      <3> QED
        BY <1>t, <2>1, <3>1, <3>2
    <2>5. WholeWhenDone'
      BY <2>4 DEF WholeWhenDone
    <2> QED
      BY <1>b, <1>c, <2>2, <2>3, <2>5, TruthStays DEF ScratchInv
  <1>4. CASE PoolIsBroken \/ WriteError \/ Crash
    <2>1. PICK status \in {"died", "failed", "crashed"} : EndRun(status)
      BY <1>4 DEF PoolIsBroken, WriteError, Crash
    <2>2. existing' = existing /\ DOMAIN results' = {} /\ run'.status = status
      BY <1>t, <2>1 DEF EndRun, Empty
    <2>3. LinesTrue(output') /\ LinesTrue(partial')
      <3>1. CASE PoolIsBroken
        BY <1>b, <3>1 DEF PoolIsBroken, reportVars
      <3>2. CASE WriteError
        BY <1>b, <3>2 DEF WriteError, reportVars, LinesTrue
      <3>3. CASE Crash
        <4>1. Stream \in Seq(Lines) /\ LinesTrue(Stream)
          BY <1>b, <1>t, <3>3 DEF Crash, Stream
        <4>2. PICK left \in Prefixes(Stream) : SetStream(left)
          BY <3>3 DEF Crash
        <4>3. LinesTrue(left)
          BY <1>t, <4>1, PrefixTrue
        <4> QED
          BY <1>b, <4>2, <4>3 DEF SetStream
      <3> QED
        BY <1>4, <3>1, <3>2, <3>3
    <2>4. WholeWhenDone'
      BY <2>2 DEF WholeWhenDone, Done
    <2> QED
      BY <1>b, <1>c, <2>2, <2>3, <2>4, TruthStays DEF ScratchInv
  <1>5. CASE ReplaceWheel \/ CacheDamaged \/ \E w \in Workers : WorkerStep(w) \/ WorkerDies(w)
    <2>1. UNCHANGED <<reportVars, run, mainVars>>
      BY <1>5 DEF ReplaceWheel, CacheDamaged, WorkerStep, Take, HashWheel, HashRaises, Rehash,
         RehashRaises, CacheHit, CacheMiss, ScanForCache, ScanUncached, ScanAborts,
         ShortForCache, ShortUncached, CachePut, CachePutRaises, WorkerDies, WorkerFrame
    <2>2. \A k \in DOMAIN results' : LineTrue(results'[k])
      <3>1. CASE results' = results
        BY <1>b, <3>1
      <3>2. ASSUME NEW w \in Workers, NEW line, Deliver(w, line), LineTrue(line)
            PROVE  \A k \in DOMAIN results' : LineTrue(results'[k])
        BY <1>b, <3>2 DEF Deliver
      <3>3. ASSUME NEW w \in Workers, WorkerStep(w)
            PROVE  \A k \in DOMAIN results' : LineTrue(results'[k])
        <4>1. results' = results \/ \E line : Deliver(w, line) /\ LineTrue(line)
          BY <1>b, <3>3, DeliveredTrue
        <4> QED
          BY <3>1, <3>2, <4>1
      <3>4. results' = results \/ \E w \in Workers : WorkerStep(w)
        BY <1>5 DEF ReplaceWheel, CacheDamaged, WorkerDies, poolVars
      <3> QED
        BY <3>1, <3>3, <3>4
    <2>3. WholeWhenDone'
      BY <1>b, <2>1 DEF WholeWhenDone, Done, reportVars
    <2>4. existing' = existing /\ output' = output /\ partial' = partial
      BY <2>1 DEF reportVars, mainVars
    <2> QED
      BY <1>b, <1>c, <2>2, <2>3, <2>4, TruthStays DEF ScratchInv
  <1> QED
    BY <1>1, <1>2, <1>3, <1>4, <1>5 DEF Next, MainStep

\* With filenames that tell wheels apart, one analyser, and wheels and cache
\* entries nobody rewrites, a run that finishes undisturbed has written what a
\* run from scratch would: whatever earlier runs left, however they ended, and
\* however its workers raced - but for records that an earlier run's failure
\* left short of evidence under no aborted kind, which the cache and --resume
\* bring back like any other (usage.md:94-95, cli.py:134-136, 248).
THEOREM AnswersAreFromScratch ==
  ASSUME Steady
  PROVE  Spec => []SameAsFromScratch
  <1>0. "replaced" \notin Faults /\ "cut" \notin Faults
    BY DEF Steady
  <1>1. Init => ScratchInv
    BY DEF Init, ScratchInv, HeldTrue, FilesTrue, LinesTrue, WholeWhenDone, Done, Empty
  <1>2. TypeInv /\ BirthInv /\ TrueInv /\ ScratchInv /\ [Next]_vars => ScratchInv'
    <2> SUFFICES ASSUME TypeInv, BirthInv, TrueInv, ScratchInv, [Next]_vars
                 PROVE  ScratchInv'
      OBVIOUS
    <2>1. CASE Next
      BY <2>1, NextScratch, ScanAssumption DEF TrueInv, CacheInv
    <2>2. CASE UNCHANGED vars
      BY <2>2 DEF vars, reportVars, mainVars, poolVars, ScratchInv, HeldTrue, FilesTrue, LinesTrue,
         LineTrue, FromScratch, TakenFor, WholeWhenDone, Done
    <2> QED
      BY <2>1, <2>2
  <1>3. TypeInv /\ BirthInv /\ TrueInv /\ ScratchInv => SameAsFromScratch
    <2> SUFFICES ASSUME TypeInv, BirthInv, TrueInv, ScratchInv, Done, clean, NEW i \in 1..Wheels
                 PROVE  Len(output) = Wheels /\ TakenFor(output[i]) = FromScratch(i, run.salt)
      BY DEF SameAsFromScratch, ScratchInv, WholeWhenDone
    <2>1. Len(output) = Wheels
      BY DEF ScratchInv, WholeWhenDone
    <2>2. CASE ~Kept(i)
      BY <2>1, <2>2 DEF TrueInv, AnswerInv, NoStaleAnswer
    <2>3. CASE Kept(i)
      <3> DEFINE line == existing[NameOf[i]]
      <3>1. output[i] = line
        BY <2>3 DEF TrueInv, AnswerInv, NoStaleAnswer
      <3>2. line.kind \in {"full", "short"} /\ line.name = NameOf[i]
        BY <2>3 DEF Kept, TrueInv, ReportInv, NamesInv, KeptNames
      <3>3. LineTrue(line)
        BY <2>3 DEF Kept, ScratchInv, HeldTrue
      <3> HIDE DEF line
      <3> QED
        BY <2>1, <3>1, <3>2, <3>3 DEF LineTrue
    <2> QED
      BY <2>2, <2>3
  <1>4. Spec => []TrueInv
    BY <1>0, AnswersHold
  <1> QED
    BY <1>1, <1>2, <1>3, <1>4, TypeInvariance, BirthsHold, PTL DEF Spec
=============================================================================
