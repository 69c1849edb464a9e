----------------------------- MODULE RecordCache -----------------------------
(***************************************************************************)
(* cache.RecordCache: serialised records on disk, keyed by what a record   *)
(* depends on.  Entries appear by os.replace, so a reader sees an entry    *)
(* whole or not at all; what damages one afterwards is outside the program *)
(* (a power loss before the data reached the disk, a bad block).           *)
(***************************************************************************)
EXTENDS Integers

CONSTANTS Digests,   \* wheel contents, each standing for its sha256
          Names,     \* wheel filenames
          Salts      \* schema, analyser, ruleset, evidence level, tool, limits

VARIABLE cache       \* the entries on disk: a function from some keys to lines

\* A record line.  name, digest and salt are what the record says of itself
\* (digest "none" when the wheel could not be hashed), body the content that
\* was really read.  kind is
\*   "full"         the scan got through;
\*   "short"        a failure that another attempt would not meet cost it
\*                  evidence, and none of its kinds is in SCAN_ABORTED_KINDS;
\*   "aborted"      it carries a kind of SCAN_ABORTED_KINDS;
\*   "cut"          text that ends early but is still UTF-8;
\*   "undecodable"  bytes that are not UTF-8.
\* born is the run whose failure made an aborted or short line (0 for the
\* others; history, and so is the difference between "full" and "short").
Line(name, digest, body, salt, kind, born) ==
  [name |-> name, digest |-> digest, body |-> body,
   salt |-> salt, kind |-> kind, born |-> born]

Lines == [name : Names, digest : Digests \cup {"none"}, body : Digests \cup {"none"},
          salt : Salts,
          kind : {"full", "short", "aborted", "cut", "undecodable"}, born : Nat]

Keys == Digests \X Names \X Salts

\* get returns the text of an entry whatever it says, so long as it decodes.
Held(key) == key \in DOMAIN cache /\ cache[key].kind # "undecodable"

\* put: mkstemp, write, os.replace.
Put(key, line) ==
  cache' = [k \in DOMAIN cache \cup {key} |-> IF k = key THEN line ELSE cache[k]]

\* An entry on disk comes to read as something else.
Damage(kind) ==
  \E key \in DOMAIN cache :
    /\ cache[key].kind # kind
    /\ cache' = [cache EXCEPT ![key].kind = kind]

CacheType == DOMAIN cache \subseteq Keys /\ \A key \in DOMAIN cache : cache[key] \in Lines
=============================================================================
