---------------------------- MODULE AtomicReport ----------------------------
(***************************************************************************)
(* What a reader of the --output file relies on: at any moment it is one   *)
(* finished report, of one record per wheel in discovery order, or it is   *)
(* not there yet.                                                          *)
(***************************************************************************)
EXTENDS Integers, Sequences

CONSTANTS Wheels,    \* how many wheels were discovered
          NameOf,    \* the filename of each
          NoFile     \* a file that is not there

VARIABLE output      \* the lines of the file, or NoFile

IsReport(lines) ==
  /\ lines # NoFile /\ Len(lines) = Wheels
  /\ \A i \in 1..Wheels :
       lines[i].name = NameOf[i] /\ lines[i].kind \in {"full", "short", "aborted"}

ReportInit == output = NoFile
Publish == IsReport(output')

ReportSpec == ReportInit /\ [][Publish]_output
=============================================================================
