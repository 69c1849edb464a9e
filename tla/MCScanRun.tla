------------------------------ MODULE MCScanRun ------------------------------
EXTENDS ScanRun

\* Two wheels by two names; two directories that hold the same filename.
MCNames == {"a", "b"}
MCDistinct == <<"a", "b">>
MCThree == <<"a", "b", "c">>
MCThreeNames == {"a", "b", "c"}
MCSameName == <<"a", "a">>

MCContents == {"d1", "d2"}
MCBroken == {"d2"}
MCOneSalt == {"s1"}
MCTwoSalts == {"s1", "s2"}
MCFile == {"file"}
MCBothModes == {"file", "redirect"}

\* What may go wrong in each run.
MCResumeFaults == {"crash", "transient", "unreadable", "unwritable", "undecodable"}
MCCacheFaults == {"crash", "transient", "unreadable", "unwritable", "cache unwritable",
                  "worker dies", "undecodable", "replaced between runs"}
MCTransient == {"transient"}
MCWorkerDies == {"worker dies"}
MCCrash == {"crash"}
=============================================================================
