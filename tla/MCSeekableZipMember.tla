------------------------ MODULE MCSeekableZipMember ------------------------
EXTENDS SeekableZipMember

\* Seeks to every position of the member, past its end and before its start.
MCOffsets == -3..6
=============================================================================
