--------------------------- MODULE MCProgressView ---------------------------
EXTENDS ProgressView

\* A frame that grows and shrinks by more than a row.
MCHeights == {1, 2, 4}
=============================================================================
