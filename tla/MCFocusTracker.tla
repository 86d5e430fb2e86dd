--------------------------- MODULE MCFocusTracker ---------------------------
EXTENDS FocusTracker

MCCams  == {5}
MCIds   == {"001", "002", "abc"}
MCRels  == {-1, 1}
=============================================================================
