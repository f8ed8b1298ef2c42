----------------------------- MODULE MC_FileSync -----------------------------
\* Three edits with events only; or two edits and a tick of the janitor, with an
\* event that is lost or a patch that fails.
EXTENDS FileSync

MCBudgets == {[edits |-> 3, lost |-> 0, scans |-> 0, faults |-> 0],
              [edits |-> 2, lost |-> 1, scans |-> 1, faults |-> 0],
              [edits |-> 2, lost |-> 0, scans |-> 1, faults |-> 1]}
===============================================================================
