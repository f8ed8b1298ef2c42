----------------------------- MODULE MC_GitWatcher -----------------------------
\* GitWatcher for TLC: three commits, of which a has the content x, and the
\* others x, y or no file.
EXTENDS GitWatcher

CONSTANTS a, b, c, x, y

MCHistories == {h \in [Commits -> [Files -> {Absent, x, y}]] : \A f \in Files : h[a][f] = x}
===============================================================================
