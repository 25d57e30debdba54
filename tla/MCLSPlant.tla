----------------------------- MODULE MCLSPlant -----------------------------
EXTENDS LSPlant
\* Once a target is in raced or exposed no property says anything about it.
Explored == raced = {} /\ exposed = {}
\* Everything found, nothing found, and each of the hooks missing on its own.
Found == {ArtHooks, {}} \cup {ArtHooks \ {h} : h \in ArtHooks}
\* A runtime in which InitNative finds none of them.
Nothing == {{}}
=============================================================================
