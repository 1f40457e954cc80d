-------------------------- MODULE MCPromptContext ---------------------------
\* Two prompts, one of them with observations, two syncs and two keys; one fact in
\* the file and one that was taken out of it.  A sync reads two rows: both facts
\* fit, and are not stored again, and a second row of one of them is too many.  An
\* assembly reads one row.
EXTENDS PromptContext, TLC

Symmetric == Permutations(Syncs) \union Permutations(Keys)
=============================================================================
