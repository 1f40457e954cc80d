--------------------------- MODULE MCPipelinePass ---------------------------
\* Two concurrent passes and two versions of the system state, besides the empty
\* one a session may start with: enough for a first submission that is stale, for
\* a version that moves again between the retry's read and its submission, and for
\* one that moves before a token resubmission.
EXTENDS PipelinePass

Both == BOOLEAN
OnlyShown == {TRUE}
OnlyHidden == {FALSE}
=============================================================================
