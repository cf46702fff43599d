-------------------------- MODULE MCMediaPipelines --------------------------
EXTENDS MediaPipelines

=============================================================================
