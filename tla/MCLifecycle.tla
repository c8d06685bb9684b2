------------------------------ MODULE MCLifecycle ------------------------------
\* Three setups of the entry: earlier systems may be ticking on under the later ones.
EXTENDS Lifecycle
=============================================================================
