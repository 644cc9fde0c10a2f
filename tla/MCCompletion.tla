---------------------------- MODULE MCCompletion -----------------------------
\* A reply holds at most two calls, so that one follows the call Esc falls into.
EXTENDS Completion

MCMaxCalls == 2
=============================================================================
