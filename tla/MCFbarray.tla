------------------------------ MODULE MCFbarray ------------------------------
\* One array alone for model checking, for what a comment says of its searches.
EXTENDS Fbarray
=============================================================================
