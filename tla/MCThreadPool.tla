---------------------------- MODULE MCThreadPool ----------------------------
\* ThreadPool for model checking: the cfg files name the tasks.
EXTENDS ThreadPool
=============================================================================
