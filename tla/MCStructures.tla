---------------------------- MODULE MCStructures ----------------------------
\* The data structures of the repository for model checking.  Each belongs to programs
\* of its own and shares nothing with the others: one of them is used in a behavior.
EXTENDS MemPool, RbTree, SearchTree, MmPool, SysQueue, FifoList, Fbarray, FbarrayFile

VARIABLE program \* the data structure in use

Programs == {"mem_pool", "rbtree", "bst_tree", "mm_pool", "sys_queue", "fifo_list", "fbarray",
             "fbarray_file"}

MCInit == /\ program \in Programs
          /\ Init /\ RbInit /\ StInit /\ MmInit /\ QueueInit /\ FifoInit /\ FbInit /\ FfInit

MCNext ==
    /\ UNCHANGED program
    /\ \/ /\ program = "mem_pool" /\ Next
          /\ UNCHANGED <<rbVars, stVars, mmVars, queueVars, fifoVars, fbVars, ffVars>>
       \/ /\ program = "rbtree" /\ RbNext
          /\ UNCHANGED <<vars, stVars, mmVars, queueVars, fifoVars, fbVars, ffVars>>
       \/ /\ program = "bst_tree" /\ StNext
          /\ UNCHANGED <<vars, rbVars, mmVars, queueVars, fifoVars, fbVars, ffVars>>
       \/ /\ program = "mm_pool" /\ MmNext
          /\ UNCHANGED <<vars, rbVars, stVars, queueVars, fifoVars, fbVars, ffVars>>
       \/ /\ program = "sys_queue" /\ QueueNext
          /\ UNCHANGED <<vars, rbVars, stVars, mmVars, fifoVars, fbVars, ffVars>>
       \/ /\ program = "fifo_list" /\ FifoNext
          /\ UNCHANGED <<vars, rbVars, stVars, mmVars, queueVars, fbVars, ffVars>>
       \/ /\ program = "fbarray" /\ FbNext
          /\ UNCHANGED <<vars, rbVars, stVars, mmVars, queueVars, fifoVars, ffVars>>
       \/ /\ program = "fbarray_file" /\ FfNext
          /\ UNCHANGED <<vars, rbVars, stVars, mmVars, queueVars, fifoVars, fbVars>>

MCSpec == MCInit /\ [][MCNext]_<<program, vars, rbVars, stVars, mmVars, queueVars, fifoVars,
                                fbVars, ffVars>>
=============================================================================
