----------------------------- MODULE FbarrayFile -----------------------------
(***************************************************************************)
(* The file behind an array and the processes that share it by its name    *)
(* (dpdk_fbarray/eal_common_fbarray.h: rte_fbarray_init, _attach, _detach  *)
(* and _destroy).  Who uses the array holds a shared flock on the file,    *)
(* who makes or destroys it an exclusive one for a moment, and nobody      *)
(* waits for a lock.                                                       *)
(*                                                                         *)
(* A flock belongs to the open file.  close() in rte_fbarray_init does not *)
(* end it, since the mapping keeps the open file: munmap() does.  Changing *)
(* an exclusive lock into a shared one gives it up first (flock(2)).       *)
(***************************************************************************)
EXTENDS FiniteSets

CONSTANTS Procs,  \* processes, each with one struct rte_fbarray for the name
          Files,  \* files (inodes) the name may stand for
          NoFile

ASSUME FileAssumption == NoFile \notin Files

VARIABLES
    name,   \* the file at eal_get_fbarray_path, or NoFile
    file,   \* the file a process has open or mapped, or NoFile
    lock,   \* "none", "shared" or "exclusive": its flock on that file
    mapped, \* the processes whose array is mapped
    known,  \* the processes whose struct is filled in
    step,   \* where each process is in its call
    before, \* history: who had the array in use when the running init began, and has since
    erased, \* history: who lost its array to an init that began later
    late    \* history: a file was locked that had lost its name since it was opened

ffVars == <<name, file, lock, mapped, known, step, before, erased, late>>

FfInit == /\ name = NoFile
          /\ file = [p \in Procs |-> NoFile]
          /\ lock = [p \in Procs |-> "none"]
          /\ mapped = {} /\ known = {}
          /\ step = [p \in Procs |-> "idle"]
          /\ before = [p \in Procs |-> {}]
          /\ erased = {} /\ late = FALSE

Goto(p, s) == step' = [step EXCEPT ![p] = s]

\* What is locked by somebody else, at least as strongly as it takes to refuse p.
Refused(p, kind) ==
    \E q \in Procs \ {p} : /\ file[q] = file[p]
                           /\ lock[q] = "exclusive" \/ (kind = "exclusive" /\ lock[q] = "shared")

\* The last reference to the open file goes: by close(), or by munmap() of a mapping.
Close(p) == /\ file' = [file EXCEPT ![p] = NoFile]
            /\ lock' = [lock EXCEPT ![p] = "none"]

\* flock(fd, kind | LOCK_NB), then on with the call or out of it.
Flock(p, kind, next) ==
    /\ \/ /\ ~Refused(p, kind)
          /\ lock' = [lock EXCEPT ![p] = kind]
          /\ late' = (late \/ file[p] # name)
          /\ Goto(p, next) /\ UNCHANGED file
       \/ /\ Refused(p, kind)
          /\ Close(p) /\ Goto(p, "idle") /\ UNCHANGED late
    /\ UNCHANGED <<name, mapped, known, before, erased>>
-----------------------------------------------------------------------------
\* rte_fbarray_init up to open(O_CREAT).
rte_fbarray_init_file(p) ==
    /\ step[p] = "idle" /\ p \notin mapped
    /\ \E f \in Files :
           /\ IF name = NoFile THEN \A q \in Procs : file[q] # f ELSE f = name
           /\ name' = f /\ file' = [file EXCEPT ![p] = f]
    /\ before' = [before EXCEPT ![p] = {q \in mapped : step[q] = "idle"}]
    /\ Goto(p, "init_lock")
    /\ UNCHANGED <<lock, mapped, known, erased, late>>

\* Broken variant: the lock that keeps others from reinitialising is asked for at once.
InitLockShared(p) == step[p] = "init_lock" /\ Flock(p, "shared", "unlock")

InitLock(p) == step[p] = "init_lock" /\ Flock(p, "exclusive", "unlock")

\* The second flock: the exclusive lock goes before the shared one is asked for.
Unlock(p) == /\ step[p] = "unlock"
             /\ lock' = [lock EXCEPT ![p] = "none"]
             /\ Goto(p, "share")
             /\ UNCHANGED <<name, file, mapped, known, before, erased, late>>

Share(p) == step[p] = "share" /\ Flock(p, "shared", "init_map")

\* Its failure closes the file, and with it the lock.
resize_and_map(p, next) ==
    /\ \/ mapped' = mapped \cup {p} /\ Goto(p, next) /\ UNCHANGED <<file, lock>>
       \/ Close(p) /\ Goto(p, "idle") /\ UNCHANGED mapped
    /\ UNCHANGED <<name, known, before, erased, late>>

InitMap(p) == step[p] = "init_map" /\ resize_and_map(p, "clear")

\* close, memset of the mapping and the struct.
InitData(p) ==
    /\ step[p] = "clear"
    /\ erased' = erased \cup {q \in before[p] : file[q] = file[p]}
    /\ known' = known \cup {p}
    /\ Goto(p, "idle")
    /\ UNCHANGED <<name, file, lock, mapped, before, late>>
-----------------------------------------------------------------------------
\* rte_fbarray_attach, with the struct of a process that has made or attached the array.
rte_fbarray_attach(p) ==
    /\ step[p] = "idle" /\ p \notin mapped /\ known # {} /\ name # NoFile
    /\ known' = known \cup {p}
    /\ file' = [file EXCEPT ![p] = name]
    /\ Goto(p, "attach_lock")
    /\ UNCHANGED <<name, lock, mapped, before, erased, late>>

AttachLock(p) == step[p] = "attach_lock" /\ Flock(p, "shared", "attach_map")
AttachMap(p)  == step[p] = "attach_map" /\ resize_and_map(p, "idle")

Unmap(p) == /\ Close(p)
            /\ mapped' = mapped \ {p}
            /\ before' = [q \in Procs |-> before[q] \ {p}]
            /\ erased' = erased \ {p}

rte_fbarray_detach(p) == /\ step[p] = "idle" /\ p \in mapped
                         /\ Unmap(p) /\ UNCHANGED <<name, known, step, late>>

\* rte_fbarray_destroy: the detach comes first, also of an array that is detached.
rte_fbarray_destroy(p) == /\ step[p] = "idle" /\ p \in known
                          /\ Unmap(p) /\ Goto(p, "destroy_open")
                          /\ UNCHANGED <<name, known, late>>

DestroyOpen(p) ==
    /\ step[p] = "destroy_open"
    /\ file' = [file EXCEPT ![p] = name]
    /\ Goto(p, IF name = NoFile THEN "idle" ELSE "destroy_lock")
    /\ UNCHANGED <<name, lock, mapped, known, before, erased, late>>

DestroyLock(p) == step[p] = "destroy_lock" /\ Flock(p, "exclusive", "unlink")

\* unlink(path): whatever file has the name now.
DestroyUnlink(p) ==
    /\ step[p] = "unlink"
    /\ name' = NoFile /\ known' = known \ {p}
    /\ Close(p) /\ Goto(p, "idle")
    /\ UNCHANGED <<mapped, before, erased, late>>
-----------------------------------------------------------------------------
FfNext == \E p \in Procs :
    \/ rte_fbarray_init_file(p) \/ InitLock(p) \/ Unlock(p) \/ Share(p) \/ InitMap(p) \/ InitData(p)
    \/ rte_fbarray_attach(p) \/ AttachLock(p) \/ AttachMap(p)
    \/ rte_fbarray_detach(p)
    \/ rte_fbarray_destroy(p) \/ DestroyOpen(p) \/ DestroyLock(p) \/ DestroyUnlink(p)

FfSpec == FfInit /\ [][FfNext]_ffVars
-----------------------------------------------------------------------------
\* An array in use is not cleared by a process that sets it up later ("no other process
\* could reinitialize it"), although the exclusive lock is given up before the array is
\* cleared; and all users of the name share the one file that has it, except after a
\* process locked a file that a destroy had unlinked since it opened it: nobody looks
\* again after the lock, and from there on two arrays of one name can be in use.
ArraysAreKept == /\ erased = {}
                 /\ ~late => \A p \in mapped : file[p] = name
=============================================================================
