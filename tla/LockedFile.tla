----------------------------- MODULE LockedFile -----------------------------
(***************************************************************************)
(* lock_file of common/file_utils.cpp, with a func that calls file_write   *)
(* or file_read on the file it guards.  flock is the kernel's: the lock    *)
(* belongs to the open file, and an exit of the process frees it.  fopen   *)
(* with "wb" truncates, so a write is many steps; lock_file closes no      *)
(* descriptor, and does not unlock when func throws.  A full disk ends a   *)
(* write early, in fwrite or in fclose, whose return value is not looked at.*)
(***************************************************************************)
EXTENDS Integers, Sequences

Text == INSTANCE Strings

CONSTANTS Procs,
          Blocks,
          Contents,  \* what is written: sequences of blocks, none empty
          MaxFds,    \* descriptors a process may have (RLIMIT_NOFILE)
          MaxFailures,  \* crashes and failed writes: bound
          None

ASSUME ContentsAssumption == Contents \subseteq Seq(Blocks) /\ <<>> \notin Contents

ASSUME ParametersAssumption ==
    MaxFds \in Nat /\ MaxFailures \in Nat /\ None \notin Procs

VARIABLES pc,
          content,  \* what func writes, or <<>> if it reads
          lock,     \* the process with the open file that has the lock
          fds,      \* the descriptors each process has left open
          file,     \* the guarded file
          size,     \* file_read: ftell at the end
          result,   \* file_read: what it returned last
          stored,   \* history: the file when it was last not being written
          failures,
          thrown    \* history: the processes that live on after their func threw

func == <<content, size, result>>
vars == <<pc, func, lock, fds, file, stored, failures, thrown>>

Init ==
    /\ pc = [p \in Procs |-> "idle"]
    /\ content = [p \in Procs |-> <<>>]
    /\ lock = None
    /\ fds = [p \in Procs |-> 0]
    /\ file = <<>> /\ stored = <<>>
    /\ size = [p \in Procs |-> 0] /\ result = [p \in Procs |-> <<>>]
    /\ failures = 0 /\ thrown = {}

Goto(p, l) == pc' = [pc EXCEPT ![p] = l]

\* The call is over, and with it what func was given.
Over(p, l) == Goto(p, l) /\ content' = [content EXCEPT ![p] = <<>>]

\* lock_file opens f; with no descriptor left it returns -1 and nothing happens.
Open(p) ==
    /\ pc[p] = "idle" /\ fds[p] < MaxFds
    /\ fds' = [fds EXCEPT ![p] = @ + 1]
    /\ \E c \in Contents \cup {<<>>} : content' = [content EXCEPT ![p] = c]
    /\ Goto(p, "wait")
    /\ UNCHANGED <<lock, file, size, result, stored, failures, thrown>>

FlockShared(p) ==
    /\ pc[p] = "wait" /\ (lock # None => content[p] = <<>>)
    /\ lock' = p
    /\ Goto(p, "func")
    /\ UNCHANGED <<func, fds, file, stored, failures, thrown>>

\* flock(fd, LOCK_EX): an open file of the same process excludes, too.
Flock(p) ==
    /\ pc[p] = "wait" /\ lock = None
    /\ lock' = p
    /\ Goto(p, "func")
    /\ UNCHANGED <<func, fds, file, stored, failures, thrown>>

\* flock is interrupted, or has no memory: lock_file closes f and returns -2.
FlockFails(p) ==
    /\ pc[p] = "wait"
    /\ fds' = [fds EXCEPT ![p] = @ - 1]
    /\ Over(p, "idle")
    /\ UNCHANGED <<size, result, lock, file, stored, failures, thrown>>

\* file_write and file_read open the file; they fail with no descriptor left.
FOpen(p) ==
    /\ pc[p] = "func"
    /\ \/ /\ fds[p] = MaxFds
          /\ Goto(p, "leave") /\ UNCHANGED <<file, size>>
       \/ /\ fds[p] < MaxFds /\ content[p] # <<>>
          /\ file' = <<>>
          /\ Goto(p, "write") /\ UNCHANGED size
       \/ /\ fds[p] < MaxFds /\ content[p] = <<>>
          /\ size' = [size EXCEPT ![p] = Len(file)]
          /\ Goto(p, "read") /\ UNCHANGED file
    /\ UNCHANGED <<content, lock, fds, result, stored, failures, thrown>>

\* fwrite and fclose: a block reaches the file at a time.
FWrite(p) ==
    /\ pc[p] = "write"
    /\ file' = Append(file, content[p][Len(file) + 1])
    /\ IF Len(file') = Len(content[p]) THEN Goto(p, "leave") /\ stored' = file'
                                       ELSE UNCHANGED <<pc, stored>>
    /\ UNCHANGED <<func, lock, fds, failures, thrown>>

\* The disk is full: what has arrived stays, the file is closed and func goes on.
FWriteFails(p) ==
    /\ pc[p] = "write" /\ failures < MaxFailures
    /\ failures' = failures + 1
    /\ stored' = file
    /\ Goto(p, "leave")
    /\ UNCHANGED <<func, lock, fds, file, thrown>>

\* content = buf: a string that ends at the first zero.  There may be no memory for buf.
FRead(p) ==
    /\ pc[p] = "read"
    /\ LET n == IF size[p] < Len(file) THEN size[p] ELSE Len(file) IN
        \/ UNCHANGED result
        \/ result' = [result EXCEPT ![p] = Text!CString(SubSeq(file, 1, n))]
    /\ size' = [size EXCEPT ![p] = 0]
    /\ Goto(p, "leave")
    /\ UNCHANGED <<content, lock, fds, file, stored, failures, thrown>>

LeaveLocked(p) ==
    /\ pc[p] = "leave"
    /\ Over(p, "idle")
    /\ UNCHANGED <<size, result, lock, fds, file, stored, failures, thrown>>

\* flock(fd, LOCK_UN); fd stays open.
Leave(p) ==
    /\ pc[p] = "leave"
    /\ lock' = None
    /\ Over(p, "idle")
    /\ UNCHANGED <<size, result, fds, file, stored, failures, thrown>>

\* func throws once it has read or written: the caller catches, the lock stays.
Throw(p) ==
    /\ pc[p] = "leave"
    /\ thrown' = thrown \cup {p}
    /\ Over(p, "idle")
    /\ UNCHANGED <<size, result, lock, fds, file, stored, failures>>

\* The kernel closes what a dead process had open.
Crash(p) ==
    /\ pc[p] # "down" /\ failures < MaxFailures
    /\ failures' = failures + 1
    /\ lock' = (IF lock = p THEN None ELSE lock) /\ thrown' = thrown \ {p}
    /\ fds' = [fds EXCEPT ![p] = 0]
    /\ stored' = IF pc[p] = "write" THEN file ELSE stored
    /\ result' = [result EXCEPT ![p] = <<>>]
    /\ Over(p, "down")
    /\ size' = [size EXCEPT ![p] = 0] /\ UNCHANGED file

Restart(p) ==
    /\ pc[p] = "down"
    /\ Goto(p, "idle")
    /\ UNCHANGED <<func, lock, fds, file, stored, failures, thrown>>

Exhausted(p) == pc[p] = "idle" /\ fds[p] = MaxFds
Finished == (\A p \in Procs : Exhausted(p)) /\ UNCHANGED vars

Call(p) == Flock(p) \/ FOpen(p) \/ FWrite(p) \/ FRead(p) \/ Leave(p)

Fail(p) == FlockFails(p) \/ FWriteFails(p) \/ Throw(p) \/ Crash(p)

Next == \/ \E p \in Procs : Open(p) \/ Call(p) \/ Fail(p) \/ Restart(p)
        \/ Finished

Spec == Init /\ [][Next]_vars

\* A process runs on, and the kernel gives a free lock to whoever waits for it.
FairSpec == Spec /\ \A p \in Procs : WF_vars(Call(p))

-----------------------------------------------------------------------------
InFunc(p) == pc[p] \in {"func", "read", "write", "leave"}

TypeOK ==
    /\ pc \in [Procs -> {"idle", "wait", "func", "read", "write", "leave", "down"}]
    /\ content \in [Procs -> Contents \cup {<<>>}]
    /\ lock \in Procs \cup {None} /\ fds \in [Procs -> Int] /\ failures \in Nat
    /\ thrown \subseteq Procs
    /\ file \in Seq(Blocks) /\ stored \in Seq(Blocks)
    /\ size \in [Procs -> Nat] /\ DOMAIN result = Procs

\* Whoever runs func has the lock, ...
Alone == \A p \in Procs : InFunc(p) => lock = p

\* ... and so has a process whose func has thrown, though it runs none.
Idle == \A p \in thrown : lock = p /\ ~InFunc(p)

\* While the file is not being written it is what was stored last, and it has the size
\* that its reader found; while it is, it is the beginning of what its writer writes.
Whole ==
    /\ (\A p \in Procs : pc[p] # "write") => file = stored
    /\ \A p \in Procs : pc[p] = "read" => size[p] = Len(file)
    /\ \A p \in Procs : pc[p] = "write" =>
          /\ content[p] \in Contents
          /\ Len(file) < Len(content[p])
          /\ file = SubSeq(content[p], 1, Len(file))

IInv == TypeOK /\ Alone /\ Idle /\ Whole

Up == {p \in Procs : pc[p] # "down"}

SF == INSTANCE StoredFile WITH value <- stored, up <- Up

\* Under lock_file reads and writes of the file are whole: a read that succeeds gives what
\* was written last, up to its first zero byte, and only a crash in the middle of
\* file_write, or a write that fails on a full disk, leaves a part of a content.
ReadsWhole == SF!Spec

\* Whoever waits for the lock goes on, unless a func has thrown in a process that still
\* has the lock: calls that end, fail or die with their process let the next one in.
WaitersServed ==
    \A p \in Procs : pc[p] = "wait" ~> pc[p] # "wait" \/ \E q \in thrown : lock = q

\* Once func has thrown, nobody runs a func again, its own process included, before
\* that process is gone.
ThrowShutsOut ==
    [][\A p \in thrown : pc'[p] # "down" =>
           lock' = p /\ \A q \in Procs : ~InFunc(q)']_vars
=============================================================================
