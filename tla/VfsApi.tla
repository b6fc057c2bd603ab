-------------------------------- MODULE VfsApi --------------------------------
(***************************************************************************)
(* What a client of the VFS sees: handles on mounted volumes.  A call is    *)
(* invoked, takes effect at one instant, and answers.  The specification    *)
(* has no descriptor table, no counters, no mutexes and no drivers; module *)
(* Vfs implements it (see VfsProperties and VfsApiProofs).                 *)
(***************************************************************************)
EXTENDS Naturals

CONSTANTS Tasks, Mounts, NoMount, Fds, Dirs, Answers

VARIABLES
  mounted,      \* the volumes in the name space
  files,        \* descriptor -> the volume of its open file, or NoMount
  streams,      \* directory stream -> the volume it is open on, or NoMount
  answer        \* task -> the answer to its last call, "none" inside a call

apiVars == <<mounted, files, streams, answer>>

Init ==
  /\ mounted = {}
  /\ files = [f \in Fds |-> NoMount]
  /\ streams = [d \in Dirs |-> NoMount]
  /\ answer = [t \in Tasks |-> "ok"]

Busy(m) == \/ \E f \in Fds : files[f] = m
           \/ \E d \in Dirs : streams[d] = m

Answer(t, code) == answer' = [answer EXCEPT ![t] = code]

\* A call begins.  A close or closedir gives its handle up at once, whatever
\* the driver answers later; no other call touches a handle before it answers.
Invoke(t) ==
  /\ answer[t] # "none"
  /\ Answer(t, "none")
  /\ \/ UNCHANGED <<mounted, files, streams>>
     \/ \E f \in Fds : /\ files[f] # NoMount
                       /\ files' = [files EXCEPT ![f] = NoMount]
                       /\ UNCHANGED <<mounted, streams>>
     \/ \E d \in Dirs : /\ streams[d] # NoMount
                        /\ streams' = [streams EXCEPT ![d] = NoMount]
                        /\ UNCHANGED <<mounted, files>>

\* The arguments are refused on sight (or vfs_lseek only moves the position).
Refuse(t) ==
  /\ answer[t] # "none"
  /\ \E code \in {"EBADF", "EINVAL", "ok"} : Answer(t, code)
  /\ UNCHANGED <<mounted, files, streams>>

\* open succeeds: on a mounted volume, with a descriptor that was free.
Open(t) ==
  /\ answer[t] = "none"
  /\ \E f \in Fds, m \in mounted : /\ files[f] = NoMount
                                   /\ files' = [files EXCEPT ![f] = m]
  /\ Answer(t, "ok")
  /\ UNCHANGED <<mounted, streams>>

Opendir(t) ==
  /\ answer[t] = "none"
  /\ \E d \in Dirs, m \in mounted : /\ streams[d] = NoMount
                                    /\ streams' = [streams EXCEPT ![d] = m]
  /\ Answer(t, "ok")
  /\ UNCHANGED <<mounted, files>>

Mount(t) ==
  /\ answer[t] = "none"
  /\ \E m \in Mounts \ mounted : mounted' = mounted \cup {m}
  /\ Answer(t, "ok")
  /\ UNCHANGED <<files, streams>>

\* A volume is unmounted only when no handle is open on it.
Umount(t) ==
  /\ answer[t] = "none"
  /\ \E m \in mounted : ~Busy(m) /\ mounted' = mounted \ {m}
  /\ Answer(t, "ok")
  /\ UNCHANGED <<files, streams>>

\* Every other answer leaves the handles and the name space as they were.
\* ENFILE means that every descriptor is in use, EBUSY that some volume is
\* mounted.
Other(t) ==
  /\ answer[t] = "none"
  /\ \E code \in Answers :
       /\ code = "ENFILE" => \A f \in Fds : files[f] # NoMount
       /\ code = "EBUSY" => mounted # {}
       /\ code \in {"EROFS", "EXDEV", "EPERM"} => mounted # {}
       /\ Answer(t, code)
  /\ UNCHANGED <<mounted, files, streams>>

Next == \E t \in Tasks : \/ Invoke(t) \/ Refuse(t) \/ Open(t) \/ Opendir(t)
                         \/ Mount(t) \/ Umount(t) \/ Other(t)

Spec == Init /\ [][Next]_apiVars
=============================================================================
