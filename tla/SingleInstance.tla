--------------------------- MODULE SingleInstance ---------------------------
(***************************************************************************)
(* utils::Process and the start of chat_server: any number of servers are  *)
(* started on one lock file, as daemons or not, with and without -f, and   *)
(* each may end at any time.                                               *)
(*                                                                         *)
(* The kernel's part is the lock of the file, which belongs to a process   *)
(* and goes with it, the port, the process numbers, and SIGKILL, which the *)
(* process it is sent to may outlive for a while.  A server that forks     *)
(* goes on as the child: its parent does nothing but exit.                 *)
(***************************************************************************)
EXTENDS Naturals, FiniteSets

CONSTANTS
  Server,    \* the times that chat_server is started
  Daemon,    \* started with -d
  Forced,    \* started with -f
  Pid,       \* process numbers
  NoPid,     \* 0, the number of no process
  None,
  Attempts,  \* how often BecomeSigleInstance tries, 20
  PidReuse   \* the kernel gives numbers again whose process has ended

ASSUME InstanceAssumption ==
  /\ Daemon \subseteq Server /\ Forced \subseteq Server
  /\ None \notin Server /\ Pid \subseteq Nat /\ NoPid \notin Pid
  /\ Attempts \in Nat \ {0}
  /\ PidReuse \in BOOLEAN

VARIABLES
  phase,            \* what a server does next
  attempt_counter,
  l_pid,            \* lock.l_pid as F_GETLK left it
  \* the kernel
  pid,              \* the number of each living server
  used,             \* the numbers given so far
  locker,           \* the process that has locked the file
  port,             \* the process whose socket is bound to the port
  signalled,        \* those that were sent SIGKILL and still live
  \* history
  asked,            \* the process that F_GETLK named to each server
  kills             \* <<named, hit>> for each process hit by a signal

kernel == <<pid, used, locker, port, signalled>>
history == <<asked, kills>>
vars == <<phase, attempt_counter, l_pid, kernel, history>>

Phase == {"new", "fork1", "fork2", "open", "lock", "getlk", "kill", "sleep",
          "bind", "serve", "error", "ended"}
Alive(p) == phase[p] \notin {"new", "error", "ended"}

TypeOK ==
  /\ phase \in [Server -> Phase]
  /\ attempt_counter \in [Server -> 0..Attempts]
  /\ l_pid \in [Server -> Pid \union {NoPid}]
  /\ pid \in [Server -> Pid \union {NoPid}]
  /\ used \subseteq Pid
  /\ locker \in Server \union {None}
  /\ port \in Server \union {None}
  /\ signalled \subseteq Server
  /\ asked \in [Server -> Server \union {None}]
  /\ kills \subseteq Server \X Server

Init ==
  /\ phase = [p \in Server |-> "new"]
  /\ attempt_counter = [p \in Server |-> 0]
  /\ l_pid = [p \in Server |-> NoPid]
  /\ pid = [p \in Server |-> NoPid]
  /\ used = {}
  /\ locker = None
  /\ port = None
  /\ signalled = {}
  /\ asked = [p \in Server |-> None]
  /\ kills = {}

-----------------------------------------------------------------------------
(* The kernel.                                                             *)

\* A new process goes on as p.  Numbers are given in order, and a second time
\* when they have all been given.
NewProcess(p) ==
  \E n \in Pid :
    /\ \A q \in Server : pid[q] # n
    /\ PidReuse \/ (n \notin used /\ \A m \in Pid \ used : n <= m)
    /\ pid' = [pid EXCEPT ![p] = n]
    /\ used' = used \union {n}

\* The locks of a process go with it: a child does not inherit them.
Released(p) == IF locker = p THEN None ELSE locker

\* The processes that kill() sends the signal to: 0 stands for the group of
\* the caller.
Targets(p, n) == IF n = NoPid THEN {p} ELSE {q \in Server : pid[q] = n}

\* The process of p ends.  The lock file has a lower descriptor than the
\* socket and is closed first: the port may be taken for some time yet.
Gone(p, how) ==
  /\ phase' = [phase EXCEPT ![p] = how]
  /\ pid' = [pid EXCEPT ![p] = NoPid]
  /\ locker' = Released(p)
  /\ signalled' = signalled \ {p}
  /\ UNCHANGED <<attempt_counter, l_pid, used, port, history>>

\* By the error of another call, by a signal, or at the end of main.
Ends(p) == Alive(p) /\ Gone(p, "ended")

Dies(p) == p \in signalled /\ Gone(p, "ended")

Closes(p) ==
  /\ port = p /\ ~Alive(p)
  /\ port' = None
  /\ UNCHANGED <<phase, attempt_counter, l_pid, pid, used, locker, signalled, history>>

-----------------------------------------------------------------------------
(* main, from the options to Run().                                        *)

\* Faulty variant: the lock is taken before the process becomes a daemon.
AfterLockFirst(p, step) ==
  CASE step = "start" -> "open"
    [] step = "lock" -> IF p \in Daemon THEN "fork1" ELSE "bind"
    [] step = "fork" -> "bind"

\* The order in which main calls BecomeDaemon and BecomeSigleInstance.
After(p, step) ==
  CASE step = "start" -> IF p \in Daemon THEN "fork1" ELSE "open"
    [] step = "fork" -> "open"
    [] step = "lock" -> "bind"

Goto(p, next) == phase' = [phase EXCEPT ![p] = next]

Start(p) ==
  /\ phase[p] = "new"
  /\ NewProcess(p)
  /\ Goto(p, After(p, "start"))
  /\ UNCHANGED <<attempt_counter, l_pid, locker, port, signalled, history>>

\* Each of BecomeDaemon's forks.
Fork(p) ==
  /\ phase[p] \in {"fork1", "fork2"}
  /\ NewProcess(p)
  /\ locker' = Released(p)
  /\ signalled' = signalled \ {p}
  /\ Goto(p, IF phase[p] = "fork1" THEN "fork2" ELSE After(p, "fork"))
  /\ UNCHANGED <<attempt_counter, l_pid, port, history>>

-----------------------------------------------------------------------------
(* Process::BecomeSigleInstance.                                           *)

Open(p) ==
  /\ phase[p] = "open"
  /\ Goto(p, "lock")
  /\ attempt_counter' = [attempt_counter EXCEPT ![p] = 0]
  /\ UNCHANGED <<l_pid, kernel, history>>

\* Faulty variant: one attempt more.
TryingOnceMore(p) == phase[p] = "lock" /\ attempt_counter[p] <= Attempts

Trying(p) == phase[p] = "lock" /\ attempt_counter[p] < Attempts

\* Lock() succeeds.
Lock(p) ==
  /\ Trying(p)
  /\ locker \in {None, p}
  /\ locker' = p
  /\ Goto(p, After(p, "lock"))
  /\ UNCHANGED <<attempt_counter, l_pid, pid, used, port, signalled, history>>

\* Faulty variants: the server waits for the lock, whoever has it; nobody is
\* closed.
RefusedWaits(p) ==
  /\ Trying(p)
  /\ locker \notin {None, p}
  /\ Goto(p, IF p \in Forced THEN "getlk" ELSE "lock")
  /\ UNCHANGED <<attempt_counter, l_pid, kernel, history>>

RefusedSleeps(p) ==
  /\ Trying(p)
  /\ locker \notin {None, p}
  /\ Goto(p, IF p \in Forced THEN "sleep" ELSE "error")
  /\ UNCHANGED <<attempt_counter, l_pid, kernel, history>>

\* Lock() fails: a forced start goes for the locker, another is an error.
Refused(p) ==
  /\ Trying(p)
  /\ locker \notin {None, p}
  /\ IF p \in Forced
     THEN Goto(p, "getlk") /\ UNCHANGED <<attempt_counter, l_pid, kernel, history>>
     ELSE Gone(p, "error")

\* Faulty variant: l_type is not looked at.
GetLockUnchecked(p) ==
  /\ phase[p] = "getlk"
  /\ IF locker \in {None, p}
     THEN l_pid' = [l_pid EXCEPT ![p] = NoPid] /\ UNCHANGED asked
     ELSE /\ l_pid' = [l_pid EXCEPT ![p] = pid[locker]]
          /\ asked' = [asked EXCEPT ![p] = locker]
  /\ Goto(p, "kill")
  /\ UNCHANGED <<attempt_counter, kernel, kills>>

\* KillLockerProcess up to F_GETLK: by now nobody may have the lock.
GetLock(p) ==
  /\ phase[p] = "getlk"
  /\ IF locker \in {None, p}
     THEN Goto(p, "sleep") /\ UNCHANGED <<l_pid, asked>>
     ELSE /\ l_pid' = [l_pid EXCEPT ![p] = pid[locker]]
          /\ asked' = [asked EXCEPT ![p] = locker]
          /\ Goto(p, "kill")
  /\ UNCHANGED <<attempt_counter, kernel, kills>>

\* The rest of it: there may be no process of that number any more.
Kill(p) ==
  /\ phase[p] = "kill"
  /\ LET hit == Targets(p, l_pid[p])
     IN /\ signalled' = signalled \union hit
        /\ kills' = kills \union ({asked[p]} \X hit)
  /\ Goto(p, "sleep")
  /\ UNCHANGED <<attempt_counter, l_pid, pid, used, locker, port, asked>>

Sleep(p) ==
  /\ phase[p] = "sleep"
  /\ attempt_counter' = [attempt_counter EXCEPT ![p] = @ + 1]
  /\ Goto(p, "lock")
  /\ UNCHANGED <<l_pid, kernel, history>>

\* After the last attempt the lock is not tried again.
GiveUp(p) ==
  /\ phase[p] = "lock" /\ attempt_counter[p] = Attempts
  /\ Gone(p, "error")

-----------------------------------------------------------------------------
(* TcpConnectionReceiver::Bind, the last step before Run().  SO_REUSEADDR  *)
(* does not help against a socket that still listens.                      *)

BindOk(p) ==
  /\ phase[p] = "bind" /\ port = None
  /\ port' = p
  /\ Goto(p, "serve")
  /\ UNCHANGED <<attempt_counter, l_pid, pid, used, locker, signalled, history>>

BindFails(p) == phase[p] = "bind" /\ port # None /\ Gone(p, "error")

-----------------------------------------------------------------------------

Step(p) ==
  \/ Fork(p) \/ Open(p) \/ Lock(p) \/ Refused(p)
  \/ GetLock(p) \/ Kill(p) \/ Sleep(p) \/ GiveUp(p)
  \/ BindOk(p) \/ BindFails(p)

Next ==
  \E p \in Server : Start(p) \/ Step(p) \/ Ends(p) \/ Dies(p) \/ Closes(p)

Spec == Init /\ [][Next]_vars

(***************************************************************************)
(* Processes are scheduled, and SIGKILL is delivered in the end.  Nobody   *)
(* has to start a server, and none has to end of its own.                  *)
(***************************************************************************)
FairSpec == Spec /\ \A p \in Server : WF_vars(Step(p)) /\ WF_vars(Dies(p))

-----------------------------------------------------------------------------

(***************************************************************************)
(* At most one server gets past BecomeSigleInstance at a time, and it has  *)
(* the lock, although locks do not survive a fork, forced starts overtake  *)
(* each other, and a server that was sent SIGKILL runs on for a while; the *)
(* one that serves has the port as well, which lags behind the lock when a *)
(* server ends (Process.cpp:47-56, 86-110, chat_server.cpp:29-48).         *)
(***************************************************************************)
OneInstance ==
  \A p \in Server : /\ phase[p] \in {"bind", "serve"} => locker = p
                    /\ phase[p] = "serve" => port = p

(***************************************************************************)
(* A process that is hit by the signal is the one that F_GETLK named, even *)
(* when it has lost the lock or ended since then; never the starter itself *)
(* (Process.cpp:113-131).  This takes a kernel that does not give the      *)
(* number of a process to another in the meantime.                         *)
(***************************************************************************)
LockerIsHit == \A k \in kills : k[1] = k[2]

(***************************************************************************)
(* Every start comes to an end: the server serves or gives up, whatever    *)
(* the other ones do (Process.cpp:86-100).                                 *)
(***************************************************************************)
StartEnds ==
  \A p \in Server :
    Alive(p) ~> phase[p] \in {"serve", "error", "ended"}

(***************************************************************************)
(* README, -f: a server that is running when a forced start first tries    *)
(* the lock is closed in the end, even if the start then fails, unless it  *)
(* ends before it could send the signal (Process.cpp:92-94, 113-135).      *)
(***************************************************************************)
RunningIsClosed ==
  \A p, q \in Server :
    p # q /\ p \in Forced /\ phase[p] = "lock" /\ attempt_counter[p] = 0
          /\ phase[q] = "serve"
      ~> phase[q] = "ended" \/ (phase[p] = "ended" /\ <<q, q>> \notin kills)
=============================================================================
