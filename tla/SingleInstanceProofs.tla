------------------------ MODULE SingleInstanceProofs ------------------------
(***************************************************************************)
(* Proofs about SingleInstance, for any number of servers, of which any    *)
(* may be daemons or forced, and any number of attempts.                   *)
(***************************************************************************)
EXTENDS SingleInstance, TLAPS

-----------------------------------------------------------------------------
(* The inductive invariants.                                               *)

\* An attempt that is going on is one of the Attempts.
AttemptsLeft ==
  \A p \in Server :
    phase[p] \in {"getlk", "kill", "sleep"} => attempt_counter[p] < Attempts

\* The numbers of the processes.
PidsOwned ==
  /\ \A p \in Server : Alive(p) => pid[p] # NoPid
  /\ \A p \in Server : pid[p] # NoPid => pid[p] \in used
  /\ locker # None => pid[locker] # NoPid

\* Between F_GETLK and kill() the number stands for the process that was
\* named, or for none.
Named(p) ==
  /\ l_pid[p] \in used
  /\ asked[p] \in Server
  /\ \A q \in Server : pid[q] = l_pid[p] => q = asked[p]

NamesMatch == \A p \in Server : phase[p] = "kill" => Named(p)

PidsDiffer ==
  \A p, q \in Server : pid[p] = pid[q] /\ pid[p] # NoPid => p = q

\* A signal is only sent when F_GETLK has named a process.
KillerAsked == \A p \in Server : phase[p] = "kill" => asked[p] \in Server

TInv == TypeOK /\ AttemptsLeft /\ KillerAsked

IInv == TInv /\ PidsOwned /\ PidsDiffer /\ NamesMatch

-----------------------------------------------------------------------------
(* Types.                                                                  *)

\* Where main goes is a phase, and no phase of an attempt.
LEMMA AfterType ==
  ASSUME NEW p, NEW step \in {"start", "fork", "lock"}
  PROVE  After(p, step) \in {"fork1", "open", "bind"}
         /\ (step # "lock" => After(p, step) # "bind")
BY DEF After

\* The end of a process keeps the types.
LEMMA GoneType ==
  ASSUME TInv, NEW p \in Server, NEW how \in {"error", "ended"}, Gone(p, how)
  PROVE  TInv'
<1> USE DEF TInv, TypeOK, Gone, Released, history
<1>1. TypeOK'
  BY DEF Phase
<1>2. AttemptsLeft' /\ KillerAsked'
  BY DEF AttemptsLeft, KillerAsked
<1> QED BY <1>1, <1>2

\* Every step keeps the types.
LEMMA TypeStep ==
  ASSUME InstanceAssumption, TInv, [Next]_vars
  PROVE  TInv'
<1> USE DEF TInv, TypeOK, Phase, kernel, history
<1>1. ASSUME NEW p \in Server, Start(p) PROVE TInv'
  <2>1. PICK n \in Pid : pid' = [pid EXCEPT ![p] = n] /\ used' = used \union {n}
    BY <1>1 DEF Start, NewProcess
  <2>2. phase' = [phase EXCEPT ![p] = After(p, "start")]
    BY <1>1 DEF Start, Goto
  <2>3. TypeOK'
    BY <1>1, <2>1, <2>2, AfterType DEF Start
  <2>4. AttemptsLeft' /\ KillerAsked'
    BY <1>1, <2>2, AfterType DEF Start, AttemptsLeft, KillerAsked
  <2> QED BY <2>3, <2>4
<1>2. ASSUME NEW p \in Server, Fork(p) PROVE TInv'
  <2>1. PICK n \in Pid : pid' = [pid EXCEPT ![p] = n] /\ used' = used \union {n}
    BY <1>2 DEF Fork, NewProcess
  <2>2. PICK next \in {"fork1", "fork2", "open", "bind"} :
          phase' = [phase EXCEPT ![p] = next]
    BY <1>2, AfterType DEF Fork, Goto
  <2>3. TypeOK'
    BY <1>2, <2>1, <2>2 DEF Fork, Released
  <2>4. AttemptsLeft' /\ KillerAsked'
    BY <1>2, <2>2 DEF Fork, AttemptsLeft, KillerAsked
  <2> QED BY <2>3, <2>4
<1>3. ASSUME NEW p \in Server, Open(p) PROVE TInv'
  BY <1>3 DEF Open, Goto, AttemptsLeft, KillerAsked, InstanceAssumption
<1>4. ASSUME NEW p \in Server, Lock(p) PROVE TInv'
  <2>1. PICK next \in {"fork1", "open", "bind"} :
          phase' = [phase EXCEPT ![p] = next]
    BY <1>4, AfterType DEF Lock, Goto
  <2> QED BY <1>4, <2>1 DEF Lock, AttemptsLeft, KillerAsked
<1>5. ASSUME NEW p \in Server, Refused(p) PROVE TInv'
  <2>1. CASE p \in Forced
    BY <1>5, <2>1 DEF Refused, Trying, Goto, AttemptsLeft, KillerAsked
  <2>2. CASE p \notin Forced
    BY <1>5, <2>2, GoneType DEF Refused
  <2> QED BY <2>1, <2>2
<1>6. ASSUME NEW p \in Server, GetLock(p) PROVE TInv'
  BY <1>6 DEF GetLock, Goto, AttemptsLeft, KillerAsked
<1>7. ASSUME NEW p \in Server, Kill(p) PROVE TInv'
  <2>1. Targets(p, l_pid[p]) \subseteq Server
    BY DEF Targets
  <2>2. asked[p] \in Server
    BY <1>7 DEF Kill, KillerAsked
  <2>3. TypeOK'
    BY <1>7, <2>1, <2>2 DEF Kill, Goto
  <2>4. AttemptsLeft' /\ KillerAsked'
    BY <1>7 DEF Kill, Goto, AttemptsLeft, KillerAsked
  <2> QED BY <2>3, <2>4
<1>8. ASSUME NEW p \in Server, Sleep(p) PROVE TInv'
  <2>1. attempt_counter[p] + 1 \in 0..Attempts
    BY <1>8 DEF Sleep, AttemptsLeft, InstanceAssumption
  <2> QED BY <1>8, <2>1 DEF Sleep, Goto, AttemptsLeft, KillerAsked
<1>9. ASSUME NEW p \in Server, BindFails(p) \/ GiveUp(p) \/ Ends(p) \/ Dies(p) PROVE TInv'
  BY <1>9, GoneType DEF BindFails, GiveUp, Ends, Dies
<1>10. ASSUME NEW p \in Server, BindOk(p) \/ Closes(p) PROVE TInv'
  BY <1>10 DEF BindOk, Closes, Goto, AttemptsLeft, KillerAsked
<1>11. CASE UNCHANGED vars
  BY <1>11 DEF vars, AttemptsLeft, KillerAsked
<1> QED BY <1>1, <1>2, <1>3, <1>4, <1>5, <1>6, <1>7, <1>8, <1>9, <1>10, <1>11
        DEF Next, Step

\* The types of the servers and of the kernel's part, whatever the numbers
\* of the processes are.
THEOREM InstanceTypeCorrect == InstanceAssumption => (Spec => []TypeOK)
<1> SUFFICES ASSUME InstanceAssumption PROVE Spec => []TypeOK
  OBVIOUS
<1>1. Init => TInv
  BY DEF Init, TInv, TypeOK, AttemptsLeft, KillerAsked, Phase,
         InstanceAssumption
<1>2. TInv /\ [Next]_vars => TInv'
  BY TypeStep
<1> QED BY <1>1, <1>2, PTL DEF Spec, TInv

-----------------------------------------------------------------------------
(* One instance.                                                           *)

\* The end of a process takes the lock from nobody else.
LEMMA GoneOne ==
  ASSUME TypeOK, OneInstance, NEW p \in Server, NEW how \in {"error", "ended"},
         Gone(p, how)
  PROVE  OneInstance'
<1> SUFFICES ASSUME NEW q \in Server, phase'[q] \in {"bind", "serve"}
             PROVE  locker' = q /\ (phase'[q] = "serve" => port' = q)
  BY DEF OneInstance
<1>1. phase' = [phase EXCEPT ![p] = how] /\ port' = port
  BY DEF Gone
<1>2. q # p /\ phase'[q] = phase[q]
  BY <1>1 DEF TypeOK
<1>3. locker = q /\ (phase[q] = "serve" => port = q)
  BY <1>2 DEF OneInstance
<1> QED BY <1>1, <1>2, <1>3 DEF Gone, Released

\* At most one server serves, and it has the lock and the port.
THEOREM InstanceOne == InstanceAssumption => (Spec => []OneInstance)
<1> SUFFICES ASSUME InstanceAssumption PROVE Spec => []OneInstance
  OBVIOUS
<1> USE DEF OneInstance, kernel
<1>1. Init => OneInstance
  BY DEF Init
<1>2. TypeOK /\ OneInstance /\ [Next]_vars => OneInstance'
  <2> SUFFICES ASSUME TypeOK, OneInstance, [Next]_vars PROVE OneInstance'
    OBVIOUS
  <2> USE DEF TypeOK
  <2>1. ASSUME NEW p \in Server, Start(p) PROVE OneInstance'
    BY <2>1, AfterType DEF Start, Goto
  <2>2. ASSUME NEW p \in Server, Fork(p) PROVE OneInstance'
    BY <2>2, AfterType DEF Fork, Goto, Released
  <2>3. ASSUME NEW p \in Server, Lock(p) PROVE OneInstance'
    <3>1. \A q \in Server : q # p => phase[q] \notin {"bind", "serve"}
      BY <2>3 DEF Lock, InstanceAssumption
    <3>2. phase'[p] # "serve"
      BY <2>3, AfterType DEF Lock, Goto
    <3> QED BY <2>3, <3>1, <3>2 DEF Lock, Goto
  <2>4. ASSUME NEW p \in Server, Refused(p) PROVE OneInstance'
    BY <2>4, GoneOne DEF Refused, Goto
  <2>5. ASSUME NEW p \in Server,
               Open(p) \/ GetLock(p) \/ Kill(p) \/ Sleep(p)
        PROVE  OneInstance'
    BY <2>5 DEF Open, GetLock, Kill, Sleep, Goto
  <2>6. ASSUME NEW p \in Server, BindFails(p) \/ GiveUp(p) \/ Ends(p) \/ Dies(p)
        PROVE  OneInstance'
    BY <2>6, GoneOne DEF BindFails, GiveUp, Ends, Dies
  <2>7. ASSUME NEW p \in Server, BindOk(p) PROVE OneInstance'
    <3>1. \A q \in Server : phase[q] # "serve"
      BY <2>7 DEF BindOk, InstanceAssumption
    <3> QED BY <2>7, <3>1 DEF BindOk, Goto
  <2>8. ASSUME NEW p \in Server, Closes(p) PROVE OneInstance'
    BY <2>8 DEF Closes, Alive
  <2>9. CASE UNCHANGED vars
    BY <2>9 DEF vars
  <2> QED BY <2>1, <2>2, <2>3, <2>4, <2>5, <2>6, <2>7, <2>8, <2>9 DEF Next, Step
<1>3. Spec => []TypeOK
  BY InstanceTypeCorrect
<1> QED BY <1>1, <1>2, <1>3, PTL DEF Spec

-----------------------------------------------------------------------------
(* The signal.                                                             *)

\* A process that starts or forks gets a number that stands for no other one.
LEMMA NewNumber ==
  ASSUME InstanceAssumption, ~PidReuse, IInv, NEW p \in Server, NewProcess(p),
         locker' \in {locker, None}, NEW next, phase' = [phase EXCEPT ![p] = next],
         next # "kill", UNCHANGED <<l_pid, asked>>
  PROVE  PidsOwned' /\ PidsDiffer' /\ NamesMatch'
<1> USE DEF IInv, TInv, TypeOK
<1>1. PICK n \in Pid : /\ n \notin used
                       /\ pid' = [pid EXCEPT ![p] = n]
                       /\ used' = used \union {n}
  BY DEF NewProcess
<1>2. n # NoPid
  BY DEF InstanceAssumption
<1>3. PidsOwned'
  BY <1>1, <1>2 DEF PidsOwned, Alive
<1>4. PidsDiffer'
  BY <1>1, <1>2 DEF PidsOwned, PidsDiffer
<1>5. NamesMatch'
  <2> SUFFICES ASSUME NEW r \in Server, phase'[r] = "kill" PROVE Named(r)'
    BY DEF NamesMatch
  <2>1. r # p /\ Named(r)
    BY DEF NamesMatch
  <2> QED BY <1>1, <2>1 DEF Named
<1> QED BY <1>3, <1>4, <1>5

\* The number of a process that ends stands for none.
LEMMA NumberGone ==
  ASSUME InstanceAssumption, IInv, NEW p \in Server,
         NEW how \in {"error", "ended"}, Gone(p, how)
  PROVE  PidsOwned' /\ PidsDiffer' /\ NamesMatch'
<1> USE DEF IInv, TInv, TypeOK, Gone, history
<1>1. PidsOwned'
  BY DEF PidsOwned, Alive, Released
<1>2. PidsDiffer'
  BY DEF PidsDiffer
<1>3. NamesMatch'
  <2> SUFFICES ASSUME NEW r \in Server, phase'[r] = "kill" PROVE Named(r)'
    BY DEF NamesMatch
  <2>1. r # p /\ Named(r)
    BY DEF NamesMatch
  <2>2. l_pid[r] # NoPid
    BY <2>1 DEF Named, InstanceAssumption
  <2> QED BY <2>1, <2>2 DEF Named
<1> QED BY <1>1, <1>2, <1>3

\* A step that leaves the numbers alone and names no locker.
LEMMA NumberKept ==
  ASSUME IInv, NEW p \in Server, Alive(p), NEW next,
         phase' = [phase EXCEPT ![p] = next], next # "kill",
         locker' \in {locker, p}, UNCHANGED <<l_pid, asked, pid, used>>
  PROVE  PidsOwned' /\ PidsDiffer' /\ NamesMatch'
<1> USE DEF IInv, TInv, TypeOK
<1>1. PidsOwned'
  BY DEF PidsOwned, Alive
<1>2. PidsDiffer'
  BY DEF PidsDiffer
<1>3. NamesMatch'
  BY DEF NamesMatch, Named
<1> QED BY <1>1, <1>2, <1>3

\* F_GETLK names the locker by the number that only it has.
LEMMA LockerNamed ==
  ASSUME InstanceAssumption, IInv, NEW p \in Server, GetLock(p)
  PROVE  PidsOwned' /\ PidsDiffer' /\ NamesMatch'
<1> USE DEF IInv, TInv, TypeOK, kernel
<1>1. Alive(p)
  BY DEF GetLock, Alive
<1>2. CASE locker \in {None, p}
  BY <1>1, <1>2, NumberKept DEF GetLock, Goto
<1>3. CASE locker \notin {None, p}
  <2>1. PidsOwned' /\ PidsDiffer'
    BY <1>1, <1>3 DEF GetLock, Goto, PidsOwned, PidsDiffer, Alive
  <2>2. locker \in Server /\ pid[locker] # NoPid /\ pid[locker] \in used
    BY <1>3 DEF PidsOwned
  <2>3. /\ l_pid' = [l_pid EXCEPT ![p] = pid[locker]]
        /\ asked' = [asked EXCEPT ![p] = locker]
        /\ phase' = [phase EXCEPT ![p] = "kill"]
        /\ pid' = pid /\ used' = used
    BY <1>3 DEF GetLock, Goto
  <2>4. Named(p)'
    BY <2>2, <2>3 DEF Named, PidsDiffer
  <2>5. ASSUME NEW r \in Server, r # p, phase'[r] = "kill" PROVE Named(r)'
    BY <2>3, <2>5 DEF Named, NamesMatch
  <2>6. NamesMatch'
    BY <2>4, <2>5 DEF NamesMatch
  <2> QED BY <2>1, <2>6
<1> QED BY <1>2, <1>3

\* Every step keeps the numbers and the names apart.
LEMMA NumberStep ==
  ASSUME InstanceAssumption, ~PidReuse, IInv, [Next]_vars
  PROVE  IInv'
<1>1. TInv'
  BY TypeStep DEF IInv
<1> SUFFICES PidsOwned' /\ PidsDiffer' /\ NamesMatch'
  BY <1>1 DEF IInv
<1> USE DEF kernel, history
<1>2. ASSUME NEW p \in Server, Start(p) PROVE PidsOwned' /\ PidsDiffer' /\ NamesMatch'
  <2>1. After(p, "start") # "kill"
    BY AfterType
  <2> QED BY <1>2, <2>1, NewNumber DEF Start, Goto
<1>3. ASSUME NEW p \in Server, Fork(p) PROVE PidsOwned' /\ PidsDiffer' /\ NamesMatch'
  <2>1. PICK next : next # "kill" /\ phase' = [phase EXCEPT ![p] = next]
    BY <1>3, AfterType DEF Fork, Goto
  <2>2. locker' \in {locker, None}
    BY <1>3 DEF Fork, Released
  <2> QED BY <1>3, <2>1, <2>2, NewNumber DEF Fork
<1>4. ASSUME NEW p \in Server, Open(p) \/ Sleep(p)
      PROVE  PidsOwned' /\ PidsDiffer' /\ NamesMatch'
  BY <1>4, NumberKept DEF Open, Sleep, Goto, Alive
<1>5. ASSUME NEW p \in Server, Lock(p) PROVE PidsOwned' /\ PidsDiffer' /\ NamesMatch'
  <2>1. After(p, "lock") # "kill" /\ Alive(p)
    BY <1>5, AfterType DEF Lock, Trying, Alive
  <2> QED BY <1>5, <2>1, NumberKept DEF Lock, Goto
<1>6. ASSUME NEW p \in Server, Refused(p) PROVE PidsOwned' /\ PidsDiffer' /\ NamesMatch'
  <2>1. Alive(p)
    BY <1>6 DEF Refused, Trying, Alive
  <2> QED BY <1>6, <2>1, NumberKept, NumberGone DEF Refused, Goto
<1>7. ASSUME NEW p \in Server, GetLock(p) PROVE PidsOwned' /\ PidsDiffer' /\ NamesMatch'
  BY <1>7, LockerNamed
<1>8. ASSUME NEW p \in Server, Kill(p) PROVE PidsOwned' /\ PidsDiffer' /\ NamesMatch'
  <2>1. Alive(p)
    BY <1>8 DEF Kill, Alive
  <2> QED BY <1>8, <2>1, NumberKept DEF Kill, Goto
<1>9. ASSUME NEW p \in Server, BindFails(p) \/ GiveUp(p) \/ Ends(p) \/ Dies(p)
      PROVE  PidsOwned' /\ PidsDiffer' /\ NamesMatch'
  BY <1>9, NumberGone DEF BindFails, GiveUp, Ends, Dies
<1>10. ASSUME NEW p \in Server, BindOk(p)
       PROVE  PidsOwned' /\ PidsDiffer' /\ NamesMatch'
  BY <1>10, NumberKept DEF BindOk, Goto, Alive
<1>11. CASE UNCHANGED vars \/ \E p \in Server : Closes(p)
  BY <1>11 DEF vars, Closes, IInv, PidsOwned, PidsDiffer, NamesMatch, Named, Alive
<1> QED BY <1>2, <1>3, <1>4, <1>5, <1>6, <1>7, <1>8, <1>9, <1>10, <1>11
        DEF Next, Step

\* The signal hits the process that F_GETLK named, if the kernel does not
\* give its number to another one.
THEOREM InstanceLockerIsHit ==
  InstanceAssumption /\ ~PidReuse => (Spec => []LockerIsHit)
<1> SUFFICES ASSUME InstanceAssumption, ~PidReuse PROVE Spec => []LockerIsHit
  OBVIOUS
<1>1. Init => IInv /\ LockerIsHit
  BY DEF Init, IInv, TInv, TypeOK, AttemptsLeft, KillerAsked, PidsOwned,
         PidsDiffer, NamesMatch, Alive, Phase, LockerIsHit, InstanceAssumption
<1>2. IInv /\ [Next]_vars => IInv'
  BY NumberStep
<1>3. IInv /\ LockerIsHit /\ [Next]_vars => LockerIsHit'
  <2> SUFFICES ASSUME IInv, LockerIsHit, [Next]_vars PROVE LockerIsHit'
    OBVIOUS
  <2>1. ASSUME NEW p \in Server, Kill(p) PROVE LockerIsHit'
    <3>1. Named(p)
      BY <2>1 DEF Kill, IInv, NamesMatch
    <3>2. l_pid[p] # NoPid
      BY <3>1 DEF Named, IInv, TInv, TypeOK, InstanceAssumption
    <3>3. Targets(p, l_pid[p]) \subseteq {asked[p]}
      BY <3>1, <3>2 DEF Targets, Named
    <3>4. kills' = kills \union ({asked[p]} \X Targets(p, l_pid[p]))
      BY <2>1 DEF Kill
    <3> QED BY <3>3, <3>4 DEF LockerIsHit
  <2>2. ASSUME NEW p \in Server, ~Kill(p), 
               Start(p) \/ Step(p) \/ Ends(p) \/ Dies(p) \/ Closes(p)
        PROVE  kills' = kills
    BY <2>2 DEF Step, Start, Fork, Open, Lock, Refused, GetLock, Sleep, GiveUp,
                BindOk, BindFails, Ends, Dies, Closes, Gone, history
  <2>3. CASE UNCHANGED vars
    BY <2>3 DEF vars, history, LockerIsHit
  <2> QED BY <2>1, <2>2, <2>3 DEF Next, LockerIsHit
<1> QED BY <1>1, <1>2, <1>3, PTL DEF Spec
=============================================================================
