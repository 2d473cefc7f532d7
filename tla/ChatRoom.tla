------------------------------ MODULE ChatRoom ------------------------------
(***************************************************************************)
(* What chat::Server promises its clients, without sockets, descriptors    *)
(* and events: a room of at most Limit members, who come, speak and leave, *)
(* and what each of them hears.  Module ChatServer implements it.          *)
(***************************************************************************)
EXTENDS Naturals, FiniteSets, Sequences

CONSTANTS
  Client,
  Limit,
  Texts,  \* Texts[p]: how many texts p says at most
  Deaf    \* those that may miss a message

VARIABLES
  members,
  joined,  \* how many have ever come
  nick,    \* nick[p]: the number p came as, 0 if it did not come
  said,    \* said[p]: the texts p has said
  inbox    \* inbox[p]: what was sent to p

vars == <<members, joined, nick, said, inbox>>

Info(count) == [kind |-> "info", who |-> 0, n |-> count]
Text(who, n) == [kind |-> "text", who |-> who, n |-> n]
Leave(who) == [kind |-> "leave", who |-> who, n |-> 0]
Lost == [kind |-> "lost", who |-> 0, n |-> 0]

Init ==
  /\ members = {}
  /\ joined = 0
  /\ nick = [p \in Client |-> 0]
  /\ said = [p \in Client |-> 0]
  /\ inbox = [p \in Client |-> <<>>]

Send(targets, msgs) ==
  \E lost \in SUBSET ((targets \intersect Deaf) \X DOMAIN msgs) :
    inbox' = [q \in Client |->
                IF q \in targets
                THEN inbox[q] \o [i \in DOMAIN msgs |->
                       IF <<q, i>> \in lost THEN Lost ELSE msgs[i]]
                ELSE inbox[q]]

Join(p) ==
  /\ nick[p] = 0
  /\ Cardinality(members) < Limit
  /\ members' = members \union {p}
  /\ joined' = joined + 1
  /\ nick' = [nick EXCEPT ![p] = joined']
  /\ Send(members', <<Info(Cardinality(members'))>>)
  /\ UNCHANGED said

\* Texts that come together are passed on together.
Say(p) ==
  /\ p \in members
  /\ \E k \in 1..(Texts[p] - said[p]) :
       /\ said' = [said EXCEPT ![p] = @ + k]
       /\ Send(members \ {p}, [i \in 1..k |-> Text(nick[p], said[p] + i)])
  /\ UNCHANGED <<members, joined, nick>>

Depart(p) ==
  /\ p \in members
  /\ members' = members \ {p}
  /\ Send(members', <<Info(Cardinality(members')), Leave(nick[p])>>)
  /\ UNCHANGED <<joined, nick, said>>

Next == \E p \in Client : Join(p) \/ Say(p) \/ Depart(p)

Spec == Init /\ [][Next]_vars

-----------------------------------------------------------------------------

\* A nick name is given once.
NicksUnique ==
  /\ \A p, q \in Client : nick[p] = nick[q] /\ nick[p] # 0 => p = q
  /\ \A p \in Client : nick[p] <= joined
  /\ \A p \in members : nick[p] # 0

(***************************************************************************)
(* The last count a member was told is the number of members there are     *)
(* now.                                                                    *)
(***************************************************************************)
LastCountIs(q, count) ==
  \E i \in DOMAIN inbox[q] :
    /\ inbox[q][i] = Info(count)
    /\ \A j \in DOMAIN inbox[q] : j > i => inbox[q][j].kind # "info"

CountIsCurrent ==
  \A q \in members \ Deaf : LastCountIs(q, Cardinality(members))

(***************************************************************************)
(* A member can follow who is there: the count goes up by one for one that *)
(* came, and down by one exactly together with a leave message for the one *)
(* that left.                                                              *)
(***************************************************************************)
CountsFollow(q, i, j) ==
  IF j < Len(inbox[q]) /\ inbox[q][j + 1].kind = "leave"
  THEN inbox[q][i].n = inbox[q][j].n + 1
  ELSE inbox[q][j].n = inbox[q][i].n + 1

Infos(q) == {i \in DOMAIN inbox[q] : inbox[q][i].kind = "info"}

CountsMatch(q) ==
  /\ \A i, j \in Infos(q) :
       i < j /\ (\A k \in Infos(q) : k <= i \/ k >= j) => CountsFollow(q, i, j)
  /\ \A i \in DOMAIN inbox[q] : inbox[q][i].kind = "leave" => i - 1 \in Infos(q)

LeavesMatchCounts == \A q \in Client \ Deaf : CountsMatch(q)

(***************************************************************************)
(* The leave message of a member comes after the last of its texts, comes  *)
(* once, and only for one that is gone.                                    *)
(***************************************************************************)
LeaveIsFinal ==
  \A q \in Client : \A i \in DOMAIN inbox[q] :
    inbox[q][i].kind = "leave" =>
      /\ \A j \in DOMAIN inbox[q] : j > i => inbox[q][j].who # inbox[q][i].who
      /\ \A p \in members : nick[p] # inbox[q][i].who

\* Where q heard p, and what.
TextsAt(p, q) ==
  {i \in DOMAIN inbox[q] : inbox[q][i].kind = "text" /\ inbox[q][i].who = nick[p]}
Heard(p, q) == {inbox[q][i].n : i \in TextsAt(p, q)}

(***************************************************************************)
(* What a member hears of another one's texts has no gap, no repetition    *)
(* and no change of order, is up to date while both are there, starts with *)
(* the first text of one that came later, and is never an echo.            *)
(***************************************************************************)
HeardInOrder(p, q) ==
  /\ \A i, j \in TextsAt(p, q) : i < j => inbox[q][i].n < inbox[q][j].n
  /\ \A m, n \in Heard(p, q) : m..n \subseteq Heard(p, q)
  /\ {p, q} \subseteq members =>
       \/ said[p] \in Heard(p, q)
       \/ Heard(p, q) = {} /\ (nick[q] > nick[p] \/ said[p] = 0)
  /\ Heard(p, q) # {} /\ nick[q] < nick[p] => 1 \in Heard(p, q)

TextsInOrder ==
  \A q \in Client \ Deaf :
    nick[q] # 0 =>
      /\ TextsAt(q, q) = {}
      /\ \A p \in Client \ {q} : nick[p] # 0 => HeardInOrder(p, q)
=============================================================================
