------------------------------ MODULE RingSetup ------------------------------
(***************************************************************************)
(* Creation of the two rings of net/pdes-communicator.c by the two         *)
(* processes, which are started together and do not wait for each other,   *)
(* and the messages of the first moments after it.  Ring p is the one that *)
(* p sends on; p opens it first and its peer's second.  The objects        *)
(* outlive the processes: nothing unlinks them, and a later run of the     *)
(* pair finds what an earlier one has left, unless the user removes it.    *)
(*                                                                         *)
(* Sends and receives are the ones of Fifo; the creator's memset clears    *)
(* first the indices, then the slots.                                      *)
(***************************************************************************)
EXTENDS Naturals, Sequences

CONSTANTS
  A, B,       \* the processes
  Capacity,   \* messages a ring holds
  Blank       \* a slot after memset: a message of zeros

CONSTANTS
  MaxRuns,    \* bound: runs of the pair
  MaxSends    \* bound: messages a process sends in a run

ASSUME SetupAssumption ==
  /\ A # B
  /\ Capacity \in Nat \ {0}
  /\ Blank \notin [run : Nat, no : Nat]
  /\ MaxRuns \in Nat /\ MaxSends \in Nat

Procs == {A, B}
Peer(p) == IF p = A THEN B ELSE A

VARIABLES
  run,      \* number of the run
  named,    \* shared-memory objects that exist under their name
  sized,    \* those that ftruncate has given their size
  q,        \* the messages in each ring
  pc,       \* where each process is
  cur,      \* the ring it is opening
  creator,  \* is_creator
  sent,     \* messages it has sent in this run
  log       \* history: what it has received in this run

objects == <<named, sized, q>>
procs   == <<pc, cur, creator, sent, log>>
vars    == <<run, objects, procs>>

Message == [run : Nat, no : Nat] \cup {Blank}

Opening == {"open", "reopen", "size", "map", "clear", "blank"}
States ==
  Opening \cup
  {"up",      \* pdes_comm_create has returned
   "mute",    \* it has returned NULL, which nobody checks
   "bus",     \* killed by SIGBUS: touched an object without a size
   "ended"}   \* exited or killed

TypeOK ==
  /\ run \in Nat
  /\ named \subseteq Procs /\ sized \subseteq Procs
  /\ q \in [Procs -> Seq(Message)] /\ \A r \in Procs : Len(q[r]) <= Capacity
  /\ pc \in [Procs -> States]
  /\ cur \in [Procs -> Procs]
  /\ creator \in [Procs -> BOOLEAN]
  /\ sent \in [Procs -> Nat]
  /\ log \in [Procs -> Seq(Message)]

\* The first run, on a machine without objects of these names.
Init ==
  /\ run = 1
  /\ named = {} /\ sized = {}
  /\ q = [r \in Procs |-> <<>>]
  /\ pc = [p \in Procs |-> "open"]
  /\ cur = [p \in Procs |-> p]
  /\ creator = [p \in Procs |-> FALSE]
  /\ sent = [p \in Procs |-> 0]
  /\ log = [p \in Procs |-> <<>>]

-----------------------------------------------------------------------------
(* pdes_comm_init_ring *)

Goto(p, s) == pc' = [pc EXCEPT ![p] = s]

\* shm_open with O_CREAT | O_EXCL.
Open(p) ==
  /\ pc[p] = "open"
  /\ creator' = [creator EXCEPT ![p] = cur[p] \notin named]
  /\ IF cur[p] \in named
       THEN Goto(p, "reopen") /\ UNCHANGED objects
       ELSE /\ Goto(p, "size")
            /\ named' = named \cup {cur[p]}
            /\ sized' = sized \ {cur[p]}
            /\ q' = [q EXCEPT ![cur[p]] = <<>>]
  /\ UNCHANGED <<run, cur, sent, log>>

\* shm_open of what exists; its creator may have unlinked it since.
Reopen(p) ==
  /\ pc[p] = "reopen"
  /\ Goto(p, IF cur[p] \in named THEN "map" ELSE "mute")
  /\ UNCHANGED <<run, objects, cur, creator, sent, log>>

Size(p) ==
  /\ pc[p] = "size"
  /\ sized' = sized \cup {cur[p]}
  /\ Goto(p, "map")
  /\ UNCHANGED <<run, named, q, cur, creator, sent, log>>

\* The send ring is followed by the receive ring, that by the return of
\* pdes_comm_create.
RingDone(p) ==
  /\ cur' = [cur EXCEPT ![p] = Peer(p)]
  /\ Goto(p, IF cur[p] = p THEN "open" ELSE "up")

\* Mutant: the loop that is commented out, communicator.c:71-76.
MapWaits(p) ==
  /\ pc[p] = "map"
  /\ IF creator[p] THEN Goto(p, "clear") /\ UNCHANGED cur
                   ELSE q[cur[p]] # <<>> /\ RingDone(p)
  /\ UNCHANGED <<run, objects, creator, sent, log>>

\* Mutant: whoever maps the ring clears it.
MapClears(p) ==
  /\ pc[p] = "map"
  /\ Goto(p, "clear")
  /\ UNCHANGED <<run, objects, cur, creator, sent, log>>

\* mmap succeeds whatever the size of the object.
Map(p) ==
  /\ pc[p] = "map"
  /\ IF creator[p] THEN Goto(p, "clear") /\ UNCHANGED cur
                   ELSE RingDone(p)
  /\ UNCHANGED <<run, objects, creator, sent, log>>

\* ftruncate or mmap fails: the creator removes the name again.
Fail(p) ==
  /\ pc[p] \in {"size", "map"}
  /\ named' = IF creator[p] THEN named \ {cur[p]} ELSE named
  /\ Goto(p, "mute")
  /\ UNCHANGED <<run, sized, q, cur, creator, sent, log>>

ClearIndices(p) ==
  /\ pc[p] = "clear"
  /\ q' = [q EXCEPT ![cur[p]] = <<>>]
  /\ Goto(p, "blank")
  /\ UNCHANGED <<run, named, sized, cur, creator, sent, log>>

\* A message that has come in since is overwritten.
ClearSlots(p) ==
  /\ pc[p] = "blank"
  /\ q' = [q EXCEPT ![cur[p]] = [i \in DOMAIN @ |-> Blank]]
  /\ RingDone(p)
  /\ UNCHANGED <<run, named, sized, creator, sent, log>>

CreateStep(p) ==
  \/ Open(p) \/ Reopen(p) \/ Size(p) \/ Map(p)
  \/ ClearIndices(p) \/ ClearSlots(p)

-----------------------------------------------------------------------------
(* pdes_comm_send and pdes_comm_recv of a process that is up.  (One that is *)
(* mute gets -EINVAL from both, and nothing changes.)                       *)

\* Mutants of Send: a full ring loses the message, or grows.
SendDrops(p) ==
  /\ pc[p] = "up" /\ sent[p] < MaxSends /\ p \in sized
  /\ q' = IF Len(q[p]) < Capacity
          THEN [q EXCEPT ![p] = Append(@, [run |-> run, no |-> sent[p] + 1])] ELSE q
  /\ sent' = [sent EXCEPT ![p] = @ + 1]
  /\ UNCHANGED <<run, named, sized, pc, cur, creator, log>>
SendOver(p) ==
  /\ pc[p] = "up" /\ sent[p] < MaxSends /\ p \in sized
  /\ q' = [q EXCEPT ![p] = Append(@, [run |-> run, no |-> sent[p] + 1])]
  /\ sent' = [sent EXCEPT ![p] = @ + 1]
  /\ UNCHANGED <<run, named, sized, pc, cur, creator, log>>

\* The ring has space, at last.
Send(p) ==
  /\ pc[p] = "up" /\ sent[p] < MaxSends /\ p \in sized
  /\ Len(q[p]) < Capacity
  /\ q' = [q EXCEPT ![p] = Append(@, [run |-> run, no |-> sent[p] + 1])]
  /\ sent' = [sent EXCEPT ![p] = @ + 1]
  /\ UNCHANGED <<run, named, sized, pc, cur, creator, log>>

Recv(p) ==
  /\ pc[p] = "up" /\ Peer(p) \in sized
  /\ q[Peer(p)] # <<>>
  /\ q' = [q EXCEPT ![Peer(p)] = Tail(@)]
  /\ log' = [log EXCEPT ![p] = Append(@, Head(q[Peer(p)]))]
  /\ UNCHANGED <<run, named, sized, pc, cur, creator, sent>>

\* The first access of an object without a size.
Bus(p) ==
  /\ pc[p] = "up"
  /\ Peer(p) \notin sized \/ (p \notin sized /\ sent[p] < MaxSends)
  /\ Goto(p, "bus")
  /\ UNCHANGED <<run, objects, cur, creator, sent, log>>

-----------------------------------------------------------------------------
\* A process exits, or is killed, wherever it is.  Its objects stay: the exit
\* unmaps them, and so would pdes_comm_destroy, which nobody calls.
End(p) ==
  /\ pc[p] \in Opening \cup {"up", "mute"}
  /\ Goto(p, "ended")
  /\ UNCHANGED <<run, objects, cur, creator, sent, log>>

\* The user starts the pair again, and may have removed the objects.
NewRun ==
  /\ \A p \in Procs : pc[p] \in {"bus", "ended"}
  /\ run < MaxRuns
  /\ run' = run + 1
  /\ named' \in {named, {}}
  /\ pc' = [p \in Procs |-> "open"]
  /\ cur' = [p \in Procs |-> p]
  /\ creator' = [p \in Procs |-> FALSE]
  /\ sent' = [p \in Procs |-> 0]
  /\ log' = [p \in Procs |-> <<>>]
  /\ UNCHANGED <<sized, q>>

Next == NewRun \/ \E p \in Procs : CreateStep(p) \/ Fail(p) \/ Send(p) \/ Recv(p) \/ Bus(p) \/ End(p)

Spec == Init /\ [][Next]_vars

\* The operating system schedules a process that is in pdes_comm_create;
\* none of its calls has to fail.
FairSpec == Spec /\ \A p \in Procs : WF_vars(CreateStep(p))

-----------------------------------------------------------------------------
Current(m) == m # Blank /\ m.run = run

\* From the first message of this run on, a process receives all that its peer
\* sends, in order: neither a late memset of the creator (communicator.c:69) nor
\* what an earlier run has left in the object (40-48) can come in between.
NoGap ==
  \A p \in Procs : \A i, j \in DOMAIN log[p] :
    /\ i < j
    /\ Current(log[p][i])
    => Current(log[p][j]) /\ log[p][j].no = log[p][i].no + j - i

\* A process that finds its receive ring made hears the peer from its first
\* message of this run on.  (One that creates it may clear messages that have
\* come in since: the wait that would have kept the peer from sending is
\* commented out, communicator.c:71-77.)
HeardFromFirst ==
  \A p \in Procs : \A i \in DOMAIN log[p] :
    ~creator[p] /\ Current(log[p][i]) =>
      \E j \in DOMAIN log[p] : log[p][j] = [run |-> run, no |-> 1]

\* pdes_comm_create returns, whatever the other process does: without the wait
\* of communicator.c:71-76 it never waits.
SetupEnds == \A p \in Procs : pc[p] = "open" ~> pc[p] \notin Opening

-----------------------------------------------------------------------------
(* The invariant from which RingSetupProofs derives the two.               *)

\* What p has received of its peer, and what it has still to receive.
Stream(p) == log[p] \o q[Peer(p)]

\* What a later run will find is not of its own.
OldInv(r) == \A i \in DOMAIN q[r] : q[r][i] # Blank => q[r][i].run <= run

\* Before pdes_comm_create returns nothing is sent or received; only who has made
\* the ring sizes and clears it.
OpeningInv(p) ==
  /\ pc[p] \in Opening => sent[p] = 0 /\ log[p] = <<>>
  /\ pc[p] \in {"size", "clear", "blank"} => creator[p]

\* The messages of this run are the end of the stream, and its last is the last
\* that the peer has sent.
EndsIn(s, k) ==
  \A i, j \in DOMAIN s :
    i <= j /\ Current(s[i]) =>
      Current(s[j]) /\ s[j].no >= 1 /\ s[j].no + Len(s) = k + j
StreamInv(p) == EndsIn(Stream(p), sent[Peer(p)])

\* Nothing of this run is lost to a process that will not clear, or has not
\* cleared, its receive ring.
NotOpened(p) == pc[p] \in Opening /\ (cur[p] = p \/ pc[p] = "open")
StartsIn(s) == \E i \in DOMAIN s : s[i] = [run |-> run, no |-> 1]
FirstInv(p) ==
  (~creator[p] \/ NotOpened(p)) /\ sent[Peer(p)] > 0 => StartsIn(Stream(p))

\* communicator.c:22-110: what a process has of its peer's messages, whichever
\* of the two has made the ring.
SetupInv ==
  /\ TypeOK
  /\ \A p \in Procs : OldInv(p) /\ OpeningInv(p) /\ StreamInv(p) /\ FirstInv(p)
=============================================================================
