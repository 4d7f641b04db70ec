--------------------------- MODULE InflightMessages ---------------------------
(***************************************************************************)
(* The list of packets whose delivery timer is armed (pending_messages of  *)
(* net/pdes-checkpoint.c), its JSON file, and what a process restored from *)
(* a snapshot has of them.  Timers are not part of a snapshot: the file is *)
(* the only place where a packet that is under way survives.               *)
(*                                                                         *)
(* The call that adds a packet (pdes-wwt.c:233) and the one that removes it *)
(* (pdes-utility.c:23) are commented out.  `recorded' says whether they    *)
(* are there: FALSE is the build as it stands, TRUE is what the list is    *)
(* written for.                                                            *)
(***************************************************************************)
EXTENDS Naturals, SequencesExt

CONSTANTS
  Data,       \* contents of packets
  NoFile

CONSTANTS
  MaxTime,    \* bound: virtual time
  MaxPackets  \* bound: packets that arrive

ASSUME InflightAssumption == MaxTime \in Nat /\ MaxPackets \in Nat /\ NoFile \notin Seq({})

VARIABLES
  recorded,   \* the two calls are there
  status,     \* of the process
  now,        \* QEMU_CLOCK_VIRTUAL
  timers,     \* packets whose timer is armed, in arming order
  list,       \* pending_messages, from its head
  count,      \* pending_count
  file,       \* <checkpoint>_in_flight.json, the messages in its order
  arrived,    \* number of packets that have arrived
  snap,       \* history: timers and time of the last snapshot, and whether
              \* its file could be written
  stale       \* history: a process was restored with an older file

process == <<status, now, timers, list, count>>
vars    == <<recorded, process, file, arrived, snap, stale>>

\* Two packets with the same contents and time are told apart by nothing.
Packet == [data : Data, due : 0..MaxTime]

NoSnap == [timers |-> <<>>, now |-> 0, written |-> TRUE]

TypeOK ==
  /\ recorded \in BOOLEAN
  /\ status \in {"run", "aborted", "dead"}
  /\ now \in 0..MaxTime
  /\ timers \in Seq(Packet)
  /\ list \in Seq(Packet) /\ count = Len(list)
  /\ file \in Seq(Packet) \cup {NoFile}
  /\ arrived \in 0..MaxPackets
  /\ snap \in [timers : Seq(Packet), now : 0..MaxTime, written : BOOLEAN]
  /\ stale \in BOOLEAN

Init ==
  /\ recorded \in BOOLEAN
  /\ status = "run" /\ now = 0
  /\ timers = <<>> /\ list = <<>> /\ count = 0
  /\ file = NoFile
  /\ arrived = 0
  /\ snap = NoSnap
  /\ stale = FALSE

-----------------------------------------------------------------------------
(* The list *)

\* Mutant: count is left alone.
AddUncounted(p) == list' = <<p>> \o list /\ UNCHANGED count

\* pdes_inflight_add
Add(p) == list' = <<p>> \o list /\ count' = count + 1

\* Mutant of Matches: the contents are not compared.
MatchesTime(e, p) == e.due = p.due

Matches(e, p) == e.due = p.due /\ e.data = p.data

Found(p) == \E i \in DOMAIN list : Matches(list[i], p)

\* pdes_inflight_remove: the first match; none fails the assertion.
RemovePending(p) ==
  /\ list' = RemoveFirstMatch(list, LAMBDA e : Matches(e, p))
  /\ count' = IF Found(p) THEN count - 1 ELSE count
  /\ status' = IF Found(p) THEN status ELSE "aborted"

-----------------------------------------------------------------------------
(* Arrival and delivery *)

\* Mutant of Receive: a packet is due any time (the assertion of
\* pdes-wwt.c:217-223 is dropped).
ReceiveAnyTime ==
  /\ status = "run" /\ arrived < MaxPackets
  /\ \E p \in Packet :
       /\ timers' = Append(timers, p)
       /\ IF recorded THEN Add(p) ELSE UNCHANGED <<list, count>>
  /\ arrived' = arrived + 1
  /\ UNCHANGED <<recorded, status, now, file, snap, stale>>

\* wwt_recivied_callback, a normal message: due at its timestamp, which is not
\* past, or without synchronisation at now + 1 when that is later.
Receive ==
  /\ status = "run" /\ arrived < MaxPackets
  /\ \E p \in Packet :
       /\ p.due >= now
       /\ timers' = Append(timers, p)
       /\ IF recorded THEN Add(p) ELSE UNCHANGED <<list, count>>
  /\ arrived' = arrived + 1
  /\ UNCHANGED <<recorded, status, now, file, snap, stale>>

\* process_message_at_virtual_time, as the timer list runs it: the earliest
\* timer that is due, of equal ones the one armed first.
Deliver ==
  /\ status = "run"
  /\ \E i \in DOMAIN timers :
       /\ timers[i].due <= now
       /\ \A j \in DOMAIN timers :
            /\ timers[j].due >= timers[i].due
            /\ j < i => timers[j].due > timers[i].due
       /\ timers' = RemoveAt(timers, i)
       /\ IF recorded THEN RemovePending(timers[i])
                      ELSE UNCHANGED <<status, list, count>>
  /\ UNCHANGED <<recorded, now, file, arrived, snap, stale>>

Tick ==
  /\ status = "run" /\ now < MaxTime
  /\ \A i \in DOMAIN timers : timers[i].due > now
  /\ now' = now + 1
  /\ UNCHANGED <<recorded, status, timers, list, count, file, arrived, snap, stale>>

-----------------------------------------------------------------------------
(* Snapshot and restart *)

\* save_snapshot, which calls pdes_drain and that pdes_inflight_save_json.  The
\* file may not open; its caller ignores the result, and a file of an earlier
\* snapshot of that name stays.
Save ==
  /\ status = "run"
  /\ \E written \in BOOLEAN :
       /\ file' = IF written THEN list ELSE file
       /\ snap' = [timers |-> timers, now |-> now, written |-> written]
  /\ UNCHANGED <<recorded, process, arrived, stale>>

\* The process ends, and another one has loaded the snapshot.
Restarted ==
  /\ now' = snap.now
  /\ stale' = (stale \/ ~snap.written)
  /\ UNCHANGED <<recorded, file, arrived, snap>>

\* Mutant of Restore: the last message of the file is skipped.
RestoreShort ==
  /\ file # NoFile
  /\ LET n == IF file = <<>> THEN 0 ELSE Len(file) - 1 IN
       /\ timers' = SubSeq(file, 1, n) /\ list' = Reverse(SubSeq(file, 1, n)) /\ count' = n
  /\ status' = "run"
  /\ Restarted

\* pdes_inflight_restore_and_schedule: the messages in the order of the file.
Restore ==
  /\ file # NoFile
  /\ timers' = file /\ list' = Reverse(file) /\ count' = Len(file)
  /\ status' = "run"
  /\ Restarted

\* Without a file it returns -1.
RestoreNothing ==
  /\ file = NoFile
  /\ timers' = <<>> /\ list' = <<>> /\ count' = 0
  /\ status' = "run"
  /\ Restarted

\* pdes_inflight_load_json looks for a comma after every byte of a message.
\* After the last byte of the last message there is none, and the next search
\* starts at NULL, which is undefined: a C library that reads the string dies;
\* one that takes NULL for an empty string finds nothing more (Restore).
RestoreDies ==
  /\ file # NoFile /\ file # <<>>
  /\ timers' = <<>> /\ list' = <<>> /\ count' = 0
  /\ status' = "dead"
  /\ Restarted

Next ==
  \/ Receive \/ Deliver \/ Tick
  \/ Save \/ Restore \/ RestoreNothing \/ RestoreDies

Spec == Init /\ [][Next]_vars

-----------------------------------------------------------------------------
\* With the two calls in place the list holds the packets whose timer is armed,
\* no more and no fewer of equal ones, through snapshots and restarts; so the
\* removal at a delivery finds its packet, and the assertion of
\* pdes-checkpoint.c:48 holds.
ListIsPending ==
  recorded => ToBag(list) = ToBag(timers) /\ status # "aborted"

\* A process that comes up with the file of its snapshot has a timer for every
\* packet that was under way when the snapshot was taken (195-220), provided
\* the two calls are in place; as the build stands it has none.
RestoreComplete ==
  [][Restore /\ snap.written =>
       ToBag(timers') = IF recorded THEN ToBag(snap.timers) ELSE EmptyBag]_vars

\* No packet is late: neither on arrival nor after a restart, unless the file
\* is an older one than the snapshot (pdes-engine.c:422 ignores that it could
\* not be written).
NothingLate ==
  ~stale => \A i \in DOMAIN timers : timers[i].due >= now

-----------------------------------------------------------------------------
(* Why they hold *)

DueFrom(s, t) == \A i \in DOMAIN s : s[i].due >= t

\* The file is the list at the time of the snapshot; without the two calls it
\* is empty, and what is restored from it is nothing.
FileInv ==
  /\ ~recorded => list = <<>> /\ file \in {NoFile, <<>>}
  /\ snap.written /\ file # NoFile =>
       /\ recorded => ToBag(file) = ToBag(snap.timers)
       /\ ~stale => DueFrom(file, snap.now)

\* pdes-checkpoint.c:12-49, 87-122, 195-220: the list, its count, the timers and
\* the file of the last snapshot have the same packets.
PendingInv == TypeOK /\ ListIsPending /\ NothingLate /\ FileInv
=============================================================================
