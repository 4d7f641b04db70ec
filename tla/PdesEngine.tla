----------------------------- MODULE PdesEngine ----------------------------
(***************************************************************************)
(* net/pdes-engine.c: the messages the engine itself acts on, the          *)
(* INTENT / PERMISSION / END exit handshake, and the request for the       *)
(* "init_warmed" checkpoint.  A received message goes to the WWT callback  *)
(* first; that callback acts on SYNC and NORMAL messages only (PdesWWT),   *)
(* the engine on the others only, so each type is one action.              *)
(***************************************************************************)
EXTENDS PdesState

-----------------------------------------------------------------------------
(* _send_end_if_handshake_complete: what it sends, and the fields after. *)

\* Mutants: END without the handshake, END not recorded as sent.
EndIfUnsent(e) == IF ~e.endSent THEN <<Msg("END", 0)>> ELSE <<>>
AfterEndForgotten(e) == e

EndIfPermitted(e) ==
  IF e.permitted /\ ~e.endSent THEN <<Msg("END", 0)>> ELSE <<>>
AfterEnd(e) == [e EXCEPT !.endSent = @ \/ e.permitted]

\* notify_neighbours_of_end.
NotifyEndFields(e) == IF e.notified THEN e ELSE [AfterEnd(e) EXCEPT !.notified = TRUE]
NotifyEndMessages(e) == IF e.notified THEN <<>> ELSE EndIfPermitted(e)

-----------------------------------------------------------------------------
(* process_message, one action per message type. *)

RecvIntent(n) ==
  /\ Receiving(n, "INTENT")
  /\ ex' = [ex EXCEPT ![n].nbrs = IF n = Master THEN @ + 1 ELSE @]
  /\ UNCHANGED <<ctl, mainOut, flexusOut, wwt, cpu, ck>>

RecvPermission(n) ==
  /\ Receiving(n, "PERMISSION")
  /\ LET e == [ex[n] EXCEPT !.permitted = TRUE] IN
       /\ ex' = [ex EXCEPT ![n] = AfterEnd(e)]
       /\ mainOut' = [mainOut EXCEPT ![n] = EndIfPermitted(e)]
  /\ UNCHANGED <<ctl, flexusOut, wwt, cpu, ck>>

\* The assertion: the peer sends END only after the handshake completed.
RecvEnd(n) ==
  /\ Receiving(n, "END")
  /\ IF ex[n].permitted
       THEN /\ ex' = [ex EXCEPT ![n].pairFin = TRUE]
            /\ UNCHANGED status
       ELSE /\ Abort(n, "abort_end")
            /\ UNCHANGED ex
  /\ UNCHANGED <<main, polling, flexus, stopAt, mainOut, flexusOut, wwt, cpu, ck>>

\* Mutant of RecvDrainStart: nobody adopts the checkpoint.
RecvDrainStartCounts(n) ==
  /\ Receiving(n, "DRAIN_START")
  /\ UNCHANGED <<ctl, mainOut, flexusOut, wwt, cpu, ex, ck>>

\* The follower adopts the checkpoint and its round; the master only counts
\* (neighbour_drained is never read).
RecvDrainStart(n) ==
  /\ Receiving(n, "DRAIN_START")
  /\ ck' = IF n = Master THEN ck
           ELSE [ck EXCEPT ![n] = [@ EXCEPT !.needs = TRUE,
                                            !.ckround = Head(ring[n]).val]]
  /\ UNCHANGED <<ctl, mainOut, flexusOut, wwt, cpu, ex>>

\* Clears checkpoint_in_progress, which is never read.
RecvDrainEnd(n) ==
  /\ Receiving(n, "DRAIN_END")
  /\ UNCHANGED <<ctl, mainOut, flexusOut, wwt, cpu, ex, ck>>

\* set_checkpoint_values_for_master, as the main thread executes it.
CheckpointValues(c, r) ==
  [c EXCEPT !.notified = FALSE, !.needs = TRUE, !.ckround = r]

RecvInitStep(n) ==
  /\ Receiving(n, "INIT_STEP")
  /\ LET c == [ck[n] EXCEPT !.initFlag = @ + 1] IN
       ck' = [ck EXCEPT ![n] =
                IF n = Master /\ c.initFlag = 1 /\ c.masterInit
                THEN CheckpointValues(c, round[n]) ELSE c]
  /\ UNCHANGED <<ctl, mainOut, flexusOut, wwt, cpu, ex>>

-----------------------------------------------------------------------------
(* The receive poll on the host clock: 50us after creation, and again      *)
(* 500ms after setup_wwt.                                                  *)

HostPoll(n) ==
  /\ InEventLoop(n)
  /\ ~BhPending(n)
  /\ hostPoll[n]
  /\ hostPoll' = [hostPoll EXCEPT ![n] = FALSE]
  /\ polling' = [polling EXCEPT ![n] = TRUE]
  /\ UNCHANGED <<status, main, flexus, stopAt, wire, round, finished, synced,
                 now, inflight, sent, cpu, ex, ck>>

\* pdes_pause.  If flexus_api.pause waits, it returns once Flexus is out of the
\* engine; then the assertion that no earlier pause is left to run.
Pause(n) ==
  /\ PauseWaits => FlexusQuiet(n)
  /\ paused' = [paused EXCEPT ![n] = TRUE]
  /\ pauseBh' = [pauseBh EXCEPT ![n] = TRUE]
  /\ IF pauseBh[n] THEN Abort(n, "abort_pause") ELSE UNCHANGED status

\* pdes_play.
Play(n) ==
  /\ vm' = [vm EXCEPT ![n] = TRUE]
  /\ paused' = [paused EXCEPT ![n] = FALSE]

\* pdes_pause_bh.
PauseBh(n) ==
  /\ InEventLoop(n)
  /\ pauseBh[n]
  /\ pauseBh' = [pauseBh EXCEPT ![n] = FALSE]
  /\ vm' = [vm EXCEPT ![n] = FALSE]
  /\ UNCHANGED <<ctl, wire, wwt, paused, ex, ck>>

-----------------------------------------------------------------------------
(* can_stop, on the Flexus thread; a paused Flexus starts no new call. *)

\* Mutant: permission is granted at every call.
CanStopRegrants(n) ==
  /\ FlexusAt(n, "ask")
  /\ ~paused[n]
  /\ IF n = Master
       THEN /\ flexus' = [flexus EXCEPT ![n] = IF ex[n].nbrs >= 1 THEN "grant" ELSE "answer"]
            /\ UNCHANGED <<flexusOut, ex>>
       ELSE /\ flexus' = [flexus EXCEPT ![n] = "answer"]
            /\ flexusOut' = [flexusOut EXCEPT ![n] =
                               IF ex[n].intent THEN <<>> ELSE <<Msg("INTENT", 0)>>]
            /\ ex' = [ex EXCEPT ![n].intent = TRUE]
  /\ UNCHANGED <<status, main, polling, stopAt, ring, mainOut, wwt, cpu, ck>>

CanStop(n) ==
  /\ FlexusAt(n, "ask")
  /\ ~paused[n]
  /\ IF n = Master
       THEN /\ flexus' = [flexus EXCEPT ![n] =
                            IF ex[n].nbrs >= 1 /\ ~ex[n].permitted
                            THEN "grant" ELSE "answer"]
            /\ UNCHANGED <<flexusOut, ex>>
       ELSE /\ flexus' = [flexus EXCEPT ![n] = "answer"]
            /\ flexusOut' = [flexusOut EXCEPT ![n] =
                               IF ex[n].intent THEN <<>> ELSE <<Msg("INTENT", 0)>>]
            /\ ex' = [ex EXCEPT ![n].intent = TRUE]
  /\ UNCHANGED <<status, main, polling, stopAt, ring, mainOut, wwt, cpu, ck>>

\* Mutant of CanStopGrant: END before PERMISSION.
CanStopGrantSwapped(n) ==
  /\ FlexusAt(n, "grant")
  /\ ex' = [ex EXCEPT ![n] = [@ EXCEPT !.permitted = TRUE, !.endSent = TRUE]]
  /\ flexusOut' = [flexusOut EXCEPT ![n] = <<Msg("END", 0), Msg("PERMISSION", 0)>>]
  /\ flexus' = [flexus EXCEPT ![n] = "end"]
  /\ UNCHANGED <<status, main, polling, stopAt, ring, mainOut, wwt, cpu, ck>>

\* The flag is visible to the main thread before the peer is told.
CanStopGrant(n) ==
  /\ FlexusAt(n, "grant")
  /\ ex' = [ex EXCEPT ![n].permitted = TRUE]
  /\ flexusOut' = [flexusOut EXCEPT ![n] = <<Msg("PERMISSION", 0)>>]
  /\ flexus' = [flexus EXCEPT ![n] = "end"]
  /\ UNCHANGED <<status, main, polling, stopAt, ring, mainOut, wwt, cpu, ck>>

CanStopEnd(n) ==
  /\ FlexusAt(n, "end")
  /\ ex' = [ex EXCEPT ![n] = AfterEnd(@)]
  /\ flexusOut' = [flexusOut EXCEPT ![n] = EndIfPermitted(ex[n])]
  /\ flexus' = [flexus EXCEPT ![n] = "answer"]
  /\ UNCHANGED <<status, main, polling, stopAt, ring, mainOut, wwt, cpu, ck>>

\* Mutant: the peer's END is not awaited.
MayExitAlone(e) == e.permitted

MayExit(e) == e.permitted /\ e.pairFin

\* can_stop returns; on TRUE Flexus terminates the simulation: exit(0).
CanStopAnswer(n) ==
  /\ FlexusAt(n, "answer")
  /\ ex' = [ex EXCEPT ![n].ready = TRUE]
  /\ flexus' = [flexus EXCEPT ![n] = "idle"]
  /\ status' = IF MayExit(ex[n]) THEN [status EXCEPT ![n] = "exited"] ELSE status
  /\ UNCHANGED <<main, polling, stopAt, wire, wwt, cpu, ck>>

-----------------------------------------------------------------------------
(* finish_initiate_checkpoint, on the Flexus thread when its warm-up is    *)
(* over.  The stores of set_checkpoint_values_for_master are separate: the *)
(* main thread may run between them.                                       *)

FinishInitiate(n) ==
  /\ FlexusAt(n, "idle")
  /\ ~paused[n]
  /\ main[n] # "setup"
  /\ n \in InitNodes
  /\ ~ck[n].signalled
  /\ n = Master /\ MasterLast => ck[n].initFlag >= 1
  /\ IF n = Master
       THEN /\ ck' = [ck EXCEPT ![n] = [@ EXCEPT !.signalled = TRUE,
                                                  !.masterInit = TRUE]]
            /\ flexus' = [flexus EXCEPT ![n] =
                            IF ck[n].initFlag >= 1 THEN "setflags" ELSE "idle"]
            /\ UNCHANGED flexusOut
       ELSE /\ ck' = [ck EXCEPT ![n].signalled = TRUE]
            /\ flexusOut' = [flexusOut EXCEPT ![n] = <<Msg("INIT_STEP", 0)>>]
            /\ UNCHANGED flexus
  /\ UNCHANGED <<status, main, polling, stopAt, ring, mainOut, wwt, cpu, ex>>

SetCheckpointFlags(n) ==
  /\ FlexusAt(n, "setflags")
  /\ flexus' = [flexus EXCEPT ![n] = "setround"]
  /\ ck' = [ck EXCEPT ![n] = [@ EXCEPT !.notified = FALSE, !.needs = TRUE]]
  /\ UNCHANGED <<status, main, polling, stopAt, wire, wwt, cpu, ex>>

\* Mutant: the round that was completed last.
SetCheckpointRoundLast(n) ==
  /\ FlexusAt(n, "setround")
  /\ flexus' = [flexus EXCEPT ![n] = "idle"]
  /\ ck' = [ck EXCEPT ![n].ckround = IF round[n] = 0 THEN 0 ELSE round[n] - 1]
  /\ UNCHANGED <<status, main, polling, stopAt, wire, wwt, cpu, ex>>

SetCheckpointRound(n) ==
  /\ FlexusAt(n, "setround")
  /\ flexus' = [flexus EXCEPT ![n] = "idle"]
  /\ ck' = [ck EXCEPT ![n].ckround = round[n]]
  /\ UNCHANGED <<status, main, polling, stopAt, wire, wwt, cpu, ex>>

-----------------------------------------------------------------------------
\* exit(0), once the sends before it have returned.
Exit(n) ==
  /\ MainAt(n, "exiting")
  /\ status' = [status EXCEPT ![n] = "exited"]
  /\ UNCHANGED <<main, polling, flexus, stopAt, wire, wwt, cpu, ex, ck>>
=============================================================================
