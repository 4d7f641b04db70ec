--------------------------- MODULE PdesCheckpoint ---------------------------
(***************************************************************************)
(* The checkpoint bottom half (create_checkpoint_bh), the functions that   *)
(* QEMU's save_snapshot calls back (validate_checkpoint, pdes_drain), and  *)
(* pdes_engine_destroy.  The only checkpoint the engine initiates is       *)
(* "init_warmed", so the name is not a variable.                           *)
(***************************************************************************)
EXTENDS PdesEngine

-----------------------------------------------------------------------------
(* pdes_engine_destroy *)

\* The checkpoint the engine still owes is scheduled, to exit after it ...
CloseAfterCheckpoint(n) ==
  /\ ck' = [ck EXCEPT ![n].bh = IF @ = "none" THEN "exit" ELSE @]
  /\ main' = [main EXCEPT ![n] = "closing"]

\* ... or there is none, and the process exits.
CloseNow(n) ==
  /\ main' = [main EXCEPT ![n] = "exiting"]
  /\ UNCHANGED ck

Destroy(n) ==
  /\ ex' = [ex EXCEPT ![n] = NotifyEndFields(@)]
  /\ mainOut' = [mainOut EXCEPT ![n] = NotifyEndMessages(ex[n])]
  /\ IF ck[n].needs THEN CloseAfterCheckpoint(n) ELSE CloseNow(n)

-----------------------------------------------------------------------------
(* validate_checkpoint: the follower's name starts with QPDES, because it  *)
(* was taken from DRAIN_START; the master waits for the follower.          *)

Validated(n) == n = Master => ck[n].initFlag >= 1

\* pdes_drain.
DrainMessages(n) ==
  IF n = Master /\ Validated(n) THEN <<Msg("DRAIN_END", 0)>> ELSE <<>>

AfterSnapshot(n) ==
  [ck[n] EXCEPT
     !.needs = FALSE, !.notified = FALSE, !.ckround = 0, !.bh = "none",
     !.masterInit = @ \/ ~Validated(n),
     !.saved = IF Validated(n) THEN @ \cup {round[n]} ELSE @]

\* create_checkpoint_bh and save_snapshot.  needs holds whenever the bottom
\* half is scheduled: only this function clears it.
CheckpointBH(n) ==
  /\ InEventLoop(n)
  /\ ~pauseBh[n]
  /\ ck[n].bh # "none"
  /\ ck[n].needs
  /\ ck' = [ck EXCEPT ![n] = AfterSnapshot(n)]
  /\ IF n = Master
       THEN /\ ex' = [ex EXCEPT ![n] = NotifyEndFields(@)]
            /\ mainOut' = [mainOut EXCEPT ![n] =
                             DrainMessages(n) \o NotifyEndMessages(ex[n])]
       ELSE UNCHANGED <<ex, mainOut>>
  /\ main' = [main EXCEPT ![n] =
                IF n = Master \/ ck[n].bh = "exit" THEN "exiting" ELSE @]
  /\ UNCHANGED <<status, polling, flexus, stopAt, ring, flexusOut, wwt, cpu>>
=============================================================================
