----------------------------- MODULE SharedSpool -----------------------------
(***************************************************************************)
(* Two processes of the gateway on one spool file and one database: the    *)
(* workers of one server, two replicas on one volume, or an old and a new  *)
(* process during a rolling restart.  The path of the spool is fixed by    *)
(* the settings, and nothing in services/usage.py locks it or says whose   *)
(* receipt a row is: start() of either process loads every pending         *)
(* receipt, also those the other is still working on.  The same record is  *)
(* then inserted, marked and deleted from both sides.                      *)
(*                                                                         *)
(* Each process is an instance of UsageService with its own memory; the    *)
(* rows of the spool and of usage_logs are shared.  There are no admin     *)
(* reads here: each flushes its own process only.                          *)
(***************************************************************************)
EXTENDS Naturals, Sequences, FiniteSets

CONSTANTS Records, QueueSize, MaxAttempts, MaxRestarts, SpoolMayFail,
          CommitMayBeLost, CallersMayBeCancelled

ASSUME ConstantsAssumption ==
  /\ QueueSize \in Nat \ {0}
  /\ MaxAttempts \in Nat \ {0}
  /\ MaxRestarts \in Nat
  /\ {SpoolMayFail, CommitMayBeLost, CallersMayBeCancelled} \subseteq BOOLEAN

VARIABLES
  phaseA, queueA, unfinishedA, toReplayA, workerPcA, handA, callerA,
  phaseB, queueB, unfinishedB, toReplayB, workerPcB, handB, callerB,
  spool, spoolAttempts, logs, \* the shared rows
  restarts,                   \* crashes and stops of either process so far
  durable,                    \* both have a spool
  reader, expected, seen      \* empty: no admin reads

processA == <<phaseA, queueA, unfinishedA, toReplayA, workerPcA, handA,
              callerA>>
processB == <<phaseB, queueB, unfinishedB, toReplayB, workerPcB, handB,
              callerB>>
vars == <<processA, processB, spool, spoolAttempts, logs, restarts, durable,
          reader, expected, seen>>

A == INSTANCE UsageService WITH
       Readers <- {}, Spooling <- {TRUE},
       phase <- phaseA, queue <- queueA, unfinished <- unfinishedA,
       toReplay <- toReplayA, workerPc <- workerPcA, hand <- handA,
       caller <- callerA
B == INSTANCE UsageService WITH
       Readers <- {}, Spooling <- {TRUE},
       phase <- phaseB, queue <- queueB, unfinished <- unfinishedB,
       toReplay <- toReplayB, workerPc <- workerPcB, hand <- handB,
       caller <- callerB

Init == A!Init /\ B!Init

\* A record belongs to one request, which one process handles.
NotAtB == \A r \in Records : callerB[r] # "idle" => callerA'[r] = callerA[r]
NotAtA == \A r \in Records : callerA[r] # "idle" => callerB'[r] = callerB[r]

StepOfA == A!Next /\ NotAtB /\ UNCHANGED processB
StepOfB == B!Next /\ NotAtA /\ UNCHANGED processA

Next == StepOfA \/ StepOfB

Spec == Init /\ [][Next]_vars
FairSpec == Spec /\ A!Fairness /\ B!Fairness

-----------------------------------------------------------------------------
(* Properties.                                                             *)

Accepted == A!Accepted \cup B!Accepted

\* A record either process has accepted is in the log or in the spool, also
\* when the other process replays, marks or deletes its receipt
\* (_load_spooled, _mark_spool_attempt, _delete_spooled).
AcceptedIsKept == \A r \in Accepted : r \in logs \/ spool[r] # "absent"

\* The receipt of a record that is in the log, once deleted by either process,
\* does not come back: a late mark of the other process, which still holds
\* the record after a failed insert, must not write it anew
\* (_mark_spool_attempt).
DeletedStaysDeleted ==
  [][\A r \in logs : spool[r] = "absent" => spool'[r] = "absent"]_vars

\* When the crashes and restarts are over, every accepted record is settled for
\* good.  A dead letter is not final while the other process holds an older
\* copy of the record: marking that copy makes the receipt pending again, and
\* whoever did so must then bring it to an end (_run_worker).
AcceptedIsSettled ==
  <>[](\A r \in Accepted : r \in logs \/ spool[r] = "dead_letter")
=============================================================================
