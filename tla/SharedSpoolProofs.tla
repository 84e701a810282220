-------------------------- MODULE SharedSpoolProofs --------------------------
(***************************************************************************)
(* Proofs that two processes on one spool lose no accepted record and      *)
(* bring no deleted receipt back, for every set of records, queue size,    *)
(* attempt budget and number of restarts, and every combination of         *)
(* failures.                                                               *)
(*                                                                         *)
(* The argument is compositional: each process keeps its own invariant     *)
(* (UsageServiceProofs), and its steps preserve what the other's invariant *)
(* says of the shared rows, since no step removes a row of usage_logs, nor *)
(* a receipt whose record is not there (StepKeepsRows).                    *)
(***************************************************************************)
EXTENDS SharedSpool, TLAPS

PA == INSTANCE UsageServiceProofs WITH
        Readers <- {}, Spooling <- {TRUE},
        phase <- phaseA, queue <- queueA, unfinished <- unfinishedA,
        toReplay <- toReplayA, workerPc <- workerPcA, hand <- handA,
        caller <- callerA
PB == INSTANCE UsageServiceProofs WITH
        Readers <- {}, Spooling <- {TRUE},
        phase <- phaseB, queue <- queueB, unfinished <- unfinishedB,
        toReplay <- toReplayB, workerPc <- workerPcB, hand <- handB,
        caller <- callerB

\* The steps of the two instances are those the theorems are about.
LEMMA SameA == A!Next => PA!Next
  BY DEF A!Next, PA!Next, A!Step, PA!Step, A!Startup, PA!Startup,
      A!WorkerStep, PA!WorkerStep, A!CallerStep, PA!CallerStep, A!Start,
      PA!Start, A!LoadSpooled, PA!LoadSpooled, A!PendingReceipts,
      PA!PendingReceipts, A!Receipt, PA!Receipt, A!ReplayPut,
      PA!ReplayPut, A!StartDone, PA!StartDone, A!LogsAfterFailure,
      PA!LogsAfterFailure, A!RecordDirect, PA!RecordDirect, A!RecordAsync,
      PA!RecordAsync, A!Alive, PA!Alive, A!Persist, PA!Persist,
      A!PersistRaises, PA!PersistRaises, A!Put, PA!Put, A!Cancel,
      PA!Cancel, A!TaskDone, PA!TaskDone, A!Release, PA!Release, A!Keep,
      PA!Keep, A!WorkerGet, PA!WorkerGet, A!RecordOk, PA!RecordOk,
      A!RecordRaises, PA!RecordRaises, A!Spent, PA!Spent, A!StatusAfter,
      PA!StatusAfter, A!MarkReceipt, PA!MarkReceipt, A!MarkAttempt,
      PA!MarkAttempt, A!BackoffOver, PA!BackoffOver, A!DeleteSpooled,
      PA!DeleteSpooled, A!WorkerDies, PA!WorkerDies, A!Accepted,
      PA!Accepted, A!Drained, PA!Drained, A!FlushStart, PA!FlushStart,
      A!ListUsage, PA!ListUsage, A!Stop, PA!Stop, A!ThreadOutcome,
      PA!ThreadOutcome, A!StopCancel, PA!StopCancel, A!ProcessEnds,
      PA!ProcessEnds, A!Exit, PA!Exit, A!Crash, PA!Crash, A!memory,
      PA!memory, A!disk, PA!disk, A!history, PA!history, A!requests,
      PA!requests

LEMMA SameB == B!Next => PB!Next
  BY DEF B!Next, PB!Next, B!Step, PB!Step, B!Startup, PB!Startup,
      B!WorkerStep, PB!WorkerStep, B!CallerStep, PB!CallerStep, B!Start,
      PB!Start, B!LoadSpooled, PB!LoadSpooled, B!PendingReceipts,
      PB!PendingReceipts, B!Receipt, PB!Receipt, B!ReplayPut,
      PB!ReplayPut, B!StartDone, PB!StartDone, B!LogsAfterFailure,
      PB!LogsAfterFailure, B!RecordDirect, PB!RecordDirect, B!RecordAsync,
      PB!RecordAsync, B!Alive, PB!Alive, B!Persist, PB!Persist,
      B!PersistRaises, PB!PersistRaises, B!Put, PB!Put, B!Cancel,
      PB!Cancel, B!TaskDone, PB!TaskDone, B!Release, PB!Release, B!Keep,
      PB!Keep, B!WorkerGet, PB!WorkerGet, B!RecordOk, PB!RecordOk,
      B!RecordRaises, PB!RecordRaises, B!Spent, PB!Spent, B!StatusAfter,
      PB!StatusAfter, B!MarkReceipt, PB!MarkReceipt, B!MarkAttempt,
      PB!MarkAttempt, B!BackoffOver, PB!BackoffOver, B!DeleteSpooled,
      PB!DeleteSpooled, B!WorkerDies, PB!WorkerDies, B!Accepted,
      PB!Accepted, B!Drained, PB!Drained, B!FlushStart, PB!FlushStart,
      B!ListUsage, PB!ListUsage, B!Stop, PB!Stop, B!ThreadOutcome,
      PB!ThreadOutcome, B!StopCancel, PB!StopCancel, B!ProcessEnds,
      PB!ProcessEnds, B!Exit, PB!Exit, B!Crash, PB!Crash, B!memory,
      PB!memory, B!disk, PB!disk, B!history, PB!history, B!requests,
      PB!requests

LEMMA AssumptionsHold == PA!ConstantsAssumption /\ PB!ConstantsAssumption
  BY ConstantsAssumption DEF PA!ConstantsAssumption, PB!ConstantsAssumption

LEMMA InitiallyBoth ==
  Init => /\ PA!TypeInv /\ PA!KeptInv
          /\ PB!TypeInv /\ PB!KeptInv
<1> SUFFICES ASSUME Init
             PROVE  /\ PA!TypeInv /\ PA!KeptInv
                    /\ PB!TypeInv /\ PB!KeptInv
  OBVIOUS
<1>1. PA!Init
  BY DEF Init, A!Init, PA!Init
<1>2. PB!Init
  BY DEF Init, B!Init, PB!Init
<1> QED
  BY <1>1, <1>2, AssumptionsHold, PA!TypeInvInit, PA!KeptInvInit,
     PB!TypeInvInit, PB!KeptInvInit

-----------------------------------------------------------------------------
(* A step of one process, seen by the other.                               *)

Inv == PA!TypeInv /\ PA!KeptInv /\ PB!TypeInv /\ PB!KeptInv

LEMMA StepOfAKeeps == Inv /\ StepOfA => Inv'
<1> SUFFICES ASSUME Inv, StepOfA PROVE Inv'
  OBVIOUS
<1>1. PA!Next /\ UNCHANGED processB
  BY SameA DEF StepOfA
<1>2. PA!TypeInv /\ PA!KeptInv /\ PB!TypeInv /\ PB!KeptInv
  BY DEF Inv
<1>3. PA!TypeInv'
  BY <1>1, <1>2, AssumptionsHold, PA!TypeInvNext
<1>4. PA!KeptInv'
  BY <1>1, <1>2, AssumptionsHold, PA!KeptInvNext
<1>5. PA!KeepsRows
  BY <1>1, <1>2, AssumptionsHold, PA!StepKeepsRows
<1>6. PB!TypeInv'
  <2>1. PA!TypeOK'
    BY <1>3 DEF PA!TypeInv
  <2>2. PB!TypeOK'
    BY <1>1, <1>2, <2>1
    DEF PB!TypeInv, PB!TypeOK, PA!TypeOK, processB, PA!RowStatus, PB!RowStatus
  <2> QED
    BY <1>1, <1>2, <2>2
    DEF PB!TypeInv, PB!HandMatchesPc, PB!Counted, PB!TriesAreLeft,
        PB!NoWorkerYet, processB
<1>7. PB!KeptInv'
  BY <1>1, <1>2, <1>5
  DEF PB!KeptInv, PB!Kept, PA!KeepsRows, PA!Kept, processB, PB!TypeInv,
      PB!TypeOK, PB!Item, StepOfA
<1> QED
  BY <1>3, <1>4, <1>6, <1>7 DEF Inv

LEMMA StepOfBKeeps == Inv /\ StepOfB => Inv'
<1> SUFFICES ASSUME Inv, StepOfB PROVE Inv'
  OBVIOUS
<1>1. PB!Next /\ UNCHANGED processA
  BY SameB DEF StepOfB
<1>2. PB!TypeInv /\ PB!KeptInv /\ PA!TypeInv /\ PA!KeptInv
  BY DEF Inv
<1>3. PB!TypeInv'
  BY <1>1, <1>2, AssumptionsHold, PB!TypeInvNext
<1>4. PB!KeptInv'
  BY <1>1, <1>2, AssumptionsHold, PB!KeptInvNext
<1>5. PB!KeepsRows
  BY <1>1, <1>2, AssumptionsHold, PB!StepKeepsRows
<1>6. PA!TypeInv'
  <2>1. PB!TypeOK'
    BY <1>3 DEF PB!TypeInv
  <2>2. PA!TypeOK'
    BY <1>1, <1>2, <2>1
    DEF PA!TypeInv, PA!TypeOK, PB!TypeOK, processA, PB!RowStatus, PA!RowStatus
  <2> QED
    BY <1>1, <1>2, <2>2
    DEF PA!TypeInv, PA!HandMatchesPc, PA!Counted, PA!TriesAreLeft,
        PA!NoWorkerYet, processA
<1>7. PA!KeptInv'
  BY <1>1, <1>2, <1>5
  DEF PA!KeptInv, PA!Kept, PB!KeepsRows, PB!Kept, processA, PA!TypeInv,
      PA!TypeOK, PA!Item, StepOfB
<1> QED
  BY <1>3, <1>4, <1>6, <1>7 DEF Inv

LEMMA InvInvariant == Spec => []Inv
<1>1. Init => Inv
  BY InitiallyBoth DEF Inv
<1>2. Inv /\ [Next]_vars => Inv'
  <2>1. CASE Next
    BY <2>1, StepOfAKeeps, StepOfBKeeps DEF Next
  <2>2. ASSUME Inv, UNCHANGED vars PROVE Inv'
    BY <2>2
    DEF vars, processA, processB, Inv,
        PA!TypeInv, PA!TypeOK, PA!HandMatchesPc, PA!Counted, PA!TriesAreLeft,
        PA!NoWorkerYet, PA!KeptInv, PA!Kept,
        PB!TypeInv, PB!TypeOK, PB!HandMatchesPc, PB!Counted, PB!TriesAreLeft,
        PB!NoWorkerYet, PB!KeptInv, PB!Kept
  <2> QED
    BY <2>1, <2>2
<1> QED
  BY <1>1, <1>2, PTL DEF Spec

\* A record that either process has accepted is in usage_logs, or its receipt
\* is in the shared spool, at every instant, whatever the two processes do to
\* each other's receipts.
THEOREM NoAcceptedRecordIsLost == Spec => []AcceptedIsKept
<1>1. Inv => AcceptedIsKept
  BY DEF Inv, AcceptedIsKept, Accepted, A!Accepted, B!Accepted,
         PA!KeptInv, PA!Kept, PB!KeptInv, PB!Kept, PA!TypeInv, PA!TypeOK
<1> QED
  BY <1>1, InvInvariant, PTL

-----------------------------------------------------------------------------
(* A deleted receipt does not come back.                                   *)

\* A record belongs to one request, and until that request has persisted it no
\* process knows of it: so the request of a record that is in the log cannot
\* write a receipt any more, and nothing else writes one anew.
OwnInv ==
  /\ \A r \in Records : callerA[r] = "idle" \/ callerB[r] = "idle"
  /\ \A r \in Records :
       PA!Fresh(r) /\ PB!Fresh(r) => PA!Untouched(r) /\ PB!Untouched(r)

NothingReturns == \A r \in logs : spool[r] = "absent" => spool'[r] = "absent"

LEMMA StepOfAOwns == Inv /\ OwnInv /\ StepOfA => OwnInv' /\ NothingReturns
<1> SUFFICES ASSUME Inv, OwnInv, StepOfA PROVE OwnInv' /\ NothingReturns
  OBVIOUS
<1>1. PA!Next /\ UNCHANGED processB
  BY SameA DEF StepOfA
<1>2. \A r \in Records :
        /\ PA!Fresh(r)' => PA!Fresh(r)
        /\ PA!Fresh(r)' /\ PA!Untouched(r) => PA!Untouched(r)'
        /\ spool[r] = "absent" /\ spool'[r] # "absent" =>
             callerA[r] = "persisting"
  BY <1>1, AssumptionsHold, PA!RequestsComeFirst DEF Inv
<1>3. ASSUME NEW r \in Records
      PROVE  callerA'[r] = "idle" \/ callerB'[r] = "idle"
  BY <1>1 DEF OwnInv, StepOfA, NotAtB, processB
<1>4. ASSUME NEW r \in Records, PA!Fresh(r)', PB!Fresh(r)'
      PROVE  PA!Untouched(r)' /\ PB!Untouched(r)'
  <2>1. PB!Fresh(r)
    BY <1>1, <1>4 DEF PB!Fresh, processB
  <2>2. PA!Untouched(r) /\ PB!Untouched(r)
    BY <1>2, <1>4, <2>1 DEF OwnInv
  <2>3. PA!Untouched(r)'
    BY <1>2, <1>4, <2>2
  <2>4. PB!Untouched(r)'
    BY <1>1, <2>2, <2>3
    DEF PA!Untouched, PB!Untouched, PB!Waiting, PB!Items, processB
  <2> QED
    BY <2>3, <2>4
<1>5. ASSUME NEW r \in logs, spool[r] = "absent", spool'[r] # "absent"
      PROVE  FALSE
  <2>1. r \in Records
    BY DEF Inv, PA!TypeInv, PA!TypeOK
  <2>2. callerA[r] = "persisting" /\ callerB[r] = "idle"
    BY <1>2, <1>5, <2>1 DEF OwnInv
  <2> QED
    BY <2>1, <2>2 DEF OwnInv, PA!Fresh, PB!Fresh, PA!Untouched
<1> QED
  BY <1>3, <1>4, <1>5 DEF OwnInv, NothingReturns

LEMMA StepOfBOwns == Inv /\ OwnInv /\ StepOfB => OwnInv' /\ NothingReturns
<1> SUFFICES ASSUME Inv, OwnInv, StepOfB PROVE OwnInv' /\ NothingReturns
  OBVIOUS
<1>1. PB!Next /\ UNCHANGED processA
  BY SameB DEF StepOfB
<1>2. \A r \in Records :
        /\ PB!Fresh(r)' => PB!Fresh(r)
        /\ PB!Fresh(r)' /\ PB!Untouched(r) => PB!Untouched(r)'
        /\ spool[r] = "absent" /\ spool'[r] # "absent" =>
             callerB[r] = "persisting"
  BY <1>1, AssumptionsHold, PB!RequestsComeFirst DEF Inv
<1>3. ASSUME NEW r \in Records
      PROVE  callerA'[r] = "idle" \/ callerB'[r] = "idle"
  BY <1>1 DEF OwnInv, StepOfB, NotAtA, processA
<1>4. ASSUME NEW r \in Records, PA!Fresh(r)', PB!Fresh(r)'
      PROVE  PA!Untouched(r)' /\ PB!Untouched(r)'
  <2>1. PA!Fresh(r)
    BY <1>1, <1>4 DEF PA!Fresh, processA
  <2>2. PB!Untouched(r) /\ PA!Untouched(r)
    BY <1>2, <1>4, <2>1 DEF OwnInv
  <2>3. PB!Untouched(r)'
    BY <1>2, <1>4, <2>2
  <2>4. PA!Untouched(r)'
    BY <1>1, <2>2, <2>3
    DEF PB!Untouched, PA!Untouched, PA!Waiting, PA!Items, processA
  <2> QED
    BY <2>3, <2>4
<1>5. ASSUME NEW r \in logs, spool[r] = "absent", spool'[r] # "absent"
      PROVE  FALSE
  <2>1. r \in Records
    BY DEF Inv, PA!TypeInv, PA!TypeOK
  <2>2. callerB[r] = "persisting" /\ callerA[r] = "idle"
    BY <1>2, <1>5, <2>1 DEF OwnInv
  <2> QED
    BY <2>1, <2>2 DEF OwnInv, PA!Fresh, PB!Fresh, PA!Untouched
<1> QED
  BY <1>3, <1>4, <1>5 DEF OwnInv, NothingReturns

\* Once the receipt of a record in the log has been deleted by either process,
\* a late mark of the other, which still holds the record, does not write it
\* anew.
THEOREM NoReceiptComesBack == Spec => DeletedStaysDeleted
<1>1. Init => OwnInv
  BY PA!ItemsEmpty, PB!ItemsEmpty, AssumptionsHold
  DEF Init, A!Init, B!Init, OwnInv, PA!Untouched, PB!Untouched, PA!Waiting,
      PB!Waiting
<1>2. Inv /\ OwnInv /\ [Next]_vars => OwnInv' /\ [NothingReturns]_vars
  <2>1. CASE Next
    BY <2>1, StepOfAOwns, StepOfBOwns DEF Next
  <2>2. CASE UNCHANGED vars
    BY <2>2
    DEF vars, processA, processB, OwnInv, PA!Fresh, PB!Fresh, PA!Untouched,
        PB!Untouched, PA!Waiting, PB!Waiting, PA!Items, PB!Items
  <2> QED
    BY <2>1, <2>2
<1>3. NothingReturns <=> \A r \in logs : spool[r] = "absent" => spool'[r] = "absent"
  BY DEF NothingReturns
<1> QED
  BY <1>1, <1>2, <1>3, InvInvariant, PTL DEF Spec, DeletedStaysDeleted
=============================================================================
