--------------------------- MODULE AgentRunProofs ---------------------------
(***************************************************************************)
(* Proofs about AgentRun for every set of cancel requests, on whatever     *)
(* instances.  One inductive invariant carries them all: nobody holds a    *)
(* row that is not there, a terminal status once read stays terminal       *)
(* (RowOnceRead), and the cancel function is stored as long as the context *)
(* can still be needed (StoredWhileRunning).                               *)
(***************************************************************************)
EXTENDS AgentRun, TLAPS

USE LocalAssumption
USE DEF Terminal, Records, Pending, Settled, Messages, Opening, Running, Closing,
        Leaving, Over, Asking, goroutine, rows, requests, Goto

\* Every step keeps the types.
LEMMA TypeStep == IInv /\ [Next]_vars => TypeOK'
<1> SUFFICES ASSUME IInv, [Next]_vars PROVE TypeOK'
    OBVIOUS
<1> USE DEF IInv
<1>1. CASE AcquireSlot
  <2>1. ctxDone' \in BOOLEAN /\ active' \in BOOLEAN /\ slot' \in BOOLEAN /\ aborting' \in BOOLEAN
      BY <1>1, Zenon DEF AcquireSlot, TypeOK
  <2>2. quiet' \in BOOLEAN /\ aged' \in BOOLEAN /\ signal' \in BOOLEAN
      BY <1>1, Zenon DEF AcquireSlot, TypeOK
  <2>3. /\ pc' \in Opening \cup Running \cup Closing \cup Leaving \cup Over
        /\ status' \in Records /\ seen' \in Records \cup Messages
        /\ record' \in Records /\ message' \in Messages
      BY <1>1 DEF AcquireSlot, TypeOK
  <2>4. /\ cpc' \in [Cancellers -> Asking \cup {"idle", "acked", "error", "lost"}]
        /\ found' \in [Cancellers -> Records] /\ cseen' \in [Cancellers -> Records]
        /\ answer' \in [Cancellers -> Records]
      BY <1>1 DEF AcquireSlot, TypeOK
  <2> QED BY <2>1, <2>2, <2>3, <2>4 DEF TypeOK
<1>2. CASE Prepare
  <2>1. ctxDone' \in BOOLEAN /\ active' \in BOOLEAN /\ slot' \in BOOLEAN /\ aborting' \in BOOLEAN
      BY <1>2, Zenon DEF Prepare, TypeOK
  <2>2. quiet' \in BOOLEAN /\ aged' \in BOOLEAN /\ signal' \in BOOLEAN
      BY <1>2, Zenon DEF Prepare, TypeOK
  <2>3. /\ pc' \in Opening \cup Running \cup Closing \cup Leaving \cup Over
        /\ status' \in Records /\ seen' \in Records \cup Messages
        /\ record' \in Records /\ message' \in Messages
      BY <1>2 DEF Prepare, TypeOK
  <2>4. /\ cpc' \in [Cancellers -> Asking \cup {"idle", "acked", "error", "lost"}]
        /\ found' \in [Cancellers -> Records] /\ cseen' \in [Cancellers -> Records]
        /\ answer' \in [Cancellers -> Records]
      BY <1>2 DEF Prepare, TypeOK
  <2> QED BY <2>1, <2>2, <2>3, <2>4 DEF TypeOK
<1>3. CASE Register
    BY <1>3 DEF Register, RegisterActive, TypeOK
<1>4. CASE CreateRun
    BY <1>4 DEF CreateRun, TypeOK
<1>5. CASE FirstHeartbeat
  <2>1. ctxDone' \in BOOLEAN /\ active' \in BOOLEAN /\ slot' \in BOOLEAN /\ aborting' \in BOOLEAN
      BY <1>5, Zenon DEF FirstHeartbeat, TypeOK
  <2>2. quiet' \in BOOLEAN /\ aged' \in BOOLEAN /\ signal' \in BOOLEAN
      BY <1>5, Zenon DEF FirstHeartbeat, TypeOK
  <2>3. /\ pc' \in Opening \cup Running \cup Closing \cup Leaving \cup Over
        /\ status' \in Records /\ seen' \in Records \cup Messages
        /\ record' \in Records /\ message' \in Messages
      BY <1>5 DEF FirstHeartbeat, TypeOK
  <2>4. /\ cpc' \in [Cancellers -> Asking \cup {"idle", "acked", "error", "lost"}]
        /\ found' \in [Cancellers -> Records] /\ cseen' \in [Cancellers -> Records]
        /\ answer' \in [Cancellers -> Records]
      BY <1>5 DEF FirstHeartbeat, TypeOK
  <2> QED BY <2>1, <2>2, <2>3, <2>4 DEF TypeOK
<1>6. CASE MarkRead
    BY <1>6 DEF MarkRead, TypeOK
<1>7. CASE MarkSave
    BY <1>7 DEF MarkSave, Forget, Keeps, TypeOK
<1>8. CASE SendCreated
    BY <1>8 DEF SendCreated, TypeOK
<1>9. CASE SendInterrupted
    BY <1>9 DEF SendInterrupted, Abort, TypeOK
<1>10. CASE UpdateRead
    BY <1>10 DEF UpdateRead, TypeOK
<1>11. CASE UpdateSave
    BY <1>11 DEF UpdateSave, Forget, Keeps, TypeOK
<1>12. CASE FinalizeRead
    BY <1>12 DEF FinalizeRead, TypeOK
<1>13. CASE FinalizeSave
    BY <1>13 DEF FinalizeSave, Forget, Keeps, Outcome, TypeOK
<1>14. CASE CancelContext
    BY <1>14 DEF CancelContext, TypeOK
<1>15. CASE DeleteActive
  <2>1. ctxDone' \in BOOLEAN /\ active' \in BOOLEAN /\ slot' \in BOOLEAN /\ aborting' \in BOOLEAN
      BY <1>15, Zenon DEF DeleteActive, TypeOK
  <2>2. quiet' \in BOOLEAN /\ aged' \in BOOLEAN /\ signal' \in BOOLEAN
      BY <1>15, Zenon DEF DeleteActive, TypeOK
  <2>3. /\ pc' \in Opening \cup Running \cup Closing \cup Leaving \cup Over
        /\ status' \in Records /\ seen' \in Records \cup Messages
        /\ record' \in Records /\ message' \in Messages
      BY <1>15 DEF DeleteActive, TypeOK
  <2>4. /\ cpc' \in [Cancellers -> Asking \cup {"idle", "acked", "error", "lost"}]
        /\ found' \in [Cancellers -> Records] /\ cseen' \in [Cancellers -> Records]
        /\ answer' \in [Cancellers -> Records]
      BY <1>15 DEF DeleteActive, TypeOK
  <2> QED BY <2>1, <2>2, <2>3, <2>4 DEF TypeOK
<1>16. CASE ReleaseSlot
  <2>1. ctxDone' \in BOOLEAN /\ active' \in BOOLEAN /\ slot' \in BOOLEAN /\ aborting' \in BOOLEAN
      BY <1>16, Zenon DEF ReleaseSlot, TypeOK
  <2>2. quiet' \in BOOLEAN /\ aged' \in BOOLEAN /\ signal' \in BOOLEAN
      BY <1>16, Zenon DEF ReleaseSlot, TypeOK
  <2>3. /\ pc' \in Opening \cup Running \cup Closing \cup Leaving \cup Over
        /\ status' \in Records /\ seen' \in Records \cup Messages
        /\ record' \in Records /\ message' \in Messages
      BY <1>16 DEF ReleaseSlot, TypeOK
  <2>4. /\ cpc' \in [Cancellers -> Asking \cup {"idle", "acked", "error", "lost"}]
        /\ found' \in [Cancellers -> Records] /\ cseen' \in [Cancellers -> Records]
        /\ answer' \in [Cancellers -> Records]
      BY <1>16 DEF ReleaseSlot, TypeOK
  <2> QED BY <2>1, <2>2, <2>3, <2>4 DEF TypeOK
<1>17. CASE LoopEnds
    BY <1>17 DEF LoopEnds, TypeOK
<1>18. CASE LoopInterrupted
    BY <1>18 DEF LoopInterrupted, Abort, TypeOK
<1>19. CASE LoopPanics
    BY <1>19 DEF LoopPanics, Abort, TypeOK
<1>20. CASE ClientLeaves
    BY <1>20 DEF ClientLeaves, TypeOK
<1>21. CASE Poll
    BY <1>21 DEF Poll, TypeOK
<1>22. CASE Heartbeat
  <2>1. ctxDone' \in BOOLEAN /\ active' \in BOOLEAN /\ slot' \in BOOLEAN /\ aborting' \in BOOLEAN
      BY <1>22, Zenon DEF Heartbeat, Beating, TypeOK
  <2>2. quiet' \in BOOLEAN /\ aged' \in BOOLEAN /\ signal' \in BOOLEAN
      BY <1>22, Zenon DEF Heartbeat, Beating, TypeOK
  <2>3. /\ pc' \in Opening \cup Running \cup Closing \cup Leaving \cup Over
        /\ status' \in Records /\ seen' \in Records \cup Messages
        /\ record' \in Records /\ message' \in Messages
      BY <1>22 DEF Heartbeat, Beating, TypeOK
  <2>4. /\ cpc' \in [Cancellers -> Asking \cup {"idle", "acked", "error", "lost"}]
        /\ found' \in [Cancellers -> Records] /\ cseen' \in [Cancellers -> Records]
        /\ answer' \in [Cancellers -> Records]
      BY <1>22 DEF Heartbeat, Beating, TypeOK
  <2> QED BY <2>1, <2>2, <2>3, <2>4 DEF TypeOK
<1>23. CASE LeaseLost
    BY <1>23 DEF LeaseLost, TypeOK
<1>24. CASE Crash
  <2>1. ctxDone' \in BOOLEAN /\ active' \in BOOLEAN /\ slot' \in BOOLEAN /\ aborting' \in BOOLEAN
      BY <1>24, Zenon DEF Crash, TypeOK
  <2>2. quiet' \in BOOLEAN /\ aged' \in BOOLEAN /\ signal' \in BOOLEAN
      BY <1>24, Zenon DEF Crash, TypeOK
  <2>3. /\ pc' \in Opening \cup Running \cup Closing \cup Leaving \cup Over
        /\ status' \in Records /\ seen' \in Records \cup Messages
        /\ record' \in Records /\ message' \in Messages
      BY <1>24 DEF Crash, TypeOK
  <2>4. /\ cpc' \in [Cancellers -> Asking \cup {"idle", "acked", "error", "lost"}]
        /\ found' \in [Cancellers -> Records] /\ cseen' \in [Cancellers -> Records]
        /\ answer' \in [Cancellers -> Records]
      BY <1>24 DEF Crash, TypeOK
  <2> QED BY <2>1, <2>2, <2>3, <2>4 DEF TypeOK
<1>25. CASE SlotExpires
  <2>1. ctxDone' \in BOOLEAN /\ active' \in BOOLEAN /\ slot' \in BOOLEAN /\ aborting' \in BOOLEAN
      BY <1>25, Zenon DEF SlotExpires, TypeOK
  <2>2. quiet' \in BOOLEAN /\ aged' \in BOOLEAN /\ signal' \in BOOLEAN
      BY <1>25, Zenon DEF SlotExpires, TypeOK
  <2>3. /\ pc' \in Opening \cup Running \cup Closing \cup Leaving \cup Over
        /\ status' \in Records /\ seen' \in Records \cup Messages
        /\ record' \in Records /\ message' \in Messages
      BY <1>25 DEF SlotExpires, TypeOK
  <2>4. /\ cpc' \in [Cancellers -> Asking \cup {"idle", "acked", "error", "lost"}]
        /\ found' \in [Cancellers -> Records] /\ cseen' \in [Cancellers -> Records]
        /\ answer' \in [Cancellers -> Records]
      BY <1>25 DEF SlotExpires, TypeOK
  <2> QED BY <2>1, <2>2, <2>3, <2>4 DEF TypeOK
<1>26. CASE GoQuiet
    BY <1>26 DEF GoQuiet, TypeOK
<1>27. CASE FailStaleRuns
    BY <1>27 DEF FailStaleRuns, StaleRun, TypeOK
<1>28. CASE Age
    BY <1>28 DEF Age, TypeOK
<1>29. CASE FailStaleMessages
    BY <1>29 DEF FailStaleMessages, StaleMessage, TypeOK
<1>30. ASSUME NEW c \in Cancellers, Find(c) PROVE TypeOK'
    BY <1>30 DEF Find, Step, Alive, TypeOK
<1>31. ASSUME NEW c \in Cancellers, CancelLocal(c) PROVE TypeOK'
    BY <1>31 DEF CancelLocal, Step, TypeOK
<1>32. ASSUME NEW c \in Cancellers, SendSignal(c) PROVE TypeOK'
  <2>1. ctxDone' \in BOOLEAN /\ active' \in BOOLEAN /\ slot' \in BOOLEAN /\ aborting' \in BOOLEAN
      BY <1>32, Zenon DEF SendSignal, Step, TypeOK
  <2>2. quiet' \in BOOLEAN /\ aged' \in BOOLEAN /\ signal' \in BOOLEAN
      BY <1>32, Zenon DEF SendSignal, Step, TypeOK
  <2>3. /\ pc' \in Opening \cup Running \cup Closing \cup Leaving \cup Over
        /\ status' \in Records /\ seen' \in Records \cup Messages
        /\ record' \in Records /\ message' \in Messages
      BY <1>32 DEF SendSignal, Step, TypeOK
  <2>4. /\ cpc' \in [Cancellers -> Asking \cup {"idle", "acked", "error", "lost"}]
        /\ found' \in [Cancellers -> Records] /\ cseen' \in [Cancellers -> Records]
        /\ answer' \in [Cancellers -> Records]
      BY <1>32 DEF SendSignal, Step, TypeOK
  <2> QED BY <2>1, <2>2, <2>3, <2>4 DEF TypeOK
<1>33. ASSUME NEW c \in Cancellers, CancelRead(c) PROVE TypeOK'
    BY <1>33 DEF CancelRead, Step, TypeOK
<1>34. ASSUME NEW c \in Cancellers, CancelSave(c) PROVE TypeOK'
    BY <1>34 DEF CancelSave, Keeps, AfterFailedSave, Step, TypeOK
<1>35. CASE UNCHANGED vars
    BY <1>35 DEF vars, TypeOK
<1> QED
    BY
       <1>1, <1>2, <1>3, <1>4, <1>5, <1>6, <1>7, <1>8, <1>9, <1>10, <1>11,
       <1>12, <1>13, <1>14, <1>15, <1>16, <1>17, <1>18, <1>19, <1>20, <1>21,
       <1>22, <1>23, <1>24, <1>25, <1>26, <1>27, <1>28, <1>29, <1>30, <1>31,
       <1>32, <1>33, <1>34, <1>35
       DEF Next, Goroutine, Surroundings, CancelStep

\* Rows that were read stay, and terminal statuses stay terminal.
LEMMA RowStep == IInv /\ [Next]_vars => RowOnceRead'
<1> SUFFICES ASSUME IInv, [Next]_vars PROVE RowOnceRead'
    OBVIOUS
<1> USE DEF IInv
<1>1. CASE AcquireSlot
    BY <1>1 DEF AcquireSlot, TypeOK, RowOnceRead
<1>2. CASE Prepare
    BY <1>2 DEF Prepare, TypeOK, RowOnceRead
<1>3. CASE Register
    BY <1>3 DEF Register, RegisterActive, TypeOK, RowOnceRead
<1>4. CASE CreateRun
    BY <1>4 DEF CreateRun, TypeOK, RowOnceRead
<1>5. CASE FirstHeartbeat
    BY <1>5 DEF FirstHeartbeat, TypeOK, RowOnceRead
<1>6. CASE MarkRead
    BY <1>6 DEF MarkRead, TypeOK, RowOnceRead
<1>7. CASE MarkSave
    BY <1>7 DEF MarkSave, Forget, Keeps, TypeOK, RowOnceRead
<1>8. CASE SendCreated
    BY <1>8 DEF SendCreated, TypeOK, RowOnceRead
<1>9. CASE SendInterrupted
    BY <1>9 DEF SendInterrupted, Abort, TypeOK, RowOnceRead
<1>10. CASE UpdateRead
    BY <1>10 DEF UpdateRead, TypeOK, RowOnceRead
<1>11. CASE UpdateSave
    BY <1>11 DEF UpdateSave, Forget, Keeps, TypeOK, RowOnceRead
<1>12. CASE FinalizeRead
    BY <1>12 DEF FinalizeRead, TypeOK, RowOnceRead
<1>13. CASE FinalizeSave
    BY <1>13 DEF FinalizeSave, Forget, Keeps, Outcome, TypeOK, RowOnceRead
<1>14. CASE CancelContext
    BY <1>14 DEF CancelContext, TypeOK, RowOnceRead
<1>15. CASE DeleteActive
    BY <1>15 DEF DeleteActive, TypeOK, RowOnceRead
<1>16. CASE ReleaseSlot
    BY <1>16 DEF ReleaseSlot, TypeOK, RowOnceRead
<1>17. CASE LoopEnds
    BY <1>17 DEF LoopEnds, TypeOK, RowOnceRead
<1>18. CASE LoopInterrupted
    BY <1>18 DEF LoopInterrupted, Abort, TypeOK, RowOnceRead
<1>19. CASE LoopPanics
    BY <1>19 DEF LoopPanics, Abort, TypeOK, RowOnceRead
<1>20. CASE ClientLeaves
    BY <1>20 DEF ClientLeaves, TypeOK, RowOnceRead
<1>21. CASE Poll
    BY <1>21 DEF Poll, TypeOK, RowOnceRead
<1>22. CASE Heartbeat
    BY <1>22 DEF Heartbeat, Beating, TypeOK, RowOnceRead
<1>23. CASE LeaseLost
    BY <1>23 DEF LeaseLost, TypeOK, RowOnceRead
<1>24. CASE Crash
    BY <1>24 DEF Crash, TypeOK, RowOnceRead
<1>25. CASE SlotExpires
    BY <1>25 DEF SlotExpires, TypeOK, RowOnceRead
<1>26. CASE GoQuiet
    BY <1>26 DEF GoQuiet, TypeOK, RowOnceRead
<1>27. CASE FailStaleRuns
    BY <1>27 DEF FailStaleRuns, StaleRun, TypeOK, RowOnceRead
<1>28. CASE Age
    BY <1>28 DEF Age, TypeOK, RowOnceRead
<1>29. CASE FailStaleMessages
    BY <1>29 DEF FailStaleMessages, StaleMessage, TypeOK, RowOnceRead
<1>30. ASSUME NEW c \in Cancellers, Find(c) PROVE RowOnceRead'
    BY <1>30 DEF Find, Step, Alive, TypeOK, RowOnceRead
<1>31. ASSUME NEW c \in Cancellers, CancelLocal(c) PROVE RowOnceRead'
    BY <1>31 DEF CancelLocal, Step, TypeOK, RowOnceRead
<1>32. ASSUME NEW c \in Cancellers, SendSignal(c) PROVE RowOnceRead'
    BY <1>32 DEF SendSignal, Step, TypeOK, RowOnceRead
<1>33. ASSUME NEW c \in Cancellers, CancelRead(c) PROVE RowOnceRead'
    BY <1>33 DEF CancelRead, Step, TypeOK, RowOnceRead
<1>34. ASSUME NEW c \in Cancellers, CancelSave(c) PROVE RowOnceRead'
    BY <1>34 DEF CancelSave, Keeps, AfterFailedSave, Step, TypeOK, RowOnceRead
<1>35. CASE UNCHANGED vars
    BY <1>35 DEF vars, TypeOK, RowOnceRead
<1> QED
    BY
       <1>1, <1>2, <1>3, <1>4, <1>5, <1>6, <1>7, <1>8, <1>9, <1>10, <1>11,
       <1>12, <1>13, <1>14, <1>15, <1>16, <1>17, <1>18, <1>19, <1>20, <1>21,
       <1>22, <1>23, <1>24, <1>25, <1>26, <1>27, <1>28, <1>29, <1>30, <1>31,
       <1>32, <1>33, <1>34, <1>35
       DEF Next, Goroutine, Surroundings, CancelStep

\* The cancel function is stored while it may be needed.
LEMMA StoredStep == IInv /\ [Next]_vars => StoredWhileRunning'
<1> SUFFICES ASSUME IInv, [Next]_vars PROVE StoredWhileRunning'
    OBVIOUS
<1> USE DEF IInv
<1>1. CASE AcquireSlot
    BY <1>1 DEF AcquireSlot, TypeOK, StoredWhileRunning
<1>2. CASE Prepare
    BY <1>2 DEF Prepare, TypeOK, StoredWhileRunning
<1>3. CASE Register
    BY <1>3 DEF Register, RegisterActive, TypeOK, StoredWhileRunning
<1>4. CASE CreateRun
    BY <1>4 DEF CreateRun, TypeOK, StoredWhileRunning
<1>5. CASE FirstHeartbeat
    BY <1>5 DEF FirstHeartbeat, TypeOK, StoredWhileRunning
<1>6. CASE MarkRead
    BY <1>6 DEF MarkRead, TypeOK, StoredWhileRunning
<1>7. CASE MarkSave
    BY <1>7 DEF MarkSave, Forget, Keeps, TypeOK, StoredWhileRunning
<1>8. CASE SendCreated
    BY <1>8 DEF SendCreated, TypeOK, StoredWhileRunning
<1>9. CASE SendInterrupted
    BY <1>9 DEF SendInterrupted, Abort, TypeOK, StoredWhileRunning
<1>10. CASE UpdateRead
    BY <1>10 DEF UpdateRead, TypeOK, StoredWhileRunning
<1>11. CASE UpdateSave
    BY <1>11 DEF UpdateSave, Forget, Keeps, TypeOK, StoredWhileRunning
<1>12. CASE FinalizeRead
    BY <1>12 DEF FinalizeRead, TypeOK, StoredWhileRunning
<1>13. CASE FinalizeSave
    BY <1>13 DEF FinalizeSave, Forget, Keeps, Outcome, TypeOK, StoredWhileRunning
<1>14. CASE CancelContext
    BY <1>14 DEF CancelContext, TypeOK, StoredWhileRunning
<1>15. CASE DeleteActive
    BY <1>15 DEF DeleteActive, TypeOK, StoredWhileRunning
<1>16. CASE ReleaseSlot
    BY <1>16 DEF ReleaseSlot, TypeOK, StoredWhileRunning
<1>17. CASE LoopEnds
    BY <1>17 DEF LoopEnds, TypeOK, StoredWhileRunning
<1>18. CASE LoopInterrupted
    BY <1>18 DEF LoopInterrupted, Abort, TypeOK, StoredWhileRunning
<1>19. CASE LoopPanics
    BY <1>19 DEF LoopPanics, Abort, TypeOK, StoredWhileRunning
<1>20. CASE ClientLeaves
    BY <1>20 DEF ClientLeaves, TypeOK, StoredWhileRunning
<1>21. CASE Poll
    BY <1>21 DEF Poll, TypeOK, StoredWhileRunning
<1>22. CASE Heartbeat
    BY <1>22 DEF Heartbeat, Beating, TypeOK, StoredWhileRunning
<1>23. CASE LeaseLost
    BY <1>23 DEF LeaseLost, TypeOK, StoredWhileRunning
<1>24. CASE Crash
    BY <1>24 DEF Crash, TypeOK, StoredWhileRunning
<1>25. CASE SlotExpires
    BY <1>25 DEF SlotExpires, TypeOK, StoredWhileRunning
<1>26. CASE GoQuiet
    BY <1>26 DEF GoQuiet, TypeOK, StoredWhileRunning
<1>27. CASE FailStaleRuns
    BY <1>27 DEF FailStaleRuns, StaleRun, TypeOK, StoredWhileRunning
<1>28. CASE Age
    BY <1>28 DEF Age, TypeOK, StoredWhileRunning
<1>29. CASE FailStaleMessages
    BY <1>29 DEF FailStaleMessages, StaleMessage, TypeOK, StoredWhileRunning
<1>30. ASSUME NEW c \in Cancellers, Find(c) PROVE StoredWhileRunning'
    BY <1>30 DEF Find, Step, Alive, TypeOK, StoredWhileRunning
<1>31. ASSUME NEW c \in Cancellers, CancelLocal(c) PROVE StoredWhileRunning'
    BY <1>31 DEF CancelLocal, Step, TypeOK, StoredWhileRunning
<1>32. ASSUME NEW c \in Cancellers, SendSignal(c) PROVE StoredWhileRunning'
    BY <1>32 DEF SendSignal, Step, TypeOK, StoredWhileRunning
<1>33. ASSUME NEW c \in Cancellers, CancelRead(c) PROVE StoredWhileRunning'
    BY <1>33 DEF CancelRead, Step, TypeOK, StoredWhileRunning
<1>34. ASSUME NEW c \in Cancellers, CancelSave(c) PROVE StoredWhileRunning'
    BY <1>34 DEF CancelSave, Keeps, AfterFailedSave, Step, TypeOK, StoredWhileRunning
<1>35. CASE UNCHANGED vars
    BY <1>35 DEF vars, TypeOK, StoredWhileRunning
<1> QED
    BY
       <1>1, <1>2, <1>3, <1>4, <1>5, <1>6, <1>7, <1>8, <1>9, <1>10, <1>11,
       <1>12, <1>13, <1>14, <1>15, <1>16, <1>17, <1>18, <1>19, <1>20, <1>21,
       <1>22, <1>23, <1>24, <1>25, <1>26, <1>27, <1>28, <1>29, <1>30, <1>31,
       <1>32, <1>33, <1>34, <1>35
       DEF Next, Goroutine, Surroundings, CancelStep

\* An answered cancel request has seen, or made, the row terminal.
LEMMA AnsweredStep == IInv /\ [Next]_vars => AnsweredMeansTerminal'
<1> SUFFICES ASSUME IInv, [Next]_vars PROVE AnsweredMeansTerminal'
    OBVIOUS
<1> USE DEF IInv
<1>1. CASE AcquireSlot
    BY <1>1 DEF AcquireSlot, TypeOK, RowOnceRead, AnsweredMeansTerminal
<1>2. CASE Prepare
    BY <1>2 DEF Prepare, TypeOK, RowOnceRead, AnsweredMeansTerminal
<1>3. CASE Register
    BY <1>3 DEF Register, RegisterActive, TypeOK, RowOnceRead, AnsweredMeansTerminal
<1>4. CASE CreateRun
    BY <1>4 DEF CreateRun, TypeOK, RowOnceRead, AnsweredMeansTerminal
<1>5. CASE FirstHeartbeat
    BY <1>5 DEF FirstHeartbeat, TypeOK, RowOnceRead, AnsweredMeansTerminal
<1>6. CASE MarkRead
    BY <1>6 DEF MarkRead, TypeOK, RowOnceRead, AnsweredMeansTerminal
<1>7. CASE MarkSave
    BY <1>7 DEF MarkSave, Forget, Keeps, TypeOK, RowOnceRead, AnsweredMeansTerminal
<1>8. CASE SendCreated
    BY <1>8 DEF SendCreated, TypeOK, RowOnceRead, AnsweredMeansTerminal
<1>9. CASE SendInterrupted
    BY <1>9 DEF SendInterrupted, Abort, TypeOK, RowOnceRead, AnsweredMeansTerminal
<1>10. CASE UpdateRead
    BY <1>10 DEF UpdateRead, TypeOK, RowOnceRead, AnsweredMeansTerminal
<1>11. CASE UpdateSave
    BY <1>11 DEF UpdateSave, Forget, Keeps, TypeOK, RowOnceRead, AnsweredMeansTerminal
<1>12. CASE FinalizeRead
    BY <1>12 DEF FinalizeRead, TypeOK, RowOnceRead, AnsweredMeansTerminal
<1>13. CASE FinalizeSave
    BY <1>13 DEF FinalizeSave, Forget, Keeps, Outcome, TypeOK, RowOnceRead, AnsweredMeansTerminal
<1>14. CASE CancelContext
    BY <1>14 DEF CancelContext, TypeOK, RowOnceRead, AnsweredMeansTerminal
<1>15. CASE DeleteActive
    BY <1>15 DEF DeleteActive, TypeOK, RowOnceRead, AnsweredMeansTerminal
<1>16. CASE ReleaseSlot
    BY <1>16 DEF ReleaseSlot, TypeOK, RowOnceRead, AnsweredMeansTerminal
<1>17. CASE LoopEnds
    BY <1>17 DEF LoopEnds, TypeOK, RowOnceRead, AnsweredMeansTerminal
<1>18. CASE LoopInterrupted
    BY <1>18 DEF LoopInterrupted, Abort, TypeOK, RowOnceRead, AnsweredMeansTerminal
<1>19. CASE LoopPanics
    BY <1>19 DEF LoopPanics, Abort, TypeOK, RowOnceRead, AnsweredMeansTerminal
<1>20. CASE ClientLeaves
    BY <1>20 DEF ClientLeaves, TypeOK, RowOnceRead, AnsweredMeansTerminal
<1>21. CASE Poll
    BY <1>21 DEF Poll, TypeOK, RowOnceRead, AnsweredMeansTerminal
<1>22. CASE Heartbeat
    BY <1>22 DEF Heartbeat, Beating, TypeOK, RowOnceRead, AnsweredMeansTerminal
<1>23. CASE LeaseLost
    BY <1>23 DEF LeaseLost, TypeOK, RowOnceRead, AnsweredMeansTerminal
<1>24. CASE Crash
    BY <1>24 DEF Crash, TypeOK, RowOnceRead, AnsweredMeansTerminal
<1>25. CASE SlotExpires
    BY <1>25 DEF SlotExpires, TypeOK, RowOnceRead, AnsweredMeansTerminal
<1>26. CASE GoQuiet
    BY <1>26 DEF GoQuiet, TypeOK, RowOnceRead, AnsweredMeansTerminal
<1>27. CASE FailStaleRuns
    BY <1>27 DEF FailStaleRuns, StaleRun, TypeOK, RowOnceRead, AnsweredMeansTerminal
<1>28. CASE Age
    BY <1>28 DEF Age, TypeOK, RowOnceRead, AnsweredMeansTerminal
<1>29. CASE FailStaleMessages
    BY <1>29 DEF FailStaleMessages, StaleMessage, TypeOK, RowOnceRead, AnsweredMeansTerminal
<1>30. ASSUME NEW c \in Cancellers, Find(c) PROVE AnsweredMeansTerminal'
    BY <1>30 DEF Find, Step, Alive, TypeOK, RowOnceRead, AnsweredMeansTerminal
<1>31. ASSUME NEW c \in Cancellers, CancelLocal(c) PROVE AnsweredMeansTerminal'
    BY <1>31 DEF CancelLocal, Step, TypeOK, RowOnceRead, AnsweredMeansTerminal
<1>32. ASSUME NEW c \in Cancellers, SendSignal(c) PROVE AnsweredMeansTerminal'
    BY <1>32 DEF SendSignal, Step, TypeOK, RowOnceRead, AnsweredMeansTerminal
<1>33. ASSUME NEW c \in Cancellers, CancelRead(c) PROVE AnsweredMeansTerminal'
    BY <1>33 DEF CancelRead, Step, TypeOK, RowOnceRead, AnsweredMeansTerminal
<1>34. ASSUME NEW c \in Cancellers, CancelSave(c) PROVE AnsweredMeansTerminal'
    BY <1>34 DEF CancelSave, Keeps, AfterFailedSave, Step, TypeOK, RowOnceRead, AnsweredMeansTerminal
<1>35. CASE UNCHANGED vars
    BY <1>35 DEF vars, TypeOK, RowOnceRead, AnsweredMeansTerminal
<1> QED
    BY
       <1>1, <1>2, <1>3, <1>4, <1>5, <1>6, <1>7, <1>8, <1>9, <1>10, <1>11,
       <1>12, <1>13, <1>14, <1>15, <1>16, <1>17, <1>18, <1>19, <1>20, <1>21,
       <1>22, <1>23, <1>24, <1>25, <1>26, <1>27, <1>28, <1>29, <1>30, <1>31,
       <1>32, <1>33, <1>34, <1>35
       DEF Next, Goroutine, Surroundings, CancelStep

\* A local request that has passed activeRuns has ended the context.
LEMMA ImmediateStep == IInv /\ [Next]_vars => LocalCancelIsImmediate'
<1> SUFFICES ASSUME IInv, [Next]_vars PROVE LocalCancelIsImmediate'
    OBVIOUS
<1> USE DEF IInv
<1>1. CASE AcquireSlot
    BY <1>1 DEF AcquireSlot, TypeOK, RowOnceRead, StoredWhileRunning, LocalCancelIsImmediate
<1>2. CASE Prepare
    BY <1>2 DEF Prepare, TypeOK, RowOnceRead, StoredWhileRunning, LocalCancelIsImmediate
<1>3. CASE Register
    BY <1>3 DEF Register, RegisterActive, TypeOK, RowOnceRead, StoredWhileRunning, LocalCancelIsImmediate
<1>4. CASE CreateRun
    BY <1>4 DEF CreateRun, TypeOK, RowOnceRead, StoredWhileRunning, LocalCancelIsImmediate
<1>5. CASE FirstHeartbeat
    BY <1>5 DEF FirstHeartbeat, TypeOK, RowOnceRead, StoredWhileRunning, LocalCancelIsImmediate
<1>6. CASE MarkRead
    BY <1>6 DEF MarkRead, TypeOK, RowOnceRead, StoredWhileRunning, LocalCancelIsImmediate
<1>7. CASE MarkSave
    BY <1>7 DEF MarkSave, Forget, Keeps, TypeOK, RowOnceRead, StoredWhileRunning, LocalCancelIsImmediate
<1>8. CASE SendCreated
    BY <1>8 DEF SendCreated, TypeOK, RowOnceRead, StoredWhileRunning, LocalCancelIsImmediate
<1>9. CASE SendInterrupted
    BY <1>9 DEF SendInterrupted, Abort, TypeOK, RowOnceRead, StoredWhileRunning, LocalCancelIsImmediate
<1>10. CASE UpdateRead
    BY <1>10 DEF UpdateRead, TypeOK, RowOnceRead, StoredWhileRunning, LocalCancelIsImmediate
<1>11. CASE UpdateSave
    BY <1>11 DEF UpdateSave, Forget, Keeps, TypeOK, RowOnceRead, StoredWhileRunning, LocalCancelIsImmediate
<1>12. CASE FinalizeRead
    BY <1>12 DEF FinalizeRead, TypeOK, RowOnceRead, StoredWhileRunning, LocalCancelIsImmediate
<1>13. CASE FinalizeSave
    BY <1>13 DEF FinalizeSave, Forget, Keeps, Outcome, TypeOK, RowOnceRead, StoredWhileRunning, LocalCancelIsImmediate
<1>14. CASE CancelContext
    BY <1>14 DEF CancelContext, TypeOK, RowOnceRead, StoredWhileRunning, LocalCancelIsImmediate
<1>15. CASE DeleteActive
    BY <1>15 DEF DeleteActive, TypeOK, RowOnceRead, StoredWhileRunning, LocalCancelIsImmediate
<1>16. CASE ReleaseSlot
    BY <1>16 DEF ReleaseSlot, TypeOK, RowOnceRead, StoredWhileRunning, LocalCancelIsImmediate
<1>17. CASE LoopEnds
    BY <1>17 DEF LoopEnds, TypeOK, RowOnceRead, StoredWhileRunning, LocalCancelIsImmediate
<1>18. CASE LoopInterrupted
    BY <1>18 DEF LoopInterrupted, Abort, TypeOK, RowOnceRead, StoredWhileRunning, LocalCancelIsImmediate
<1>19. CASE LoopPanics
    BY <1>19 DEF LoopPanics, Abort, TypeOK, RowOnceRead, StoredWhileRunning, LocalCancelIsImmediate
<1>20. CASE ClientLeaves
    BY <1>20 DEF ClientLeaves, TypeOK, RowOnceRead, StoredWhileRunning, LocalCancelIsImmediate
<1>21. CASE Poll
    BY <1>21 DEF Poll, TypeOK, RowOnceRead, StoredWhileRunning, LocalCancelIsImmediate
<1>22. CASE Heartbeat
    BY <1>22 DEF Heartbeat, Beating, TypeOK, RowOnceRead, StoredWhileRunning, LocalCancelIsImmediate
<1>23. CASE LeaseLost
    BY <1>23 DEF LeaseLost, TypeOK, RowOnceRead, StoredWhileRunning, LocalCancelIsImmediate
<1>24. CASE Crash
    BY <1>24 DEF Crash, TypeOK, RowOnceRead, StoredWhileRunning, LocalCancelIsImmediate
<1>25. CASE SlotExpires
    BY <1>25 DEF SlotExpires, TypeOK, RowOnceRead, StoredWhileRunning, LocalCancelIsImmediate
<1>26. CASE GoQuiet
    BY <1>26 DEF GoQuiet, TypeOK, RowOnceRead, StoredWhileRunning, LocalCancelIsImmediate
<1>27. CASE FailStaleRuns
    BY <1>27 DEF FailStaleRuns, StaleRun, TypeOK, RowOnceRead, StoredWhileRunning, LocalCancelIsImmediate
<1>28. CASE Age
    BY <1>28 DEF Age, TypeOK, RowOnceRead, StoredWhileRunning, LocalCancelIsImmediate
<1>29. CASE FailStaleMessages
    BY <1>29 DEF FailStaleMessages, StaleMessage, TypeOK, RowOnceRead, StoredWhileRunning, LocalCancelIsImmediate
<1>30. ASSUME NEW c \in Cancellers, Find(c) PROVE LocalCancelIsImmediate'
    BY <1>30 DEF Find, Step, Alive, TypeOK, RowOnceRead, StoredWhileRunning, LocalCancelIsImmediate
<1>31. ASSUME NEW c \in Cancellers, CancelLocal(c) PROVE LocalCancelIsImmediate'
    BY <1>31 DEF CancelLocal, Step, TypeOK, RowOnceRead, StoredWhileRunning, LocalCancelIsImmediate
<1>32. ASSUME NEW c \in Cancellers, SendSignal(c) PROVE LocalCancelIsImmediate'
    BY <1>32 DEF SendSignal, Step, TypeOK, RowOnceRead, StoredWhileRunning, LocalCancelIsImmediate
<1>33. ASSUME NEW c \in Cancellers, CancelRead(c) PROVE LocalCancelIsImmediate'
    BY <1>33 DEF CancelRead, Step, TypeOK, RowOnceRead, StoredWhileRunning, LocalCancelIsImmediate
<1>34. ASSUME NEW c \in Cancellers, CancelSave(c) PROVE LocalCancelIsImmediate'
    BY <1>34 DEF CancelSave, Keeps, AfterFailedSave, Step, TypeOK, RowOnceRead, StoredWhileRunning, LocalCancelIsImmediate
<1>35. CASE UNCHANGED vars
    BY <1>35 DEF vars, TypeOK, RowOnceRead, StoredWhileRunning, LocalCancelIsImmediate
<1> QED
    BY
       <1>1, <1>2, <1>3, <1>4, <1>5, <1>6, <1>7, <1>8, <1>9, <1>10, <1>11,
       <1>12, <1>13, <1>14, <1>15, <1>16, <1>17, <1>18, <1>19, <1>20, <1>21,
       <1>22, <1>23, <1>24, <1>25, <1>26, <1>27, <1>28, <1>29, <1>30, <1>31,
       <1>32, <1>33, <1>34, <1>35
       DEF Next, Goroutine, Surroundings, CancelStep

\* Only finalizeRunChatContext completes the message, and nothing changes the
\* goroutine's status after it.
LEMMA CompletedStep == IInv /\ [Next]_vars => CompletedLast'
<1> SUFFICES ASSUME IInv, [Next]_vars PROVE CompletedLast'
    OBVIOUS
<1> USE DEF IInv, CompletedLast
<1>1. ASSUME message' = message \/ message' # "COMPLETED",
             pc' = pc \/ pc' \in Leaving \cup Over,
             status' = status \/ message' # "COMPLETED"
      PROVE  CompletedLast'
    BY <1>1
<1>2. CASE AcquireSlot \/ Prepare \/ Register \/ CreateRun \/ FirstHeartbeat
    BY <1>2 DEF AcquireSlot, Prepare, Register, RegisterActive, CreateRun, FirstHeartbeat
<1>3. CASE MarkRead \/ MarkSave \/ SendCreated \/ SendInterrupted
    BY <1>3 DEF MarkRead, MarkSave, SendCreated, SendInterrupted, Abort
<1>4. CASE LoopEnds \/ LoopInterrupted \/ LoopPanics \/ UpdateRead \/ UpdateSave \/ FinalizeRead
    BY <1>4 DEF LoopEnds, LoopInterrupted, LoopPanics, Abort, UpdateRead, UpdateSave, FinalizeRead
<1>5. CASE FinalizeSave
    BY <1>5 DEF FinalizeSave, Outcome
<1>6. CASE CancelContext \/ DeleteActive \/ ReleaseSlot \/ Surroundings \/ UNCHANGED vars
    BY <1>1, <1>6 DEF CancelContext, DeleteActive, ReleaseSlot, Surroundings, ClientLeaves, Poll,
       Heartbeat, LeaseLost, Crash, SlotExpires, GoQuiet, FailStaleRuns, Age, FailStaleMessages, vars
<1>7. CASE \E c \in Cancellers : Find(c) \/ CancelStep(c)
    BY <1>1, <1>7 DEF CancelStep, Find, CancelLocal, SendSignal, CancelRead, CancelSave
<1> QED BY <1>2, <1>3, <1>4, <1>5, <1>6, <1>7 DEF Next, Goroutine

-----------------------------------------------------------------------------
\* The initial state satisfies the invariant.
LEMMA InitInv == Init => IInv
<1> SUFFICES ASSUME Init PROVE IInv
    OBVIOUS
<1>1. TypeOK
    BY DEF Init, TypeOK
<1>2. RowOnceRead
    BY DEF Init, RowOnceRead
<1>3. StoredWhileRunning
    BY DEF Init, StoredWhileRunning
<1>4. AnsweredMeansTerminal /\ LocalCancelIsImmediate /\ CompletedLast
    BY DEF Init, AnsweredMeansTerminal, LocalCancelIsImmediate, CompletedLast
<1> QED BY <1>1, <1>2, <1>3, <1>4 DEF IInv

\* Every step keeps the invariant.
LEMMA NextInv == IInv /\ [Next]_vars => IInv'
  BY TypeStep, RowStep, StoredStep, AnsweredStep, ImmediateStep, CompletedStep DEF IInv

\* The rows, the cancel function and the cancel requests agree as IInv says, for
\* any number of cancel requests on any instances.
THEOREM Inductive == Spec => []IInv
  BY InitInv, NextInv, PTL DEF Spec

\* The rows and the copies read of them hold only the states the code writes
\* (service.go, agent_repository.go, chat_repository.go).
THEOREM TypeCorrect == Spec => []TypeOK
<1>1. IInv => TypeOK
  BY DEF IInv
<1> QED BY Inductive, <1>1, PTL

\* A cancel request answered with success leaves a terminal row (cancelRun).
THEOREM Answered == Spec => []AnsweredMeansTerminal
<1>1. IInv => AnsweredMeansTerminal
    BY DEF IInv
<1> QED BY Inductive, <1>1, PTL

\* What the two rows say is true: a cancel that was answered is in the run's row,
\* and the message is completed only if its goroutine completed the run.
THEOREM Truthful == Spec => []RowsTellTheTruth
<1>1. IInv => RowsTellTheTruth
    BY DEF IInv, CompletedLast, RowsTellTheTruth, MessageFollowsRun
<1> QED BY Inductive, <1>1, PTL

\* A cancel request on the instance of the run interrupts it at once.
THEOREM Immediate == Spec => []LocalCancelIsImmediate
<1>1. IInv => LocalCancelIsImmediate
    BY DEF IInv
<1> QED BY Inductive, <1>1, PTL

\* When the run is over, its watchers, heartbeat and cancel function are gone.
THEOREM Clean == Spec => []NothingLeftBehind
<1>1. IInv => NothingLeftBehind
    BY DEF IInv, StoredWhileRunning, NothingLeftBehind, Watched, Beating
<1> QED BY Inductive, <1>1, PTL

\* A terminal row stays terminal, and changes only under an outdated Save.
THEOREM Raced == Spec => SettledUnlessRaced
<1> DEFINE Stays == (record \in Terminal) =>
                      (record' \in Terminal /\ (record' = record \/ PendingSave))
<1>1. ASSUME IInv, Next PROVE Stays
  <2> USE DEF IInv
  <2>1. CASE CreateRun
      BY <1>1, <2>1 DEF CreateRun, RowOnceRead
  <2>2. CASE UpdateSave
      BY <1>1, <2>2 DEF UpdateSave, Keeps, RowOnceRead, TypeOK, PendingSave
  <2>3. CASE FailStaleRuns
      BY <2>3 DEF FailStaleRuns, StaleRun
  <2>4. ASSUME NEW c \in Cancellers, CancelSave(c) PROVE Stays
      BY <1>1, <2>4 DEF CancelSave, Keeps, Step, TypeOK, PendingSave
  <2>5. ASSUME record' = record PROVE Stays
      BY <2>5
  <2>6. record' = record \/ CreateRun \/ UpdateSave \/ FailStaleRuns
          \/ \E c \in Cancellers : CancelSave(c)
      BY <1>1 DEF Next, Goroutine, Surroundings, CancelStep, vars,
         AcquireSlot, Prepare, Register, FirstHeartbeat, MarkRead, MarkSave, SendCreated,
         SendInterrupted, UpdateRead, FinalizeRead, FinalizeSave, CancelContext,
         DeleteActive, ReleaseSlot, LoopEnds, LoopInterrupted, LoopPanics, Abort,
         ClientLeaves, Poll, Heartbeat, LeaseLost, Crash, SlotExpires, GoQuiet, Age,
         FailStaleMessages, Find, CancelLocal, SendSignal, CancelRead
  <2> QED BY <2>1, <2>2, <2>3, <2>4, <2>5, <2>6
<1>2. IInv /\ [Next]_vars => [Stays]_vars
    BY <1>1
<1> QED BY Inductive, <1>2, PTL DEF Spec, SettledUnlessRaced
=============================================================================
