-------------------------- MODULE ConfigSwap_proofs --------------------------
(***************************************************************************)
(* Proofs about ConfigSwap, for any number of configurations, edits and    *)
(* blocks.  Type correctness, the audio thread's hold on the active        *)
(* configuration and the agreement of flag and semaphore need nothing from *)
(* the environment.  The rest is proved when no edit races an initialize   *)
(* (CalmStart): without it TLC shows the handoff fails.                    *)
(***************************************************************************)
EXTENDS ConfigSwap, TLAPS

USE DEF channelVars, permitVars, rtVars, watchVars

\* The Boolean variables stay Boolean.
LEMMA FlagsStep ==
  ASSUME FlagsOK, [Next]_vars
  PROVE  FlagsOK'
<1>. USE DEF FlagsOK
<1>1. CASE Lock
  BY <1>1 DEF Lock, Reset, ReleasePublishPermit
<1>2. CASE Seed
  BY <1>2 DEF Seed, Reset, ReleasePublishPermit
<1>3. CASE SeedThrows
  BY <1>3 DEF SeedThrows
<1>4. CASE InitialLoad
  BY <1>4 DEF InitialLoad
<1>5. CASE StartStream
  BY <1>5 DEF StartStream
<1>6. CASE Unlock
  BY <1>6 DEF Unlock
<1>7. CASE Destroy
  BY <1>7 DEF Destroy
<1>8. CASE Joined
  BY <1>8 DEF Joined, Reset, ReleasePublishPermit
<1>9. CASE Scan
  BY <1>9 DEF Scan
<1>10. CASE Wake
  BY <1>10 DEF Wake
<1>11. CASE AcquirePermit
  BY <1>11 DEF AcquirePermit
<1>12. CASE MarkHeld
  BY <1>12 DEF MarkHeld
<1>13. CASE LockLoad
  BY <1>13 DEF LockLoad
<1>14. CASE Load
  BY <1>14 DEF Load
<1>15. CASE Retire
  BY <1>15 DEF Retire
<1>16. CASE StorePending
  BY <1>16 DEF StorePending
<1>17. CASE SetReady
  BY <1>17 DEF SetReady
<1>18. CASE GiveUp
  BY <1>18 DEF GiveUp, ReleasePublishPermit
<1>19. CASE BeginBlock
  BY <1>19 DEF BeginBlock
<1>20. CASE CheckPending
  BY <1>20 DEF CheckPending
<1>21. CASE DoTransition
  BY <1>21 DEF DoTransition
<1>22. CASE Finish
  BY <1>22 DEF Finish
<1>23. CASE ClearReady
  BY <1>23 DEF ClearReady
<1>24. CASE ReleaseOnRt
  BY <1>24 DEF ReleaseOnRt, ReleasePublishPermit
<1>25. CASE Rewind
  BY <1>25 DEF Rewind
<1>26. CASE Edit
  BY <1>26 DEF Edit
<1>27. CASE Silence
  BY <1>27 DEF Silence
<1>28. CASE UNCHANGED vars
  BY <1>28 DEF vars
<1>. QED
  BY <1>1, <1>2, <1>3, <1>4, <1>5, <1>6, <1>7, <1>8, <1>9, <1>10, <1>11,
       <1>12, <1>13, <1>14, <1>15, <1>16, <1>17, <1>18, <1>19, <1>20, <1>21,
       <1>22, <1>23, <1>24, <1>25, <1>26, <1>27, <1>28 DEF Next, CtlStep,
       WtStep, RtStep

\* Each action keeps the other variables in their sets; the permit is returned
\* only by whoever clears permitHeld, so the semaphore stays at 0 or 1.
LEMMA TypeStep ==
  ASSUME TypeOK, FlagsOK', [Next]_vars
  PROVE  TypeOK'
<1>. USE ConfigSwapAssumption DEF TypeOK, CtlStates, WtStates, RtStates,
     Publishing
<1>1. CASE Lock
  BY <1>1 DEF Lock, Reset, ReleasePublishPermit
<1>2. CASE Seed
  BY <1>2 DEF Seed, Reset, ReleasePublishPermit
<1>3. CASE SeedThrows
  BY <1>3 DEF SeedThrows
<1>4. CASE InitialLoad
  BY <1>4 DEF InitialLoad
<1>5. CASE StartStream
  BY <1>5 DEF StartStream
<1>6. CASE Unlock
  BY <1>6 DEF Unlock
<1>7. CASE Destroy
  BY <1>7 DEF Destroy
<1>8. CASE Joined
  BY <1>8 DEF Joined, Reset, ReleasePublishPermit
<1>9. CASE Scan
  BY <1>9 DEF Scan
<1>10. CASE Wake
  BY <1>10 DEF Wake
<1>11. CASE AcquirePermit
  BY <1>11 DEF AcquirePermit
<1>12. CASE MarkHeld
  BY <1>12 DEF MarkHeld
<1>13. CASE LockLoad
  BY <1>13 DEF LockLoad
<1>14. CASE Load
  BY <1>14 DEF Load
<1>15. CASE Retire
  BY <1>15 DEF Retire
<1>16. CASE StorePending
  BY <1>16 DEF StorePending
<1>17. CASE SetReady
  BY <1>17 DEF SetReady
<1>18. CASE GiveUp
  BY <1>18 DEF GiveUp, ReleasePublishPermit
<1>19. CASE BeginBlock
  BY <1>19 DEF BeginBlock
<1>20. CASE CheckPending
  BY <1>20 DEF CheckPending
<1>21. CASE DoTransition
  BY <1>21 DEF DoTransition, Saturate
<1>22. CASE Finish
  BY <1>22 DEF Finish
<1>23. CASE ClearReady
  BY <1>23 DEF ClearReady
<1>24. CASE ReleaseOnRt
  BY <1>24 DEF ReleaseOnRt, ReleasePublishPermit
<1>25. CASE Rewind
  BY <1>25 DEF Rewind
<1>26. CASE Edit
  BY <1>26 DEF Edit
<1>27. CASE Silence
  BY <1>27 DEF Silence
<1>28. CASE UNCHANGED vars
  BY <1>28 DEF vars
<1>. QED
  BY <1>1, <1>2, <1>3, <1>4, <1>5, <1>6, <1>7, <1>8, <1>9, <1>10, <1>11,
       <1>12, <1>13, <1>14, <1>15, <1>16, <1>17, <1>18, <1>19, <1>20, <1>21,
       <1>22, <1>23, <1>24, <1>25, <1>26, <1>27, <1>28 DEF Next, CtlStep,
       WtStep, RtStep

\* No step replaces the active configuration under a block: the worker never
\* writes that pointer, the client writes it only when no block runs.
LEMMA BlockBracketStep ==
  ASSUME TypeOK, BlockBracket, [Next]_vars
  PROVE  BlockBracket'
<1>. USE ConfigSwapAssumption DEF BlockBracket, CurrentStable
<1>1. CASE Lock
  BY <1>1 DEF Lock, Reset, ReleasePublishPermit
<1>2. CASE Seed
  BY <1>2 DEF Seed, Reset, ReleasePublishPermit
<1>3. CASE SeedThrows
  BY <1>3 DEF SeedThrows
<1>4. CASE InitialLoad
  BY <1>4 DEF InitialLoad
<1>5. CASE StartStream
  BY <1>5 DEF StartStream
<1>6. CASE Unlock
  BY <1>6 DEF Unlock
<1>7. CASE Destroy
  BY <1>7 DEF Destroy
<1>8. CASE Joined
  BY <1>8 DEF Joined, Reset, ReleasePublishPermit
<1>9. CASE Scan
  BY <1>9 DEF Scan
<1>10. CASE Wake
  BY <1>10 DEF Wake
<1>11. CASE AcquirePermit
  BY <1>11 DEF AcquirePermit
<1>12. CASE MarkHeld
  BY <1>12 DEF MarkHeld
<1>13. CASE LockLoad
  BY <1>13 DEF LockLoad
<1>14. CASE Load
  BY <1>14 DEF Load
<1>15. CASE Retire
  BY <1>15 DEF Retire
<1>16. CASE StorePending
  BY <1>16 DEF StorePending
<1>17. CASE SetReady
  BY <1>17 DEF SetReady
<1>18. CASE GiveUp
  BY <1>18 DEF GiveUp, ReleasePublishPermit
<1>19. CASE BeginBlock
  BY <1>19 DEF BeginBlock
<1>20. CASE CheckPending
  BY <1>20 DEF CheckPending
<1>21. CASE DoTransition
  BY <1>21 DEF DoTransition
<1>22. CASE Finish
  BY <1>22 DEF Finish
<1>23. CASE ClearReady
  BY <1>23 DEF ClearReady
<1>24. CASE ReleaseOnRt
  BY <1>24 DEF ReleaseOnRt, ReleasePublishPermit
<1>25. CASE Rewind
  BY <1>25 DEF Rewind
<1>26. CASE Edit
  BY <1>26 DEF Edit
<1>27. CASE Silence
  BY <1>27 DEF Silence
<1>28. CASE UNCHANGED vars
  BY <1>28 DEF vars
<1>. QED
  BY <1>1, <1>2, <1>3, <1>4, <1>5, <1>6, <1>7, <1>8, <1>9, <1>10, <1>11,
       <1>12, <1>13, <1>14, <1>15, <1>16, <1>17, <1>18, <1>19, <1>20, <1>21,
       <1>22, <1>23, <1>24, <1>25, <1>26, <1>27, <1>28 DEF Next, CtlStep,
       WtStep, RtStep

\* Flag and semaphore are changed together everywhere but between
\* AcquirePermit and MarkHeld.
LEMMA FlagMatchesPermitStep ==
  ASSUME TypeOK, FlagMatchesPermit, [Next]_vars
  PROVE  FlagMatchesPermit'
<1>. USE DEF TypeOK, FlagMatchesPermit
<1>1. CASE Lock
  BY <1>1 DEF Lock, Reset, ReleasePublishPermit
<1>2. CASE Seed
  BY <1>2 DEF Seed, Reset, ReleasePublishPermit
<1>3. CASE SeedThrows
  BY <1>3 DEF SeedThrows
<1>4. CASE InitialLoad
  BY <1>4 DEF InitialLoad
<1>5. CASE StartStream
  BY <1>5 DEF StartStream
<1>6. CASE Unlock
  BY <1>6 DEF Unlock
<1>7. CASE Destroy
  BY <1>7 DEF Destroy
<1>8. CASE Joined
  BY <1>8 DEF Joined, Reset, ReleasePublishPermit
<1>9. CASE Scan
  BY <1>9 DEF Scan
<1>10. CASE Wake
  BY <1>10 DEF Wake
<1>11. CASE AcquirePermit
  BY <1>11 DEF AcquirePermit
<1>12. CASE MarkHeld
  BY <1>12 DEF MarkHeld
<1>13. CASE LockLoad
  BY <1>13 DEF LockLoad
<1>14. CASE Load
  BY <1>14 DEF Load
<1>15. CASE Retire
  BY <1>15 DEF Retire
<1>16. CASE StorePending
  BY <1>16 DEF StorePending
<1>17. CASE SetReady
  BY <1>17 DEF SetReady
<1>18. CASE GiveUp
  BY <1>18 DEF GiveUp, ReleasePublishPermit
<1>19. CASE BeginBlock
  BY <1>19 DEF BeginBlock
<1>20. CASE CheckPending
  BY <1>20 DEF CheckPending
<1>21. CASE DoTransition
  BY <1>21 DEF DoTransition
<1>22. CASE Finish
  BY <1>22 DEF Finish
<1>23. CASE ClearReady
  BY <1>23 DEF ClearReady
<1>24. CASE ReleaseOnRt
  BY <1>24 DEF ReleaseOnRt, ReleasePublishPermit
<1>25. CASE Rewind
  BY <1>25 DEF Rewind
<1>26. CASE Edit
  BY <1>26 DEF Edit
<1>27. CASE Silence
  BY <1>27 DEF Silence
<1>28. CASE UNCHANGED vars
  BY <1>28 DEF vars
<1>. QED
  BY <1>1, <1>2, <1>3, <1>4, <1>5, <1>6, <1>7, <1>8, <1>9, <1>10, <1>11,
       <1>12, <1>13, <1>14, <1>15, <1>16, <1>17, <1>18, <1>19, <1>20, <1>21,
       <1>22, <1>23, <1>24, <1>25, <1>26, <1>27, <1>28 DEF Next, CtlStep,
       WtStep, RtStep

\* While an initialize is under way no edit is signalled and no reload starts.
LEMMA InitialAloneStep ==
  ASSUME CalmStart, HandoffInv, [Next]_vars
  PROVE  InitialAlone'
<1>. USE DEF HandoffInv, BlockBracket, InitialAlone, HandoffTurns,
     PublishesIntoEmptySlot, Publishing
<1>1. CASE Lock
  BY <1>1 DEF Lock, Reset, ReleasePublishPermit
<1>2. CASE Seed
  BY <1>2 DEF Seed, Reset, ReleasePublishPermit
<1>3. CASE SeedThrows
  BY <1>3 DEF SeedThrows
<1>4. CASE InitialLoad
  BY <1>4 DEF InitialLoad
<1>5. CASE StartStream
  BY <1>5 DEF StartStream
<1>6. CASE Unlock
  BY <1>6 DEF Unlock
<1>7. CASE Destroy
  BY <1>7 DEF Destroy
<1>8. CASE Joined
  BY <1>8 DEF Joined, Reset, ReleasePublishPermit
<1>9. CASE Scan
  BY <1>9 DEF Scan
<1>10. CASE Wake
  BY <1>10 DEF Wake
<1>11. CASE AcquirePermit
  BY <1>11 DEF AcquirePermit
<1>12. CASE MarkHeld
  BY <1>12 DEF MarkHeld
<1>13. CASE LockLoad
  BY <1>13 DEF LockLoad
<1>14. CASE Load
  BY <1>14 DEF Load
<1>15. CASE Retire
  BY <1>15 DEF Retire
<1>16. CASE StorePending
  BY <1>16 DEF StorePending
<1>17. CASE SetReady
  BY <1>17 DEF SetReady
<1>18. CASE GiveUp
  BY <1>18 DEF GiveUp, ReleasePublishPermit
<1>19. CASE BeginBlock
  BY <1>19 DEF BeginBlock
<1>20. CASE CheckPending
  BY <1>20 DEF CheckPending
<1>21. CASE DoTransition
  BY <1>21 DEF DoTransition
<1>22. CASE Finish
  BY <1>22 DEF Finish
<1>23. CASE ClearReady
  BY <1>23 DEF ClearReady
<1>24. CASE ReleaseOnRt
  BY <1>24 DEF ReleaseOnRt, ReleasePublishPermit
<1>25. CASE Rewind
  BY <1>25 DEF Rewind
<1>26. CASE Edit
  BY <1>26 DEF Edit
<1>27. CASE Silence
  BY <1>27 DEF Silence
<1>28. CASE UNCHANGED vars
  BY <1>28 DEF vars
<1>. QED
  BY <1>1, <1>2, <1>3, <1>4, <1>5, <1>6, <1>7, <1>8, <1>9, <1>10, <1>11,
       <1>12, <1>13, <1>14, <1>15, <1>16, <1>17, <1>18, <1>19, <1>20, <1>21,
       <1>22, <1>23, <1>24, <1>25, <1>26, <1>27, <1>28 DEF Next, CtlStep,
       WtStep, RtStep

\* The pending slot changes hands only by the flag and by the permit.
LEMMA HandoffTurnsStep ==
  ASSUME CalmStart, HandoffInv, [Next]_vars
  PROVE  HandoffTurns'
<1>. USE DEF HandoffInv, TypeOK, BlockBracket, FlagMatchesPermit,
     InitialAlone, HandoffTurns, PermitAccounted, PublishesIntoEmptySlot,
     Publishing
<1>1. CASE Lock
  BY <1>1 DEF Lock, Reset, ReleasePublishPermit
<1>2. CASE Seed
  BY <1>2 DEF Seed, Reset, ReleasePublishPermit
<1>3. CASE SeedThrows
  BY <1>3 DEF SeedThrows
<1>4. CASE InitialLoad
  BY <1>4 DEF InitialLoad
<1>5. CASE StartStream
  BY <1>5 DEF StartStream
<1>6. CASE Unlock
  BY <1>6 DEF Unlock
<1>7. CASE Destroy
  BY <1>7 DEF Destroy
<1>8. CASE Joined
  BY <1>8 DEF Joined, Reset, ReleasePublishPermit
<1>9. CASE Scan
  BY <1>9 DEF Scan
<1>10. CASE Wake
  BY <1>10 DEF Wake
<1>11. CASE AcquirePermit
  <2>1. CASE shutdown /\ wt' = "exited" /\ UNCHANGED permit
    BY <1>11, <2>1 DEF AcquirePermit
  <2>2. CASE ~shutdown /\ permit = 1 /\ permit' = 0 /\ wt' = "held"
    <3>1. ~initial /\ ~pendingReady /\ rt \notin {"next", "clear", "release"}
      BY <1>11, <2>2 DEF AcquirePermit
    <3>2. UNCHANGED <<initial, pendingReady, rt>>
      BY <1>11 DEF AcquirePermit
    <3>. QED BY <2>2, <3>1, <3>2
  <2>. QED BY <1>11, <2>1, <2>2 DEF AcquirePermit
<1>12. CASE MarkHeld
  BY <1>12 DEF MarkHeld
<1>13. CASE LockLoad
  BY <1>13 DEF LockLoad
<1>14. CASE Load
  BY <1>14 DEF Load
<1>15. CASE Retire
  BY <1>15 DEF Retire
<1>16. CASE StorePending
  BY <1>16 DEF StorePending
<1>17. CASE SetReady
  BY <1>17 DEF SetReady
<1>18. CASE GiveUp
  BY <1>18 DEF GiveUp, ReleasePublishPermit
<1>19. CASE BeginBlock
  BY <1>19 DEF BeginBlock
<1>20. CASE CheckPending
  BY <1>20 DEF CheckPending
<1>21. CASE DoTransition
  BY <1>21 DEF DoTransition
<1>22. CASE Finish
  BY <1>22 DEF Finish
<1>23. CASE ClearReady
  BY <1>23 DEF ClearReady
<1>24. CASE ReleaseOnRt
  BY <1>24 DEF ReleaseOnRt, ReleasePublishPermit
<1>25. CASE Rewind
  BY <1>25 DEF Rewind
<1>26. CASE Edit
  BY <1>26 DEF Edit
<1>27. CASE Silence
  BY <1>27 DEF Silence
<1>28. CASE UNCHANGED vars
  BY <1>28 DEF vars
<1>. QED
  BY <1>1, <1>2, <1>3, <1>4, <1>5, <1>6, <1>7, <1>8, <1>9, <1>10, <1>11,
       <1>12, <1>13, <1>14, <1>15, <1>16, <1>17, <1>18, <1>19, <1>20, <1>21,
       <1>22, <1>23, <1>24, <1>25, <1>26, <1>27, <1>28 DEF Next, CtlStep,
       WtStep, RtStep

\* Each step of a handoff leaves the pointers as the next one expects them.
LEMMA SlotContentsStep ==
  ASSUME CalmStart, HandoffInv, [Next]_vars
  PROVE  SlotContents'
<1>. USE ConfigSwapAssumption DEF HandoffInv, BlockBracket, InitialAlone,
     HandoffTurns, PublishesIntoEmptySlot, SlotContents, Publishing
<1>1. CASE Lock
  BY <1>1 DEF Lock, Reset, ReleasePublishPermit
<1>2. CASE Seed
  BY <1>2 DEF Seed, Reset, ReleasePublishPermit
<1>3. CASE SeedThrows
  BY <1>3 DEF SeedThrows
<1>4. CASE InitialLoad
  BY <1>4 DEF InitialLoad
<1>5. CASE StartStream
  BY <1>5 DEF StartStream
<1>6. CASE Unlock
  BY <1>6 DEF Unlock
<1>7. CASE Destroy
  BY <1>7 DEF Destroy
<1>8. CASE Joined
  BY <1>8 DEF Joined, Reset, ReleasePublishPermit
<1>9. CASE Scan
  BY <1>9 DEF Scan
<1>10. CASE Wake
  BY <1>10 DEF Wake
<1>11. CASE AcquirePermit
  BY <1>11 DEF AcquirePermit
<1>12. CASE MarkHeld
  BY <1>12 DEF MarkHeld
<1>13. CASE LockLoad
  BY <1>13 DEF LockLoad
<1>14. CASE Load
  BY <1>14 DEF Load
<1>15. CASE Retire
  BY <1>15 DEF Retire
<1>16. CASE StorePending
  BY <1>16 DEF StorePending
<1>17. CASE SetReady
  BY <1>17 DEF SetReady
<1>18. CASE GiveUp
  BY <1>18 DEF GiveUp, ReleasePublishPermit
<1>19. CASE BeginBlock
  BY <1>19 DEF BeginBlock
<1>20. CASE CheckPending
  BY <1>20 DEF CheckPending
<1>21. CASE DoTransition
  BY <1>21 DEF DoTransition
<1>22. CASE Finish
  BY <1>22 DEF Finish
<1>23. CASE ClearReady
  BY <1>23 DEF ClearReady
<1>24. CASE ReleaseOnRt
  BY <1>24 DEF ReleaseOnRt, ReleasePublishPermit
<1>25. CASE Rewind
  BY <1>25 DEF Rewind
<1>26. CASE Edit
  BY <1>26 DEF Edit
<1>27. CASE Silence
  BY <1>27 DEF Silence
<1>28. CASE UNCHANGED vars
  BY <1>28 DEF vars
<1>. QED
  BY <1>1, <1>2, <1>3, <1>4, <1>5, <1>6, <1>7, <1>8, <1>9, <1>10, <1>11,
       <1>12, <1>13, <1>14, <1>15, <1>16, <1>17, <1>18, <1>19, <1>20, <1>21,
       <1>22, <1>23, <1>24, <1>25, <1>26, <1>27, <1>28 DEF Next, CtlStep,
       WtStep, RtStep

\* The counter is rewound before it can be counted towards another swap.
LEMMA CounterFollowsMixStep ==
  ASSUME CalmStart, HandoffInv, [Next]_vars
  PROVE  CounterFollowsMix'
<1>. USE DEF HandoffInv, BlockBracket, InitialAlone, HandoffTurns,
     PublishesIntoEmptySlot, CounterFollowsMix, Publishing
<1>1. CASE Lock
  BY <1>1 DEF Lock, Reset, ReleasePublishPermit
<1>2. CASE Seed
  BY <1>2 DEF Seed, Reset, ReleasePublishPermit
<1>3. CASE SeedThrows
  BY <1>3 DEF SeedThrows
<1>4. CASE InitialLoad
  BY <1>4 DEF InitialLoad
<1>5. CASE StartStream
  BY <1>5 DEF StartStream
<1>6. CASE Unlock
  BY <1>6 DEF Unlock
<1>7. CASE Destroy
  BY <1>7 DEF Destroy
<1>8. CASE Joined
  BY <1>8 DEF Joined, Reset, ReleasePublishPermit
<1>9. CASE Scan
  BY <1>9 DEF Scan
<1>10. CASE Wake
  BY <1>10 DEF Wake
<1>11. CASE AcquirePermit
  BY <1>11 DEF AcquirePermit
<1>12. CASE MarkHeld
  BY <1>12 DEF MarkHeld
<1>13. CASE LockLoad
  BY <1>13 DEF LockLoad
<1>14. CASE Load
  BY <1>14 DEF Load
<1>15. CASE Retire
  BY <1>15 DEF Retire
<1>16. CASE StorePending
  BY <1>16 DEF StorePending
<1>17. CASE SetReady
  BY <1>17 DEF SetReady
<1>18. CASE GiveUp
  BY <1>18 DEF GiveUp, ReleasePublishPermit
<1>19. CASE BeginBlock
  BY <1>19 DEF BeginBlock
<1>20. CASE CheckPending
  BY <1>20 DEF CheckPending
<1>21. CASE DoTransition
  BY <1>21 DEF DoTransition, Saturate
<1>22. CASE Finish
  BY <1>22 DEF Finish
<1>23. CASE ClearReady
  BY <1>23 DEF ClearReady
<1>24. CASE ReleaseOnRt
  BY <1>24 DEF ReleaseOnRt, ReleasePublishPermit
<1>25. CASE Rewind
  BY <1>25 DEF Rewind
<1>26. CASE Edit
  BY <1>26 DEF Edit
<1>27. CASE Silence
  BY <1>27 DEF Silence
<1>28. CASE UNCHANGED vars
  BY <1>28 DEF vars
<1>. QED
  BY <1>1, <1>2, <1>3, <1>4, <1>5, <1>6, <1>7, <1>8, <1>9, <1>10, <1>11,
       <1>12, <1>13, <1>14, <1>15, <1>16, <1>17, <1>18, <1>19, <1>20, <1>21,
       <1>22, <1>23, <1>24, <1>25, <1>26, <1>27, <1>28 DEF Next, CtlStep,
       WtStep, RtStep

-----------------------------------------------------------------------------
(* What holds whoever edits the file when.                                 *)

\* The unconditional parts hold initially.
LEMMA InitUnconditional == Init => TypeOK /\ BlockBracket /\ FlagMatchesPermit
<1>. SUFFICES ASSUME Init PROVE TypeOK /\ BlockBracket /\ FlagMatchesPermit
  OBVIOUS
<1>1. FlagsOK
  BY Zenon DEF Init, FlagsOK
<1>2. TypeOK
  BY <1>1, ConfigSwapAssumption
     DEF Init, TypeOK, CtlStates, WtStates, RtStates, Publishing
<1>3. BlockBracket /\ FlagMatchesPermit
  BY DEF Init, BlockBracket, CurrentStable, FlagMatchesPermit
<1>. QED BY <1>2, <1>3

\* The type invariant is an invariant of every behaviour: in particular the
\* semaphore never exceeds its one permit, whoever resets the channel when.
THEOREM TypeCorrect == Spec => []TypeOK
<1>1. Init => TypeOK
  BY InitUnconditional
<1>2. TypeOK /\ [Next]_vars => TypeOK'
  <2>. SUFFICES ASSUME TypeOK, [Next]_vars PROVE TypeOK'
    OBVIOUS
  <2>1. FlagsOK'
    BY FlagsStep DEF TypeOK
  <2>. QED BY <2>1, TypeStep
<1>. QED BY <1>1, <1>2, PTL DEF Spec

\* The configuration a block is filtered with is not replaced or destroyed
\* before the block ends, even when an edit races an initialize: the worker
\* never touches the current pointer, and the client does so only when the
\* stream is unlocked.
THEOREM CurrentStaysAlive == Spec => []CurrentStable
<1>1. Init => BlockBracket
  BY InitUnconditional
<1>2. TypeOK /\ BlockBracket /\ [Next]_vars => BlockBracket'
  BY BlockBracketStep
<1>3. BlockBracket => CurrentStable
  BY DEF BlockBracket
<1>. QED BY <1>1, <1>2, <1>3, TypeCorrect, PTL DEF Spec

-----------------------------------------------------------------------------
(* What holds when no edit races an initialize.                            *)

\* Every step keeps the handoff invariant.
LEMMA HandoffStep ==
  ASSUME CalmStart, HandoffInv, [Next]_vars
  PROVE  HandoffInv'
<1>1. FlagsOK' /\ TypeOK'
  BY FlagsStep, TypeStep DEF HandoffInv, TypeOK
<1>2. BlockBracket' /\ FlagMatchesPermit'
  BY BlockBracketStep, FlagMatchesPermitStep DEF HandoffInv
<1>3. InitialAlone' /\ HandoffTurns'
  BY InitialAloneStep, HandoffTurnsStep
<1>4. SlotContents' /\ CounterFollowsMix'
  BY SlotContentsStep, CounterFollowsMixStep
<1>. QED BY <1>1, <1>2, <1>3, <1>4 DEF HandoffInv

\* It holds initially.
LEMMA HandoffInit == Init => HandoffInv
<1>. SUFFICES ASSUME Init PROVE HandoffInv
  OBVIOUS
<1>1. TypeOK /\ BlockBracket /\ FlagMatchesPermit
  BY InitUnconditional
<1>2. InitialAlone /\ HandoffTurns
  BY DEF Init, InitialAlone, HandoffTurns, PermitAccounted,
         PublishesIntoEmptySlot, Publishing
<1>3. SlotContents /\ CounterFollowsMix
  BY DEF Init, SlotContents, CounterFollowsMix
<1>. QED BY <1>1, <1>2, <1>3 DEF HandoffInv

\* The handoff invariant: at every moment the pending slot belongs to the
\* worker or to the audio thread, and the counter counts what was mixed.
THEOREM HandoffInvariant == ASSUME CalmStart PROVE Spec => []HandoffInv
<1>1. HandoffInv /\ [Next]_vars => HandoffInv'
  BY HandoffStep
<1>. QED BY <1>1, HandoffInit, PTL DEF Spec

\* The audio thread never runs a block through a destroyed configuration it is
\* fading into, nor through an empty pointer.
THEOREM NextStaysAlive == ASSUME CalmStart PROVE Spec => []NextStable
<1>1. HandoffInv => NextStable
  BY DEF HandoffInv, HandoffTurns, SlotContents, NextStable, Owned
<1>. QED BY <1>1, HandoffInvariant, PTL

\* Between its permit and its publication the worker is alone: nothing waits to
\* be swapped in, and the permit is out.
THEOREM PublisherAlone ==
  ASSUME CalmStart PROVE Spec => [](PublishesIntoEmptySlot /\ PermitAccounted)
<1>1. HandoffInv => PublishesIntoEmptySlot /\ PermitAccounted
  BY DEF HandoffInv, HandoffTurns
<1>. QED BY <1>1, HandoffInvariant, PTL

\* No step but an installation or a reset moves a ready pending pointer.
LEMMA OverwriteStep ==
  ASSUME HandoffInv, [Next]_vars
  PROVE  pendingReady /\ pending' # pending =>
           rt' = "clear" \/ (ctl # "running" /\ ctl' # ctl)
<1>. USE DEF Reset
<1>1. CASE CtlStep
  BY <1>1 DEF CtlStep, Lock, Seed, SeedThrows, InitialLoad, StartStream,
              Unlock, Destroy, Joined
<1>2. CASE StorePending
  BY <1>2 DEF StorePending, HandoffInv, HandoffTurns, PublishesIntoEmptySlot,
              Publishing
<1>3. CASE WtStep /\ ~StorePending
  BY <1>3 DEF WtStep, Scan, Wake, AcquirePermit, MarkHeld, LockLoad, Load,
              Retire, SetReady, GiveUp
<1>4. CASE RtStep
  BY <1>4 DEF RtStep, BeginBlock, CheckPending, DoTransition, Finish,
              ClearReady, ReleaseOnRt, Rewind
<1>5. CASE Edit \/ Silence \/ UNCHANGED vars
  BY <1>5 DEF Edit, Silence, vars
<1>. QED BY <1>1, <1>2, <1>3, <1>4, <1>5 DEF Next, WtStep

\* The permit's promise (ConfigSwapChannel.h:20): a ready configuration leaves
\* the pending slot only for the active one, or by a reset.
THEOREM NeverOverwritten == ASSUME CalmStart PROVE Spec => PendingNotOverwritten
<1>1. HandoffInv /\ [Next]_vars =>
        [pendingReady /\ pending' # pending =>
           rt' = "clear" \/ (ctl # "running" /\ ctl' # ctl)]_vars
  BY OverwriteStep
<1>. QED BY <1>1, HandoffInvariant, PTL DEF Spec, PendingNotOverwritten

\* No step of the audio thread drops a configuration.
LEMMA OwnershipStep ==
  ASSUME HandoffInv, [Next]_vars, rt' # rt
  PROVE  Owned \subseteq Owned'
<1>1. CASE Finish
  BY <1>1 DEF Finish, HandoffInv, SlotContents, Owned
<1>2. CASE RtStep /\ ~Finish
  BY <1>2 DEF RtStep, BeginBlock, CheckPending, DoTransition, ClearReady,
              ReleaseOnRt, Rewind, Owned
<1>3. CASE CtlStep
  BY <1>3 DEF CtlStep, Lock, Seed, SeedThrows, InitialLoad, StartStream,
              Unlock, Destroy, Joined
<1>4. CASE WtStep
  BY <1>4 DEF WtStep, Scan, Wake, AcquirePermit, MarkHeld, LockLoad, Load,
              Retire, StorePending, SetReady, GiveUp
<1>5. CASE Edit \/ Silence \/ UNCHANGED vars
  BY <1>5 DEF Edit, Silence, vars
<1>. QED BY <1>1, <1>2, <1>3, <1>4, <1>5 DEF Next, RtStep

\* The audio callback never drops the last pointer to a configuration, so it
\* never runs a destructor (ConfigSwapChannel.h:65).
THEOREM CallbackNeverFrees == ASSUME CalmStart PROVE Spec => NoFreeInCallback
<1>1. HandoffInv /\ [Next]_vars => [rt' # rt => Owned \subseteq Owned']_vars
  BY OwnershipStep
<1>. QED BY <1>1, HandoffInvariant, PTL DEF Spec, NoFreeInCallback

\* An installation finds the counter equal to what was mixed, and full.
LEMMA CrossfadeStep ==
  ASSUME HandoffInv, [Next]_vars, rt' = "clear", rt # "clear", ~initial
  PROVE  mixed = TransitionLength
<1>1. Finish
  BY DEF Next, CtlStep, Lock, Seed, SeedThrows, InitialLoad, StartStream,
         Unlock, Destroy, Joined, WtStep, Scan, Wake, AcquirePermit, MarkHeld,
         LockLoad, Load, Retire, StorePending, SetReady, GiveUp, RtStep,
         BeginBlock, CheckPending, DoTransition, ClearReady, ReleaseOnRt,
         Rewind, Edit, Silence, vars
<1>2. pendingReady /\ counter >= TransitionLength /\ ctl = "running"
  BY <1>1 DEF Finish, HandoffInv, BlockBracket
<1>3. counter = mixed
  BY <1>1, <1>2 DEF Finish, HandoffInv, CounterFollowsMix
<1>. QED BY <1>2, <1>3, ConfigSwapAssumption DEF HandoffInv, TypeOK

\* A reload is installed only when every frame of its crossfade was mixed from
\* it: the counter of an earlier swap is never counted towards it.
THEOREM CrossfadeIsFull == ASSUME CalmStart PROVE Spec => FullCrossfade
<1>1. HandoffInv /\ [Next]_vars =>
        [rt' = "clear" /\ rt # "clear" /\ ~initial =>
           mixed = TransitionLength]_vars
  BY CrossfadeStep
<1>. QED BY <1>1, HandoffInvariant, PTL DEF Spec, FullCrossfade

-----------------------------------------------------------------------------
\* Every step of the channel is a step of the abstract hot swap, or none.
LEMMA RefinementStep ==
  ASSUME CalmStart, HandoffInv, HandoffInv', [Next]_vars
  PROVE  [Abstract!Next]_Abstract!vars
<1>. USE DEF Abstract!Next, Abstract!vars
<1>1. CASE Lock \/ Seed \/ Joined
  <2>1. ctl # "running" /\ current' \in Configs \cup {Null} /\ ~pendingReady'
    BY <1>1 DEF Lock, Seed, Joined, Reset, HandoffInv, TypeOK
  <2>. QED BY <2>1 DEF Abstract!Restart
<1>2. CASE StartStream \/ Unlock
  BY <1>2 DEF StartStream, Unlock, Abstract!StartStop
<1>3. CASE InitialLoad \/ SetReady
  <2>1. CASE pendingReady' = pendingReady
    BY <1>3, <2>1 DEF InitialLoad, SetReady, HandoffInv, InitialAlone,
       HandoffTurns, PublishesIntoEmptySlot, Publishing
  <2>2. CASE pendingReady' # pendingReady
    <3>1. pendingReady' /\ ~pendingReady /\ pending' \in Configs
      BY <1>3, <2>2 DEF InitialLoad, SetReady, HandoffInv, TypeOK, FlagsOK,
         SlotContents, InitialAlone, HandoffTurns, PublishesIntoEmptySlot,
         Publishing
    <3>2. UNCHANGED current /\ (ctl = "running" <=> ctl' = "running")
      BY <1>3 DEF InitialLoad, SetReady
    <3>. QED BY <3>1, <3>2 DEF Abstract!Queue
  <2>. QED BY <2>1, <2>2
<1>4. CASE Finish
  <2>1. CASE pendingReady /\ counter >= TransitionLength
    <3>1. ctl = "running" /\ ctl' = ctl /\ pending # Null
      BY <1>4, <2>1 DEF Finish, HandoffInv, BlockBracket, SlotContents
    <3>2. current' = pending /\ pending' = Null
      BY <1>4, <2>1 DEF Finish
    <3>. QED BY <2>1, <3>1, <3>2 DEF Abstract!Promote
  <2>2. CASE ~(pendingReady /\ counter >= TransitionLength)
    BY <1>4, <2>2 DEF Finish
  <2>. QED BY <2>1, <2>2
<1>5. CASE ClearReady
  BY <1>5 DEF ClearReady, HandoffInv, SlotContents
<1>6. CASE StorePending
  BY <1>6 DEF StorePending, HandoffInv, HandoffTurns, PublishesIntoEmptySlot,
              Publishing
<1>7. CASE SeedThrows \/ Destroy
  BY <1>7 DEF SeedThrows, Destroy
<1>8. CASE Scan \/ Wake \/ AcquirePermit \/ MarkHeld \/ LockLoad \/ Load
             \/ Retire \/ GiveUp
  BY <1>8 DEF Scan, Wake, AcquirePermit, MarkHeld, LockLoad, Load, Retire,
              GiveUp
<1>9. CASE BeginBlock \/ CheckPending \/ DoTransition \/ ReleaseOnRt \/ Rewind
  BY <1>9 DEF BeginBlock, CheckPending, DoTransition, ReleaseOnRt, Rewind
<1>10. CASE Edit \/ Silence \/ UNCHANGED vars
  BY <1>10 DEF Edit, Silence, vars
<1>. QED BY <1>1, <1>2, <1>3, <1>4, <1>5, <1>6, <1>7, <1>8, <1>9, <1>10
         DEF Next, CtlStep, WtStep, RtStep

\* The channel and its three threads implement the abstract hot swap: what is
\* active changes only by a restart or by promoting what was queued.
THEOREM Refinement == ASSUME CalmStart PROVE Spec => ImplementsHotSwap
<1>1. Init => Abstract!Init
  BY DEF Init, Abstract!Init
<1>2. HandoffInv /\ HandoffInv' /\ [Next]_vars => [Abstract!Next]_Abstract!vars
  BY RefinementStep
<1>. QED
  BY <1>1, <1>2, HandoffInvariant, PTL DEF Spec, ImplementsHotSwap,
     Abstract!Spec
=============================================================================
