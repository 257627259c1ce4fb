------------------------ MODULE PersistenceServiceProofs ------------------------
(***************************************************************************)
(* What holds of PersistenceService for every number of sessions, segments,*)
(* deletions and mishaps.                                                  *)
(***************************************************************************)
EXTENDS PersistenceService, TLAPS

USE PersistenceAssumption DEF PersistenceAssumption

(* Handlers and deletions are actors. *)
LEMMA SessionsAct == Sessions \subseteq Actors /\ Deleters \subseteq Actors
BY DEF Actors

-------------------------------------------------------------------------------
(***************************************************************************)
(* Types.  TypeOK is not inductive: that a segment number is one of        *)
(* Segments needs Numbered, a handler at work on a segment has taken one.  *)
(***************************************************************************)
history == <<mishaps, erasing, leaked>>

SegmentPcs == {"put", "put_ok", "put_failed", "add", "add_ok", "add_failed", "undo"}
Numbered == \A s \in Sessions : hpc[s] \in SegmentPcs => Last(s) \in Segments

StoresTyped ==
    /\ row \in [Sessions -> {"none", "pending", "completed", "deleted"}]
    /\ segs \in [Sessions -> SUBSET Segments]
    /\ objects \in [Sessions -> SUBSET Segments]

ServiceTyped ==
    /\ ready \in BOOLEAN
    /\ registered \in SUBSET Sessions
    /\ closed \in [Sessions -> BOOLEAN]
    /\ lockGen \in [Sessions -> Nat]

HandlersTyped ==
    /\ hpc \in [Sessions -> HandlerPcs]
    /\ op \in [Sessions -> {"store", "complete"}]
    /\ cancelled \in [Sessions -> BOOLEAN]
    /\ taken \in [Sessions -> 0 .. MaxSegments]
    /\ told \in [Sessions -> {"nothing", "stored", "unstored", "error"}]
    /\ Numbered

ErasersTyped ==
    /\ epc \in [Actors -> ErasePcs \cup {"off", "wait", "done", "dead"}]
    /\ target \in [Actors -> Sessions]
    /\ elock \in [Actors -> Nat]
    /\ ekeys \in [Actors -> SUBSET Segments]
    /\ eresult \in [Actors -> {"none", "deleted", "missing", "error"}]

HistoryTyped ==
    /\ mishaps \in 0 .. MaxMishaps
    /\ erasing \in SUBSET Sessions
    /\ leaked \in [Sessions -> SUBSET Segments]

TypeInv == StoresTyped /\ ServiceTyped /\ HandlersTyped /\ ErasersTyped /\ HistoryTyped

\* What an action leaves alone stays typed.
LEMMA TypeFrame ==
    /\ StoresTyped /\ UNCHANGED stores => StoresTyped'
    /\ ServiceTyped /\ UNCHANGED service => ServiceTyped'
    /\ HandlersTyped /\ UNCHANGED handlers => HandlersTyped'
    /\ ErasersTyped /\ UNCHANGED erasers => ErasersTyped'
    /\ HistoryTyped /\ UNCHANGED history => HistoryTyped'
BY DEF stores, service, handlers, erasers, history, Numbered,
       StoresTyped, ServiceTyped, HandlersTyped, ErasersTyped, HistoryTyped, Last

(* The types hold at first. *)
LEMMA TypeInit == Init => TypeInv
BY DEF Init, TypeInv, StoresTyped, ServiceTyped, HandlersTyped, ErasersTyped, HistoryTyped,
       Numbered, SegmentPcs, HandlerPcs, LockedPcs, ErasePcs, Over

(* Every step keeps them. *)
LEMMA TypeStep ==
    ASSUME TypeInv, [Next]_vars
    PROVE  TypeInv'
<1> USE DEF TypeInv
<1>1. ASSUME NEW s \in Sessions, Start(s) PROVE TypeInv'
  <2>1. ServiceTyped'
    BY <1>1, SessionsAct DEF Start, ServiceTyped
  <2>2. HandlersTyped'
    BY <1>1, SessionsAct DEF Start, HandlersTyped, Goto, Last, Numbered, SegmentPcs,
       HandlerPcs, LockedPcs, Over
  <2>3. UNCHANGED <<stores, erasers, history>>
    BY <1>1 DEF Start, stores, erasers, history
  <2> QED
    BY <2>1, <2>2, <2>3, TypeFrame
<1>2. ASSUME NEW s \in Sessions, Cancel(s) PROVE TypeInv'
  <2>1. HandlersTyped'
    BY <1>2, SessionsAct DEF Cancel, HandlersTyped, Last, Numbered, SegmentPcs,
       HandlerPcs, LockedPcs, Over
  <2>2. UNCHANGED <<stores, service, erasers, history>>
    BY <1>2 DEF Cancel, stores, service, erasers, history
  <2> QED
    BY <2>1, <2>2, TypeFrame
<1>3. ASSUME NEW s \in Sessions, ServeCreate(s) PROVE TypeInv'
  <2>1. StoresTyped'
    BY <1>3, SessionsAct DEF ServeCreate, StoresTyped
  <2>2. HandlersTyped'
    BY <1>3, SessionsAct DEF ServeCreate, HandlersTyped, Goto, Last, Numbered,
       SegmentPcs, HandlerPcs, LockedPcs, Over
  <2>3. HistoryTyped'
    BY <1>3, SessionsAct DEF ServeCreate, HistoryTyped, Mishap, NoMishap, CallFails,
       HandlersTyped, Last, SegmentPcs, Numbered, StoresTyped, ErasersTyped
  <2>4. UNCHANGED <<service, erasers>>
    BY <1>3 DEF ServeCreate, service, erasers, NoMishap
  <2> QED
    BY <2>1, <2>2, <2>3, <2>4, TypeFrame
<1>4. ASSUME NEW s \in Sessions, ResumeCreate(s) PROVE TypeInv'
  <2>1. ServiceTyped'
    BY <1>4, SessionsAct DEF ResumeCreate, ServiceTyped
  <2>2. HandlersTyped'
    BY <1>4, SessionsAct DEF ResumeCreate, HandlersTyped, Goto, Last, Numbered,
       SegmentPcs, HandlerPcs, LockedPcs, Over
  <2>3. UNCHANGED <<stores, erasers, history>>
    BY <1>4 DEF ResumeCreate, stores, erasers, history
  <2> QED
    BY <2>1, <2>2, <2>3, TypeFrame
<1>5. ASSUME NEW s \in Sessions, Store(s) PROVE TypeInv'
  <2>1. HandlersTyped'
    BY <1>5, SessionsAct DEF Store, HandlersTyped, Goto, Last, Numbered, SegmentPcs,
       HandlerPcs, LockedPcs, Over, TakeSegment, Segments
  <2>2. UNCHANGED <<stores, service, erasers, history>>
    BY <1>5 DEF Store, stores, service, erasers, history, TakeSegment
  <2> QED
    BY <2>1, <2>2, TypeFrame
<1>6. ASSUME NEW s \in Sessions, Complete(s) PROVE TypeInv'
  <2>1. HandlersTyped'
    BY <1>6, SessionsAct DEF Complete, HandlersTyped, Goto, Last, Numbered, SegmentPcs,
       HandlerPcs, LockedPcs, Over, TakeSegment, Segments
  <2>2. UNCHANGED <<stores, service, erasers, history>>
    BY <1>6 DEF Complete, stores, service, erasers, history, TakeSegment
  <2> QED
    BY <2>1, <2>2, TypeFrame
<1>7. ASSUME NEW s \in Sessions, Fail(s) PROVE TypeInv'
  <2>1. HandlersTyped'
    BY <1>7, SessionsAct DEF Fail, HandlersTyped, Goto, Last, Numbered, SegmentPcs,
       HandlerPcs, LockedPcs, Over
  <2>2. UNCHANGED <<stores, service, erasers, history>>
    BY <1>7 DEF Fail, stores, service, erasers, history
  <2> QED
    BY <2>1, <2>2, TypeFrame
<1>8. ASSUME NEW s \in Sessions, ServePut(s) PROVE TypeInv'
  <2>1. StoresTyped'
    BY <1>8, SessionsAct DEF ServePut, StoresTyped, Last, HandlersTyped, SegmentPcs,
       Numbered, Segments
  <2>2. HandlersTyped'
    BY <1>8, SessionsAct DEF ServePut, HandlersTyped, Goto, Last, Numbered, SegmentPcs,
       HandlerPcs, LockedPcs, Over
  <2>3. HistoryTyped'
    <3>1. Last(s) \in Segments
      BY <1>8 DEF ServePut, HandlersTyped, Numbered, SegmentPcs
    <3> QED
      BY <1>8, <3>1 DEF ServePut, HistoryTyped, StoresTyped, Mishap, NoMishap, CallFails
  <2>4. UNCHANGED <<service, erasers>>
    BY <1>8 DEF ServePut, service, erasers, NoMishap
  <2> QED
    BY <2>1, <2>2, <2>3, <2>4, TypeFrame
<1>9. ASSUME NEW s \in Sessions, ResumePut(s) PROVE TypeInv'
  <2>1. HandlersTyped'
    BY <1>9, SessionsAct DEF ResumePut, HandlersTyped, Goto, Last, Numbered, SegmentPcs,
       HandlerPcs, LockedPcs, Over
  <2>2. HistoryTyped'
    <3>1. Last(s) \in Segments
      BY <1>9 DEF ResumePut, HandlersTyped, Numbered, SegmentPcs
    <3> QED
      BY <1>9, <3>1 DEF ResumePut, HistoryTyped, StoresTyped
  <2>3. UNCHANGED <<stores, service, erasers>>
    BY <1>9 DEF ResumePut, stores, service, erasers
  <2> QED
    BY <2>1, <2>2, <2>3, TypeFrame
<1>10. ASSUME NEW s \in Sessions, ServeAdd(s) PROVE TypeInv'
  <2>1. StoresTyped'
    BY <1>10, SessionsAct DEF ServeAdd, StoresTyped, Last, HandlersTyped, SegmentPcs,
       Numbered, Segments
  <2>2. HandlersTyped'
    BY <1>10, SessionsAct DEF ServeAdd, HandlersTyped, Goto, Last, Numbered, SegmentPcs,
       HandlerPcs, LockedPcs, Over
  <2>3. HistoryTyped'
    BY <1>10, SessionsAct DEF ServeAdd, HistoryTyped, Mishap, NoMishap, CallFails,
       HandlersTyped, Last, SegmentPcs, Numbered, StoresTyped, ErasersTyped
  <2>4. UNCHANGED <<service, erasers>>
    BY <1>10 DEF ServeAdd, service, erasers, NoMishap
  <2> QED
    BY <2>1, <2>2, <2>3, <2>4, TypeFrame
<1>11. ASSUME NEW s \in Sessions, ResumeAdd(s) PROVE TypeInv'
  <2>1. HandlersTyped'
    BY <1>11, SessionsAct DEF ResumeAdd, HandlersTyped, Goto, Last, Numbered,
       SegmentPcs, HandlerPcs, LockedPcs, Over, TakeSegment, Segments
  <2>2. UNCHANGED <<stores, service, erasers, history>>
    BY <1>11 DEF ResumeAdd, stores, service, erasers, history, TakeSegment
  <2> QED
    BY <2>1, <2>2, TypeFrame
<1>12. ASSUME NEW s \in Sessions, ServeUndo(s) PROVE TypeInv'
  <2>1. StoresTyped'
    BY <1>12, SessionsAct DEF ServeUndo, StoresTyped
  <2>2. HandlersTyped'
    BY <1>12, SessionsAct DEF ServeUndo, HandlersTyped, Goto, Last, Numbered,
       SegmentPcs, HandlerPcs, LockedPcs, Over
  <2>3. HistoryTyped'
    <3>1. Last(s) \in Segments
      BY <1>12 DEF ServeUndo, HandlersTyped, Numbered, SegmentPcs
    <3> QED
      BY <1>12, <3>1 DEF ServeUndo, HistoryTyped, StoresTyped, Mishap, NoMishap, CallFails
  <2>4. UNCHANGED <<service, erasers>>
    BY <1>12 DEF ServeUndo, service, erasers, NoMishap
  <2> QED
    BY <2>1, <2>2, <2>3, <2>4, TypeFrame
<1>13. ASSUME NEW s \in Sessions, ServeCommit(s) PROVE TypeInv'
  <2>1. StoresTyped'
    BY <1>13, SessionsAct DEF ServeCommit, StoresTyped
  <2>2. HandlersTyped'
    BY <1>13, SessionsAct DEF ServeCommit, HandlersTyped, Goto, Last, Numbered,
       SegmentPcs, HandlerPcs, LockedPcs, Over
  <2>3. HistoryTyped'
    BY <1>13, SessionsAct DEF ServeCommit, HistoryTyped, Mishap, NoMishap, CallFails,
       HandlersTyped, Last, SegmentPcs, Numbered, StoresTyped, ErasersTyped
  <2>4. UNCHANGED <<service, erasers>>
    BY <1>13 DEF ServeCommit, service, erasers, NoMishap
  <2> QED
    BY <2>1, <2>2, <2>3, <2>4, TypeFrame
<1>14. ASSUME NEW s \in Sessions, ResumeCommit(s) PROVE TypeInv'
  <2>1. ServiceTyped'
    BY <1>14, SessionsAct DEF ResumeCommit, ServiceTyped
  <2>2. HandlersTyped'
    BY <1>14, SessionsAct DEF ResumeCommit, HandlersTyped, Goto, Last, Numbered,
       SegmentPcs, HandlerPcs, LockedPcs, Over
  <2>3. UNCHANGED <<stores, erasers, history>>
    BY <1>14 DEF ResumeCommit, stores, erasers, history
  <2> QED
    BY <2>1, <2>2, <2>3, TypeFrame
<1>15. ASSUME NEW s \in Sessions, ServeRead(s) PROVE TypeInv'
  <2>1. HandlersTyped'
    BY <1>15, SessionsAct DEF ServeRead, HandlersTyped, Goto, Last, Numbered,
       SegmentPcs, HandlerPcs, LockedPcs, Over
  <2>2. HistoryTyped'
    BY <1>15, SessionsAct DEF ServeRead, HistoryTyped, Mishap, NoMishap, CallFails,
       HandlersTyped, Last, SegmentPcs, Numbered, StoresTyped, ErasersTyped
  <2>3. UNCHANGED <<stores, service, erasers>>
    BY <1>15 DEF ServeRead, stores, service, erasers, NoMishap
  <2> QED
    BY <2>1, <2>2, <2>3, TypeFrame
<1>16. ASSUME NEW s \in Sessions, ResumeRead(s) PROVE TypeInv'
  <2>1. HandlersTyped'
    BY <1>16, SessionsAct DEF ResumeRead, HandlersTyped, Goto, Last, Numbered,
       SegmentPcs, HandlerPcs, LockedPcs, Over
  <2>2. UNCHANGED <<stores, service, erasers, history>>
    BY <1>16 DEF ResumeRead, stores, service, erasers, history
  <2> QED
    BY <2>1, <2>2, TypeFrame
<1>17. ASSUME NEW s \in Sessions, Cleanup(s) PROVE TypeInv'
  <2>1. HandlersTyped'
    BY <1>17, SessionsAct DEF Cleanup, HandlersTyped, Goto, Last, Numbered, SegmentPcs,
       HandlerPcs, LockedPcs, Over
  <2>2. ErasersTyped'
    BY <1>17, SessionsAct DEF Cleanup, ErasersTyped, ErasePcs, ServiceTyped, StoresTyped
  <2>3. UNCHANGED <<stores, service, history>>
    BY <1>17 DEF Cleanup, stores, service, history
  <2> QED
    BY <2>1, <2>2, <2>3, TypeFrame
<1>18. ASSUME NEW s \in Sessions, FinishCleanup(s) PROVE TypeInv'
  <2>1. HandlersTyped'
    BY <1>18, SessionsAct DEF FinishCleanup, HandlersTyped, Goto, Last, Numbered,
       SegmentPcs, HandlerPcs, LockedPcs, Over
  <2>2. UNCHANGED <<stores, service, erasers, history>>
    BY <1>18 DEF FinishCleanup, stores, service, erasers, history
  <2> QED
    BY <2>1, <2>2, TypeFrame
<1>19. ASSUME NEW d \in Deleters, BeginErase(d) PROVE TypeInv'
  <2>1. ErasersTyped'
    BY <1>19, SessionsAct DEF BeginErase, ErasersTyped, ErasePcs, ServiceTyped,
       StoresTyped
  <2>2. UNCHANGED <<stores, service, handlers, history>>
    BY <1>19 DEF BeginErase, stores, service, handlers, history
  <2> QED
    BY <2>1, <2>2, TypeFrame
<1>20. ASSUME NEW a \in Actors, AcquireErase(a) PROVE TypeInv'
  <2>1. ErasersTyped'
    BY <1>20, SessionsAct DEF AcquireErase, ErasersTyped, ErasePcs, Finish,
       ServiceTyped, StoresTyped
  <2>2. UNCHANGED <<stores, service, handlers, history>>
    BY <1>20 DEF AcquireErase, stores, service, handlers, history
  <2> QED
    BY <2>1, <2>2, TypeFrame
<1>21. ASSUME NEW a \in Actors, ServeManifest(a) PROVE TypeInv'
  <2>1. ServiceTyped'
    BY <1>21, SessionsAct DEF ServeManifest, ServiceTyped, ErasersTyped
  <2>2. ErasersTyped'
    <3>1. segs[target[a]] \in SUBSET Segments
      BY DEF StoresTyped, ErasersTyped
    <3>2. ekeys' \in [Actors -> SUBSET Segments]
      BY <1>21, <3>1 DEF ServeManifest, Finish, ErasersTyped
    <3>3. epc' \in [Actors -> ErasePcs \cup {"off", "wait", "done", "dead"}]
      BY <1>21 DEF ServeManifest, Finish, ErasersTyped, ErasePcs
    <3>4. eresult' \in [Actors -> {"none", "deleted", "missing", "error"}]
      BY <1>21 DEF ServeManifest, Finish, ErasersTyped
    <3>5. UNCHANGED <<target, elock>>
      BY <1>21 DEF ServeManifest
    <3> QED
      BY <3>2, <3>3, <3>4, <3>5 DEF ErasersTyped
  <2>3. HistoryTyped'
    BY <1>21, SessionsAct DEF ServeManifest, HistoryTyped, Mishap, NoMishap, CallFails,
       HandlersTyped, Last, SegmentPcs, Numbered, StoresTyped, ErasersTyped
  <2>4. UNCHANGED <<stores, handlers>>
    BY <1>21 DEF ServeManifest, stores, handlers, NoMishap
  <2> QED
    BY <2>1, <2>2, <2>3, <2>4, TypeFrame
<1>22. ASSUME NEW a \in Actors, ServeObjects(a) PROVE TypeInv'
  <2>1. StoresTyped'
    BY <1>22, SessionsAct DEF ServeObjects, StoresTyped, ErasersTyped
  <2>2. ErasersTyped'
    BY <1>22, SessionsAct DEF ServeObjects, ErasersTyped, ErasePcs, Finish,
       ServiceTyped, StoresTyped
  <2>3. HistoryTyped'
    BY <1>22, SessionsAct DEF ServeObjects, HistoryTyped, Mishap, NoMishap, CallFails,
       HandlersTyped, Last, SegmentPcs, Numbered, StoresTyped, ErasersTyped
  <2>4. UNCHANGED <<service, handlers>>
    BY <1>22 DEF ServeObjects, service, handlers, NoMishap
  <2> QED
    BY <2>1, <2>2, <2>3, <2>4, TypeFrame
<1>23. ASSUME NEW a \in Actors, ServeRow(a) PROVE TypeInv'
  <2>1. StoresTyped'
    BY <1>23, SessionsAct DEF ServeRow, StoresTyped, ErasersTyped
  <2>2. ServiceTyped'
    BY <1>23, SessionsAct DEF ServeRow, ServiceTyped, ErasersTyped
  <2>3. ErasersTyped'
    BY <1>23, SessionsAct DEF ServeRow, ErasersTyped, ErasePcs, Finish, ServiceTyped,
       StoresTyped
  <2>4. HistoryTyped'
    BY <1>23, SessionsAct DEF ServeRow, HistoryTyped, Mishap, NoMishap, CallFails,
       HandlersTyped, Last, SegmentPcs, Numbered, StoresTyped, ErasersTyped
  <2>5. UNCHANGED <<handlers>>
    BY <1>23 DEF ServeRow, handlers, NoMishap
  <2> QED
    BY <2>1, <2>2, <2>3, <2>4, <2>5, TypeFrame
<1>24. CASE Close
  <2>1. ServiceTyped'
    <3>1. \A s \in Sessions : (closed[s] \/ s \in registered) \in BOOLEAN
      OBVIOUS
    <3>2. closed' \in [Sessions -> BOOLEAN]
      BY <1>24, <3>1 DEF Close
    <3>3. ready' \in BOOLEAN /\ registered' \in SUBSET Sessions
      BY <1>24 DEF Close
    <3>4. lockGen' \in [Sessions -> Nat]
      BY <1>24 DEF Close, ServiceTyped
    <3> QED
      BY <3>2, <3>3, <3>4 DEF ServiceTyped
  <2>2. HistoryTyped'
    BY <1>24, SessionsAct DEF Close, HistoryTyped, Mishap, HandlersTyped, Last,
       SegmentPcs, Numbered, StoresTyped, ErasersTyped
  <2>3. UNCHANGED <<stores, handlers, erasers>>
    BY <1>24 DEF Close, stores, handlers, erasers
  <2> QED
    BY <2>1, <2>2, <2>3, TypeFrame
<1>25. CASE Restart
  <2>1. ServiceTyped'
    BY <1>25, SessionsAct DEF Restart, ServiceTyped
  <2>2. HandlersTyped'
    BY <1>25, SessionsAct DEF Restart, HandlersTyped, Last, Numbered, SegmentPcs,
       HandlerPcs, LockedPcs, Over
  <2>3. ErasersTyped'
    BY <1>25, SessionsAct DEF Restart, ErasersTyped, ErasePcs, ServiceTyped, StoresTyped
  <2>4. HistoryTyped'
    BY <1>25, SessionsAct DEF Restart, HistoryTyped, Mishap, NoMishap, HandlersTyped,
       Last, SegmentPcs, Numbered, StoresTyped, ErasersTyped
  <2>5. UNCHANGED <<stores>>
    BY <1>25 DEF Restart, stores, NoMishap
  <2> QED
    BY <2>1, <2>2, <2>3, <2>4, <2>5, TypeFrame
<1>26. CASE UNCHANGED vars
  <2>1. UNCHANGED <<stores, service, handlers, erasers, history>>
    BY <1>26 DEF vars, history
  <2> QED
    BY <2>1, TypeFrame
<1> QED
  BY <1>1, <1>2, <1>3, <1>4, <1>5, <1>6, <1>7, <1>8, <1>9, <1>10, <1>11, <1>12, <1>13,
     <1>14, <1>15, <1>16, <1>17, <1>18, <1>19, <1>20, <1>21, <1>22, <1>23, <1>24, <1>25,
     <1>26 DEF Next, HandlerStep, EraseStep

\* Every variable keeps its type, for every value of the constants.
THEOREM TypeCorrect == Spec => []TypeOK
<1>1. TypeInv => TypeOK
  BY DEF TypeInv, TypeOK, StoresTyped, ServiceTyped, HandlersTyped, ErasersTyped,
     HistoryTyped
<1> QED
  BY <1>1, TypeInit, TypeStep, PTL DEF Spec

-------------------------------------------------------------------------------
(***************************************************************************)
(* Exclusion.  The lock index is weak, so a session's lock may be dropped  *)
(* and replaced while a deletion still waits for the old one.  What saves  *)
(* exclusion is that a lock is only dropped together with the runtime: as  *)
(* long as a handler can enter or is inside its lock, lock 0 is the only   *)
(* one a deletion of this process can have taken.                          *)
(***************************************************************************)
EraserOf(a, s) == Local(a) /\ target[a] = s /\ epc[a] \in {"wait"} \cup ErasePcs
Early == {"idle", "create"}

OwnTarget == \A s \in Sessions : target[s] = s
RowAfterCreate == \A s \in Sessions : hpc[s] \in Early => row[s] = "none"
EraseAfterCreate == \A a \in Actors : epc[a] # "off" => hpc[target[a]] \notin Early
FirstLock == \A s \in Sessions : hpc[s] = "idle" \/ s \in registered => lockGen[s] = 0
LocksKnown == \A s \in Sessions, a \in Actors : EraserOf(a, s) => elock[a] <= lockGen[s]
HolderRegistered == \A s \in Sessions : HandlerHolds(s) => s \in registered \/ ~ready
HolderAlone ==
    \A s \in Sessions, a \in Actors : HandlerHolds(s) /\ EraserOf(a, s) => elock[a] = 0

ExclusionInv ==
    /\ OwnTarget /\ RowAfterCreate /\ EraseAfterCreate
    /\ FirstLock /\ LocksKnown /\ HolderRegistered /\ HolderAlone
    /\ HandlerExcludesErase

(* The invariant of the locks holds at first. *)
LEMMA ExclusionInit == Init => ExclusionInv
BY DEF Init, ExclusionInv, OwnTarget, RowAfterCreate, EraseAfterCreate, FirstLock,
   LocksKnown,
       HolderRegistered, HolderAlone, HandlerExcludesErase, HandlerHolds, LockedPcs, EraserOf,
       ErasePcs, Erases

\* A step of a handler that is past its create, does not enter the lock and leaves the
\* service and the deletions alone.
LEMMA ExclusionQuiet ==
    ASSUME TypeInv, ExclusionInv, UNCHANGED <<service, erasers>>,
           \A s \in Sessions :
               /\ row'[s] # row[s] => row[s] # "none"
               /\ hpc'[s] # hpc[s] => hpc[s] \notin Early /\ hpc'[s] \notin Early
               /\ HandlerHolds(s)' => HandlerHolds(s)
    PROVE  ExclusionInv'
<1>1. UNCHANGED <<ready, registered, lockGen, epc, target, elock>>
  BY DEF service, erasers
<1>2. \A s \in Sessions, a \in Actors :
          /\ EraserOf(a, s)' = EraserOf(a, s)
          /\ (Local(a) /\ Erases(a, s))' = (Local(a) /\ Erases(a, s))
  BY <1>1 DEF EraserOf, Erases, Local
<1>3. OwnTarget' /\ LocksKnown'
  BY <1>1, <1>2 DEF ExclusionInv, OwnTarget, LocksKnown
<1>4. RowAfterCreate'
  BY DEF ExclusionInv, RowAfterCreate
<1>5. EraseAfterCreate' /\ FirstLock'
  BY <1>1 DEF ExclusionInv, EraseAfterCreate, FirstLock, Early, TypeInv, ErasersTyped
<1>6. HolderRegistered' /\ HolderAlone' /\ HandlerExcludesErase'
  BY <1>1, <1>2 DEF ExclusionInv, HolderRegistered, HolderAlone, HandlerExcludesErase
<1> QED
  BY <1>3, <1>4, <1>5, <1>6 DEF ExclusionInv

(* Every step keeps it. *)
LEMMA ExclusionStep ==
    ASSUME TypeInv, ExclusionInv, [Next]_vars
    PROVE  ExclusionInv'
<1> USE DEF Early
<1>1. ASSUME NEW s \in Sessions, Start(s) PROVE ExclusionInv'
  <2>1. OwnTarget' /\ RowAfterCreate' /\ EraseAfterCreate' /\ FirstLock'
    BY <1>1, SessionsAct DEF Start, ExclusionInv, OwnTarget, RowAfterCreate,
       EraseAfterCreate, FirstLock, LocksKnown, HolderRegistered, HolderAlone,
       HandlerExcludesErase, EraserOf, Erases, HandlerHolds, LockedPcs, ErasePcs, Local,
       Goto, stores, erasers, TypeInv, ServiceTyped, HandlersTyped, ErasersTyped,
       StoresTyped
  <2>2. LocksKnown' /\ HolderRegistered' /\ HolderAlone'
    BY <1>1, SessionsAct DEF Start, ExclusionInv, OwnTarget, RowAfterCreate,
       EraseAfterCreate, FirstLock, LocksKnown, HolderRegistered, HolderAlone,
       HandlerExcludesErase, EraserOf, Erases, HandlerHolds, LockedPcs, ErasePcs, Local,
       Goto, stores, erasers, TypeInv, ServiceTyped, HandlersTyped, ErasersTyped,
       StoresTyped
  <2>3. HandlerExcludesErase'
    BY <1>1, SessionsAct DEF Start, ExclusionInv, HandlerExcludesErase, Erases,
       HandlerHolds, LockedPcs, ErasePcs, Local, Goto, erasers, TypeInv, HandlersTyped,
       ErasersTyped
  <2> QED
    BY <2>1, <2>2, <2>3 DEF ExclusionInv
<1>2. ASSUME NEW s \in Sessions, Cancel(s) PROVE ExclusionInv'
  <2>1. UNCHANGED <<service, erasers>>
    BY <1>2 DEF Cancel, service, erasers
  <2>2. \A x \in Sessions :
          /\ row'[x] # row[x] => row[x] # "none"
          /\ hpc'[x] # hpc[x] => hpc[x] \notin Early /\ hpc'[x] \notin Early
          /\ HandlerHolds(x)' => HandlerHolds(x)
    BY <1>2 DEF Cancel, stores, TypeInv, HandlersTyped, StoresTyped, HandlerHolds,
       LockedPcs, Over
  <2> QED
    BY <2>1, <2>2, ExclusionQuiet
<1>3. ASSUME NEW s \in Sessions, ServeCreate(s) PROVE ExclusionInv'
  <2>1. OwnTarget'
    BY <1>3, SessionsAct DEF ServeCreate, ExclusionInv, OwnTarget, RowAfterCreate,
       EraseAfterCreate, FirstLock, LocksKnown, HolderRegistered, HolderAlone,
       HandlerExcludesErase, EraserOf, Erases, HandlerHolds, LockedPcs, ErasePcs, Local,
       Goto, service, erasers, TypeInv, ServiceTyped, HandlersTyped, ErasersTyped,
       StoresTyped
  <2>2. RowAfterCreate'
    BY <1>3, SessionsAct DEF ServeCreate, ExclusionInv, OwnTarget, RowAfterCreate,
       EraseAfterCreate, FirstLock, LocksKnown, HolderRegistered, HolderAlone,
       HandlerExcludesErase, EraserOf, Erases, HandlerHolds, LockedPcs, ErasePcs, Local,
       Goto, service, erasers, TypeInv, ServiceTyped, HandlersTyped, ErasersTyped,
       StoresTyped
  <2>3. EraseAfterCreate'
    BY <1>3, SessionsAct DEF ServeCreate, ExclusionInv, OwnTarget, RowAfterCreate,
       EraseAfterCreate, FirstLock, LocksKnown, HolderRegistered, HolderAlone,
       HandlerExcludesErase, EraserOf, Erases, HandlerHolds, LockedPcs, ErasePcs, Local,
       Goto, service, erasers, TypeInv, ServiceTyped, HandlersTyped, ErasersTyped,
       StoresTyped
  <2>4. FirstLock'
    BY <1>3, SessionsAct DEF ServeCreate, ExclusionInv, OwnTarget, RowAfterCreate,
       EraseAfterCreate, FirstLock, LocksKnown, HolderRegistered, HolderAlone,
       HandlerExcludesErase, EraserOf, Erases, HandlerHolds, LockedPcs, ErasePcs, Local,
       Goto, service, erasers, TypeInv, ServiceTyped, HandlersTyped, ErasersTyped,
       StoresTyped
  <2>5. LocksKnown' /\ HolderRegistered' /\ HolderAlone'
    BY <1>3, SessionsAct DEF ServeCreate, ExclusionInv, OwnTarget, RowAfterCreate,
       EraseAfterCreate, FirstLock, LocksKnown, HolderRegistered, HolderAlone,
       HandlerExcludesErase, EraserOf, Erases, HandlerHolds, LockedPcs, ErasePcs, Local,
       Goto, service, erasers, TypeInv, ServiceTyped, HandlersTyped, ErasersTyped,
       StoresTyped
  <2>6. HandlerExcludesErase'
    BY <1>3, SessionsAct DEF ServeCreate, ExclusionInv, OwnTarget, RowAfterCreate,
       EraseAfterCreate, FirstLock, LocksKnown, HolderRegistered, HolderAlone,
       HandlerExcludesErase, EraserOf, Erases, HandlerHolds, LockedPcs, ErasePcs, Local,
       Goto, service, erasers, TypeInv, ServiceTyped, HandlersTyped, ErasersTyped,
       StoresTyped
  <2> QED
    BY <2>1, <2>2, <2>3, <2>4, <2>5, <2>6 DEF ExclusionInv
<1>4. ASSUME NEW s \in Sessions, ResumeCreate(s) PROVE ExclusionInv'
  <2>1. OwnTarget' /\ RowAfterCreate' /\ EraseAfterCreate' /\ FirstLock'
    BY <1>4, SessionsAct DEF ResumeCreate, ExclusionInv, OwnTarget, RowAfterCreate,
       EraseAfterCreate, FirstLock, LocksKnown, HolderRegistered, HolderAlone,
       HandlerExcludesErase, EraserOf, Erases, HandlerHolds, LockedPcs, ErasePcs, Local,
       Goto, stores, erasers, TypeInv, ServiceTyped, HandlersTyped, ErasersTyped,
       StoresTyped
  <2>2. LocksKnown'
    BY <1>4, SessionsAct DEF ResumeCreate, ExclusionInv, OwnTarget, RowAfterCreate,
       EraseAfterCreate, FirstLock, LocksKnown, HolderRegistered, HolderAlone,
       HandlerExcludesErase, EraserOf, Erases, HandlerHolds, LockedPcs, ErasePcs, Local,
       Goto, stores, erasers, TypeInv, ServiceTyped, HandlersTyped, ErasersTyped,
       StoresTyped
  <2>3. HolderRegistered'
    BY <1>4, SessionsAct DEF ResumeCreate, ExclusionInv, OwnTarget, RowAfterCreate,
       EraseAfterCreate, FirstLock, LocksKnown, HolderRegistered, HolderAlone,
       HandlerExcludesErase, EraserOf, Erases, HandlerHolds, LockedPcs, ErasePcs, Local,
       Goto, stores, erasers, TypeInv, ServiceTyped, HandlersTyped, ErasersTyped,
       StoresTyped
  <2>4. HolderAlone'
    BY <1>4, SessionsAct DEF ResumeCreate, ExclusionInv, OwnTarget, RowAfterCreate,
       EraseAfterCreate, FirstLock, LocksKnown, HolderRegistered, HolderAlone,
       HandlerExcludesErase, EraserOf, Erases, HandlerHolds, LockedPcs, ErasePcs, Local,
       Goto, stores, erasers, TypeInv, ServiceTyped, HandlersTyped, ErasersTyped,
       StoresTyped
  <2>5. HandlerExcludesErase'
    BY <1>4, SessionsAct DEF ResumeCreate, ExclusionInv, OwnTarget, RowAfterCreate,
       EraseAfterCreate, FirstLock, LocksKnown, HolderRegistered, HolderAlone,
       HandlerExcludesErase, EraserOf, Erases, HandlerHolds, LockedPcs, ErasePcs, Local,
       Goto, stores, erasers, TypeInv, ServiceTyped, HandlersTyped, ErasersTyped,
       StoresTyped
  <2> QED
    BY <2>1, <2>2, <2>3, <2>4, <2>5 DEF ExclusionInv
<1>5. ASSUME NEW s \in Sessions, Store(s) PROVE ExclusionInv'
  <2>1. OwnTarget' /\ RowAfterCreate' /\ EraseAfterCreate' /\ FirstLock'
    BY <1>5, SessionsAct DEF Store, ExclusionInv, OwnTarget, RowAfterCreate,
       EraseAfterCreate, FirstLock, LocksKnown, HolderRegistered, HolderAlone,
       HandlerExcludesErase, EraserOf, Erases, HandlerHolds, LockedPcs, ErasePcs, Local,
       Free, Goto, TakeSegment, Open, stores, service, erasers, TypeInv, ServiceTyped,
       HandlersTyped, ErasersTyped, StoresTyped
  <2>2. LocksKnown' /\ HolderRegistered' /\ HolderAlone'
    BY <1>5, SessionsAct DEF Store, ExclusionInv, OwnTarget, RowAfterCreate,
       EraseAfterCreate, FirstLock, LocksKnown, HolderRegistered, HolderAlone,
       HandlerExcludesErase, EraserOf, Erases, HandlerHolds, LockedPcs, ErasePcs, Local,
       Free, Goto, TakeSegment, Open, stores, service, erasers, TypeInv, ServiceTyped,
       HandlersTyped, ErasersTyped, StoresTyped
  <2>3. HandlerExcludesErase'
    BY <1>5, SessionsAct DEF Store, ExclusionInv, OwnTarget, RowAfterCreate,
       EraseAfterCreate, FirstLock, LocksKnown, HolderRegistered, HolderAlone,
       HandlerExcludesErase, EraserOf, Erases, HandlerHolds, LockedPcs, ErasePcs, Local,
       Free, Goto, TakeSegment, Open, stores, service, erasers, TypeInv, ServiceTyped,
       HandlersTyped, ErasersTyped, StoresTyped
  <2> QED
    BY <2>1, <2>2, <2>3 DEF ExclusionInv
<1>6. ASSUME NEW s \in Sessions, Complete(s) PROVE ExclusionInv'
  <2>1. OwnTarget' /\ RowAfterCreate' /\ EraseAfterCreate' /\ FirstLock'
    BY <1>6, SessionsAct DEF Complete, ExclusionInv, OwnTarget, RowAfterCreate,
       EraseAfterCreate, FirstLock, LocksKnown, HolderRegistered, HolderAlone,
       HandlerExcludesErase, EraserOf, Erases, HandlerHolds, LockedPcs, ErasePcs, Local,
       Free, Goto, TakeSegment, Open, stores, service, erasers, TypeInv, ServiceTyped,
       HandlersTyped, ErasersTyped, StoresTyped
  <2>2. LocksKnown' /\ HolderRegistered' /\ HolderAlone'
    BY <1>6, SessionsAct DEF Complete, ExclusionInv, OwnTarget, RowAfterCreate,
       EraseAfterCreate, FirstLock, LocksKnown, HolderRegistered, HolderAlone,
       HandlerExcludesErase, EraserOf, Erases, HandlerHolds, LockedPcs, ErasePcs, Local,
       Free, Goto, TakeSegment, Open, stores, service, erasers, TypeInv, ServiceTyped,
       HandlersTyped, ErasersTyped, StoresTyped
  <2>3. HandlerExcludesErase'
    BY <1>6, SessionsAct DEF Complete, ExclusionInv, OwnTarget, RowAfterCreate,
       EraseAfterCreate, FirstLock, LocksKnown, HolderRegistered, HolderAlone,
       HandlerExcludesErase, EraserOf, Erases, HandlerHolds, LockedPcs, ErasePcs, Local,
       Free, Goto, TakeSegment, Open, stores, service, erasers, TypeInv, ServiceTyped,
       HandlersTyped, ErasersTyped, StoresTyped
  <2> QED
    BY <2>1, <2>2, <2>3 DEF ExclusionInv
<1>7. ASSUME NEW s \in Sessions, Fail(s) PROVE ExclusionInv'
  <2>1. UNCHANGED <<service, erasers>>
    BY <1>7 DEF Fail, service, erasers
  <2>2. \A x \in Sessions :
          /\ row'[x] # row[x] => row[x] # "none"
          /\ hpc'[x] # hpc[x] => hpc[x] \notin Early /\ hpc'[x] \notin Early
          /\ HandlerHolds(x)' => HandlerHolds(x)
    BY <1>7 DEF Fail, Goto, stores, TypeInv, HandlersTyped, StoresTyped, HandlerHolds,
       LockedPcs
  <2> QED
    BY <2>1, <2>2, ExclusionQuiet
<1>8. ASSUME NEW s \in Sessions, ServePut(s) PROVE ExclusionInv'
  <2>1. UNCHANGED <<service, erasers>>
    BY <1>8 DEF ServePut, service, erasers
  <2>2. \A x \in Sessions :
          /\ row'[x] # row[x] => row[x] # "none"
          /\ hpc'[x] # hpc[x] => hpc[x] \notin Early /\ hpc'[x] \notin Early
          /\ HandlerHolds(x)' => HandlerHolds(x)
    BY <1>8 DEF ServePut, Goto, TypeInv, HandlersTyped, StoresTyped, HandlerHolds,
       LockedPcs
  <2> QED
    BY <2>1, <2>2, ExclusionQuiet
<1>9. ASSUME NEW s \in Sessions, ResumePut(s) PROVE ExclusionInv'
  <2>1. UNCHANGED <<service, erasers>>
    BY <1>9 DEF ResumePut, service, erasers
  <2>2. \A x \in Sessions :
          /\ row'[x] # row[x] => row[x] # "none"
          /\ hpc'[x] # hpc[x] => hpc[x] \notin Early /\ hpc'[x] \notin Early
          /\ HandlerHolds(x)' => HandlerHolds(x)
    BY <1>9 DEF ResumePut, Goto, stores, TypeInv, HandlersTyped, StoresTyped,
       HandlerHolds, LockedPcs
  <2> QED
    BY <2>1, <2>2, ExclusionQuiet
<1>10. ASSUME NEW s \in Sessions, ServeAdd(s) PROVE ExclusionInv'
  <2>1. UNCHANGED <<service, erasers>>
    BY <1>10 DEF ServeAdd, service, erasers
  <2>2. \A x \in Sessions :
          /\ row'[x] # row[x] => row[x] # "none"
          /\ hpc'[x] # hpc[x] => hpc[x] \notin Early /\ hpc'[x] \notin Early
          /\ HandlerHolds(x)' => HandlerHolds(x)
    BY <1>10 DEF ServeAdd, Goto, TypeInv, HandlersTyped, StoresTyped, HandlerHolds,
       LockedPcs
  <2> QED
    BY <2>1, <2>2, ExclusionQuiet
<1>11. ASSUME NEW s \in Sessions, ResumeAdd(s) PROVE ExclusionInv'
  <2>1. UNCHANGED <<service, erasers>>
    BY <1>11 DEF ResumeAdd, service, erasers
  <2>2. \A x \in Sessions :
          /\ row'[x] # row[x] => row[x] # "none"
          /\ hpc'[x] # hpc[x] => hpc[x] \notin Early /\ hpc'[x] \notin Early
          /\ HandlerHolds(x)' => HandlerHolds(x)
    BY <1>11 DEF ResumeAdd, TakeSegment, Goto, stores, TypeInv, HandlersTyped,
       StoresTyped, HandlerHolds, LockedPcs
  <2> QED
    BY <2>1, <2>2, ExclusionQuiet
<1>12. ASSUME NEW s \in Sessions, ServeUndo(s) PROVE ExclusionInv'
  <2>1. UNCHANGED <<service, erasers>>
    BY <1>12 DEF ServeUndo, service, erasers
  <2>2. \A x \in Sessions :
          /\ row'[x] # row[x] => row[x] # "none"
          /\ hpc'[x] # hpc[x] => hpc[x] \notin Early /\ hpc'[x] \notin Early
          /\ HandlerHolds(x)' => HandlerHolds(x)
    BY <1>12 DEF ServeUndo, Goto, TypeInv, HandlersTyped, StoresTyped, HandlerHolds,
       LockedPcs
  <2> QED
    BY <2>1, <2>2, ExclusionQuiet
<1>13. ASSUME NEW s \in Sessions, ServeCommit(s) PROVE ExclusionInv'
  <2>1. UNCHANGED <<service, erasers>>
    BY <1>13 DEF ServeCommit, service, erasers
  <2>2. \A x \in Sessions :
          /\ row'[x] # row[x] => row[x] # "none"
          /\ hpc'[x] # hpc[x] => hpc[x] \notin Early /\ hpc'[x] \notin Early
          /\ HandlerHolds(x)' => HandlerHolds(x)
    BY <1>13 DEF ServeCommit, Goto, TypeInv, HandlersTyped, StoresTyped, HandlerHolds,
       LockedPcs
  <2> QED
    BY <2>1, <2>2, ExclusionQuiet
<1>14. ASSUME NEW s \in Sessions, ResumeCommit(s) PROVE ExclusionInv'
  <2>1. OwnTarget' /\ RowAfterCreate' /\ EraseAfterCreate' /\ FirstLock'
    BY <1>14, SessionsAct DEF ResumeCommit, ExclusionInv, OwnTarget, RowAfterCreate,
       EraseAfterCreate, FirstLock, LocksKnown, HolderRegistered, HolderAlone,
       HandlerExcludesErase, EraserOf, Erases, HandlerHolds, LockedPcs, ErasePcs, Local,
       Goto, stores, erasers, TypeInv, ServiceTyped, HandlersTyped, ErasersTyped,
       StoresTyped
  <2>2. LocksKnown' /\ HolderRegistered' /\ HolderAlone'
    BY <1>14, SessionsAct DEF ResumeCommit, ExclusionInv, OwnTarget, RowAfterCreate,
       EraseAfterCreate, FirstLock, LocksKnown, HolderRegistered, HolderAlone,
       HandlerExcludesErase, EraserOf, Erases, HandlerHolds, LockedPcs, ErasePcs, Local,
       Goto, stores, erasers, TypeInv, ServiceTyped, HandlersTyped, ErasersTyped,
       StoresTyped
  <2>3. HandlerExcludesErase'
    BY <1>14, SessionsAct DEF ResumeCommit, ExclusionInv, OwnTarget, RowAfterCreate,
       EraseAfterCreate, FirstLock, LocksKnown, HolderRegistered, HolderAlone,
       HandlerExcludesErase, EraserOf, Erases, HandlerHolds, LockedPcs, ErasePcs, Local,
       Goto, stores, erasers, TypeInv, ServiceTyped, HandlersTyped, ErasersTyped,
       StoresTyped
  <2> QED
    BY <2>1, <2>2, <2>3 DEF ExclusionInv
<1>15. ASSUME NEW s \in Sessions, ServeRead(s) PROVE ExclusionInv'
  <2>1. UNCHANGED <<service, erasers>>
    BY <1>15 DEF ServeRead, service, erasers
  <2>2. \A x \in Sessions :
          /\ row'[x] # row[x] => row[x] # "none"
          /\ hpc'[x] # hpc[x] => hpc[x] \notin Early /\ hpc'[x] \notin Early
          /\ HandlerHolds(x)' => HandlerHolds(x)
    BY <1>15 DEF ServeRead, Goto, stores, TypeInv, HandlersTyped, StoresTyped,
       HandlerHolds, LockedPcs
  <2> QED
    BY <2>1, <2>2, ExclusionQuiet
<1>16. ASSUME NEW s \in Sessions, ResumeRead(s) PROVE ExclusionInv'
  <2>1. UNCHANGED <<service, erasers>>
    BY <1>16 DEF ResumeRead, service, erasers
  <2>2. \A x \in Sessions :
          /\ row'[x] # row[x] => row[x] # "none"
          /\ hpc'[x] # hpc[x] => hpc[x] \notin Early /\ hpc'[x] \notin Early
          /\ HandlerHolds(x)' => HandlerHolds(x)
    BY <1>16 DEF ResumeRead, Goto, stores, TypeInv, HandlersTyped, StoresTyped,
       HandlerHolds, LockedPcs
  <2> QED
    BY <2>1, <2>2, ExclusionQuiet
<1>17. ASSUME NEW s \in Sessions, Cleanup(s) PROVE ExclusionInv'
  <2>1. OwnTarget' /\ RowAfterCreate' /\ EraseAfterCreate' /\ FirstLock'
    BY <1>17, SessionsAct DEF Cleanup, ExclusionInv, OwnTarget, RowAfterCreate,
       EraseAfterCreate, FirstLock, LocksKnown, HolderRegistered, HolderAlone,
       HandlerExcludesErase, EraserOf, Erases, HandlerHolds, LockedPcs, ErasePcs, Local,
       Goto, stores, service, TypeInv, ServiceTyped, HandlersTyped, ErasersTyped,
       StoresTyped
  <2>2. LocksKnown'
    BY <1>17, SessionsAct DEF Cleanup, ExclusionInv, OwnTarget, RowAfterCreate,
       EraseAfterCreate, FirstLock, LocksKnown, HolderRegistered, HolderAlone,
       HandlerExcludesErase, EraserOf, Erases, HandlerHolds, LockedPcs, ErasePcs, Local,
       Goto, stores, service, TypeInv, ServiceTyped, HandlersTyped, ErasersTyped,
       StoresTyped
  <2>3. HolderRegistered'
    BY <1>17, SessionsAct DEF Cleanup, ExclusionInv, OwnTarget, RowAfterCreate,
       EraseAfterCreate, FirstLock, LocksKnown, HolderRegistered, HolderAlone,
       HandlerExcludesErase, EraserOf, Erases, HandlerHolds, LockedPcs, ErasePcs, Local,
       Goto, stores, service, TypeInv, ServiceTyped, HandlersTyped, ErasersTyped,
       StoresTyped
  <2>4. HolderAlone'
    BY <1>17, SessionsAct DEF Cleanup, ExclusionInv, OwnTarget, RowAfterCreate,
       EraseAfterCreate, FirstLock, LocksKnown, HolderRegistered, HolderAlone,
       HandlerExcludesErase, EraserOf, Erases, HandlerHolds, LockedPcs, ErasePcs, Local,
       Goto, stores, service, TypeInv, ServiceTyped, HandlersTyped, ErasersTyped,
       StoresTyped
  <2>5. HandlerExcludesErase'
    BY <1>17, SessionsAct DEF Cleanup, ExclusionInv, HandlerExcludesErase, Erases,
       HandlerHolds, LockedPcs, ErasePcs, Local, Goto, TypeInv, HandlersTyped,
       ErasersTyped
  <2> QED
    BY <2>1, <2>2, <2>3, <2>4, <2>5 DEF ExclusionInv
<1>18. ASSUME NEW s \in Sessions, FinishCleanup(s) PROVE ExclusionInv'
  <2>1. UNCHANGED <<service, erasers>>
    BY <1>18 DEF FinishCleanup, service, erasers
  <2>2. \A x \in Sessions :
          /\ row'[x] # row[x] => row[x] # "none"
          /\ hpc'[x] # hpc[x] => hpc[x] \notin Early /\ hpc'[x] \notin Early
          /\ HandlerHolds(x)' => HandlerHolds(x)
    BY <1>18 DEF FinishCleanup, Goto, stores, TypeInv, HandlersTyped, StoresTyped,
       HandlerHolds, LockedPcs
  <2> QED
    BY <2>1, <2>2, ExclusionQuiet
<1>19. ASSUME NEW d \in Deleters, BeginErase(d) PROVE ExclusionInv'
  <2>1. OwnTarget' /\ RowAfterCreate' /\ EraseAfterCreate' /\ FirstLock'
    BY <1>19, SessionsAct DEF BeginErase, ExclusionInv, OwnTarget, RowAfterCreate,
       EraseAfterCreate, FirstLock, LocksKnown, HolderRegistered, HolderAlone,
       HandlerExcludesErase, EraserOf, Erases, HandlerHolds, LockedPcs, ErasePcs, Local,
       stores, service, handlers, TypeInv, ServiceTyped, HandlersTyped, ErasersTyped,
       StoresTyped
  <2>2. LocksKnown' /\ HolderRegistered' /\ HolderAlone'
    BY <1>19, SessionsAct DEF BeginErase, ExclusionInv, OwnTarget, RowAfterCreate,
       EraseAfterCreate, FirstLock, LocksKnown, HolderRegistered, HolderAlone,
       HandlerExcludesErase, EraserOf, Erases, HandlerHolds, LockedPcs, ErasePcs, Local,
       stores, service, handlers, TypeInv, ServiceTyped, HandlersTyped, ErasersTyped,
       StoresTyped
  <2>3. HandlerExcludesErase'
    BY <1>19, SessionsAct DEF BeginErase, ExclusionInv, OwnTarget, RowAfterCreate,
       EraseAfterCreate, FirstLock, LocksKnown, HolderRegistered, HolderAlone,
       HandlerExcludesErase, EraserOf, Erases, HandlerHolds, LockedPcs, ErasePcs, Local,
       stores, service, handlers, TypeInv, ServiceTyped, HandlersTyped, ErasersTyped,
       StoresTyped
  <2> QED
    BY <2>1, <2>2, <2>3 DEF ExclusionInv
<1>20. ASSUME NEW a \in Actors, AcquireErase(a) PROVE ExclusionInv'
  <2>1. OwnTarget' /\ RowAfterCreate' /\ EraseAfterCreate' /\ FirstLock'
    BY <1>20, SessionsAct DEF AcquireErase, ExclusionInv, OwnTarget, RowAfterCreate,
       EraseAfterCreate, FirstLock, LocksKnown, HolderRegistered, HolderAlone,
       HandlerExcludesErase, EraserOf, Erases, HandlerHolds, LockedPcs, ErasePcs, Local,
       Free, Finish, stores, service, handlers, TypeInv, ServiceTyped, HandlersTyped,
       ErasersTyped, StoresTyped
  <2>2. LocksKnown' /\ HolderRegistered' /\ HolderAlone'
    BY <1>20, SessionsAct DEF AcquireErase, ExclusionInv, OwnTarget, RowAfterCreate,
       EraseAfterCreate, FirstLock, LocksKnown, HolderRegistered, HolderAlone,
       HandlerExcludesErase, EraserOf, Erases, HandlerHolds, LockedPcs, ErasePcs, Local,
       Free, Finish, stores, service, handlers, TypeInv, ServiceTyped, HandlersTyped,
       ErasersTyped, StoresTyped
  <2>3. HandlerExcludesErase'
    BY <1>20, SessionsAct DEF AcquireErase, ExclusionInv, OwnTarget, RowAfterCreate,
       EraseAfterCreate, FirstLock, LocksKnown, HolderRegistered, HolderAlone,
       HandlerExcludesErase, EraserOf, Erases, HandlerHolds, LockedPcs, ErasePcs, Local,
       Free, Finish, stores, service, handlers, TypeInv, ServiceTyped, HandlersTyped,
       ErasersTyped, StoresTyped
  <2> QED
    BY <2>1, <2>2, <2>3 DEF ExclusionInv
<1>21. ASSUME NEW a \in Actors, ServeManifest(a) PROVE ExclusionInv'
  <2>1. OwnTarget' /\ RowAfterCreate' /\ EraseAfterCreate' /\ FirstLock'
    BY <1>21, SessionsAct DEF ServeManifest, ExclusionInv, OwnTarget, RowAfterCreate,
       EraseAfterCreate, FirstLock, LocksKnown, HolderRegistered, HolderAlone,
       HandlerExcludesErase, EraserOf, Erases, HandlerHolds, LockedPcs, ErasePcs, Local,
       Finish, stores, handlers, TypeInv, ServiceTyped, HandlersTyped, ErasersTyped,
       StoresTyped
  <2>2. LocksKnown' /\ HolderRegistered' /\ HolderAlone'
    BY <1>21, SessionsAct DEF ServeManifest, ExclusionInv, OwnTarget, RowAfterCreate,
       EraseAfterCreate, FirstLock, LocksKnown, HolderRegistered, HolderAlone,
       HandlerExcludesErase, EraserOf, Erases, HandlerHolds, LockedPcs, ErasePcs, Local,
       Finish, stores, handlers, TypeInv, ServiceTyped, HandlersTyped, ErasersTyped,
       StoresTyped
  <2>3. HandlerExcludesErase'
    BY <1>21, SessionsAct DEF ServeManifest, ExclusionInv, OwnTarget, RowAfterCreate,
       EraseAfterCreate, FirstLock, LocksKnown, HolderRegistered, HolderAlone,
       HandlerExcludesErase, EraserOf, Erases, HandlerHolds, LockedPcs, ErasePcs, Local,
       Finish, stores, handlers, TypeInv, ServiceTyped, HandlersTyped, ErasersTyped,
       StoresTyped
  <2> QED
    BY <2>1, <2>2, <2>3 DEF ExclusionInv
<1>22. ASSUME NEW a \in Actors, ServeObjects(a) PROVE ExclusionInv'
  <2>1. OwnTarget' /\ RowAfterCreate' /\ EraseAfterCreate' /\ FirstLock'
    BY <1>22, SessionsAct DEF ServeObjects, ExclusionInv, OwnTarget, RowAfterCreate,
       EraseAfterCreate, FirstLock, LocksKnown, HolderRegistered, HolderAlone,
       HandlerExcludesErase, EraserOf, Erases, HandlerHolds, LockedPcs, ErasePcs, Local,
       Finish, service, handlers, TypeInv, ServiceTyped, HandlersTyped, ErasersTyped,
       StoresTyped
  <2>2. LocksKnown' /\ HolderRegistered' /\ HolderAlone'
    BY <1>22, SessionsAct DEF ServeObjects, ExclusionInv, OwnTarget, RowAfterCreate,
       EraseAfterCreate, FirstLock, LocksKnown, HolderRegistered, HolderAlone,
       HandlerExcludesErase, EraserOf, Erases, HandlerHolds, LockedPcs, ErasePcs, Local,
       Finish, service, handlers, TypeInv, ServiceTyped, HandlersTyped, ErasersTyped,
       StoresTyped
  <2>3. HandlerExcludesErase'
    BY <1>22, SessionsAct DEF ServeObjects, ExclusionInv, OwnTarget, RowAfterCreate,
       EraseAfterCreate, FirstLock, LocksKnown, HolderRegistered, HolderAlone,
       HandlerExcludesErase, EraserOf, Erases, HandlerHolds, LockedPcs, ErasePcs, Local,
       Finish, service, handlers, TypeInv, ServiceTyped, HandlersTyped, ErasersTyped,
       StoresTyped
  <2> QED
    BY <2>1, <2>2, <2>3 DEF ExclusionInv
<1>23. ASSUME NEW a \in Actors, ServeRow(a) PROVE ExclusionInv'
  <2>1. OwnTarget' /\ RowAfterCreate' /\ EraseAfterCreate' /\ FirstLock'
    BY <1>23, SessionsAct DEF ServeRow, ExclusionInv, OwnTarget, RowAfterCreate,
       EraseAfterCreate, FirstLock, LocksKnown, HolderRegistered, HolderAlone,
       HandlerExcludesErase, EraserOf, Erases, HandlerHolds, LockedPcs, ErasePcs, Local,
       Finish, handlers, TypeInv, ServiceTyped, HandlersTyped, ErasersTyped, StoresTyped
  <2>2. LocksKnown'
    BY <1>23, SessionsAct DEF ServeRow, ExclusionInv, OwnTarget, RowAfterCreate,
       EraseAfterCreate, FirstLock, LocksKnown, HolderRegistered, HolderAlone,
       HandlerExcludesErase, EraserOf, Erases, HandlerHolds, LockedPcs, ErasePcs, Local,
       Finish, handlers, TypeInv, ServiceTyped, HandlersTyped, ErasersTyped, StoresTyped
  <2>3. HolderRegistered'
    BY <1>23, SessionsAct DEF ServeRow, ExclusionInv, OwnTarget, RowAfterCreate,
       EraseAfterCreate, FirstLock, LocksKnown, HolderRegistered, HolderAlone,
       HandlerExcludesErase, EraserOf, Erases, HandlerHolds, LockedPcs, ErasePcs, Local,
       Finish, handlers, TypeInv, ServiceTyped, HandlersTyped, ErasersTyped, StoresTyped
  <2>4. HolderAlone'
    BY <1>23, SessionsAct DEF ServeRow, ExclusionInv, OwnTarget, RowAfterCreate,
       EraseAfterCreate, FirstLock, LocksKnown, HolderRegistered, HolderAlone,
       HandlerExcludesErase, EraserOf, Erases, HandlerHolds, LockedPcs, ErasePcs, Local,
       Finish, handlers, TypeInv, ServiceTyped, HandlersTyped, ErasersTyped, StoresTyped
  <2>5. HandlerExcludesErase'
    BY <1>23, SessionsAct DEF ServeRow, ExclusionInv, OwnTarget, RowAfterCreate,
       EraseAfterCreate, FirstLock, LocksKnown, HolderRegistered, HolderAlone,
       HandlerExcludesErase, EraserOf, Erases, HandlerHolds, LockedPcs, ErasePcs, Local,
       Finish, handlers, TypeInv, ServiceTyped, HandlersTyped, ErasersTyped, StoresTyped
  <2> QED
    BY <2>1, <2>2, <2>3, <2>4, <2>5 DEF ExclusionInv
<1>24. CASE Close
  <2>1. OwnTarget' /\ RowAfterCreate' /\ EraseAfterCreate' /\ FirstLock'
    BY <1>24, SessionsAct DEF Close, ExclusionInv, OwnTarget, RowAfterCreate,
       EraseAfterCreate, FirstLock, LocksKnown, HolderRegistered, HolderAlone,
       HandlerExcludesErase, EraserOf, Erases, HandlerHolds, LockedPcs, ErasePcs, Local,
       stores, handlers, erasers, TypeInv, ServiceTyped, HandlersTyped, ErasersTyped,
       StoresTyped
  <2>2. LocksKnown' /\ HolderRegistered' /\ HolderAlone'
    BY <1>24, SessionsAct DEF Close, ExclusionInv, OwnTarget, RowAfterCreate,
       EraseAfterCreate, FirstLock, LocksKnown, HolderRegistered, HolderAlone,
       HandlerExcludesErase, EraserOf, Erases, HandlerHolds, LockedPcs, ErasePcs, Local,
       stores, handlers, erasers, TypeInv, ServiceTyped, HandlersTyped, ErasersTyped,
       StoresTyped
  <2>3. HandlerExcludesErase'
    BY <1>24, SessionsAct DEF Close, ExclusionInv, OwnTarget, RowAfterCreate,
       EraseAfterCreate, FirstLock, LocksKnown, HolderRegistered, HolderAlone,
       HandlerExcludesErase, EraserOf, Erases, HandlerHolds, LockedPcs, ErasePcs, Local,
       stores, handlers, erasers, TypeInv, ServiceTyped, HandlersTyped, ErasersTyped,
       StoresTyped
  <2> QED
    BY <2>1, <2>2, <2>3 DEF ExclusionInv
<1>25. CASE Restart
  <2>1. OwnTarget' /\ RowAfterCreate' /\ EraseAfterCreate' /\ FirstLock'
    BY <1>25, SessionsAct DEF Restart, ExclusionInv, OwnTarget, RowAfterCreate,
       EraseAfterCreate, FirstLock, LocksKnown, HolderRegistered, HolderAlone,
       HandlerExcludesErase, EraserOf, Erases, HandlerHolds, LockedPcs, ErasePcs, Over,
       Local, stores, TypeInv, ServiceTyped, HandlersTyped, ErasersTyped, StoresTyped
  <2>2. LocksKnown' /\ HolderRegistered' /\ HolderAlone'
    BY <1>25, SessionsAct DEF Restart, ExclusionInv, OwnTarget, RowAfterCreate,
       EraseAfterCreate, FirstLock, LocksKnown, HolderRegistered, HolderAlone,
       HandlerExcludesErase, EraserOf, Erases, HandlerHolds, LockedPcs, ErasePcs, Over,
       Local, stores, TypeInv, ServiceTyped, HandlersTyped, ErasersTyped, StoresTyped
  <2>3. HandlerExcludesErase'
    BY <1>25, SessionsAct DEF Restart, ExclusionInv, OwnTarget, RowAfterCreate,
       EraseAfterCreate, FirstLock, LocksKnown, HolderRegistered, HolderAlone,
       HandlerExcludesErase, EraserOf, Erases, HandlerHolds, LockedPcs, ErasePcs, Over,
       Local, stores, TypeInv, ServiceTyped, HandlersTyped, ErasersTyped, StoresTyped
  <2> QED
    BY <2>1, <2>2, <2>3 DEF ExclusionInv
<1>26. CASE UNCHANGED vars
  BY <1>26, ExclusionQuiet DEF vars, stores, handlers, HandlerHolds
<1> QED
  BY <1>1, <1>2, <1>3, <1>4, <1>5, <1>6, <1>7, <1>8, <1>9, <1>10, <1>11, <1>12, <1>13,
     <1>14, <1>15, <1>16, <1>17, <1>18, <1>19, <1>20, <1>21, <1>22, <1>23, <1>24, <1>25,
     <1>26 DEF Next, HandlerStep, EraseStep

\* A handler that stores or completes and a deletion of the same session in this
\* process are never inside their critical sections together.
THEOREM Exclusion == Spec => []HandlerExcludesErase
<1>1. ExclusionInv => HandlerExcludesErase
  BY DEF ExclusionInv
<1> QED
  BY <1>1, TypeInit, TypeStep, ExclusionInit, ExclusionStep, PTL DEF Spec

-------------------------------------------------------------------------------
(***************************************************************************)
(* A retained analysis is whole.  The handler builds it one segment at a   *)
(* time, so the invariant follows the handler: between two segments the    *)
(* manifest lists all that were taken, during one it lists all but the     *)
(* last.  It holds in whatever container the deletions run.                *)
(***************************************************************************)
Whole(s, n) == segs[s] = 0 .. (n - 1) /\ segs[s] \subseteq objects[s]

BetweenPcs == {"idle", "create", "created", "create_failed", "open", "add_ok", "commit"}
AfterPcs == {"committed", "commit_failed", "read", "read_ok", "read_none", "read_failed",
             "failing", "cleanup", "done", "dead"}

IntactOf(s) ==
    /\ s \notin erasing =>
          /\ hpc[s] \in BetweenPcs \/ row[s] = "completed" => Whole(s, taken[s])
          /\ hpc[s] \in {"put", "put_ok", "add"} => Whole(s, taken[s] - 1)
          /\ hpc[s] \in {"put_ok", "add"} => Last(s) \in objects[s]
    /\ row[s] = "completed" => hpc[s] \in AfterPcs

ErasingKnown == \A a \in Actors : epc[a] \in {"objects", "row"} => target[a] \in erasing

IntactInv == ErasingKnown /\ \A s \in Sessions : IntactOf(s)

(* The invariant of the manifest holds at first. *)
LEMMA IntactInit == Init => IntactInv
BY DEF Init, IntactInv, ErasingKnown, IntactOf, Whole

\* Handlers do not meddle with each other's sessions.
LEMMA IntactHandler ==
    ASSUME TypeInv, IntactInv, NEW s \in Sessions, IntactOf(s)',
           UNCHANGED <<target, erasing>>,
           \A a \in Actors : epc'[a] \in {"objects", "row"} => epc'[a] = epc[a],
           \A x \in Sessions \ {s} :
               /\ row'[x] = row[x] /\ segs'[x] = segs[x] /\ objects'[x] = objects[x]
               /\ hpc'[x] = hpc[x] /\ taken'[x] = taken[x]
    PROVE  IntactInv'
<1>1. ErasingKnown'
  BY DEF IntactInv, ErasingKnown
<1>2. ASSUME NEW x \in Sessions \ {s} PROVE IntactOf(x)'
  <2>1. IntactOf(x)
    BY <1>2 DEF IntactInv
  <2>2. \A n : Whole(x, n)' = Whole(x, n)
    BY <1>2 DEF Whole
  <2> QED
    BY <1>2, <2>1, <2>2 DEF IntactOf, Last
<1> QED
  BY <1>1, <1>2 DEF IntactInv

(* Taking a segment counts it and puts it, or fails. *)
LEMMA SegmentTaken ==
    ASSUME HandlersTyped, NEW s \in Sessions, NEW call, TakeSegment(s, call)
    PROVE  taken'[s] - 1 = taken[s] /\ hpc'[s] \in {"put", "failing"}
BY DEF HandlersTyped, TakeSegment, Goto

(* Every step keeps the manifest. *)
LEMMA IntactStep ==
    ASSUME TypeInv, IntactInv, [Next]_vars
    PROVE  IntactInv'
<1>1. ASSUME NEW s \in Sessions, Start(s) PROVE IntactInv'
  <2>1. IntactOf(s)'
    BY <1>1 DEF IntactInv, IntactOf, Start, Goto, Whole, Last, BetweenPcs, AfterPcs,
       stores, Numbered, SegmentPcs, Segments, TypeInv, StoresTyped, HandlersTyped
  <2>2. /\ UNCHANGED <<target, erasing>>
        /\ \A a \in Actors : epc'[a] \in {"objects", "row"} => epc'[a] = epc[a]
        /\ \A x \in Sessions \ {s} :
              /\ row'[x] = row[x] /\ segs'[x] = segs[x] /\ objects'[x] = objects[x]
              /\ hpc'[x] = hpc[x] /\ taken'[x] = taken[x]
    BY <1>1, SessionsAct DEF Start, Goto, stores, erasers, TypeInv, StoresTyped,
       HandlersTyped, ErasersTyped
  <2> QED
    BY <2>1, <2>2, IntactHandler
<1>2. ASSUME NEW s \in Sessions, Cancel(s) PROVE IntactInv'
  <2>1. IntactOf(s)'
    BY <1>2 DEF IntactInv, IntactOf, Cancel, Whole, Last, BetweenPcs, AfterPcs, Over,
       stores, Numbered, SegmentPcs, Segments, TypeInv, StoresTyped, HandlersTyped
  <2>2. /\ UNCHANGED <<target, erasing>>
        /\ \A a \in Actors : epc'[a] \in {"objects", "row"} => epc'[a] = epc[a]
        /\ \A x \in Sessions \ {s} :
              /\ row'[x] = row[x] /\ segs'[x] = segs[x] /\ objects'[x] = objects[x]
              /\ hpc'[x] = hpc[x] /\ taken'[x] = taken[x]
    BY <1>2, SessionsAct DEF Cancel, stores, erasers, TypeInv, StoresTyped,
       HandlersTyped, ErasersTyped
  <2> QED
    BY <2>1, <2>2, IntactHandler
<1>3. ASSUME NEW s \in Sessions, ServeCreate(s) PROVE IntactInv'
  <2>1. IntactOf(s)'
    BY <1>3 DEF IntactInv, IntactOf, ServeCreate, Goto, Whole, Last, BetweenPcs,
       AfterPcs, Numbered, SegmentPcs, Segments, TypeInv, StoresTyped, HandlersTyped
  <2>2. /\ UNCHANGED <<target, erasing>>
        /\ \A a \in Actors : epc'[a] \in {"objects", "row"} => epc'[a] = epc[a]
        /\ \A x \in Sessions \ {s} :
              /\ row'[x] = row[x] /\ segs'[x] = segs[x] /\ objects'[x] = objects[x]
              /\ hpc'[x] = hpc[x] /\ taken'[x] = taken[x]
    BY <1>3, SessionsAct DEF ServeCreate, Goto, erasers, TypeInv, StoresTyped,
       HandlersTyped, ErasersTyped
  <2> QED
    BY <2>1, <2>2, IntactHandler
<1>4. ASSUME NEW s \in Sessions, ResumeCreate(s) PROVE IntactInv'
  <2>1. IntactOf(s)'
    BY <1>4 DEF IntactInv, IntactOf, ResumeCreate, Goto, Whole, Last, BetweenPcs,
       AfterPcs, stores, Numbered, SegmentPcs, Segments, TypeInv, StoresTyped,
       HandlersTyped
  <2>2. /\ UNCHANGED <<target, erasing>>
        /\ \A a \in Actors : epc'[a] \in {"objects", "row"} => epc'[a] = epc[a]
        /\ \A x \in Sessions \ {s} :
              /\ row'[x] = row[x] /\ segs'[x] = segs[x] /\ objects'[x] = objects[x]
              /\ hpc'[x] = hpc[x] /\ taken'[x] = taken[x]
    BY <1>4, SessionsAct DEF ResumeCreate, Goto, stores, erasers, TypeInv, StoresTyped,
       HandlersTyped, ErasersTyped
  <2> QED
    BY <2>1, <2>2, IntactHandler
<1>5. ASSUME NEW s \in Sessions, Store(s) PROVE IntactInv'
  <2>1. IntactOf(s)'
    <3>1. hpc[s] = "open" /\ row[s] # "completed" /\ (s \notin erasing => Whole(s, taken[s]))
      BY <1>5 DEF Store, IntactInv, IntactOf, BetweenPcs, AfterPcs
    <3>2. taken'[s] - 1 = taken[s] /\ hpc'[s] \in {"put", "failing"}
      BY <1>5, SegmentTaken DEF Store, TypeInv
    <3>3. UNCHANGED <<row, segs, objects, erasing>>
      BY <1>5 DEF Store, stores
    <3> QED
      BY <3>1, <3>2, <3>3 DEF IntactOf, Whole, BetweenPcs
  <2>2. /\ UNCHANGED <<target, erasing>>
        /\ \A a \in Actors : epc'[a] \in {"objects", "row"} => epc'[a] = epc[a]
        /\ \A x \in Sessions \ {s} :
              /\ row'[x] = row[x] /\ segs'[x] = segs[x] /\ objects'[x] = objects[x]
              /\ hpc'[x] = hpc[x] /\ taken'[x] = taken[x]
    BY <1>5, SessionsAct DEF Store, TakeSegment, Goto, stores, erasers, TypeInv,
       StoresTyped, HandlersTyped, ErasersTyped
  <2> QED
    BY <2>1, <2>2, IntactHandler
<1>6. ASSUME NEW s \in Sessions, Complete(s) PROVE IntactInv'
  <2>1. IntactOf(s)'
    <3>1. hpc[s] = "open" /\ row[s] # "completed" /\ (s \notin erasing => Whole(s, taken[s]))
      BY <1>6 DEF Complete, IntactInv, IntactOf, BetweenPcs, AfterPcs
    <3>2. UNCHANGED <<row, segs, objects, erasing>>
      BY <1>6 DEF Complete, stores
    <3>3. CASE TakeSegment(s, "complete")
      <4>1. taken'[s] - 1 = taken[s] /\ hpc'[s] \in {"put", "failing"}
        BY <3>3, SegmentTaken DEF TypeInv
      <4> QED
        BY <3>1, <3>2, <4>1 DEF IntactOf, Whole, BetweenPcs
    <3>4. CASE taken' = taken /\ hpc'[s] \in {"commit", "failing"}
      BY <3>1, <3>2, <3>4 DEF IntactOf, Whole, BetweenPcs
    <3> QED
      BY <1>6, <3>3, <3>4 DEF Complete, Goto, TypeInv, HandlersTyped
  <2>2. /\ UNCHANGED <<target, erasing>>
        /\ \A a \in Actors : epc'[a] \in {"objects", "row"} => epc'[a] = epc[a]
        /\ \A x \in Sessions \ {s} :
              /\ row'[x] = row[x] /\ segs'[x] = segs[x] /\ objects'[x] = objects[x]
              /\ hpc'[x] = hpc[x] /\ taken'[x] = taken[x]
    BY <1>6, SessionsAct DEF Complete, TakeSegment, Goto, stores, erasers, TypeInv,
       StoresTyped, HandlersTyped, ErasersTyped
  <2> QED
    BY <2>1, <2>2, IntactHandler
<1>7. ASSUME NEW s \in Sessions, Fail(s) PROVE IntactInv'
  <2>1. IntactOf(s)'
    BY <1>7 DEF IntactInv, IntactOf, Fail, Goto, Whole, Last, BetweenPcs, AfterPcs,
       stores, Numbered, SegmentPcs, Segments, TypeInv, StoresTyped, HandlersTyped
  <2>2. /\ UNCHANGED <<target, erasing>>
        /\ \A a \in Actors : epc'[a] \in {"objects", "row"} => epc'[a] = epc[a]
        /\ \A x \in Sessions \ {s} :
              /\ row'[x] = row[x] /\ segs'[x] = segs[x] /\ objects'[x] = objects[x]
              /\ hpc'[x] = hpc[x] /\ taken'[x] = taken[x]
    BY <1>7, SessionsAct DEF Fail, Goto, stores, erasers, TypeInv, StoresTyped,
       HandlersTyped, ErasersTyped
  <2> QED
    BY <2>1, <2>2, IntactHandler
<1>8. ASSUME NEW s \in Sessions, ServePut(s) PROVE IntactInv'
  <2>1. IntactOf(s)'
    <3>1. hpc[s] = "put" /\ row[s] # "completed" /\ (s \notin erasing => Whole(s, taken[s] - 1))
      BY <1>8 DEF ServePut, IntactInv, IntactOf, AfterPcs
    <3>2. UNCHANGED <<row, segs, taken, erasing>> /\ hpc'[s] \in {"put_ok", "put_failed"}
      BY <1>8 DEF ServePut, Goto, TypeInv, HandlersTyped
    <3>3. /\ objects[s] \subseteq objects'[s]
          /\ hpc'[s] = "put_ok" => Last(s) \in objects'[s]
      BY <1>8 DEF ServePut, Goto, TypeInv, StoresTyped, HandlersTyped
    <3> QED
      BY <3>1, <3>2, <3>3 DEF IntactOf, Whole, BetweenPcs, Last
  <2>2. /\ UNCHANGED <<target, erasing>>
        /\ \A a \in Actors : epc'[a] \in {"objects", "row"} => epc'[a] = epc[a]
        /\ \A x \in Sessions \ {s} :
              /\ row'[x] = row[x] /\ segs'[x] = segs[x] /\ objects'[x] = objects[x]
              /\ hpc'[x] = hpc[x] /\ taken'[x] = taken[x]
    BY <1>8, SessionsAct DEF ServePut, Goto, erasers, TypeInv, StoresTyped,
       HandlersTyped, ErasersTyped
  <2> QED
    BY <2>1, <2>2, IntactHandler
<1>9. ASSUME NEW s \in Sessions, ResumePut(s) PROVE IntactInv'
  <2>1. IntactOf(s)'
    BY <1>9 DEF IntactInv, IntactOf, ResumePut, Goto, Whole, Last, BetweenPcs, AfterPcs,
       stores, Numbered, SegmentPcs, Segments, TypeInv, StoresTyped, HandlersTyped
  <2>2. /\ UNCHANGED <<target, erasing>>
        /\ \A a \in Actors : epc'[a] \in {"objects", "row"} => epc'[a] = epc[a]
        /\ \A x \in Sessions \ {s} :
              /\ row'[x] = row[x] /\ segs'[x] = segs[x] /\ objects'[x] = objects[x]
              /\ hpc'[x] = hpc[x] /\ taken'[x] = taken[x]
    BY <1>9, SessionsAct DEF ResumePut, Goto, stores, erasers, TypeInv, StoresTyped,
       HandlersTyped, ErasersTyped
  <2> QED
    BY <2>1, <2>2, IntactHandler
<1>10. ASSUME NEW s \in Sessions, ServeAdd(s) PROVE IntactInv'
  <2>1. IntactOf(s)'
    <3>1. /\ hpc[s] = "add" /\ row[s] # "completed"
          /\ s \notin erasing => Whole(s, taken[s] - 1) /\ Last(s) \in objects[s]
      BY <1>10 DEF ServeAdd, IntactInv, IntactOf, AfterPcs
    <3>2. UNCHANGED <<row, objects, taken, erasing>> /\ hpc'[s] \in {"add_ok", "add_failed"}
      BY <1>10 DEF ServeAdd, Goto, TypeInv, HandlersTyped
    <3>3. hpc'[s] = "add_ok" => segs'[s] = segs[s] \cup {Last(s)}
      BY <1>10 DEF ServeAdd, Goto, TypeInv, StoresTyped, HandlersTyped
    <3>4. taken[s] \in Nat /\ taken[s] > 0
      BY <3>1 DEF TypeInv, HandlersTyped, Numbered, SegmentPcs, Last, Segments
    <3>5. 0 .. (taken[s] - 1) = 0 .. (taken[s] - 1 - 1) \cup {taken[s] - 1}
      BY <3>4
    <3> QED
      BY <3>1, <3>2, <3>3, <3>5 DEF IntactOf, Whole, BetweenPcs, Last
  <2>2. /\ UNCHANGED <<target, erasing>>
        /\ \A a \in Actors : epc'[a] \in {"objects", "row"} => epc'[a] = epc[a]
        /\ \A x \in Sessions \ {s} :
              /\ row'[x] = row[x] /\ segs'[x] = segs[x] /\ objects'[x] = objects[x]
              /\ hpc'[x] = hpc[x] /\ taken'[x] = taken[x]
    BY <1>10, SessionsAct DEF ServeAdd, Goto, erasers, TypeInv, StoresTyped,
       HandlersTyped, ErasersTyped
  <2> QED
    BY <2>1, <2>2, IntactHandler
<1>11. ASSUME NEW s \in Sessions, ResumeAdd(s) PROVE IntactInv'
  <2>1. IntactOf(s)'
    <3>1. UNCHANGED <<row, segs, objects, erasing>> /\ hpc[s] \in {"add_ok", "add_failed"}
      BY <1>11 DEF ResumeAdd, stores
    <3>2. row[s] # "completed" /\ (s \notin erasing /\ hpc[s] = "add_ok" => Whole(s, taken[s]))
      BY <3>1 DEF IntactInv, IntactOf, BetweenPcs, AfterPcs
    <3>3. CASE hpc[s] = "add_ok" /\ TakeSegment(s, "store")
      <4>1. taken'[s] - 1 = taken[s] /\ hpc'[s] \in {"put", "failing"}
        BY <3>3, SegmentTaken DEF TypeInv
      <4> QED
        BY <3>1, <3>2, <3>3, <4>1 DEF IntactOf, Whole, BetweenPcs
    <3>4. CASE hpc[s] = "add_ok" /\ taken' = taken /\ hpc'[s] \in {"open", "commit", "failing"}
      BY <3>1, <3>2, <3>4 DEF IntactOf, Whole, BetweenPcs
    <3>5. CASE hpc[s] = "add_failed" /\ taken' = taken /\ hpc'[s] = "undo"
      BY <3>1, <3>2, <3>5 DEF IntactOf, Whole, BetweenPcs
    <3> QED
      BY <1>11, <3>3, <3>4, <3>5 DEF ResumeAdd, Goto, TypeInv, HandlersTyped
  <2>2. /\ UNCHANGED <<target, erasing>>
        /\ \A a \in Actors : epc'[a] \in {"objects", "row"} => epc'[a] = epc[a]
        /\ \A x \in Sessions \ {s} :
              /\ row'[x] = row[x] /\ segs'[x] = segs[x] /\ objects'[x] = objects[x]
              /\ hpc'[x] = hpc[x] /\ taken'[x] = taken[x]
    BY <1>11, SessionsAct DEF ResumeAdd, TakeSegment, Goto, stores, erasers, TypeInv,
       StoresTyped, HandlersTyped, ErasersTyped
  <2> QED
    BY <2>1, <2>2, IntactHandler
<1>12. ASSUME NEW s \in Sessions, ServeUndo(s) PROVE IntactInv'
  <2>1. IntactOf(s)'
    BY <1>12 DEF IntactInv, IntactOf, ServeUndo, Goto, Whole, Last, BetweenPcs,
       AfterPcs, Numbered, SegmentPcs, Segments, TypeInv, StoresTyped, HandlersTyped
  <2>2. /\ UNCHANGED <<target, erasing>>
        /\ \A a \in Actors : epc'[a] \in {"objects", "row"} => epc'[a] = epc[a]
        /\ \A x \in Sessions \ {s} :
              /\ row'[x] = row[x] /\ segs'[x] = segs[x] /\ objects'[x] = objects[x]
              /\ hpc'[x] = hpc[x] /\ taken'[x] = taken[x]
    BY <1>12, SessionsAct DEF ServeUndo, Goto, erasers, TypeInv, StoresTyped,
       HandlersTyped, ErasersTyped
  <2> QED
    BY <2>1, <2>2, IntactHandler
<1>13. ASSUME NEW s \in Sessions, ServeCommit(s) PROVE IntactInv'
  <2>1. IntactOf(s)'
    BY <1>13 DEF IntactInv, IntactOf, ServeCommit, Goto, Whole, Last, BetweenPcs,
       AfterPcs, Numbered, SegmentPcs, Segments, TypeInv, StoresTyped, HandlersTyped
  <2>2. /\ UNCHANGED <<target, erasing>>
        /\ \A a \in Actors : epc'[a] \in {"objects", "row"} => epc'[a] = epc[a]
        /\ \A x \in Sessions \ {s} :
              /\ row'[x] = row[x] /\ segs'[x] = segs[x] /\ objects'[x] = objects[x]
              /\ hpc'[x] = hpc[x] /\ taken'[x] = taken[x]
    BY <1>13, SessionsAct DEF ServeCommit, Goto, erasers, TypeInv, StoresTyped,
       HandlersTyped, ErasersTyped
  <2> QED
    BY <2>1, <2>2, IntactHandler
<1>14. ASSUME NEW s \in Sessions, ResumeCommit(s) PROVE IntactInv'
  <2>1. IntactOf(s)'
    BY <1>14 DEF IntactInv, IntactOf, ResumeCommit, Goto, Whole, Last, BetweenPcs,
       AfterPcs, stores, Numbered, SegmentPcs, Segments, TypeInv, StoresTyped,
       HandlersTyped
  <2>2. /\ UNCHANGED <<target, erasing>>
        /\ \A a \in Actors : epc'[a] \in {"objects", "row"} => epc'[a] = epc[a]
        /\ \A x \in Sessions \ {s} :
              /\ row'[x] = row[x] /\ segs'[x] = segs[x] /\ objects'[x] = objects[x]
              /\ hpc'[x] = hpc[x] /\ taken'[x] = taken[x]
    BY <1>14, SessionsAct DEF ResumeCommit, Goto, stores, erasers, TypeInv, StoresTyped,
       HandlersTyped, ErasersTyped
  <2> QED
    BY <2>1, <2>2, IntactHandler
<1>15. ASSUME NEW s \in Sessions, ServeRead(s) PROVE IntactInv'
  <2>1. IntactOf(s)'
    BY <1>15 DEF IntactInv, IntactOf, ServeRead, Goto, Whole, Last, BetweenPcs,
       AfterPcs, stores, Numbered, SegmentPcs, Segments, TypeInv, StoresTyped,
       HandlersTyped
  <2>2. /\ UNCHANGED <<target, erasing>>
        /\ \A a \in Actors : epc'[a] \in {"objects", "row"} => epc'[a] = epc[a]
        /\ \A x \in Sessions \ {s} :
              /\ row'[x] = row[x] /\ segs'[x] = segs[x] /\ objects'[x] = objects[x]
              /\ hpc'[x] = hpc[x] /\ taken'[x] = taken[x]
    BY <1>15, SessionsAct DEF ServeRead, Goto, stores, erasers, TypeInv, StoresTyped,
       HandlersTyped, ErasersTyped
  <2> QED
    BY <2>1, <2>2, IntactHandler
<1>16. ASSUME NEW s \in Sessions, ResumeRead(s) PROVE IntactInv'
  <2>1. IntactOf(s)'
    BY <1>16 DEF IntactInv, IntactOf, ResumeRead, Goto, Whole, Last, BetweenPcs,
       AfterPcs, stores, Numbered, SegmentPcs, Segments, TypeInv, StoresTyped,
       HandlersTyped
  <2>2. /\ UNCHANGED <<target, erasing>>
        /\ \A a \in Actors : epc'[a] \in {"objects", "row"} => epc'[a] = epc[a]
        /\ \A x \in Sessions \ {s} :
              /\ row'[x] = row[x] /\ segs'[x] = segs[x] /\ objects'[x] = objects[x]
              /\ hpc'[x] = hpc[x] /\ taken'[x] = taken[x]
    BY <1>16, SessionsAct DEF ResumeRead, Goto, stores, erasers, TypeInv, StoresTyped,
       HandlersTyped, ErasersTyped
  <2> QED
    BY <2>1, <2>2, IntactHandler
<1>17. ASSUME NEW s \in Sessions, Cleanup(s) PROVE IntactInv'
  <2>1. IntactOf(s)'
    BY <1>17 DEF IntactInv, IntactOf, Cleanup, Goto, Whole, Last, BetweenPcs, AfterPcs,
       stores, Numbered, SegmentPcs, Segments, TypeInv, StoresTyped, HandlersTyped
  <2>2. /\ UNCHANGED <<target, erasing>>
        /\ \A a \in Actors : epc'[a] \in {"objects", "row"} => epc'[a] = epc[a]
        /\ \A x \in Sessions \ {s} :
              /\ row'[x] = row[x] /\ segs'[x] = segs[x] /\ objects'[x] = objects[x]
              /\ hpc'[x] = hpc[x] /\ taken'[x] = taken[x]
    BY <1>17, SessionsAct DEF Cleanup, Goto, stores, TypeInv, StoresTyped,
       HandlersTyped, ErasersTyped
  <2> QED
    BY <2>1, <2>2, IntactHandler
<1>18. ASSUME NEW s \in Sessions, FinishCleanup(s) PROVE IntactInv'
  <2>1. IntactOf(s)'
    BY <1>18 DEF IntactInv, IntactOf, FinishCleanup, Goto, Whole, Last, BetweenPcs,
       AfterPcs, stores, Numbered, SegmentPcs, Segments, TypeInv, StoresTyped,
       HandlersTyped
  <2>2. /\ UNCHANGED <<target, erasing>>
        /\ \A a \in Actors : epc'[a] \in {"objects", "row"} => epc'[a] = epc[a]
        /\ \A x \in Sessions \ {s} :
              /\ row'[x] = row[x] /\ segs'[x] = segs[x] /\ objects'[x] = objects[x]
              /\ hpc'[x] = hpc[x] /\ taken'[x] = taken[x]
    BY <1>18, SessionsAct DEF FinishCleanup, Goto, stores, erasers, TypeInv,
       StoresTyped, HandlersTyped, ErasersTyped
  <2> QED
    BY <2>1, <2>2, IntactHandler
<1>19. ASSUME NEW d \in Deleters, BeginErase(d) PROVE IntactInv'
  <2>1. ErasingKnown'
    BY <1>19, SessionsAct DEF BeginErase, IntactInv, ErasingKnown, handlers, TypeInv,
       ErasersTyped
  <2>2. ASSUME NEW x \in Sessions PROVE IntactOf(x)'
    BY <1>19, SessionsAct DEF BeginErase, IntactInv, IntactOf, ErasingKnown, Whole,
       Last, BetweenPcs, AfterPcs, stores, handlers, TypeInv, StoresTyped,
       HandlersTyped, ErasersTyped
  <2> QED
    BY <2>1, <2>2 DEF IntactInv
<1>20. ASSUME NEW a \in Actors, AcquireErase(a) PROVE IntactInv'
  <2>1. ErasingKnown'
    BY <1>20, SessionsAct DEF AcquireErase, IntactInv, ErasingKnown, Finish, handlers,
       TypeInv, ErasersTyped
  <2>2. ASSUME NEW x \in Sessions PROVE IntactOf(x)'
    BY <1>20, SessionsAct DEF AcquireErase, IntactInv, IntactOf, ErasingKnown, Whole,
       Last, BetweenPcs, AfterPcs, stores, handlers, TypeInv, StoresTyped,
       HandlersTyped, ErasersTyped
  <2> QED
    BY <2>1, <2>2 DEF IntactInv
<1>21. ASSUME NEW a \in Actors, ServeManifest(a) PROVE IntactInv'
  <2>1. ErasingKnown'
    BY <1>21, SessionsAct DEF ServeManifest, IntactInv, ErasingKnown, Finish, handlers,
       TypeInv, ErasersTyped
  <2>2. ASSUME NEW x \in Sessions PROVE IntactOf(x)'
    BY <1>21, SessionsAct DEF ServeManifest, IntactInv, IntactOf, ErasingKnown, Whole,
       Last, BetweenPcs, AfterPcs, stores, handlers, TypeInv, StoresTyped,
       HandlersTyped, ErasersTyped
  <2> QED
    BY <2>1, <2>2 DEF IntactInv
<1>22. ASSUME NEW a \in Actors, ServeObjects(a) PROVE IntactInv'
  <2>1. ErasingKnown'
    BY <1>22, SessionsAct DEF ServeObjects, IntactInv, ErasingKnown, Finish, handlers,
       TypeInv, ErasersTyped
  <2>2. ASSUME NEW x \in Sessions PROVE IntactOf(x)'
    <3>1. UNCHANGED <<row, segs, hpc, taken, erasing>>
      BY <1>22 DEF ServeObjects, handlers
    <3>2. target[a] \in erasing
      BY <1>22 DEF ServeObjects, IntactInv, ErasingKnown
    <3>3. x # target[a] => objects'[x] = objects[x]
      BY <1>22 DEF ServeObjects, TypeInv, StoresTyped
    <3> QED
      BY <3>1, <3>2, <3>3 DEF IntactInv, IntactOf, Whole, Last
  <2> QED
    BY <2>1, <2>2 DEF IntactInv
<1>23. ASSUME NEW a \in Actors, ServeRow(a) PROVE IntactInv'
  <2>1. ErasingKnown'
    BY <1>23, SessionsAct DEF ServeRow, IntactInv, ErasingKnown, Finish, handlers,
       TypeInv, ErasersTyped
  <2>2. ASSUME NEW x \in Sessions PROVE IntactOf(x)'
    BY <1>23, SessionsAct DEF ServeRow, IntactInv, IntactOf, ErasingKnown, Whole, Last,
       BetweenPcs, AfterPcs, handlers, TypeInv, StoresTyped, HandlersTyped, ErasersTyped
  <2> QED
    BY <2>1, <2>2 DEF IntactInv
<1>24. CASE Close
  <2>1. ErasingKnown'
    BY <1>24, SessionsAct DEF Close, IntactInv, ErasingKnown, erasers, handlers,
       TypeInv, ErasersTyped
  <2>2. ASSUME NEW x \in Sessions PROVE IntactOf(x)'
    BY <1>24, SessionsAct DEF Close, IntactInv, IntactOf, ErasingKnown, Whole, Last,
       BetweenPcs, AfterPcs, stores, handlers, TypeInv, StoresTyped, HandlersTyped,
       ErasersTyped
  <2> QED
    BY <2>1, <2>2 DEF IntactInv
<1>25. CASE Restart
  <2>1. ErasingKnown'
    BY <1>25, SessionsAct DEF Restart, IntactInv, ErasingKnown, TypeInv, ErasersTyped
  <2>2. ASSUME NEW x \in Sessions PROVE IntactOf(x)'
    BY <1>25, SessionsAct DEF Restart, IntactInv, IntactOf, ErasingKnown, Whole, Last,
       BetweenPcs, AfterPcs, Over, stores, TypeInv, StoresTyped, HandlersTyped,
       ErasersTyped
  <2> QED
    BY <2>1, <2>2 DEF IntactInv
<1>26. CASE UNCHANGED vars
  BY <1>26 DEF vars, stores, handlers, erasers, IntactInv, ErasingKnown, IntactOf, Whole,
     Last
<1> QED
  BY <1>1, <1>2, <1>3, <1>4, <1>5, <1>6, <1>7, <1>8, <1>9, <1>10, <1>11, <1>12, <1>13,
     <1>14, <1>15, <1>16, <1>17, <1>18, <1>19, <1>20, <1>21, <1>22, <1>23, <1>24, <1>25,
     <1>26 DEF Next, HandlerStep, EraseStep

\* Once completed and until a deletion has read its manifest, an analysis lists every
\* segment that was taken and each of them can be read.
THEOREM RetentionIsIntact == Spec => []RetainedIntact
<1>1. IntactInv => RetainedIntact
  BY DEF IntactInv, IntactOf, Whole, RetainedIntact
<1> QED
  BY <1>1, TypeInit, TypeStep, IntactInit, IntactStep, PTL DEF Spec
==============================================================================
