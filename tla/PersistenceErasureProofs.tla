------------------------ MODULE PersistenceErasureProofs ------------------------
(***************************************************************************)
(* What deletion promises when every deletion runs in the container of the *)
(* handlers (Remote = {}), for every number of sessions, segments,         *)
(* deletions and mishaps.  With deletions in other containers these        *)
(* properties fail: see the run replicas in the README.                    *)
(***************************************************************************)
EXTENDS PersistenceServiceProofs

USE PersistenceAssumption DEF PersistenceAssumption

-------------------------------------------------------------------------------
(***************************************************************************)
(* Erasure, when every deletion runs in the container of the handlers.     *)
(* Exclusion makes the manifest a deletion has read the last word on the   *)
(* session: no segment is added to it behind the deletion's back.          *)
(***************************************************************************)
ManifestKnown == \A a \in Actors : epc[a] \in {"objects", "row"} =>
    /\ segs[target[a]] \subseteq ekeys[a]
    /\ target[a] \in registered => closed[target[a]]
    /\ epc[a] = "row" => segs[target[a]] \cap objects[target[a]] = {}
DeletedIsOver == \A s \in Sessions : row[s] = "deleted" =>
    /\ s \in registered => closed[s]
    /\ ~HandlerHolds(s)
    /\ segs[s] = {}
ResultKnown == \A a \in Actors :
    eresult[a] \in {"deleted", "missing"} => row[target[a]] = "deleted"

EraseInv == ManifestKnown /\ DeletedIsOver /\ EveryObjectOwned /\ ResultKnown

(* The invariant of erasure holds at first. *)
LEMMA EraseInit == Init => EraseInv
BY DEF Init, EraseInv, ManifestKnown, DeletedIsOver, EveryObjectOwned, ResultKnown

(* Every step keeps it. *)
LEMMA EraseStepInv ==
    ASSUME Remote = {}, TypeInv, ExclusionInv, EraseInv, [Next]_vars
    PROVE  EraseInv'
<1> USE DEF EraseInv
<1>0. /\ \A s \in Sessions : hpc[s] \in Early => row[s] = "none"
      /\ \A a \in Actors : epc[a] # "off" => hpc[target[a]] \notin Early
      /\ \A a \in Actors : Local(a)
      /\ \A a \in Actors : epc[a] \in ErasePcs => ~HandlerHolds(target[a])
  BY DEF ExclusionInv, RowAfterCreate, EraseAfterCreate, HandlerExcludesErase, Local,
     Erases, TypeInv, ErasersTyped
<1>1. ASSUME NEW s \in Sessions, Start(s) PROVE EraseInv'
  <2>1. ManifestKnown'
    BY <1>1, <1>0, SessionsAct DEF Start, ManifestKnown, Early, HandlerHolds, LockedPcs,
       ErasePcs, Goto, stores, erasers, TypeInv, StoresTyped, ServiceTyped,
       HandlersTyped, ErasersTyped, HistoryTyped
  <2>2. DeletedIsOver'
    BY <1>1, <1>0, SessionsAct DEF Start, DeletedIsOver, ManifestKnown, Early,
       HandlerHolds, LockedPcs, ErasePcs, Goto, stores, erasers, TypeInv, StoresTyped,
       ServiceTyped, HandlersTyped, ErasersTyped, HistoryTyped
  <2>3. EveryObjectOwned'
    BY <1>1, <1>0, SessionsAct DEF Start, EveryObjectOwned, ManifestKnown, InFlight,
       HandlerHolds, LockedPcs, ErasePcs, Last, Goto, stores, erasers, TypeInv,
       StoresTyped, ServiceTyped, HandlersTyped, ErasersTyped, HistoryTyped
  <2>4. ResultKnown'
    BY <1>1, <1>0, SessionsAct DEF Start, ResultKnown, Early, Goto, stores, erasers,
       TypeInv, StoresTyped, ServiceTyped, HandlersTyped, ErasersTyped, HistoryTyped
  <2> QED
    BY <2>1, <2>2, <2>3, <2>4 DEF EraseInv
<1>2. ASSUME NEW s \in Sessions, Cancel(s) PROVE EraseInv'
  <2>1. ManifestKnown'
    BY <1>2, <1>0, SessionsAct DEF Cancel, ManifestKnown, Early, HandlerHolds,
       LockedPcs, ErasePcs, stores, service, erasers, TypeInv, StoresTyped,
       ServiceTyped, HandlersTyped, ErasersTyped, HistoryTyped
  <2>2. DeletedIsOver'
    BY <1>2, <1>0, SessionsAct DEF Cancel, DeletedIsOver, ManifestKnown, Early,
       HandlerHolds, LockedPcs, ErasePcs, Over, stores, service, erasers, TypeInv,
       StoresTyped, ServiceTyped, HandlersTyped, ErasersTyped, HistoryTyped
  <2>3. EveryObjectOwned'
    BY <1>2, <1>0, SessionsAct DEF Cancel, EveryObjectOwned, ManifestKnown, InFlight,
       HandlerHolds, LockedPcs, ErasePcs, Last, Over, stores, service, erasers, TypeInv,
       StoresTyped, ServiceTyped, HandlersTyped, ErasersTyped, HistoryTyped
  <2>4. ResultKnown'
    BY <1>2, <1>0, SessionsAct DEF Cancel, ResultKnown, Early, stores, service, erasers,
       TypeInv, StoresTyped, ServiceTyped, HandlersTyped, ErasersTyped, HistoryTyped
  <2> QED
    BY <2>1, <2>2, <2>3, <2>4 DEF EraseInv
<1>3. ASSUME NEW s \in Sessions, ServeCreate(s) PROVE EraseInv'
  <2>1. ManifestKnown'
    BY <1>3, <1>0, SessionsAct DEF ServeCreate, ManifestKnown, Early, HandlerHolds,
       LockedPcs, ErasePcs, Goto, service, erasers, TypeInv, StoresTyped, ServiceTyped,
       HandlersTyped, ErasersTyped, HistoryTyped
  <2>2. DeletedIsOver'
    BY <1>3, <1>0, SessionsAct DEF ServeCreate, DeletedIsOver, ManifestKnown, Early,
       HandlerHolds, LockedPcs, ErasePcs, Goto, service, erasers, TypeInv, StoresTyped,
       ServiceTyped, HandlersTyped, ErasersTyped, HistoryTyped
  <2>3. EveryObjectOwned'
    BY <1>3, <1>0, SessionsAct DEF ServeCreate, EveryObjectOwned, ManifestKnown,
       InFlight, HandlerHolds, LockedPcs, ErasePcs, Last, Goto, service, erasers,
       TypeInv, StoresTyped, ServiceTyped, HandlersTyped, ErasersTyped, HistoryTyped
  <2>4. ResultKnown'
    BY <1>3, <1>0, SessionsAct DEF ServeCreate, ResultKnown, Early, Goto, service,
       erasers, TypeInv, StoresTyped, ServiceTyped, HandlersTyped, ErasersTyped,
       HistoryTyped
  <2> QED
    BY <2>1, <2>2, <2>3, <2>4 DEF EraseInv
<1>4. ASSUME NEW s \in Sessions, ResumeCreate(s) PROVE EraseInv'
  <2>1. ManifestKnown'
    BY <1>4, <1>0, SessionsAct DEF ResumeCreate, ManifestKnown, Early, HandlerHolds,
       LockedPcs, ErasePcs, Goto, stores, erasers, TypeInv, StoresTyped, ServiceTyped,
       HandlersTyped, ErasersTyped, HistoryTyped
  <2>2. DeletedIsOver'
    BY <1>4, <1>0, SessionsAct DEF ResumeCreate, DeletedIsOver, ManifestKnown, Early,
       HandlerHolds, LockedPcs, ErasePcs, Goto, stores, erasers, TypeInv, StoresTyped,
       ServiceTyped, HandlersTyped, ErasersTyped, HistoryTyped
  <2>3. EveryObjectOwned'
    BY <1>4, <1>0, SessionsAct DEF ResumeCreate, EveryObjectOwned, ManifestKnown,
       InFlight, HandlerHolds, LockedPcs, ErasePcs, Last, Goto, stores, erasers,
       TypeInv, StoresTyped, ServiceTyped, HandlersTyped, ErasersTyped, HistoryTyped
  <2>4. ResultKnown'
    BY <1>4, <1>0, SessionsAct DEF ResumeCreate, ResultKnown, Early, Goto, stores,
       erasers, TypeInv, StoresTyped, ServiceTyped, HandlersTyped, ErasersTyped,
       HistoryTyped
  <2> QED
    BY <2>1, <2>2, <2>3, <2>4 DEF EraseInv
<1>5. ASSUME NEW s \in Sessions, Store(s) PROVE EraseInv'
  <2>1. ManifestKnown'
    BY <1>5, <1>0, SessionsAct DEF Store, ManifestKnown, Early, HandlerHolds, LockedPcs,
       ErasePcs, Open, TakeSegment, Goto, stores, service, erasers, TypeInv,
       StoresTyped, ServiceTyped, HandlersTyped, ErasersTyped, HistoryTyped
  <2>2. DeletedIsOver'
    BY <1>5, <1>0, SessionsAct DEF Store, DeletedIsOver, ManifestKnown, Early,
       HandlerHolds, LockedPcs, ErasePcs, Open, TakeSegment, Goto, stores, service,
       erasers, TypeInv, StoresTyped, ServiceTyped, HandlersTyped, ErasersTyped,
       HistoryTyped
  <2>3. EveryObjectOwned'
    BY <1>5, <1>0, SessionsAct DEF Store, EveryObjectOwned, ManifestKnown, InFlight,
       HandlerHolds, LockedPcs, ErasePcs, Last, TakeSegment, Goto, stores, service,
       erasers, TypeInv, StoresTyped, ServiceTyped, HandlersTyped, ErasersTyped,
       HistoryTyped
  <2>4. ResultKnown'
    BY <1>5, <1>0, SessionsAct DEF Store, ResultKnown, Early, TakeSegment, Goto, stores,
       service, erasers, TypeInv, StoresTyped, ServiceTyped, HandlersTyped,
       ErasersTyped, HistoryTyped
  <2> QED
    BY <2>1, <2>2, <2>3, <2>4 DEF EraseInv
<1>6. ASSUME NEW s \in Sessions, Complete(s) PROVE EraseInv'
  <2>1. ManifestKnown'
    BY <1>6, <1>0, SessionsAct DEF Complete, ManifestKnown, Early, HandlerHolds,
       LockedPcs, ErasePcs, Open, TakeSegment, Goto, stores, service, erasers, TypeInv,
       StoresTyped, ServiceTyped, HandlersTyped, ErasersTyped, HistoryTyped
  <2>2. DeletedIsOver'
    BY <1>6, <1>0, SessionsAct DEF Complete, DeletedIsOver, ManifestKnown, Early,
       HandlerHolds, LockedPcs, ErasePcs, Open, TakeSegment, Goto, stores, service,
       erasers, TypeInv, StoresTyped, ServiceTyped, HandlersTyped, ErasersTyped,
       HistoryTyped
  <2>3. EveryObjectOwned'
    <3> SUFFICES ASSUME NEW x \in Sessions
                 PROVE  objects'[x] \subseteq segs'[x] \cup InFlight(x)' \cup leaked'[x]
      BY DEF EveryObjectOwned
    <3>1. objects[x] \subseteq segs[x] \cup InFlight(x) \cup leaked[x]
      BY DEF EveryObjectOwned
    <3>2. CASE x = s
      BY <1>6, <3>1, <3>2 DEF Complete, InFlight, Last, Goto, TakeSegment, stores,
         TypeInv, StoresTyped, HandlersTyped, HistoryTyped
    <3>3. CASE x # s
      BY <1>6, <3>1, <3>3 DEF Complete, InFlight, Last, Goto, TakeSegment, stores,
         TypeInv, StoresTyped, HandlersTyped, HistoryTyped
    <3> QED
      BY <3>2, <3>3
  <2>4. ResultKnown'
    BY <1>6, <1>0, SessionsAct DEF Complete, ResultKnown, Early, TakeSegment, Goto,
       stores, service, erasers, TypeInv, StoresTyped, ServiceTyped, HandlersTyped,
       ErasersTyped, HistoryTyped
  <2> QED
    BY <2>1, <2>2, <2>3, <2>4 DEF EraseInv
<1>7. ASSUME NEW s \in Sessions, Fail(s) PROVE EraseInv'
  <2>1. ManifestKnown'
    BY <1>7, <1>0, SessionsAct DEF Fail, ManifestKnown, Early, HandlerHolds, LockedPcs,
       ErasePcs, Goto, stores, service, erasers, TypeInv, StoresTyped, ServiceTyped,
       HandlersTyped, ErasersTyped, HistoryTyped
  <2>2. DeletedIsOver'
    BY <1>7, <1>0, SessionsAct DEF Fail, DeletedIsOver, ManifestKnown, Early,
       HandlerHolds, LockedPcs, ErasePcs, Goto, stores, service, erasers, TypeInv,
       StoresTyped, ServiceTyped, HandlersTyped, ErasersTyped, HistoryTyped
  <2>3. EveryObjectOwned'
    BY <1>7, <1>0, SessionsAct DEF Fail, EveryObjectOwned, ManifestKnown, InFlight,
       HandlerHolds, LockedPcs, ErasePcs, Last, Goto, stores, service, erasers, TypeInv,
       StoresTyped, ServiceTyped, HandlersTyped, ErasersTyped, HistoryTyped
  <2>4. ResultKnown'
    BY <1>7, <1>0, SessionsAct DEF Fail, ResultKnown, Early, Goto, stores, service,
       erasers, TypeInv, StoresTyped, ServiceTyped, HandlersTyped, ErasersTyped,
       HistoryTyped
  <2> QED
    BY <2>1, <2>2, <2>3, <2>4 DEF EraseInv
<1>8. ASSUME NEW s \in Sessions, ServePut(s) PROVE EraseInv'
  <2>1. ManifestKnown'
    <3>1. \A b \in Actors : epc[b] \in {"objects", "row"} => target[b] # s
      BY <1>8, <1>0 DEF ServePut, HandlerHolds, LockedPcs, ErasePcs
    <3>2. /\ UNCHANGED <<segs, epc, target, ekeys, registered, closed>>
          /\ \A x \in Sessions \ {s} : objects'[x] = objects[x]
      BY <1>8 DEF ServePut, service, erasers, TypeInv, StoresTyped
    <3> QED
      BY <3>1, <3>2 DEF ManifestKnown, TypeInv, ErasersTyped
  <2>2. DeletedIsOver'
    BY <1>8, <1>0, SessionsAct DEF ServePut, DeletedIsOver, ManifestKnown, Early,
       HandlerHolds, LockedPcs, ErasePcs, Goto, service, erasers, TypeInv, StoresTyped,
       ServiceTyped, HandlersTyped, ErasersTyped, HistoryTyped
  <2>3. EveryObjectOwned'
    <3> SUFFICES ASSUME NEW x \in Sessions
                 PROVE  objects'[x] \subseteq segs'[x] \cup InFlight(x)' \cup leaked'[x]
      BY DEF EveryObjectOwned
    <3>1. objects[x] \subseteq segs[x] \cup InFlight(x) \cup leaked[x]
      BY DEF EveryObjectOwned
    <3>2. CASE x = s
      BY <1>8, <3>1, <3>2 DEF ServePut, InFlight, Last, Goto, TypeInv, StoresTyped,
         HandlersTyped, HistoryTyped
    <3>3. CASE x # s
      BY <1>8, <3>1, <3>3 DEF ServePut, InFlight, Last, Goto, TypeInv, StoresTyped,
         HandlersTyped, HistoryTyped
    <3> QED
      BY <3>2, <3>3
  <2>4. ResultKnown'
    BY <1>8, <1>0, SessionsAct DEF ServePut, ResultKnown, Early, Goto, service, erasers,
       TypeInv, StoresTyped, ServiceTyped, HandlersTyped, ErasersTyped, HistoryTyped
  <2> QED
    BY <2>1, <2>2, <2>3, <2>4 DEF EraseInv
<1>9. ASSUME NEW s \in Sessions, ResumePut(s) PROVE EraseInv'
  <2>1. ManifestKnown'
    BY <1>9, <1>0, SessionsAct DEF ResumePut, ManifestKnown, Early, HandlerHolds,
       LockedPcs, ErasePcs, Last, Goto, stores, service, erasers, TypeInv, StoresTyped,
       ServiceTyped, HandlersTyped, ErasersTyped, HistoryTyped
  <2>2. DeletedIsOver'
    BY <1>9, <1>0, SessionsAct DEF ResumePut, DeletedIsOver, ManifestKnown, Early,
       HandlerHolds, LockedPcs, ErasePcs, Goto, stores, service, erasers, TypeInv,
       StoresTyped, ServiceTyped, HandlersTyped, ErasersTyped, HistoryTyped
  <2>3. EveryObjectOwned'
    <3> SUFFICES ASSUME NEW x \in Sessions
                 PROVE  objects'[x] \subseteq segs'[x] \cup InFlight(x)' \cup leaked'[x]
      BY DEF EveryObjectOwned
    <3>1. objects[x] \subseteq segs[x] \cup InFlight(x) \cup leaked[x]
      BY DEF EveryObjectOwned
    <3>2. CASE x = s
      BY <1>9, <3>1, <3>2 DEF ResumePut, InFlight, Last, Goto, stores, TypeInv,
         StoresTyped, HandlersTyped, HistoryTyped
    <3>3. CASE x # s
      BY <1>9, <3>1, <3>3 DEF ResumePut, InFlight, Last, Goto, stores, TypeInv,
         StoresTyped, HandlersTyped, HistoryTyped
    <3> QED
      BY <3>2, <3>3
  <2>4. ResultKnown'
    BY <1>9, <1>0, SessionsAct DEF ResumePut, ResultKnown, Early, Goto, stores, service,
       erasers, TypeInv, StoresTyped, ServiceTyped, HandlersTyped, ErasersTyped,
       HistoryTyped
  <2> QED
    BY <2>1, <2>2, <2>3, <2>4 DEF EraseInv
<1>10. ASSUME NEW s \in Sessions, ServeAdd(s) PROVE EraseInv'
  <2>1. ManifestKnown'
    <3>1. \A b \in Actors : epc[b] \in {"objects", "row"} => target[b] # s
      BY <1>10, <1>0 DEF ServeAdd, HandlerHolds, LockedPcs, ErasePcs
    <3>2. /\ UNCHANGED <<objects, epc, target, ekeys, registered, closed>>
          /\ \A x \in Sessions \ {s} : segs'[x] = segs[x]
      BY <1>10 DEF ServeAdd, service, erasers, TypeInv, StoresTyped
    <3> QED
      BY <3>1, <3>2 DEF ManifestKnown, TypeInv, ErasersTyped
  <2>2. DeletedIsOver'
    BY <1>10, <1>0, SessionsAct DEF ServeAdd, DeletedIsOver, ManifestKnown, Early,
       HandlerHolds, LockedPcs, ErasePcs, Goto, service, erasers, TypeInv, StoresTyped,
       ServiceTyped, HandlersTyped, ErasersTyped, HistoryTyped
  <2>3. EveryObjectOwned'
    <3> SUFFICES ASSUME NEW x \in Sessions
                 PROVE  objects'[x] \subseteq segs'[x] \cup InFlight(x)' \cup leaked'[x]
      BY DEF EveryObjectOwned
    <3>1. objects[x] \subseteq segs[x] \cup InFlight(x) \cup leaked[x]
      BY DEF EveryObjectOwned
    <3>2. CASE x = s
      BY <1>10, <3>1, <3>2 DEF ServeAdd, InFlight, Last, Goto, TypeInv, StoresTyped,
         HandlersTyped, HistoryTyped
    <3>3. CASE x # s
      BY <1>10, <3>1, <3>3 DEF ServeAdd, InFlight, Last, Goto, TypeInv, StoresTyped,
         HandlersTyped, HistoryTyped
    <3> QED
      BY <3>2, <3>3
  <2>4. ResultKnown'
    BY <1>10, <1>0, SessionsAct DEF ServeAdd, ResultKnown, Early, Goto, service,
       erasers, TypeInv, StoresTyped, ServiceTyped, HandlersTyped, ErasersTyped,
       HistoryTyped
  <2> QED
    BY <2>1, <2>2, <2>3, <2>4 DEF EraseInv
<1>11. ASSUME NEW s \in Sessions, ResumeAdd(s) PROVE EraseInv'
  <2>1. ManifestKnown'
    BY <1>11, <1>0, SessionsAct DEF ResumeAdd, ManifestKnown, Early, HandlerHolds,
       LockedPcs, ErasePcs, TakeSegment, Goto, stores, service, erasers, TypeInv,
       StoresTyped, ServiceTyped, HandlersTyped, ErasersTyped, HistoryTyped
  <2>2. DeletedIsOver'
    BY <1>11, <1>0, SessionsAct DEF ResumeAdd, DeletedIsOver, ManifestKnown, Early,
       HandlerHolds, LockedPcs, ErasePcs, TakeSegment, Goto, stores, service, erasers,
       TypeInv, StoresTyped, ServiceTyped, HandlersTyped, ErasersTyped, HistoryTyped
  <2>3. EveryObjectOwned'
    BY <1>11, <1>0, SessionsAct DEF ResumeAdd, EveryObjectOwned, ManifestKnown,
       InFlight, HandlerHolds, LockedPcs, ErasePcs, Last, TakeSegment, Goto, stores,
       service, erasers, TypeInv, StoresTyped, ServiceTyped, HandlersTyped,
       ErasersTyped, HistoryTyped
  <2>4. ResultKnown'
    BY <1>11, <1>0, SessionsAct DEF ResumeAdd, ResultKnown, Early, TakeSegment, Goto,
       stores, service, erasers, TypeInv, StoresTyped, ServiceTyped, HandlersTyped,
       ErasersTyped, HistoryTyped
  <2> QED
    BY <2>1, <2>2, <2>3, <2>4 DEF EraseInv
<1>12. ASSUME NEW s \in Sessions, ServeUndo(s) PROVE EraseInv'
  <2>1. ManifestKnown'
    <3>1. /\ UNCHANGED <<segs, epc, target, ekeys, registered, closed>>
          /\ \A x \in Sessions : objects'[x] \subseteq objects[x]
      BY <1>12 DEF ServeUndo, service, erasers, TypeInv, StoresTyped
    <3> QED
      BY <3>1 DEF ManifestKnown, TypeInv, ErasersTyped
  <2>2. DeletedIsOver'
    BY <1>12, <1>0, SessionsAct DEF ServeUndo, DeletedIsOver, ManifestKnown, Early,
       HandlerHolds, LockedPcs, ErasePcs, Goto, service, erasers, TypeInv, StoresTyped,
       ServiceTyped, HandlersTyped, ErasersTyped, HistoryTyped
  <2>3. EveryObjectOwned'
    BY <1>12, <1>0, SessionsAct DEF ServeUndo, EveryObjectOwned, ManifestKnown,
       InFlight, HandlerHolds, LockedPcs, ErasePcs, Last, Goto, service, erasers,
       TypeInv, StoresTyped, ServiceTyped, HandlersTyped, ErasersTyped, HistoryTyped
  <2>4. ResultKnown'
    BY <1>12, <1>0, SessionsAct DEF ServeUndo, ResultKnown, Early, Goto, service,
       erasers, TypeInv, StoresTyped, ServiceTyped, HandlersTyped, ErasersTyped,
       HistoryTyped
  <2> QED
    BY <2>1, <2>2, <2>3, <2>4 DEF EraseInv
<1>13. ASSUME NEW s \in Sessions, ServeCommit(s) PROVE EraseInv'
  <2>1. ManifestKnown'
    BY <1>13, <1>0, SessionsAct DEF ServeCommit, ManifestKnown, Early, HandlerHolds,
       LockedPcs, ErasePcs, Goto, service, erasers, TypeInv, StoresTyped, ServiceTyped,
       HandlersTyped, ErasersTyped, HistoryTyped
  <2>2. DeletedIsOver'
    BY <1>13, <1>0, SessionsAct DEF ServeCommit, DeletedIsOver, ManifestKnown, Early,
       HandlerHolds, LockedPcs, ErasePcs, Goto, service, erasers, TypeInv, StoresTyped,
       ServiceTyped, HandlersTyped, ErasersTyped, HistoryTyped
  <2>3. EveryObjectOwned'
    BY <1>13, <1>0, SessionsAct DEF ServeCommit, EveryObjectOwned, ManifestKnown,
       InFlight, HandlerHolds, LockedPcs, ErasePcs, Last, Goto, service, erasers,
       TypeInv, StoresTyped, ServiceTyped, HandlersTyped, ErasersTyped, HistoryTyped
  <2>4. ResultKnown'
    BY <1>13, <1>0, SessionsAct DEF ServeCommit, ResultKnown, Early, Goto, service,
       erasers, TypeInv, StoresTyped, ServiceTyped, HandlersTyped, ErasersTyped,
       HistoryTyped
  <2> QED
    BY <2>1, <2>2, <2>3, <2>4 DEF EraseInv
<1>14. ASSUME NEW s \in Sessions, ResumeCommit(s) PROVE EraseInv'
  <2>1. ManifestKnown'
    BY <1>14, <1>0, SessionsAct DEF ResumeCommit, ManifestKnown, Early, HandlerHolds,
       LockedPcs, ErasePcs, Goto, stores, erasers, TypeInv, StoresTyped, ServiceTyped,
       HandlersTyped, ErasersTyped, HistoryTyped
  <2>2. DeletedIsOver'
    BY <1>14, <1>0, SessionsAct DEF ResumeCommit, DeletedIsOver, ManifestKnown, Early,
       HandlerHolds, LockedPcs, ErasePcs, Goto, stores, erasers, TypeInv, StoresTyped,
       ServiceTyped, HandlersTyped, ErasersTyped, HistoryTyped
  <2>3. EveryObjectOwned'
    <3> SUFFICES ASSUME NEW x \in Sessions
                 PROVE  objects'[x] \subseteq segs'[x] \cup InFlight(x)' \cup leaked'[x]
      BY DEF EveryObjectOwned
    <3>1. objects[x] \subseteq segs[x] \cup InFlight(x) \cup leaked[x]
      BY DEF EveryObjectOwned
    <3>2. CASE x = s
      BY <1>14, <3>1, <3>2 DEF ResumeCommit, InFlight, Last, Goto, stores, TypeInv,
         StoresTyped, HandlersTyped, HistoryTyped
    <3>3. CASE x # s
      BY <1>14, <3>1, <3>3 DEF ResumeCommit, InFlight, Last, Goto, stores, TypeInv,
         StoresTyped, HandlersTyped, HistoryTyped
    <3> QED
      BY <3>2, <3>3
  <2>4. ResultKnown'
    BY <1>14, <1>0, SessionsAct DEF ResumeCommit, ResultKnown, Early, Goto, stores,
       erasers, TypeInv, StoresTyped, ServiceTyped, HandlersTyped, ErasersTyped,
       HistoryTyped
  <2> QED
    BY <2>1, <2>2, <2>3, <2>4 DEF EraseInv
<1>15. ASSUME NEW s \in Sessions, ServeRead(s) PROVE EraseInv'
  <2>1. ManifestKnown'
    BY <1>15, <1>0, SessionsAct DEF ServeRead, ManifestKnown, Early, HandlerHolds,
       LockedPcs, ErasePcs, Goto, stores, service, erasers, TypeInv, StoresTyped,
       ServiceTyped, HandlersTyped, ErasersTyped, HistoryTyped
  <2>2. DeletedIsOver'
    BY <1>15, <1>0, SessionsAct DEF ServeRead, DeletedIsOver, ManifestKnown, Early,
       HandlerHolds, LockedPcs, ErasePcs, Goto, stores, service, erasers, TypeInv,
       StoresTyped, ServiceTyped, HandlersTyped, ErasersTyped, HistoryTyped
  <2>3. EveryObjectOwned'
    BY <1>15, <1>0, SessionsAct DEF ServeRead, EveryObjectOwned, ManifestKnown,
       InFlight, HandlerHolds, LockedPcs, ErasePcs, Last, Goto, stores, service,
       erasers, TypeInv, StoresTyped, ServiceTyped, HandlersTyped, ErasersTyped,
       HistoryTyped
  <2>4. ResultKnown'
    BY <1>15, <1>0, SessionsAct DEF ServeRead, ResultKnown, Early, Goto, stores,
       service, erasers, TypeInv, StoresTyped, ServiceTyped, HandlersTyped,
       ErasersTyped, HistoryTyped
  <2> QED
    BY <2>1, <2>2, <2>3, <2>4 DEF EraseInv
<1>16. ASSUME NEW s \in Sessions, ResumeRead(s) PROVE EraseInv'
  <2>1. ManifestKnown'
    BY <1>16, <1>0, SessionsAct DEF ResumeRead, ManifestKnown, Early, HandlerHolds,
       LockedPcs, ErasePcs, Goto, stores, service, erasers, TypeInv, StoresTyped,
       ServiceTyped, HandlersTyped, ErasersTyped, HistoryTyped
  <2>2. DeletedIsOver'
    BY <1>16, <1>0, SessionsAct DEF ResumeRead, DeletedIsOver, ManifestKnown, Early,
       HandlerHolds, LockedPcs, ErasePcs, Goto, stores, service, erasers, TypeInv,
       StoresTyped, ServiceTyped, HandlersTyped, ErasersTyped, HistoryTyped
  <2>3. EveryObjectOwned'
    BY <1>16, <1>0, SessionsAct DEF ResumeRead, EveryObjectOwned, ManifestKnown,
       InFlight, HandlerHolds, LockedPcs, ErasePcs, Last, Goto, stores, service,
       erasers, TypeInv, StoresTyped, ServiceTyped, HandlersTyped, ErasersTyped,
       HistoryTyped
  <2>4. ResultKnown'
    BY <1>16, <1>0, SessionsAct DEF ResumeRead, ResultKnown, Early, Goto, stores,
       service, erasers, TypeInv, StoresTyped, ServiceTyped, HandlersTyped,
       ErasersTyped, HistoryTyped
  <2> QED
    BY <2>1, <2>2, <2>3, <2>4 DEF EraseInv
<1>17. ASSUME NEW s \in Sessions, Cleanup(s) PROVE EraseInv'
  <2>1. ManifestKnown'
    BY <1>17, <1>0, SessionsAct DEF Cleanup, ManifestKnown, Early, HandlerHolds,
       LockedPcs, ErasePcs, Goto, stores, service, TypeInv, StoresTyped, ServiceTyped,
       HandlersTyped, ErasersTyped, HistoryTyped
  <2>2. DeletedIsOver'
    BY <1>17, <1>0, SessionsAct DEF Cleanup, DeletedIsOver, ManifestKnown, Early,
       HandlerHolds, LockedPcs, ErasePcs, Goto, stores, service, TypeInv, StoresTyped,
       ServiceTyped, HandlersTyped, ErasersTyped, HistoryTyped
  <2>3. EveryObjectOwned'
    <3> SUFFICES ASSUME NEW x \in Sessions
                 PROVE  objects'[x] \subseteq segs'[x] \cup InFlight(x)' \cup leaked'[x]
      BY DEF EveryObjectOwned
    <3>1. objects[x] \subseteq segs[x] \cup InFlight(x) \cup leaked[x]
      BY DEF EveryObjectOwned
    <3>2. CASE x = s
      BY <1>17, <3>1, <3>2 DEF Cleanup, InFlight, Last, Goto, stores, TypeInv,
         StoresTyped, HandlersTyped, HistoryTyped
    <3>3. CASE x # s
      BY <1>17, <3>1, <3>3 DEF Cleanup, InFlight, Last, Goto, stores, TypeInv,
         StoresTyped, HandlersTyped, HistoryTyped
    <3> QED
      BY <3>2, <3>3
  <2>4. ResultKnown'
    BY <1>17, <1>0, SessionsAct DEF Cleanup, ResultKnown, Early, Goto, stores, service,
       TypeInv, StoresTyped, ServiceTyped, HandlersTyped, ErasersTyped, HistoryTyped
  <2> QED
    BY <2>1, <2>2, <2>3, <2>4 DEF EraseInv
<1>18. ASSUME NEW s \in Sessions, FinishCleanup(s) PROVE EraseInv'
  <2>1. ManifestKnown'
    BY <1>18, <1>0, SessionsAct DEF FinishCleanup, ManifestKnown, Early, HandlerHolds,
       LockedPcs, ErasePcs, Goto, stores, service, erasers, TypeInv, StoresTyped,
       ServiceTyped, HandlersTyped, ErasersTyped, HistoryTyped
  <2>2. DeletedIsOver'
    BY <1>18, <1>0, SessionsAct DEF FinishCleanup, DeletedIsOver, ManifestKnown, Early,
       HandlerHolds, LockedPcs, ErasePcs, Goto, stores, service, erasers, TypeInv,
       StoresTyped, ServiceTyped, HandlersTyped, ErasersTyped, HistoryTyped
  <2>3. EveryObjectOwned'
    BY <1>18, <1>0, SessionsAct DEF FinishCleanup, EveryObjectOwned, ManifestKnown,
       InFlight, HandlerHolds, LockedPcs, ErasePcs, Last, Goto, stores, service,
       erasers, TypeInv, StoresTyped, ServiceTyped, HandlersTyped, ErasersTyped,
       HistoryTyped
  <2>4. ResultKnown'
    BY <1>18, <1>0, SessionsAct DEF FinishCleanup, ResultKnown, Early, Goto, stores,
       service, erasers, TypeInv, StoresTyped, ServiceTyped, HandlersTyped,
       ErasersTyped, HistoryTyped
  <2> QED
    BY <2>1, <2>2, <2>3, <2>4 DEF EraseInv
<1>19. ASSUME NEW d \in Deleters, BeginErase(d) PROVE EraseInv'
  <2>1. ManifestKnown'
    BY <1>19, <1>0, SessionsAct DEF BeginErase, ManifestKnown, Early, HandlerHolds,
       LockedPcs, ErasePcs, stores, service, handlers, TypeInv, StoresTyped,
       ServiceTyped, HandlersTyped, ErasersTyped, HistoryTyped
  <2>2. DeletedIsOver'
    BY <1>19, <1>0, SessionsAct DEF BeginErase, DeletedIsOver, ManifestKnown, Early,
       HandlerHolds, LockedPcs, ErasePcs, stores, service, handlers, TypeInv,
       StoresTyped, ServiceTyped, HandlersTyped, ErasersTyped, HistoryTyped
  <2>3. EveryObjectOwned'
    BY <1>19, <1>0, SessionsAct DEF BeginErase, EveryObjectOwned, ManifestKnown,
       InFlight, HandlerHolds, LockedPcs, ErasePcs, Last, stores, service, handlers,
       TypeInv, StoresTyped, ServiceTyped, HandlersTyped, ErasersTyped, HistoryTyped
  <2>4. ResultKnown'
    BY <1>19, <1>0, SessionsAct DEF BeginErase, ResultKnown, Early, stores, service,
       handlers, TypeInv, StoresTyped, ServiceTyped, HandlersTyped, ErasersTyped,
       HistoryTyped
  <2> QED
    BY <2>1, <2>2, <2>3, <2>4 DEF EraseInv
<1>20. ASSUME NEW a \in Actors, AcquireErase(a) PROVE EraseInv'
  <2>1. ManifestKnown'
    BY <1>20, <1>0, SessionsAct DEF AcquireErase, ManifestKnown, Early, HandlerHolds,
       LockedPcs, ErasePcs, Finish, stores, service, handlers, TypeInv, StoresTyped,
       ServiceTyped, HandlersTyped, ErasersTyped, HistoryTyped
  <2>2. DeletedIsOver'
    BY <1>20, <1>0, SessionsAct DEF AcquireErase, DeletedIsOver, ManifestKnown, Early,
       HandlerHolds, LockedPcs, ErasePcs, Finish, stores, service, handlers, TypeInv,
       StoresTyped, ServiceTyped, HandlersTyped, ErasersTyped, HistoryTyped
  <2>3. EveryObjectOwned'
    BY <1>20, <1>0, SessionsAct DEF AcquireErase, EveryObjectOwned, ManifestKnown,
       InFlight, HandlerHolds, LockedPcs, ErasePcs, Last, Finish, stores, service,
       handlers, TypeInv, StoresTyped, ServiceTyped, HandlersTyped, ErasersTyped,
       HistoryTyped
  <2>4. ResultKnown'
    BY <1>20, <1>0, SessionsAct DEF AcquireErase, ResultKnown, Early, Finish, stores,
       service, handlers, TypeInv, StoresTyped, ServiceTyped, HandlersTyped,
       ErasersTyped, HistoryTyped
  <2> QED
    BY <2>1, <2>2, <2>3, <2>4 DEF EraseInv
<1>21. ASSUME NEW a \in Actors, ServeManifest(a) PROVE EraseInv'
  <2>1. ManifestKnown'
    <3>1. /\ UNCHANGED <<segs, objects, registered, target>>
          /\ \A x \in Sessions : closed[x] => closed'[x]
      BY <1>21 DEF ServeManifest, stores, TypeInv, ServiceTyped
    <3>2. \A b \in Actors \ {a} : epc'[b] = epc[b] /\ ekeys'[b] = ekeys[b]
      BY <1>21 DEF ServeManifest, Finish, TypeInv, ErasersTyped
    <3>3. epc'[a] \in {"objects", "row"} =>
             /\ ekeys'[a] = segs[target[a]]
             /\ target[a] \in registered => closed'[target[a]]
             /\ epc'[a] = "row" => segs[target[a]] = {}
      BY <1>21, <1>0 DEF ServeManifest, Finish, TypeInv, ErasersTyped, ServiceTyped
    <3> QED
      BY <3>1, <3>2, <3>3 DEF ManifestKnown, TypeInv, ErasersTyped
  <2>2. DeletedIsOver'
    <3>1. /\ UNCHANGED <<row, segs, registered, hpc>>
          /\ \A x \in Sessions : closed[x] => closed'[x]
      BY <1>21 DEF ServeManifest, stores, handlers, TypeInv, ServiceTyped
    <3> QED
      BY <3>1 DEF DeletedIsOver, HandlerHolds
  <2>3. EveryObjectOwned'
    BY <1>21, <1>0, SessionsAct DEF ServeManifest, EveryObjectOwned, ManifestKnown,
       InFlight, HandlerHolds, LockedPcs, ErasePcs, Last, Finish, stores, handlers,
       TypeInv, StoresTyped, ServiceTyped, HandlersTyped, ErasersTyped, HistoryTyped
  <2>4. ResultKnown'
    BY <1>21, <1>0, SessionsAct DEF ServeManifest, ResultKnown, Early, Finish, stores,
       handlers, TypeInv, StoresTyped, ServiceTyped, HandlersTyped, ErasersTyped,
       HistoryTyped
  <2> QED
    BY <2>1, <2>2, <2>3, <2>4 DEF EraseInv
<1>22. ASSUME NEW a \in Actors, ServeObjects(a) PROVE EraseInv'
  <2>1. ManifestKnown'
    BY <1>22, <1>0, SessionsAct DEF ServeObjects, ManifestKnown, Early, HandlerHolds,
       LockedPcs, ErasePcs, Finish, service, handlers, TypeInv, StoresTyped,
       ServiceTyped, HandlersTyped, ErasersTyped, HistoryTyped
  <2>2. DeletedIsOver'
    BY <1>22, <1>0, SessionsAct DEF ServeObjects, DeletedIsOver, ManifestKnown, Early,
       HandlerHolds, LockedPcs, ErasePcs, Finish, service, handlers, TypeInv,
       StoresTyped, ServiceTyped, HandlersTyped, ErasersTyped, HistoryTyped
  <2>3. EveryObjectOwned'
    <3>1. /\ UNCHANGED <<segs, leaked, hpc, taken>>
          /\ \A x \in Sessions : objects'[x] \subseteq objects[x]
      BY <1>22 DEF ServeObjects, handlers, TypeInv, StoresTyped
    <3> QED
      BY <3>1 DEF EveryObjectOwned, InFlight, Last
  <2>4. ResultKnown'
    BY <1>22, <1>0, SessionsAct DEF ServeObjects, ResultKnown, Early, Finish, service,
       handlers, TypeInv, StoresTyped, ServiceTyped, HandlersTyped, ErasersTyped,
       HistoryTyped
  <2> QED
    BY <2>1, <2>2, <2>3, <2>4 DEF EraseInv
<1>23. ASSUME NEW a \in Actors, ServeRow(a) PROVE EraseInv'
  <2>1. ManifestKnown'
    BY <1>23, <1>0, SessionsAct DEF ServeRow, ManifestKnown, Early, HandlerHolds,
       LockedPcs, ErasePcs, Finish, handlers, TypeInv, StoresTyped, ServiceTyped,
       HandlersTyped, ErasersTyped, HistoryTyped
  <2>2. DeletedIsOver'
    BY <1>23, <1>0, SessionsAct DEF ServeRow, DeletedIsOver, ManifestKnown, Early,
       HandlerHolds, LockedPcs, ErasePcs, Finish, handlers, TypeInv, StoresTyped,
       ServiceTyped, HandlersTyped, ErasersTyped, HistoryTyped
  <2>3. EveryObjectOwned'
    BY <1>23, <1>0, SessionsAct DEF ServeRow, EveryObjectOwned, ManifestKnown, InFlight,
       HandlerHolds, LockedPcs, ErasePcs, Last, Finish, handlers, TypeInv, StoresTyped,
       ServiceTyped, HandlersTyped, ErasersTyped, HistoryTyped
  <2>4. ResultKnown'
    BY <1>23, <1>0, SessionsAct DEF ServeRow, ResultKnown, Early, Finish, handlers,
       TypeInv, StoresTyped, ServiceTyped, HandlersTyped, ErasersTyped, HistoryTyped
  <2> QED
    BY <2>1, <2>2, <2>3, <2>4 DEF EraseInv
<1>24. CASE Close
  <2>1. ManifestKnown'
    BY <1>24, <1>0, SessionsAct DEF Close, ManifestKnown, Early, HandlerHolds,
       LockedPcs, ErasePcs, stores, handlers, erasers, TypeInv, StoresTyped,
       ServiceTyped, HandlersTyped, ErasersTyped, HistoryTyped
  <2>2. DeletedIsOver'
    BY <1>24, <1>0, SessionsAct DEF Close, DeletedIsOver, ManifestKnown, Early,
       HandlerHolds, LockedPcs, ErasePcs, stores, handlers, erasers, TypeInv,
       StoresTyped, ServiceTyped, HandlersTyped, ErasersTyped, HistoryTyped
  <2>3. EveryObjectOwned'
    BY <1>24, <1>0, SessionsAct DEF Close, EveryObjectOwned, ManifestKnown, InFlight,
       HandlerHolds, LockedPcs, ErasePcs, Last, stores, handlers, erasers, TypeInv,
       StoresTyped, ServiceTyped, HandlersTyped, ErasersTyped, HistoryTyped
  <2>4. ResultKnown'
    BY <1>24, <1>0, SessionsAct DEF Close, ResultKnown, Early, stores, handlers,
       erasers, TypeInv, StoresTyped, ServiceTyped, HandlersTyped, ErasersTyped,
       HistoryTyped
  <2> QED
    BY <2>1, <2>2, <2>3, <2>4 DEF EraseInv
<1>25. CASE Restart
  <2>1. ManifestKnown'
    BY <1>25, <1>0, SessionsAct DEF Restart, ManifestKnown, Early, HandlerHolds,
       LockedPcs, ErasePcs, stores, TypeInv, StoresTyped, ServiceTyped, HandlersTyped,
       ErasersTyped, HistoryTyped
  <2>2. DeletedIsOver'
    BY <1>25, <1>0, SessionsAct DEF Restart, DeletedIsOver, ManifestKnown, Early,
       HandlerHolds, LockedPcs, ErasePcs, Over, stores, TypeInv, StoresTyped,
       ServiceTyped, HandlersTyped, ErasersTyped, HistoryTyped
  <2>3. EveryObjectOwned'
    BY <1>25, <1>0, SessionsAct DEF Restart, EveryObjectOwned, ManifestKnown, InFlight,
       HandlerHolds, LockedPcs, ErasePcs, Last, Over, stores, TypeInv, StoresTyped,
       ServiceTyped, HandlersTyped, ErasersTyped, HistoryTyped
  <2>4. ResultKnown'
    BY <1>25, <1>0, SessionsAct DEF Restart, ResultKnown, Early, stores, TypeInv,
       StoresTyped, ServiceTyped, HandlersTyped, ErasersTyped, HistoryTyped
  <2> QED
    BY <2>1, <2>2, <2>3, <2>4 DEF EraseInv
<1>26. CASE UNCHANGED vars
  BY <1>26 DEF vars, stores, service, handlers, erasers, ManifestKnown, DeletedIsOver,
     EveryObjectOwned, ResultKnown, HandlerHolds, InFlight, Last
<1> QED
  BY <1>1, <1>2, <1>3, <1>4, <1>5, <1>6, <1>7, <1>8, <1>9, <1>10, <1>11, <1>12, <1>13,
     <1>14, <1>15, <1>16, <1>17, <1>18, <1>19, <1>20, <1>21, <1>22, <1>23, <1>24, <1>25,
     <1>26 DEF Next, HandlerStep, EraseStep

\* Every object in the bucket is listed, in the hands of its handler, or one of the
\* objects a lost reply, a failed compensation, a close or a kill stranded.
THEOREM NoStrandedAudio ==
    ASSUME Remote = {}
    PROVE  Spec => []EveryObjectOwned
<1>1. EraseInv => EveryObjectOwned
  BY DEF EraseInv
<1> QED
  BY <1>1, TypeInit, TypeStep, ExclusionInit, ExclusionStep, EraseInit, EraseStepInv, PTL
     DEF Spec

\* A deletion that answered leaves neither a row nor an object that was not stranded
\* before.
THEOREM ErasureIsComplete ==
    ASSUME Remote = {}
    PROVE  Spec => []ErasedMeansGone
<1>1. TypeInv /\ EraseInv => ErasedMeansGone
  BY DEF TypeInv, ErasersTyped, EraseInv, DeletedIsOver, EveryObjectOwned, ResultKnown,
     ErasedMeansGone, InFlight, HandlerHolds, LockedPcs
<1> QED
  BY <1>1, TypeInit, TypeStep, ExclusionInit, ExclusionStep, EraseInit, EraseStepInv, PTL
     DEF Spec

-------------------------------------------------------------------------------
(***************************************************************************)
(* What a step may never do.                                               *)
(***************************************************************************)
LEMMA ResurrectionStep ==
    ASSUME Remote = {}, TypeInv, ExclusionInv, EraseInv, [Next]_vars, NEW x \in Sessions,
           row[x] = "deleted"
    PROVE  row'[x] = "deleted" /\ objects'[x] \subseteq objects[x]
<1>0. /\ hpc[x] \notin Early
      /\ hpc[x] \notin LockedPcs
  BY DEF ExclusionInv, RowAfterCreate, EraseInv, DeletedIsOver, HandlerHolds
<1> USE DEF Early, LockedPcs
<1>1. ASSUME NEW s \in Sessions, ServeCreate(s) PROVE row'[x] = "deleted" /\ objects'[x] \subseteq objects[x]
  BY <1>0, <1>1 DEF ServeCreate, TypeInv, StoresTyped, HandlersTyped, ErasersTyped
<1>2. ASSUME NEW s \in Sessions, ServePut(s) PROVE row'[x] = "deleted" /\ objects'[x] \subseteq objects[x]
  BY <1>0, <1>2 DEF ServePut, TypeInv, StoresTyped, HandlersTyped, ErasersTyped
<1>3. ASSUME NEW s \in Sessions, ServeUndo(s) PROVE row'[x] = "deleted" /\ objects'[x] \subseteq objects[x]
  BY <1>0, <1>3 DEF ServeUndo, TypeInv, StoresTyped, HandlersTyped, ErasersTyped
<1>4. ASSUME NEW s \in Sessions, ServeCommit(s) PROVE row'[x] = "deleted" /\ objects'[x] \subseteq objects[x]
  BY <1>0, <1>4 DEF ServeCommit, TypeInv, StoresTyped, HandlersTyped, ErasersTyped
<1>5. ASSUME NEW a \in Actors, ServeObjects(a) PROVE row'[x] = "deleted" /\ objects'[x] \subseteq objects[x]
  BY <1>0, <1>5 DEF ServeObjects, TypeInv, StoresTyped, HandlersTyped, ErasersTyped
<1>6. ASSUME NEW a \in Actors, ServeRow(a) PROVE row'[x] = "deleted" /\ objects'[x] \subseteq objects[x]
  BY <1>0, <1>6 DEF ServeRow, TypeInv, StoresTyped, HandlersTyped, ErasersTyped
<1>7. ASSUME UNCHANGED <<row, objects>> PROVE row'[x] = "deleted" /\ objects'[x] \subseteq objects[x]
  BY <1>7
<1>8. ASSUME NEW s \in Sessions, Start(s) PROVE row'[x] = "deleted" /\ objects'[x] \subseteq objects[x]
  BY <1>7, <1>8 DEF Start, stores
<1>9. ASSUME NEW s \in Sessions, Cancel(s) PROVE row'[x] = "deleted" /\ objects'[x] \subseteq objects[x]
  BY <1>7, <1>9 DEF Cancel, stores
<1>10. ASSUME NEW s \in Sessions, ResumeCreate(s) PROVE row'[x] = "deleted" /\ objects'[x] \subseteq objects[x]
  BY <1>7, <1>10 DEF ResumeCreate, stores
<1>11. ASSUME NEW s \in Sessions, Store(s) PROVE row'[x] = "deleted" /\ objects'[x] \subseteq objects[x]
  BY <1>7, <1>11 DEF Store, stores
<1>12. ASSUME NEW s \in Sessions, Complete(s) PROVE row'[x] = "deleted" /\ objects'[x] \subseteq objects[x]
  BY <1>7, <1>12 DEF Complete, stores
<1>13. ASSUME NEW s \in Sessions, Fail(s) PROVE row'[x] = "deleted" /\ objects'[x] \subseteq objects[x]
  BY <1>7, <1>13 DEF Fail, stores
<1>14. ASSUME NEW s \in Sessions, ResumePut(s) PROVE row'[x] = "deleted" /\ objects'[x] \subseteq objects[x]
  BY <1>7, <1>14 DEF ResumePut, stores
<1>15. ASSUME NEW s \in Sessions, ServeAdd(s) PROVE row'[x] = "deleted" /\ objects'[x] \subseteq objects[x]
  BY <1>7, <1>15 DEF ServeAdd
<1>16. ASSUME NEW s \in Sessions, ResumeAdd(s) PROVE row'[x] = "deleted" /\ objects'[x] \subseteq objects[x]
  BY <1>7, <1>16 DEF ResumeAdd, stores
<1>17. ASSUME NEW s \in Sessions, ResumeCommit(s) PROVE row'[x] = "deleted" /\ objects'[x] \subseteq objects[x]
  BY <1>7, <1>17 DEF ResumeCommit, stores
<1>18. ASSUME NEW s \in Sessions, ServeRead(s) PROVE row'[x] = "deleted" /\ objects'[x] \subseteq objects[x]
  BY <1>7, <1>18 DEF ServeRead, stores
<1>19. ASSUME NEW s \in Sessions, ResumeRead(s) PROVE row'[x] = "deleted" /\ objects'[x] \subseteq objects[x]
  BY <1>7, <1>19 DEF ResumeRead, stores
<1>20. ASSUME NEW s \in Sessions, Cleanup(s) PROVE row'[x] = "deleted" /\ objects'[x] \subseteq objects[x]
  BY <1>7, <1>20 DEF Cleanup, stores
<1>21. ASSUME NEW s \in Sessions, FinishCleanup(s) PROVE row'[x] = "deleted" /\ objects'[x] \subseteq objects[x]
  BY <1>7, <1>21 DEF FinishCleanup, stores
<1>22. ASSUME NEW d \in Deleters, BeginErase(d) PROVE row'[x] = "deleted" /\ objects'[x] \subseteq objects[x]
  BY <1>7, <1>22 DEF BeginErase, stores
<1>23. ASSUME NEW a \in Actors, AcquireErase(a) PROVE row'[x] = "deleted" /\ objects'[x] \subseteq objects[x]
  BY <1>7, <1>23 DEF AcquireErase, stores
<1>24. ASSUME NEW a \in Actors, ServeManifest(a) PROVE row'[x] = "deleted" /\ objects'[x] \subseteq objects[x]
  BY <1>7, <1>24 DEF ServeManifest, stores
<1>25. CASE Close
  BY <1>7, <1>25 DEF Close, stores
<1>26. CASE Restart
  BY <1>7, <1>26 DEF Restart, stores
<1>27. CASE UNCHANGED vars
  BY <1>7, <1>27 DEF vars, stores
<1> QED
  BY <1>1, <1>2, <1>3, <1>4, <1>5, <1>6, <1>8, <1>9, <1>10, <1>11, <1>12, <1>13, <1>14,
     <1>15, <1>16, <1>17, <1>18, <1>19, <1>20, <1>21, <1>22, <1>23, <1>24, <1>25, <1>26,
     <1>27 DEF Next, HandlerStep, EraseStep

(* A row is deleted only when no object it lists is there. *)
LEMMA AudioStep ==
    ASSUME Remote = {}, TypeInv, EraseInv, [Next]_vars, NEW x \in Sessions,
           row[x] # "deleted", row'[x] = "deleted"
    PROVE  segs[x] \cap objects[x] = {}
<1>1. \E a \in Actors : ServeRow(a)
  <2>1. ASSUME UNCHANGED row PROVE FALSE
    BY <2>1
  <2>2. ASSUME NEW s \in Sessions, Start(s) PROVE FALSE
    BY <2>1, <2>2 DEF Start, stores
  <2>3. ASSUME NEW s \in Sessions, Cancel(s) PROVE FALSE
    BY <2>1, <2>3 DEF Cancel, stores
  <2>4. ASSUME NEW s \in Sessions, ServeCreate(s) PROVE FALSE
    BY <2>4 DEF ServeCreate, TypeInv, StoresTyped
  <2>5. ASSUME NEW s \in Sessions, ResumeCreate(s) PROVE FALSE
    BY <2>1, <2>5 DEF ResumeCreate, stores
  <2>6. ASSUME NEW s \in Sessions, Store(s) PROVE FALSE
    BY <2>1, <2>6 DEF Store, stores
  <2>7. ASSUME NEW s \in Sessions, Complete(s) PROVE FALSE
    BY <2>1, <2>7 DEF Complete, stores
  <2>8. ASSUME NEW s \in Sessions, Fail(s) PROVE FALSE
    BY <2>1, <2>8 DEF Fail, stores
  <2>9. ASSUME NEW s \in Sessions, ServePut(s) PROVE FALSE
    BY <2>1, <2>9 DEF ServePut
  <2>10. ASSUME NEW s \in Sessions, ResumePut(s) PROVE FALSE
    BY <2>1, <2>10 DEF ResumePut, stores
  <2>11. ASSUME NEW s \in Sessions, ServeAdd(s) PROVE FALSE
    BY <2>1, <2>11 DEF ServeAdd
  <2>12. ASSUME NEW s \in Sessions, ResumeAdd(s) PROVE FALSE
    BY <2>1, <2>12 DEF ResumeAdd, stores
  <2>13. ASSUME NEW s \in Sessions, ServeUndo(s) PROVE FALSE
    BY <2>1, <2>13 DEF ServeUndo
  <2>14. ASSUME NEW s \in Sessions, ServeCommit(s) PROVE FALSE
    BY <2>14 DEF ServeCommit, TypeInv, StoresTyped
  <2>15. ASSUME NEW s \in Sessions, ResumeCommit(s) PROVE FALSE
    BY <2>1, <2>15 DEF ResumeCommit, stores
  <2>16. ASSUME NEW s \in Sessions, ServeRead(s) PROVE FALSE
    BY <2>1, <2>16 DEF ServeRead, stores
  <2>17. ASSUME NEW s \in Sessions, ResumeRead(s) PROVE FALSE
    BY <2>1, <2>17 DEF ResumeRead, stores
  <2>18. ASSUME NEW s \in Sessions, Cleanup(s) PROVE FALSE
    BY <2>1, <2>18 DEF Cleanup, stores
  <2>19. ASSUME NEW s \in Sessions, FinishCleanup(s) PROVE FALSE
    BY <2>1, <2>19 DEF FinishCleanup, stores
  <2>20. ASSUME NEW d \in Deleters, BeginErase(d) PROVE FALSE
    BY <2>1, <2>20 DEF BeginErase, stores
  <2>21. ASSUME NEW a \in Actors, AcquireErase(a) PROVE FALSE
    BY <2>1, <2>21 DEF AcquireErase, stores
  <2>22. ASSUME NEW a \in Actors, ServeManifest(a) PROVE FALSE
    BY <2>1, <2>22 DEF ServeManifest, stores
  <2>23. ASSUME NEW a \in Actors, ServeObjects(a) PROVE FALSE
    BY <2>1, <2>23 DEF ServeObjects
  <2>24. CASE Close
    BY <2>1, <2>24 DEF Close, stores
  <2>25. CASE Restart
    BY <2>1, <2>25 DEF Restart, stores
  <2>26. CASE UNCHANGED vars
    BY <2>1, <2>26 DEF vars, stores
  <2> QED
    BY <2>2, <2>3, <2>4, <2>5, <2>6, <2>7, <2>8, <2>9, <2>10, <2>11, <2>12, <2>13,
       <2>14, <2>15, <2>16, <2>17, <2>18, <2>19, <2>20, <2>21, <2>22, <2>23, <2>24,
       <2>25, <2>26 DEF Next, HandlerStep, EraseStep
<1>2. PICK a \in Actors : ServeRow(a)
  BY <1>1
<1>3. epc[a] = "row" /\ target[a] = x
  BY <1>2 DEF ServeRow, TypeInv, StoresTyped, ErasersTyped
<1> QED
  BY <1>3 DEF EraseInv, ManifestKnown

\* No step brings back a deleted analysis or its audio, and none deletes a row that
\* still leads to audio.
THEOREM DeletionIsFinal ==
    ASSUME Remote = {}
    PROVE  Spec => ErasureIsFinal
<1>1. TypeInv /\ ExclusionInv /\ EraseInv /\ [Next]_vars =>
          [\A s \in Sessions :
              IF row[s] = "deleted"
              THEN row'[s] = "deleted" /\ objects'[s] \subseteq objects[s]
              ELSE row'[s] = "deleted" => segs[s] \cap objects[s] = {}]_vars
  BY ResurrectionStep, AudioStep
<1> QED
  BY <1>1, TypeInit, TypeStep, ExclusionInit, ExclusionStep, EraseInit, EraseStepInv, PTL
     DEF Spec, ErasureIsFinal

-------------------------------------------------------------------------------
(***************************************************************************)
(* The service implements RetentionContract.  Beyond the invariants above, *)
(* the refinement needs to know when a row exists and that a session under *)
(* erasure is closed to its handler.                                       *)
(***************************************************************************)
Rowless == {"idle", "create", "create_failed", "done", "dead"}
RowOfHandler == \A s \in Sessions :
    hpc[s] \notin Rowless => row[s] # "none"
RowOfErase == \A a \in Actors : epc[a] # "off" => row[target[a]] # "none"
RowOfErasing == \A s \in erasing : row[s] # "none"
CommittedRow == \A s \in Sessions :
    hpc[s] \in {"committed", "read", "read_ok"} => row[s] \in {"completed", "deleted"}
ToldStored == \A s \in Sessions : told[s] = "stored" => hpc[s] = "done"
ErasingIsOver == \A s \in erasing : (s \in registered => closed[s]) /\ ~HandlerHolds(s)

RefineInv ==
    /\ RowOfHandler /\ RowOfErase /\ RowOfErasing
    /\ CommittedRow /\ ToldStored /\ ErasingIsOver

(* The invariant of the refinement holds at first. *)
LEMMA RefineInit == Init => RefineInv
BY DEF Init, RefineInv, Rowless, RowOfHandler, RowOfErase, RowOfErasing, CommittedRow,
   ToldStored, ErasingIsOver

(* Every step keeps it. *)
LEMMA RefineInvStep ==
    ASSUME Remote = {}, TypeInv, ExclusionInv, RefineInv, [Next]_vars
    PROVE  RefineInv'
<1> USE DEF RefineInv
<1>0. /\ \A s \in Sessions : hpc[s] \in Early => row[s] = "none"
      /\ \A a \in Actors : epc[a] # "off" => hpc[target[a]] \notin Early
      /\ \A a \in Actors : Local(a)
      /\ \A a \in Actors : epc[a] \in ErasePcs => ~HandlerHolds(target[a])
  BY DEF ExclusionInv, RowAfterCreate, EraseAfterCreate, HandlerExcludesErase, Local,
     Erases, TypeInv, ErasersTyped
<1>1. ASSUME NEW s \in Sessions, Start(s) PROVE RefineInv'
  <2>1. RowOfHandler'
    BY <1>1, <1>0, SessionsAct DEF Start, RowOfHandler, Early, Rowless, Goto, stores,
       erasers, TypeInv, StoresTyped, ServiceTyped, HandlersTyped, ErasersTyped,
       HistoryTyped
  <2>2. RowOfErase'
    BY <1>1, <1>0, SessionsAct DEF Start, RowOfErase, Early, RowOfHandler, Rowless,
       Goto, stores, erasers, TypeInv, StoresTyped, ServiceTyped, HandlersTyped,
       ErasersTyped, HistoryTyped
  <2>3. RowOfErasing'
    BY <1>1, <1>0, SessionsAct DEF Start, RowOfErasing, RowOfErase, Goto, stores,
       erasers, TypeInv, StoresTyped, ServiceTyped, HandlersTyped, ErasersTyped,
       HistoryTyped
  <2>4. CommittedRow'
    BY <1>1, <1>0, SessionsAct DEF Start, CommittedRow, Goto, stores, erasers, TypeInv,
       StoresTyped, ServiceTyped, HandlersTyped, ErasersTyped, HistoryTyped
  <2>5. ToldStored'
    BY <1>1, <1>0, SessionsAct DEF Start, ToldStored, Goto, stores, erasers, TypeInv,
       StoresTyped, ServiceTyped, HandlersTyped, ErasersTyped, HistoryTyped
  <2>6. ErasingIsOver'
    BY <1>1, <1>0, SessionsAct DEF Start, ErasingIsOver, HandlerHolds, LockedPcs,
       ErasePcs, Early, RowOfErasing, Goto, stores, erasers, TypeInv, StoresTyped,
       ServiceTyped, HandlersTyped, ErasersTyped, HistoryTyped
  <2> QED
    BY <2>1, <2>2, <2>3, <2>4, <2>5, <2>6 DEF RefineInv
<1>2. ASSUME NEW s \in Sessions, Cancel(s) PROVE RefineInv'
  <2>1. RowOfHandler'
    BY <1>2, <1>0, SessionsAct DEF Cancel, RowOfHandler, Early, Rowless, Over, stores,
       service, erasers, TypeInv, StoresTyped, ServiceTyped, HandlersTyped,
       ErasersTyped, HistoryTyped
  <2>2. RowOfErase'
    BY <1>2, <1>0, SessionsAct DEF Cancel, RowOfErase, Early, Over, RowOfHandler,
       Rowless, stores, service, erasers, TypeInv, StoresTyped, ServiceTyped,
       HandlersTyped, ErasersTyped, HistoryTyped
  <2>3. RowOfErasing'
    BY <1>2, <1>0, SessionsAct DEF Cancel, RowOfErasing, RowOfErase, stores, service,
       erasers, TypeInv, StoresTyped, ServiceTyped, HandlersTyped, ErasersTyped,
       HistoryTyped
  <2>4. CommittedRow'
    BY <1>2, <1>0, SessionsAct DEF Cancel, CommittedRow, Over, stores, service, erasers,
       TypeInv, StoresTyped, ServiceTyped, HandlersTyped, ErasersTyped, HistoryTyped
  <2>5. ToldStored'
    BY <1>2, <1>0, SessionsAct DEF Cancel, ToldStored, Over, stores, service, erasers,
       TypeInv, StoresTyped, ServiceTyped, HandlersTyped, ErasersTyped, HistoryTyped
  <2>6. ErasingIsOver'
    BY <1>2, <1>0, SessionsAct DEF Cancel, ErasingIsOver, HandlerHolds, LockedPcs,
       ErasePcs, Early, Over, RowOfErasing, stores, service, erasers, TypeInv,
       StoresTyped, ServiceTyped, HandlersTyped, ErasersTyped, HistoryTyped
  <2> QED
    BY <2>1, <2>2, <2>3, <2>4, <2>5, <2>6 DEF RefineInv
<1>3. ASSUME NEW s \in Sessions, ServeCreate(s) PROVE RefineInv'
  <2>1. RowOfHandler'
    BY <1>3, <1>0, SessionsAct DEF ServeCreate, RowOfHandler, Early, Rowless, Goto,
       service, erasers, TypeInv, StoresTyped, ServiceTyped, HandlersTyped,
       ErasersTyped, HistoryTyped
  <2>2. RowOfErase'
    BY <1>3, <1>0, SessionsAct DEF ServeCreate, RowOfErase, Early, RowOfHandler,
       Rowless, Goto, service, erasers, TypeInv, StoresTyped, ServiceTyped,
       HandlersTyped, ErasersTyped, HistoryTyped
  <2>3. RowOfErasing'
    BY <1>3, <1>0, SessionsAct DEF ServeCreate, RowOfErasing, RowOfErase, Goto, service,
       erasers, TypeInv, StoresTyped, ServiceTyped, HandlersTyped, ErasersTyped,
       HistoryTyped
  <2>4. CommittedRow'
    <3>1. \A x \in Sessions : x # s => hpc'[x] = hpc[x] /\ row'[x] = row[x]
      BY <1>3 DEF ServeCreate, Goto, TypeInv, StoresTyped, HandlersTyped
    <3>2. hpc'[s] \in {"created", "create_failed"}
      BY <1>3 DEF ServeCreate, Goto, TypeInv, HandlersTyped
    <3> QED
      BY <3>1, <3>2 DEF CommittedRow
  <2>5. ToldStored'
    BY <1>3, <1>0, SessionsAct DEF ServeCreate, ToldStored, Goto, service, erasers,
       TypeInv, StoresTyped, ServiceTyped, HandlersTyped, ErasersTyped, HistoryTyped
  <2>6. ErasingIsOver'
    BY <1>3, <1>0, SessionsAct DEF ServeCreate, ErasingIsOver, HandlerHolds, LockedPcs,
       ErasePcs, Early, RowOfErasing, Goto, service, erasers, TypeInv, StoresTyped,
       ServiceTyped, HandlersTyped, ErasersTyped, HistoryTyped
  <2> QED
    BY <2>1, <2>2, <2>3, <2>4, <2>5, <2>6 DEF RefineInv
<1>4. ASSUME NEW s \in Sessions, ResumeCreate(s) PROVE RefineInv'
  <2>1. RowOfHandler'
    <3>1. row' = row /\ \A x \in Sessions : hpc'[x] \notin Rowless => hpc[x] \notin Rowless
      BY <1>4 DEF ResumeCreate, Goto, Rowless, stores, TypeInv, HandlersTyped
    <3> QED
      BY <3>1 DEF RowOfHandler
  <2>2. RowOfErase'
    BY <1>4, <1>0, SessionsAct DEF ResumeCreate, RowOfErase, Early, RowOfHandler,
       Rowless, Goto, stores, erasers, TypeInv, StoresTyped, ServiceTyped,
       HandlersTyped, ErasersTyped, HistoryTyped
  <2>3. RowOfErasing'
    BY <1>4, <1>0, SessionsAct DEF ResumeCreate, RowOfErasing, RowOfErase, Goto, stores,
       erasers, TypeInv, StoresTyped, ServiceTyped, HandlersTyped, ErasersTyped,
       HistoryTyped
  <2>4. CommittedRow'
    BY <1>4, <1>0, SessionsAct DEF ResumeCreate, CommittedRow, Goto, stores, erasers,
       TypeInv, StoresTyped, ServiceTyped, HandlersTyped, ErasersTyped, HistoryTyped
  <2>5. ToldStored'
    BY <1>4, <1>0, SessionsAct DEF ResumeCreate, ToldStored, Goto, stores, erasers,
       TypeInv, StoresTyped, ServiceTyped, HandlersTyped, ErasersTyped, HistoryTyped
  <2>6. ErasingIsOver'
    BY <1>4, <1>0, SessionsAct DEF ResumeCreate, ErasingIsOver, HandlerHolds, LockedPcs,
       ErasePcs, Early, RowOfErasing, Goto, stores, erasers, TypeInv, StoresTyped,
       ServiceTyped, HandlersTyped, ErasersTyped, HistoryTyped
  <2> QED
    BY <2>1, <2>2, <2>3, <2>4, <2>5, <2>6 DEF RefineInv
<1>5. ASSUME NEW s \in Sessions, Store(s) PROVE RefineInv'
  <2>1. RowOfHandler'
    BY <1>5, <1>0, SessionsAct DEF Store, RowOfHandler, Early, Rowless, TakeSegment,
       Goto, stores, service, erasers, TypeInv, StoresTyped, ServiceTyped,
       HandlersTyped, ErasersTyped, HistoryTyped
  <2>2. RowOfErase'
    BY <1>5, <1>0, SessionsAct DEF Store, RowOfErase, Early, RowOfHandler, Rowless,
       TakeSegment, Goto, stores, service, erasers, TypeInv, StoresTyped, ServiceTyped,
       HandlersTyped, ErasersTyped, HistoryTyped
  <2>3. RowOfErasing'
    BY <1>5, <1>0, SessionsAct DEF Store, RowOfErasing, RowOfErase, TakeSegment, Goto,
       stores, service, erasers, TypeInv, StoresTyped, ServiceTyped, HandlersTyped,
       ErasersTyped, HistoryTyped
  <2>4. CommittedRow'
    BY <1>5, <1>0, SessionsAct DEF Store, CommittedRow, TakeSegment, Goto, stores,
       service, erasers, TypeInv, StoresTyped, ServiceTyped, HandlersTyped,
       ErasersTyped, HistoryTyped
  <2>5. ToldStored'
    BY <1>5, <1>0, SessionsAct DEF Store, ToldStored, TakeSegment, Goto, stores,
       service, erasers, TypeInv, StoresTyped, ServiceTyped, HandlersTyped,
       ErasersTyped, HistoryTyped
  <2>6. ErasingIsOver'
    BY <1>5, <1>0, SessionsAct DEF Store, ErasingIsOver, HandlerHolds, LockedPcs,
       ErasePcs, Open, Early, RowOfErasing, TakeSegment, Goto, stores, service, erasers,
       TypeInv, StoresTyped, ServiceTyped, HandlersTyped, ErasersTyped, HistoryTyped
  <2> QED
    BY <2>1, <2>2, <2>3, <2>4, <2>5, <2>6 DEF RefineInv
<1>6. ASSUME NEW s \in Sessions, Complete(s) PROVE RefineInv'
  <2>1. RowOfHandler'
    BY <1>6, <1>0, SessionsAct DEF Complete, RowOfHandler, Early, Rowless, TakeSegment,
       Goto, stores, service, erasers, TypeInv, StoresTyped, ServiceTyped,
       HandlersTyped, ErasersTyped, HistoryTyped
  <2>2. RowOfErase'
    BY <1>6, <1>0, SessionsAct DEF Complete, RowOfErase, Early, RowOfHandler, Rowless,
       TakeSegment, Goto, stores, service, erasers, TypeInv, StoresTyped, ServiceTyped,
       HandlersTyped, ErasersTyped, HistoryTyped
  <2>3. RowOfErasing'
    BY <1>6, <1>0, SessionsAct DEF Complete, RowOfErasing, RowOfErase, TakeSegment,
       Goto, stores, service, erasers, TypeInv, StoresTyped, ServiceTyped,
       HandlersTyped, ErasersTyped, HistoryTyped
  <2>4. CommittedRow'
    BY <1>6, <1>0, SessionsAct DEF Complete, CommittedRow, TakeSegment, Goto, stores,
       service, erasers, TypeInv, StoresTyped, ServiceTyped, HandlersTyped,
       ErasersTyped, HistoryTyped
  <2>5. ToldStored'
    BY <1>6, <1>0, SessionsAct DEF Complete, ToldStored, TakeSegment, Goto, stores,
       service, erasers, TypeInv, StoresTyped, ServiceTyped, HandlersTyped,
       ErasersTyped, HistoryTyped
  <2>6. ErasingIsOver'
    BY <1>6, <1>0, SessionsAct DEF Complete, ErasingIsOver, HandlerHolds, LockedPcs,
       ErasePcs, Open, Early, RowOfErasing, TakeSegment, Goto, stores, service, erasers,
       TypeInv, StoresTyped, ServiceTyped, HandlersTyped, ErasersTyped, HistoryTyped
  <2> QED
    BY <2>1, <2>2, <2>3, <2>4, <2>5, <2>6 DEF RefineInv
<1>7. ASSUME NEW s \in Sessions, Fail(s) PROVE RefineInv'
  <2>1. RowOfHandler'
    BY <1>7, <1>0, SessionsAct DEF Fail, RowOfHandler, Early, Rowless, Goto, stores,
       service, erasers, TypeInv, StoresTyped, ServiceTyped, HandlersTyped,
       ErasersTyped, HistoryTyped
  <2>2. RowOfErase'
    BY <1>7, <1>0, SessionsAct DEF Fail, RowOfErase, Early, RowOfHandler, Rowless, Goto,
       stores, service, erasers, TypeInv, StoresTyped, ServiceTyped, HandlersTyped,
       ErasersTyped, HistoryTyped
  <2>3. RowOfErasing'
    BY <1>7, <1>0, SessionsAct DEF Fail, RowOfErasing, RowOfErase, Goto, stores,
       service, erasers, TypeInv, StoresTyped, ServiceTyped, HandlersTyped,
       ErasersTyped, HistoryTyped
  <2>4. CommittedRow'
    BY <1>7, <1>0, SessionsAct DEF Fail, CommittedRow, Goto, stores, service, erasers,
       TypeInv, StoresTyped, ServiceTyped, HandlersTyped, ErasersTyped, HistoryTyped
  <2>5. ToldStored'
    BY <1>7, <1>0, SessionsAct DEF Fail, ToldStored, Goto, stores, service, erasers,
       TypeInv, StoresTyped, ServiceTyped, HandlersTyped, ErasersTyped, HistoryTyped
  <2>6. ErasingIsOver'
    BY <1>7, <1>0, SessionsAct DEF Fail, ErasingIsOver, HandlerHolds, LockedPcs,
       ErasePcs, Early, RowOfErasing, Goto, stores, service, erasers, TypeInv,
       StoresTyped, ServiceTyped, HandlersTyped, ErasersTyped, HistoryTyped
  <2> QED
    BY <2>1, <2>2, <2>3, <2>4, <2>5, <2>6 DEF RefineInv
<1>8. ASSUME NEW s \in Sessions, ServePut(s) PROVE RefineInv'
  <2>1. RowOfHandler'
    BY <1>8, <1>0, SessionsAct DEF ServePut, RowOfHandler, Early, Rowless, Goto,
       service, erasers, TypeInv, StoresTyped, ServiceTyped, HandlersTyped,
       ErasersTyped, HistoryTyped
  <2>2. RowOfErase'
    BY <1>8, <1>0, SessionsAct DEF ServePut, RowOfErase, Early, RowOfHandler, Rowless,
       Goto, service, erasers, TypeInv, StoresTyped, ServiceTyped, HandlersTyped,
       ErasersTyped, HistoryTyped
  <2>3. RowOfErasing'
    BY <1>8, <1>0, SessionsAct DEF ServePut, RowOfErasing, RowOfErase, Goto, service,
       erasers, TypeInv, StoresTyped, ServiceTyped, HandlersTyped, ErasersTyped,
       HistoryTyped
  <2>4. CommittedRow'
    BY <1>8, <1>0, SessionsAct DEF ServePut, CommittedRow, Goto, service, erasers,
       TypeInv, StoresTyped, ServiceTyped, HandlersTyped, ErasersTyped, HistoryTyped
  <2>5. ToldStored'
    BY <1>8, <1>0, SessionsAct DEF ServePut, ToldStored, Goto, service, erasers,
       TypeInv, StoresTyped, ServiceTyped, HandlersTyped, ErasersTyped, HistoryTyped
  <2>6. ErasingIsOver'
    BY <1>8, <1>0, SessionsAct DEF ServePut, ErasingIsOver, HandlerHolds, LockedPcs,
       ErasePcs, Early, RowOfErasing, Goto, service, erasers, TypeInv, StoresTyped,
       ServiceTyped, HandlersTyped, ErasersTyped, HistoryTyped
  <2> QED
    BY <2>1, <2>2, <2>3, <2>4, <2>5, <2>6 DEF RefineInv
<1>9. ASSUME NEW s \in Sessions, ResumePut(s) PROVE RefineInv'
  <2>1. RowOfHandler'
    BY <1>9, <1>0, SessionsAct DEF ResumePut, RowOfHandler, Early, Rowless, Goto,
       stores, service, erasers, TypeInv, StoresTyped, ServiceTyped, HandlersTyped,
       ErasersTyped, HistoryTyped
  <2>2. RowOfErase'
    BY <1>9, <1>0, SessionsAct DEF ResumePut, RowOfErase, Early, RowOfHandler, Rowless,
       Goto, stores, service, erasers, TypeInv, StoresTyped, ServiceTyped,
       HandlersTyped, ErasersTyped, HistoryTyped
  <2>3. RowOfErasing'
    BY <1>9, <1>0, SessionsAct DEF ResumePut, RowOfErasing, RowOfErase, Goto, stores,
       service, erasers, TypeInv, StoresTyped, ServiceTyped, HandlersTyped,
       ErasersTyped, HistoryTyped
  <2>4. CommittedRow'
    BY <1>9, <1>0, SessionsAct DEF ResumePut, CommittedRow, Goto, stores, service,
       erasers, TypeInv, StoresTyped, ServiceTyped, HandlersTyped, ErasersTyped,
       HistoryTyped
  <2>5. ToldStored'
    BY <1>9, <1>0, SessionsAct DEF ResumePut, ToldStored, Goto, stores, service,
       erasers, TypeInv, StoresTyped, ServiceTyped, HandlersTyped, ErasersTyped,
       HistoryTyped
  <2>6. ErasingIsOver'
    BY <1>9, <1>0, SessionsAct DEF ResumePut, ErasingIsOver, HandlerHolds, LockedPcs,
       ErasePcs, Early, RowOfErasing, Goto, stores, service, erasers, TypeInv,
       StoresTyped, ServiceTyped, HandlersTyped, ErasersTyped, HistoryTyped
  <2> QED
    BY <2>1, <2>2, <2>3, <2>4, <2>5, <2>6 DEF RefineInv
<1>10. ASSUME NEW s \in Sessions, ServeAdd(s) PROVE RefineInv'
  <2>1. RowOfHandler'
    BY <1>10, <1>0, SessionsAct DEF ServeAdd, RowOfHandler, Early, Rowless, Goto,
       service, erasers, TypeInv, StoresTyped, ServiceTyped, HandlersTyped,
       ErasersTyped, HistoryTyped
  <2>2. RowOfErase'
    BY <1>10, <1>0, SessionsAct DEF ServeAdd, RowOfErase, Early, RowOfHandler, Rowless,
       Goto, service, erasers, TypeInv, StoresTyped, ServiceTyped, HandlersTyped,
       ErasersTyped, HistoryTyped
  <2>3. RowOfErasing'
    BY <1>10, <1>0, SessionsAct DEF ServeAdd, RowOfErasing, RowOfErase, Goto, service,
       erasers, TypeInv, StoresTyped, ServiceTyped, HandlersTyped, ErasersTyped,
       HistoryTyped
  <2>4. CommittedRow'
    BY <1>10, <1>0, SessionsAct DEF ServeAdd, CommittedRow, Goto, service, erasers,
       TypeInv, StoresTyped, ServiceTyped, HandlersTyped, ErasersTyped, HistoryTyped
  <2>5. ToldStored'
    BY <1>10, <1>0, SessionsAct DEF ServeAdd, ToldStored, Goto, service, erasers,
       TypeInv, StoresTyped, ServiceTyped, HandlersTyped, ErasersTyped, HistoryTyped
  <2>6. ErasingIsOver'
    BY <1>10, <1>0, SessionsAct DEF ServeAdd, ErasingIsOver, HandlerHolds, LockedPcs,
       ErasePcs, Early, RowOfErasing, Goto, service, erasers, TypeInv, StoresTyped,
       ServiceTyped, HandlersTyped, ErasersTyped, HistoryTyped
  <2> QED
    BY <2>1, <2>2, <2>3, <2>4, <2>5, <2>6 DEF RefineInv
<1>11. ASSUME NEW s \in Sessions, ResumeAdd(s) PROVE RefineInv'
  <2>1. RowOfHandler'
    <3>1. row' = row /\ \A x \in Sessions : hpc'[x] \notin Rowless => hpc[x] \notin Rowless
      BY <1>11 DEF ResumeAdd, TakeSegment, Goto, Rowless, stores, TypeInv, HandlersTyped
    <3> QED
      BY <3>1 DEF RowOfHandler
  <2>2. RowOfErase'
    BY <1>11, <1>0, SessionsAct DEF ResumeAdd, RowOfErase, Early, RowOfHandler, Rowless,
       TakeSegment, Goto, stores, service, erasers, TypeInv, StoresTyped, ServiceTyped,
       HandlersTyped, ErasersTyped, HistoryTyped
  <2>3. RowOfErasing'
    BY <1>11, <1>0, SessionsAct DEF ResumeAdd, RowOfErasing, RowOfErase, TakeSegment,
       Goto, stores, service, erasers, TypeInv, StoresTyped, ServiceTyped,
       HandlersTyped, ErasersTyped, HistoryTyped
  <2>4. CommittedRow'
    BY <1>11, <1>0, SessionsAct DEF ResumeAdd, CommittedRow, TakeSegment, Goto, stores,
       service, erasers, TypeInv, StoresTyped, ServiceTyped, HandlersTyped,
       ErasersTyped, HistoryTyped
  <2>5. ToldStored'
    BY <1>11, <1>0, SessionsAct DEF ResumeAdd, ToldStored, TakeSegment, Goto, stores,
       service, erasers, TypeInv, StoresTyped, ServiceTyped, HandlersTyped,
       ErasersTyped, HistoryTyped
  <2>6. ErasingIsOver'
    BY <1>11, <1>0, SessionsAct DEF ResumeAdd, ErasingIsOver, HandlerHolds, LockedPcs,
       ErasePcs, Early, RowOfErasing, TakeSegment, Goto, stores, service, erasers,
       TypeInv, StoresTyped, ServiceTyped, HandlersTyped, ErasersTyped, HistoryTyped
  <2> QED
    BY <2>1, <2>2, <2>3, <2>4, <2>5, <2>6 DEF RefineInv
<1>12. ASSUME NEW s \in Sessions, ServeUndo(s) PROVE RefineInv'
  <2>1. RowOfHandler'
    BY <1>12, <1>0, SessionsAct DEF ServeUndo, RowOfHandler, Early, Rowless, Goto,
       service, erasers, TypeInv, StoresTyped, ServiceTyped, HandlersTyped,
       ErasersTyped, HistoryTyped
  <2>2. RowOfErase'
    BY <1>12, <1>0, SessionsAct DEF ServeUndo, RowOfErase, Early, RowOfHandler, Rowless,
       Goto, service, erasers, TypeInv, StoresTyped, ServiceTyped, HandlersTyped,
       ErasersTyped, HistoryTyped
  <2>3. RowOfErasing'
    BY <1>12, <1>0, SessionsAct DEF ServeUndo, RowOfErasing, RowOfErase, Goto, service,
       erasers, TypeInv, StoresTyped, ServiceTyped, HandlersTyped, ErasersTyped,
       HistoryTyped
  <2>4. CommittedRow'
    BY <1>12, <1>0, SessionsAct DEF ServeUndo, CommittedRow, Goto, service, erasers,
       TypeInv, StoresTyped, ServiceTyped, HandlersTyped, ErasersTyped, HistoryTyped
  <2>5. ToldStored'
    BY <1>12, <1>0, SessionsAct DEF ServeUndo, ToldStored, Goto, service, erasers,
       TypeInv, StoresTyped, ServiceTyped, HandlersTyped, ErasersTyped, HistoryTyped
  <2>6. ErasingIsOver'
    BY <1>12, <1>0, SessionsAct DEF ServeUndo, ErasingIsOver, HandlerHolds, LockedPcs,
       ErasePcs, Early, RowOfErasing, Goto, service, erasers, TypeInv, StoresTyped,
       ServiceTyped, HandlersTyped, ErasersTyped, HistoryTyped
  <2> QED
    BY <2>1, <2>2, <2>3, <2>4, <2>5, <2>6 DEF RefineInv
<1>13. ASSUME NEW s \in Sessions, ServeCommit(s) PROVE RefineInv'
  <2>1. RowOfHandler'
    BY <1>13, <1>0, SessionsAct DEF ServeCommit, RowOfHandler, Early, Rowless, Goto,
       service, erasers, TypeInv, StoresTyped, ServiceTyped, HandlersTyped,
       ErasersTyped, HistoryTyped
  <2>2. RowOfErase'
    BY <1>13, <1>0, SessionsAct DEF ServeCommit, RowOfErase, Early, RowOfHandler,
       Rowless, Goto, service, erasers, TypeInv, StoresTyped, ServiceTyped,
       HandlersTyped, ErasersTyped, HistoryTyped
  <2>3. RowOfErasing'
    BY <1>13, <1>0, SessionsAct DEF ServeCommit, RowOfErasing, RowOfErase, Goto,
       service, erasers, TypeInv, StoresTyped, ServiceTyped, HandlersTyped,
       ErasersTyped, HistoryTyped
  <2>4. CommittedRow'
    <3>1. /\ \A x \in Sessions \ {s} : hpc'[x] = hpc[x] /\ row'[x] = row[x]
          /\ hpc'[s] \in {"committed", "commit_failed"}
          /\ hpc'[s] = "committed" => row'[s] = "completed"
      BY <1>13 DEF ServeCommit, Goto, TypeInv, StoresTyped, HandlersTyped
    <3> QED
      BY <1>0, <3>1 DEF CommittedRow
  <2>5. ToldStored'
    BY <1>13, <1>0, SessionsAct DEF ServeCommit, ToldStored, Goto, service, erasers,
       TypeInv, StoresTyped, ServiceTyped, HandlersTyped, ErasersTyped, HistoryTyped
  <2>6. ErasingIsOver'
    BY <1>13, <1>0, SessionsAct DEF ServeCommit, ErasingIsOver, HandlerHolds, LockedPcs,
       ErasePcs, Early, RowOfErasing, Goto, service, erasers, TypeInv, StoresTyped,
       ServiceTyped, HandlersTyped, ErasersTyped, HistoryTyped
  <2> QED
    BY <2>1, <2>2, <2>3, <2>4, <2>5, <2>6 DEF RefineInv
<1>14. ASSUME NEW s \in Sessions, ResumeCommit(s) PROVE RefineInv'
  <2>1. RowOfHandler'
    BY <1>14, <1>0, SessionsAct DEF ResumeCommit, RowOfHandler, Early, Rowless, Goto,
       stores, erasers, TypeInv, StoresTyped, ServiceTyped, HandlersTyped, ErasersTyped,
       HistoryTyped
  <2>2. RowOfErase'
    BY <1>14, <1>0, SessionsAct DEF ResumeCommit, RowOfErase, Early, RowOfHandler,
       Rowless, Goto, stores, erasers, TypeInv, StoresTyped, ServiceTyped,
       HandlersTyped, ErasersTyped, HistoryTyped
  <2>3. RowOfErasing'
    BY <1>14, <1>0, SessionsAct DEF ResumeCommit, RowOfErasing, RowOfErase, Goto,
       stores, erasers, TypeInv, StoresTyped, ServiceTyped, HandlersTyped, ErasersTyped,
       HistoryTyped
  <2>4. CommittedRow'
    BY <1>14, <1>0, SessionsAct DEF ResumeCommit, CommittedRow, Goto, stores, erasers,
       TypeInv, StoresTyped, ServiceTyped, HandlersTyped, ErasersTyped, HistoryTyped
  <2>5. ToldStored'
    BY <1>14, <1>0, SessionsAct DEF ResumeCommit, ToldStored, Goto, stores, erasers,
       TypeInv, StoresTyped, ServiceTyped, HandlersTyped, ErasersTyped, HistoryTyped
  <2>6. ErasingIsOver'
    BY <1>14, <1>0, SessionsAct DEF ResumeCommit, ErasingIsOver, HandlerHolds,
       LockedPcs, ErasePcs, Early, RowOfErasing, Goto, stores, erasers, TypeInv,
       StoresTyped, ServiceTyped, HandlersTyped, ErasersTyped, HistoryTyped
  <2> QED
    BY <2>1, <2>2, <2>3, <2>4, <2>5, <2>6 DEF RefineInv
<1>15. ASSUME NEW s \in Sessions, ServeRead(s) PROVE RefineInv'
  <2>1. RowOfHandler'
    BY <1>15, <1>0, SessionsAct DEF ServeRead, RowOfHandler, Early, Rowless, Goto,
       stores, service, erasers, TypeInv, StoresTyped, ServiceTyped, HandlersTyped,
       ErasersTyped, HistoryTyped
  <2>2. RowOfErase'
    BY <1>15, <1>0, SessionsAct DEF ServeRead, RowOfErase, Early, RowOfHandler, Rowless,
       Goto, stores, service, erasers, TypeInv, StoresTyped, ServiceTyped,
       HandlersTyped, ErasersTyped, HistoryTyped
  <2>3. RowOfErasing'
    BY <1>15, <1>0, SessionsAct DEF ServeRead, RowOfErasing, RowOfErase, Goto, stores,
       service, erasers, TypeInv, StoresTyped, ServiceTyped, HandlersTyped,
       ErasersTyped, HistoryTyped
  <2>4. CommittedRow'
    BY <1>15, <1>0, SessionsAct DEF ServeRead, CommittedRow, Goto, stores, service,
       erasers, TypeInv, StoresTyped, ServiceTyped, HandlersTyped, ErasersTyped,
       HistoryTyped
  <2>5. ToldStored'
    BY <1>15, <1>0, SessionsAct DEF ServeRead, ToldStored, Goto, stores, service,
       erasers, TypeInv, StoresTyped, ServiceTyped, HandlersTyped, ErasersTyped,
       HistoryTyped
  <2>6. ErasingIsOver'
    BY <1>15, <1>0, SessionsAct DEF ServeRead, ErasingIsOver, HandlerHolds, LockedPcs,
       ErasePcs, Early, RowOfErasing, Goto, stores, service, erasers, TypeInv,
       StoresTyped, ServiceTyped, HandlersTyped, ErasersTyped, HistoryTyped
  <2> QED
    BY <2>1, <2>2, <2>3, <2>4, <2>5, <2>6 DEF RefineInv
<1>16. ASSUME NEW s \in Sessions, ResumeRead(s) PROVE RefineInv'
  <2>1. RowOfHandler'
    <3>1. row' = row /\ \A x \in Sessions : hpc'[x] \notin Rowless => hpc[x] \notin Rowless
      BY <1>16 DEF ResumeRead, Goto, Rowless, stores, TypeInv, HandlersTyped
    <3> QED
      BY <3>1 DEF RowOfHandler
  <2>2. RowOfErase'
    BY <1>16, <1>0, SessionsAct DEF ResumeRead, RowOfErase, Early, RowOfHandler,
       Rowless, Goto, stores, service, erasers, TypeInv, StoresTyped, ServiceTyped,
       HandlersTyped, ErasersTyped, HistoryTyped
  <2>3. RowOfErasing'
    BY <1>16, <1>0, SessionsAct DEF ResumeRead, RowOfErasing, RowOfErase, Goto, stores,
       service, erasers, TypeInv, StoresTyped, ServiceTyped, HandlersTyped,
       ErasersTyped, HistoryTyped
  <2>4. CommittedRow'
    BY <1>16, <1>0, SessionsAct DEF ResumeRead, CommittedRow, Goto, stores, service,
       erasers, TypeInv, StoresTyped, ServiceTyped, HandlersTyped, ErasersTyped,
       HistoryTyped
  <2>5. ToldStored'
    BY <1>16, <1>0, SessionsAct DEF ResumeRead, ToldStored, Goto, stores, service,
       erasers, TypeInv, StoresTyped, ServiceTyped, HandlersTyped, ErasersTyped,
       HistoryTyped
  <2>6. ErasingIsOver'
    BY <1>16, <1>0, SessionsAct DEF ResumeRead, ErasingIsOver, HandlerHolds, LockedPcs,
       ErasePcs, Early, RowOfErasing, Goto, stores, service, erasers, TypeInv,
       StoresTyped, ServiceTyped, HandlersTyped, ErasersTyped, HistoryTyped
  <2> QED
    BY <2>1, <2>2, <2>3, <2>4, <2>5, <2>6 DEF RefineInv
<1>17. ASSUME NEW s \in Sessions, Cleanup(s) PROVE RefineInv'
  <2>1. RowOfHandler'
    BY <1>17, <1>0, SessionsAct DEF Cleanup, RowOfHandler, Early, Rowless, Goto, stores,
       service, TypeInv, StoresTyped, ServiceTyped, HandlersTyped, ErasersTyped,
       HistoryTyped
  <2>2. RowOfErase'
    <3>1. row' = row /\ target' = target
      BY <1>17 DEF Cleanup, stores
    <3>2. \A a \in Actors \ {s} : epc'[a] = epc[a]
      BY <1>17 DEF Cleanup, TypeInv, ErasersTyped
    <3>3. target[s] = s /\ row[s] # "none"
      BY <1>17 DEF Cleanup, ExclusionInv, OwnTarget, RowOfHandler, Rowless
    <3> QED
      BY <3>1, <3>2, <3>3 DEF RowOfErase
  <2>3. RowOfErasing'
    BY <1>17, <1>0, SessionsAct DEF Cleanup, RowOfErasing, RowOfErase, Goto, stores,
       service, TypeInv, StoresTyped, ServiceTyped, HandlersTyped, ErasersTyped,
       HistoryTyped
  <2>4. CommittedRow'
    BY <1>17, <1>0, SessionsAct DEF Cleanup, CommittedRow, Goto, stores, service,
       TypeInv, StoresTyped, ServiceTyped, HandlersTyped, ErasersTyped, HistoryTyped
  <2>5. ToldStored'
    BY <1>17, <1>0, SessionsAct DEF Cleanup, ToldStored, Goto, stores, service, TypeInv,
       StoresTyped, ServiceTyped, HandlersTyped, ErasersTyped, HistoryTyped
  <2>6. ErasingIsOver'
    BY <1>17, <1>0, SessionsAct DEF Cleanup, ErasingIsOver, HandlerHolds, LockedPcs,
       ErasePcs, Early, RowOfErasing, Goto, stores, service, TypeInv, StoresTyped,
       ServiceTyped, HandlersTyped, ErasersTyped, HistoryTyped
  <2> QED
    BY <2>1, <2>2, <2>3, <2>4, <2>5, <2>6 DEF RefineInv
<1>18. ASSUME NEW s \in Sessions, FinishCleanup(s) PROVE RefineInv'
  <2>1. RowOfHandler'
    BY <1>18, <1>0, SessionsAct DEF FinishCleanup, RowOfHandler, Early, Rowless, Goto,
       stores, service, erasers, TypeInv, StoresTyped, ServiceTyped, HandlersTyped,
       ErasersTyped, HistoryTyped
  <2>2. RowOfErase'
    BY <1>18, <1>0, SessionsAct DEF FinishCleanup, RowOfErase, Early, RowOfHandler,
       Rowless, Goto, stores, service, erasers, TypeInv, StoresTyped, ServiceTyped,
       HandlersTyped, ErasersTyped, HistoryTyped
  <2>3. RowOfErasing'
    BY <1>18, <1>0, SessionsAct DEF FinishCleanup, RowOfErasing, RowOfErase, Goto,
       stores, service, erasers, TypeInv, StoresTyped, ServiceTyped, HandlersTyped,
       ErasersTyped, HistoryTyped
  <2>4. CommittedRow'
    BY <1>18, <1>0, SessionsAct DEF FinishCleanup, CommittedRow, Goto, stores, service,
       erasers, TypeInv, StoresTyped, ServiceTyped, HandlersTyped, ErasersTyped,
       HistoryTyped
  <2>5. ToldStored'
    BY <1>18, <1>0, SessionsAct DEF FinishCleanup, ToldStored, Goto, stores, service,
       erasers, TypeInv, StoresTyped, ServiceTyped, HandlersTyped, ErasersTyped,
       HistoryTyped
  <2>6. ErasingIsOver'
    BY <1>18, <1>0, SessionsAct DEF FinishCleanup, ErasingIsOver, HandlerHolds,
       LockedPcs, ErasePcs, Early, RowOfErasing, Goto, stores, service, erasers,
       TypeInv, StoresTyped, ServiceTyped, HandlersTyped, ErasersTyped, HistoryTyped
  <2> QED
    BY <2>1, <2>2, <2>3, <2>4, <2>5, <2>6 DEF RefineInv
<1>19. ASSUME NEW d \in Deleters, BeginErase(d) PROVE RefineInv'
  <2>1. RowOfHandler'
    BY <1>19, <1>0, SessionsAct DEF BeginErase, RowOfHandler, Early, Rowless, stores,
       service, handlers, TypeInv, StoresTyped, ServiceTyped, HandlersTyped,
       ErasersTyped, HistoryTyped
  <2>2. RowOfErase'
    BY <1>19, <1>0, SessionsAct DEF BeginErase, RowOfErase, Early, RowOfHandler,
       Rowless, stores, service, handlers, TypeInv, StoresTyped, ServiceTyped,
       HandlersTyped, ErasersTyped, HistoryTyped
  <2>3. RowOfErasing'
    BY <1>19, <1>0, SessionsAct DEF BeginErase, RowOfErasing, RowOfErase, stores,
       service, handlers, TypeInv, StoresTyped, ServiceTyped, HandlersTyped,
       ErasersTyped, HistoryTyped
  <2>4. CommittedRow'
    BY <1>19, <1>0, SessionsAct DEF BeginErase, CommittedRow, stores, service, handlers,
       TypeInv, StoresTyped, ServiceTyped, HandlersTyped, ErasersTyped, HistoryTyped
  <2>5. ToldStored'
    BY <1>19, <1>0, SessionsAct DEF BeginErase, ToldStored, stores, service, handlers,
       TypeInv, StoresTyped, ServiceTyped, HandlersTyped, ErasersTyped, HistoryTyped
  <2>6. ErasingIsOver'
    BY <1>19, <1>0, SessionsAct DEF BeginErase, ErasingIsOver, HandlerHolds, LockedPcs,
       ErasePcs, Early, RowOfErasing, stores, service, handlers, TypeInv, StoresTyped,
       ServiceTyped, HandlersTyped, ErasersTyped, HistoryTyped
  <2> QED
    BY <2>1, <2>2, <2>3, <2>4, <2>5, <2>6 DEF RefineInv
<1>20. ASSUME NEW a \in Actors, AcquireErase(a) PROVE RefineInv'
  <2>1. RowOfHandler'
    BY <1>20, <1>0, SessionsAct DEF AcquireErase, RowOfHandler, Early, Rowless, Finish,
       stores, service, handlers, TypeInv, StoresTyped, ServiceTyped, HandlersTyped,
       ErasersTyped, HistoryTyped
  <2>2. RowOfErase'
    BY <1>20, <1>0, SessionsAct DEF AcquireErase, RowOfErase, Early, RowOfHandler,
       Rowless, Finish, stores, service, handlers, TypeInv, StoresTyped, ServiceTyped,
       HandlersTyped, ErasersTyped, HistoryTyped
  <2>3. RowOfErasing'
    BY <1>20, <1>0, SessionsAct DEF AcquireErase, RowOfErasing, RowOfErase, Finish,
       stores, service, handlers, TypeInv, StoresTyped, ServiceTyped, HandlersTyped,
       ErasersTyped, HistoryTyped
  <2>4. CommittedRow'
    BY <1>20, <1>0, SessionsAct DEF AcquireErase, CommittedRow, Finish, stores, service,
       handlers, TypeInv, StoresTyped, ServiceTyped, HandlersTyped, ErasersTyped,
       HistoryTyped
  <2>5. ToldStored'
    BY <1>20, <1>0, SessionsAct DEF AcquireErase, ToldStored, Finish, stores, service,
       handlers, TypeInv, StoresTyped, ServiceTyped, HandlersTyped, ErasersTyped,
       HistoryTyped
  <2>6. ErasingIsOver'
    BY <1>20, <1>0, SessionsAct DEF AcquireErase, ErasingIsOver, HandlerHolds,
       LockedPcs, ErasePcs, Early, RowOfErasing, Finish, stores, service, handlers,
       TypeInv, StoresTyped, ServiceTyped, HandlersTyped, ErasersTyped, HistoryTyped
  <2> QED
    BY <2>1, <2>2, <2>3, <2>4, <2>5, <2>6 DEF RefineInv
<1>21. ASSUME NEW a \in Actors, ServeManifest(a) PROVE RefineInv'
  <2>1. RowOfHandler'
    BY <1>21, <1>0, SessionsAct DEF ServeManifest, RowOfHandler, Early, Rowless, Finish,
       stores, handlers, TypeInv, StoresTyped, ServiceTyped, HandlersTyped,
       ErasersTyped, HistoryTyped
  <2>2. RowOfErase'
    BY <1>21, <1>0, SessionsAct DEF ServeManifest, RowOfErase, Early, RowOfHandler,
       Rowless, Finish, stores, handlers, TypeInv, StoresTyped, ServiceTyped,
       HandlersTyped, ErasersTyped, HistoryTyped
  <2>3. RowOfErasing'
    BY <1>21, <1>0, SessionsAct DEF ServeManifest, RowOfErasing, RowOfErase, Finish,
       stores, handlers, TypeInv, StoresTyped, ServiceTyped, HandlersTyped,
       ErasersTyped, HistoryTyped
  <2>4. CommittedRow'
    BY <1>21, <1>0, SessionsAct DEF ServeManifest, CommittedRow, Finish, stores,
       handlers, TypeInv, StoresTyped, ServiceTyped, HandlersTyped, ErasersTyped,
       HistoryTyped
  <2>5. ToldStored'
    BY <1>21, <1>0, SessionsAct DEF ServeManifest, ToldStored, Finish, stores, handlers,
       TypeInv, StoresTyped, ServiceTyped, HandlersTyped, ErasersTyped, HistoryTyped
  <2>6. ErasingIsOver'
    BY <1>21, <1>0, SessionsAct DEF ServeManifest, ErasingIsOver, HandlerHolds,
       LockedPcs, ErasePcs, Early, RowOfErasing, Finish, stores, handlers, TypeInv,
       StoresTyped, ServiceTyped, HandlersTyped, ErasersTyped, HistoryTyped
  <2> QED
    BY <2>1, <2>2, <2>3, <2>4, <2>5, <2>6 DEF RefineInv
<1>22. ASSUME NEW a \in Actors, ServeObjects(a) PROVE RefineInv'
  <2>1. RowOfHandler'
    BY <1>22, <1>0, SessionsAct DEF ServeObjects, RowOfHandler, Early, Rowless, Finish,
       service, handlers, TypeInv, StoresTyped, ServiceTyped, HandlersTyped,
       ErasersTyped, HistoryTyped
  <2>2. RowOfErase'
    BY <1>22, <1>0, SessionsAct DEF ServeObjects, RowOfErase, Early, RowOfHandler,
       Rowless, Finish, service, handlers, TypeInv, StoresTyped, ServiceTyped,
       HandlersTyped, ErasersTyped, HistoryTyped
  <2>3. RowOfErasing'
    BY <1>22, <1>0, SessionsAct DEF ServeObjects, RowOfErasing, RowOfErase, Finish,
       service, handlers, TypeInv, StoresTyped, ServiceTyped, HandlersTyped,
       ErasersTyped, HistoryTyped
  <2>4. CommittedRow'
    BY <1>22, <1>0, SessionsAct DEF ServeObjects, CommittedRow, Finish, service,
       handlers, TypeInv, StoresTyped, ServiceTyped, HandlersTyped, ErasersTyped,
       HistoryTyped
  <2>5. ToldStored'
    BY <1>22, <1>0, SessionsAct DEF ServeObjects, ToldStored, Finish, service, handlers,
       TypeInv, StoresTyped, ServiceTyped, HandlersTyped, ErasersTyped, HistoryTyped
  <2>6. ErasingIsOver'
    BY <1>22, <1>0, SessionsAct DEF ServeObjects, ErasingIsOver, HandlerHolds,
       LockedPcs, ErasePcs, Early, RowOfErasing, Finish, service, handlers, TypeInv,
       StoresTyped, ServiceTyped, HandlersTyped, ErasersTyped, HistoryTyped
  <2> QED
    BY <2>1, <2>2, <2>3, <2>4, <2>5, <2>6 DEF RefineInv
<1>23. ASSUME NEW a \in Actors, ServeRow(a) PROVE RefineInv'
  <2>1. RowOfHandler'
    BY <1>23, <1>0, SessionsAct DEF ServeRow, RowOfHandler, Early, Rowless, Finish,
       handlers, TypeInv, StoresTyped, ServiceTyped, HandlersTyped, ErasersTyped,
       HistoryTyped
  <2>2. RowOfErase'
    BY <1>23, <1>0, SessionsAct DEF ServeRow, RowOfErase, Early, RowOfHandler, Rowless,
       Finish, handlers, TypeInv, StoresTyped, ServiceTyped, HandlersTyped,
       ErasersTyped, HistoryTyped
  <2>3. RowOfErasing'
    BY <1>23, <1>0, SessionsAct DEF ServeRow, RowOfErasing, RowOfErase, Finish,
       handlers, TypeInv, StoresTyped, ServiceTyped, HandlersTyped, ErasersTyped,
       HistoryTyped
  <2>4. CommittedRow'
    BY <1>23, <1>0, SessionsAct DEF ServeRow, CommittedRow, Finish, handlers, TypeInv,
       StoresTyped, ServiceTyped, HandlersTyped, ErasersTyped, HistoryTyped
  <2>5. ToldStored'
    BY <1>23, <1>0, SessionsAct DEF ServeRow, ToldStored, Finish, handlers, TypeInv,
       StoresTyped, ServiceTyped, HandlersTyped, ErasersTyped, HistoryTyped
  <2>6. ErasingIsOver'
    BY <1>23, <1>0, SessionsAct DEF ServeRow, ErasingIsOver, HandlerHolds, LockedPcs,
       ErasePcs, Early, RowOfErasing, Finish, handlers, TypeInv, StoresTyped,
       ServiceTyped, HandlersTyped, ErasersTyped, HistoryTyped
  <2> QED
    BY <2>1, <2>2, <2>3, <2>4, <2>5, <2>6 DEF RefineInv
<1>24. CASE Close
  <2>1. RowOfHandler'
    BY <1>24, <1>0, SessionsAct DEF Close, RowOfHandler, Early, Rowless, stores,
       handlers, erasers, TypeInv, StoresTyped, ServiceTyped, HandlersTyped,
       ErasersTyped, HistoryTyped
  <2>2. RowOfErase'
    BY <1>24, <1>0, SessionsAct DEF Close, RowOfErase, Early, RowOfHandler, Rowless,
       stores, handlers, erasers, TypeInv, StoresTyped, ServiceTyped, HandlersTyped,
       ErasersTyped, HistoryTyped
  <2>3. RowOfErasing'
    BY <1>24, <1>0, SessionsAct DEF Close, RowOfErasing, RowOfErase, stores, handlers,
       erasers, TypeInv, StoresTyped, ServiceTyped, HandlersTyped, ErasersTyped,
       HistoryTyped
  <2>4. CommittedRow'
    BY <1>24, <1>0, SessionsAct DEF Close, CommittedRow, stores, handlers, erasers,
       TypeInv, StoresTyped, ServiceTyped, HandlersTyped, ErasersTyped, HistoryTyped
  <2>5. ToldStored'
    BY <1>24, <1>0, SessionsAct DEF Close, ToldStored, stores, handlers, erasers,
       TypeInv, StoresTyped, ServiceTyped, HandlersTyped, ErasersTyped, HistoryTyped
  <2>6. ErasingIsOver'
    BY <1>24, <1>0, SessionsAct DEF Close, ErasingIsOver, HandlerHolds, LockedPcs,
       ErasePcs, Early, RowOfErasing, stores, handlers, erasers, TypeInv, StoresTyped,
       ServiceTyped, HandlersTyped, ErasersTyped, HistoryTyped
  <2> QED
    BY <2>1, <2>2, <2>3, <2>4, <2>5, <2>6 DEF RefineInv
<1>25. CASE Restart
  <2>1. RowOfHandler'
    BY <1>25, <1>0, SessionsAct DEF Restart, RowOfHandler, Early, Rowless, Over, stores,
       TypeInv, StoresTyped, ServiceTyped, HandlersTyped, ErasersTyped, HistoryTyped
  <2>2. RowOfErase'
    BY <1>25, <1>0, SessionsAct DEF Restart, RowOfErase, Early, Over, RowOfHandler,
       Rowless, stores, TypeInv, StoresTyped, ServiceTyped, HandlersTyped, ErasersTyped,
       HistoryTyped
  <2>3. RowOfErasing'
    BY <1>25, <1>0, SessionsAct DEF Restart, RowOfErasing, RowOfErase, stores, TypeInv,
       StoresTyped, ServiceTyped, HandlersTyped, ErasersTyped, HistoryTyped
  <2>4. CommittedRow'
    BY <1>25, <1>0, SessionsAct DEF Restart, CommittedRow, Over, stores, TypeInv,
       StoresTyped, ServiceTyped, HandlersTyped, ErasersTyped, HistoryTyped
  <2>5. ToldStored'
    BY <1>25, <1>0, SessionsAct DEF Restart, ToldStored, Over, stores, TypeInv,
       StoresTyped, ServiceTyped, HandlersTyped, ErasersTyped, HistoryTyped
  <2>6. ErasingIsOver'
    BY <1>25, <1>0, SessionsAct DEF Restart, ErasingIsOver, HandlerHolds, LockedPcs,
       ErasePcs, Early, Over, RowOfErasing, stores, TypeInv, StoresTyped, ServiceTyped,
       HandlersTyped, ErasersTyped, HistoryTyped
  <2> QED
    BY <2>1, <2>2, <2>3, <2>4, <2>5, <2>6 DEF RefineInv
<1>26. CASE UNCHANGED vars
  BY <1>26 DEF vars, stores, service, handlers, erasers, RowOfHandler, RowOfErase,
     RowOfErasing, CommittedRow, ToldStored, ErasingIsOver, HandlerHolds
<1> QED
  BY <1>1, <1>2, <1>3, <1>4, <1>5, <1>6, <1>7, <1>8, <1>9, <1>10, <1>11, <1>12, <1>13,
     <1>14, <1>15, <1>16, <1>17, <1>18, <1>19, <1>20, <1>21, <1>22, <1>23, <1>24, <1>25,
     <1>26 DEF Next, HandlerStep, EraseStep

\* A step that leaves the manifest and the bucket of completed sessions, the
\* deletions and the answers alone is a stutter of the contract.
LEMMA Stutter ==
    ASSUME UNCHANGED <<row, erasing>>,
           \A s \in Sessions : row[s] = "completed" => segs'[s] = segs[s] /\ objects'[s] = objects[s],
           \A s \in Sessions : told'[s] = "stored" <=> told[s] = "stored"
    PROVE  UNCHANGED Contract!vars
<1>1. retentionPhase' = retentionPhase
  BY DEF retentionPhase, Phase
<1>2. retainedManifest' = retainedManifest
  BY DEF retainedManifest
<1>3. playableAudio' = playableAudio
  BY DEF playableAudio
<1>4. toldStored' = toldStored
  BY DEF toldStored
<1> QED
  BY <1>1, <1>2, <1>3, <1>4 DEF Contract!vars

(* The initial states are initial states of the contract. *)
LEMMA ContractInit == Init => Contract!Init
BY DEF Init, Contract!Init, retentionPhase, Phase, retainedManifest, playableAudio, toldStored


\* A step about one session changes the abstract state at that session only.
LEMMA OneSession ==
    ASSUME NEW s \in Sessions,
           \A x \in Sessions \ {s} :
               /\ row'[x] = row[x] /\ (x \in erasing' <=> x \in erasing)
               /\ segs'[x] = segs[x] /\ objects'[x] = objects[x]
    PROVE  /\ retentionPhase' = [retentionPhase EXCEPT ![s] = Phase(s)']
           /\ retainedManifest' = [retainedManifest EXCEPT ![s] = retainedManifest'[s]]
           /\ playableAudio' = [playableAudio EXCEPT ![s] = playableAudio'[s]]
<1>1. \A x \in Sessions \ {s} : Phase(x)' = Phase(x)
  BY DEF Phase
<1> QED
  BY <1>1 DEF retentionPhase, retainedManifest, playableAudio

(* Every step is a step of the contract or a stutter. *)
LEMMA ContractStep ==
    ASSUME Remote = {}, TypeInv, ExclusionInv, IntactInv, EraseInv, RefineInv, [Next]_vars
    PROVE  [Contract!Next]_(Contract!vars)
<1> DEFINE Quiet ==
        /\ UNCHANGED <<row, erasing>>
        /\ \A s \in Sessions :
              row[s] = "completed" => segs'[s] = segs[s] /\ objects'[s] = objects[s]
        /\ \A s \in Sessions : told'[s] = "stored" <=> told[s] = "stored"
<1>0. \A s \in Sessions :
          /\ row[s] = "completed" => hpc[s] \in AfterPcs
          /\ told[s] = "stored" => hpc[s] = "done"
          /\ row[s] \in {"none", "pending", "completed", "deleted"}
          /\ (row[s] \in {"none", "pending", "completed", "deleted"})'
  BY TypeStep DEF IntactInv, IntactOf, RefineInv, ToldStored, TypeInv, StoresTyped
<1>s. ASSUME Quiet PROVE [Contract!Next]_(Contract!vars)
  BY <1>s, Stutter
<1>1. ASSUME NEW s \in Sessions, Start(s) PROVE [Contract!Next]_(Contract!vars)
  <2>1. Quiet
    BY <1>0, <1>1 DEF Start, AfterPcs, Goto, stores, TypeInv, StoresTyped, HandlersTyped
  <2> QED
    BY <1>s, <2>1
<1>2. ASSUME NEW s \in Sessions, Cancel(s) PROVE [Contract!Next]_(Contract!vars)
  <2>1. Quiet
    BY <1>0, <1>2 DEF Cancel, AfterPcs, stores, TypeInv, StoresTyped, HandlersTyped
  <2> QED
    BY <1>s, <2>1
<1>3. ASSUME NEW s \in Sessions, ServeCreate(s) PROVE [Contract!Next]_(Contract!vars)
  <2>1. row[s] = "none" /\ s \notin erasing
    BY <1>3 DEF ServeCreate, ExclusionInv, RowAfterCreate, Early, RefineInv, RowOfErasing
  <2>2. UNCHANGED <<segs, objects, erasing, told>>
    BY <1>3 DEF ServeCreate
  <2>3. CASE row' = row
    BY <1>s, <2>2, <2>3
  <2>4. CASE row' = [row EXCEPT ![s] = "pending"]
    <3>1. \A x \in Sessions \ {s} :
             /\ row'[x] = row[x] /\ (x \in erasing' <=> x \in erasing)
             /\ segs'[x] = segs[x] /\ objects'[x] = objects[x]
      BY <2>2, <2>4 DEF TypeInv, StoresTyped
    <3>2. row'[s] = "pending"
      BY <2>4 DEF TypeInv, StoresTyped
    <3>3. Phase(s) = "absent" /\ Phase(s)' = "recording"
      BY <2>1, <2>2, <3>2 DEF Phase
    <3>4. \A x \in Sessions : row'[x] = "completed" <=> row[x] = "completed"
      BY <2>1, <3>1, <3>2
    <3>5. retainedManifest' = retainedManifest /\ playableAudio' = playableAudio
      BY <2>2, <3>4 DEF retainedManifest, playableAudio
    <3>6. toldStored' = toldStored
      BY <2>2 DEF toldStored
    <3>7. retentionPhase[s] = "absent" /\ retentionPhase' = [retentionPhase EXCEPT ![s] = "recording"]
      BY <3>1, <3>3, OneSession DEF retentionPhase
    <3> QED
      BY <3>5, <3>6, <3>7 DEF Contract!Next, Contract!Open
  <2> QED
    BY <1>3, <2>3, <2>4 DEF ServeCreate
<1>4. ASSUME NEW s \in Sessions, ResumeCreate(s) PROVE [Contract!Next]_(Contract!vars)
  <2>1. Quiet
    BY <1>0, <1>4 DEF ResumeCreate, AfterPcs, Goto, stores, TypeInv, StoresTyped,
       HandlersTyped
  <2> QED
    BY <1>s, <2>1
<1>5. ASSUME NEW s \in Sessions, Store(s) PROVE [Contract!Next]_(Contract!vars)
  <2>1. Quiet
    BY <1>0, <1>5 DEF Store, TakeSegment, AfterPcs, Goto, stores, TypeInv, StoresTyped,
       HandlersTyped
  <2> QED
    BY <1>s, <2>1
<1>6. ASSUME NEW s \in Sessions, Complete(s) PROVE [Contract!Next]_(Contract!vars)
  <2>1. Quiet
    BY <1>0, <1>6 DEF Complete, TakeSegment, AfterPcs, Goto, stores, TypeInv,
       StoresTyped, HandlersTyped
  <2> QED
    BY <1>s, <2>1
<1>7. ASSUME NEW s \in Sessions, Fail(s) PROVE [Contract!Next]_(Contract!vars)
  <2>1. Quiet
    BY <1>0, <1>7 DEF Fail, AfterPcs, Goto, stores, TypeInv, StoresTyped, HandlersTyped
  <2> QED
    BY <1>s, <2>1
<1>8. ASSUME NEW s \in Sessions, ServePut(s) PROVE [Contract!Next]_(Contract!vars)
  <2>1. Quiet
    BY <1>0, <1>8 DEF ServePut, AfterPcs, Goto, TypeInv, StoresTyped, HandlersTyped
  <2> QED
    BY <1>s, <2>1
<1>9. ASSUME NEW s \in Sessions, ResumePut(s) PROVE [Contract!Next]_(Contract!vars)
  <2>1. Quiet
    BY <1>0, <1>9 DEF ResumePut, AfterPcs, Goto, stores, TypeInv, StoresTyped,
       HandlersTyped
  <2> QED
    BY <1>s, <2>1
<1>10. ASSUME NEW s \in Sessions, ServeAdd(s) PROVE [Contract!Next]_(Contract!vars)
  <2>1. Quiet
    BY <1>0, <1>10 DEF ServeAdd, AfterPcs, Goto, TypeInv, StoresTyped, HandlersTyped
  <2> QED
    BY <1>s, <2>1
<1>11. ASSUME NEW s \in Sessions, ResumeAdd(s) PROVE [Contract!Next]_(Contract!vars)
  <2>1. Quiet
    BY <1>0, <1>11 DEF ResumeAdd, TakeSegment, AfterPcs, Goto, stores, TypeInv,
       StoresTyped, HandlersTyped
  <2> QED
    BY <1>s, <2>1
<1>12. ASSUME NEW s \in Sessions, ServeUndo(s) PROVE [Contract!Next]_(Contract!vars)
  <2>1. Quiet
    BY <1>0, <1>12 DEF ServeUndo, AfterPcs, Goto, TypeInv, StoresTyped, HandlersTyped
  <2> QED
    BY <1>s, <2>1
<1>13. ASSUME NEW s \in Sessions, ServeCommit(s) PROVE [Contract!Next]_(Contract!vars)
  <2>1. UNCHANGED <<segs, objects, erasing, told>>
    BY <1>13 DEF ServeCommit
  <2>2. CASE row' = row
    BY <1>s, <2>1, <2>2
  <2>3. CASE row[s] = "pending" /\ row' = [row EXCEPT ![s] = "completed"]
    <3>1. s \notin erasing /\ segs[s] \subseteq objects[s]
      <4>1. HandlerHolds(s) /\ hpc[s] \in BetweenPcs
        BY <1>13 DEF ServeCommit, HandlerHolds, LockedPcs, BetweenPcs
      <4> QED
        BY <4>1 DEF RefineInv, ErasingIsOver, IntactInv, IntactOf, Whole
    <3>2. \A x \in Sessions \ {s} :
             /\ row'[x] = row[x] /\ (x \in erasing' <=> x \in erasing)
             /\ segs'[x] = segs[x] /\ objects'[x] = objects[x]
      BY <2>1, <2>3 DEF TypeInv, StoresTyped
    <3>3. row'[s] = "completed"
      BY <2>3 DEF TypeInv, StoresTyped
    <3>4. Phase(s) = "recording" /\ Phase(s)' = "retained"
      BY <2>1, <2>3, <3>1, <3>3 DEF Phase
    <3>5. retainedManifest'[s] = segs[s] /\ playableAudio'[s] = segs[s]
      BY <2>1, <3>1, <3>3 DEF retainedManifest, playableAudio
    <3>6. retentionPhase[s] = "recording" /\ retentionPhase' = [retentionPhase EXCEPT ![s] = "retained"]
      BY <3>2, <3>4, OneSession DEF retentionPhase
    <3>7. /\ retainedManifest' = [retainedManifest EXCEPT ![s] = segs[s]]
          /\ playableAudio' = [playableAudio EXCEPT ![s] = segs[s]]
      BY <3>2, <3>5, OneSession
    <3>8. segs[s] \in SUBSET Segments /\ toldStored' = toldStored
      BY <2>1 DEF toldStored, TypeInv, StoresTyped
    <3> QED
      BY <3>6, <3>7, <3>8 DEF Contract!Next, Contract!Retain
  <2> QED
    BY <1>13, <2>2, <2>3 DEF ServeCommit
<1>14. ASSUME NEW s \in Sessions, ResumeCommit(s) PROVE [Contract!Next]_(Contract!vars)
  <2>1. Quiet
    BY <1>0, <1>14 DEF ResumeCommit, AfterPcs, Goto, stores, TypeInv, StoresTyped,
       HandlersTyped
  <2> QED
    BY <1>s, <2>1
<1>15. ASSUME NEW s \in Sessions, ServeRead(s) PROVE [Contract!Next]_(Contract!vars)
  <2>1. Quiet
    BY <1>0, <1>15 DEF ServeRead, AfterPcs, Goto, stores, TypeInv, StoresTyped,
       HandlersTyped
  <2> QED
    BY <1>s, <2>1
<1>16. ASSUME NEW s \in Sessions, ResumeRead(s) PROVE [Contract!Next]_(Contract!vars)
  <2>1. UNCHANGED <<row, segs, objects, erasing>>
    BY <1>16 DEF ResumeRead, stores
  <2>2. CASE hpc[s] = "read_ok" /\ told' = [told EXCEPT ![s] = "stored"]
    <3>1. retentionPhase' = retentionPhase /\ retainedManifest' = retainedManifest /\ playableAudio' = playableAudio
      BY <2>1 DEF retentionPhase, Phase, retainedManifest, playableAudio
    <3>2. toldStored' = toldStored \cup {s}
      BY <2>2 DEF toldStored, TypeInv, HandlersTyped
    <3>3. row[s] \in {"completed", "deleted"}
      BY <2>2 DEF RefineInv, CommittedRow
    <3>4. retentionPhase[s] \in {"retained", "erasing", "erased"}
      BY <3>3 DEF retentionPhase, Phase
    <3> QED
      BY <3>1, <3>2, <3>4 DEF Contract!Next, Contract!Acknowledge
  <2>3. CASE told' = told \/ told' = [told EXCEPT ![s] = "unstored"]
    <3>1. told[s] # "stored"
      BY <1>16, <1>0 DEF ResumeRead
    <3>2. \A x \in Sessions : told'[x] = "stored" <=> told[x] = "stored"
      BY <2>3, <3>1 DEF TypeInv, HandlersTyped
    <3> QED
      BY <1>s, <2>1, <3>2
  <2> QED
    BY <1>16, <2>2, <2>3 DEF ResumeRead
<1>17. ASSUME NEW s \in Sessions, Cleanup(s) PROVE [Contract!Next]_(Contract!vars)
  <2>1. Quiet
    BY <1>0, <1>17 DEF Cleanup, AfterPcs, Goto, stores, TypeInv, StoresTyped,
       HandlersTyped
  <2> QED
    BY <1>s, <2>1
<1>18. ASSUME NEW s \in Sessions, FinishCleanup(s) PROVE [Contract!Next]_(Contract!vars)
  <2>1. Quiet
    BY <1>0, <1>18 DEF FinishCleanup, AfterPcs, Goto, stores, TypeInv, StoresTyped,
       HandlersTyped
  <2> QED
    BY <1>s, <2>1
<1>19. ASSUME NEW d \in Deleters, BeginErase(d) PROVE [Contract!Next]_(Contract!vars)
  <2>1. Quiet
    BY <1>0, <1>19 DEF BeginErase, AfterPcs, stores, handlers, TypeInv, StoresTyped,
       HandlersTyped
  <2> QED
    BY <1>s, <2>1
<1>20. ASSUME NEW a \in Actors, AcquireErase(a) PROVE [Contract!Next]_(Contract!vars)
  <2>1. Quiet
    BY <1>0, <1>20 DEF AcquireErase, AfterPcs, stores, handlers, TypeInv, StoresTyped,
       HandlersTyped
  <2> QED
    BY <1>s, <2>1
<1>21. ASSUME NEW a \in Actors, ServeManifest(a) PROVE [Contract!Next]_(Contract!vars)
  <2>1. UNCHANGED <<row, segs, objects, told>>
    BY <1>21 DEF ServeManifest, stores, handlers
  <2>2. CASE erasing' = erasing
    BY <1>s, <2>1, <2>2
  <2>3. CASE erasing' = erasing \cup {target[a]} /\ target[a] \notin erasing
    <3>1. PICK s \in Sessions : s = target[a]
      BY DEF TypeInv, ErasersTyped
    <3>2. row[s] \in {"pending", "completed"}
      BY <1>21, <1>0, <2>3, <3>1 DEF ServeManifest, RefineInv, RowOfErase
    <3>3. \A x \in Sessions \ {s} :
             /\ row'[x] = row[x] /\ (x \in erasing' <=> x \in erasing)
             /\ segs'[x] = segs[x] /\ objects'[x] = objects[x]
      BY <2>1, <2>3, <3>1
    <3>4. Phase(s) \in {"recording", "retained"} /\ Phase(s)' = "erasing"
      BY <2>1, <2>3, <3>1, <3>2 DEF Phase
    <3>5. retentionPhase[s] \in {"recording", "retained"} /\ retentionPhase' = [retentionPhase EXCEPT ![s] = "erasing"]
      BY <3>1, <3>3, <3>4, OneSession DEF retentionPhase
    <3>6. retainedManifest' = retainedManifest /\ playableAudio' = playableAudio /\ toldStored' = toldStored
      BY <2>1 DEF retainedManifest, playableAudio, toldStored
    <3> QED
      BY <3>1, <3>5, <3>6 DEF Contract!Next, Contract!StartErase
  <2> QED
    BY <1>21, <2>2, <2>3 DEF ServeManifest
<1>22. ASSUME NEW a \in Actors, ServeObjects(a) PROVE [Contract!Next]_(Contract!vars)
  <2>0. PICK s \in Sessions : s = target[a]
    BY DEF TypeInv, ErasersTyped
  <2>1. s \in erasing
    BY <1>22, <2>0 DEF ServeObjects, IntactInv, ErasingKnown, TypeInv, ErasersTyped
  <2>2. UNCHANGED <<row, segs, erasing, told>>
    BY <1>22 DEF ServeObjects, handlers
  <2>3. /\ objects'[s] \subseteq objects[s]
        /\ \A x \in Sessions \ {s} : objects'[x] = objects[x]
    BY <1>22, <2>0 DEF ServeObjects, TypeInv, StoresTyped
  <2>4. CASE row[s] # "completed"
    BY <1>s, <2>2, <2>3, <2>4
  <2>5. CASE row[s] = "completed"
    <3>1. retentionPhase[s] = "erasing"
      BY <2>1, <2>5 DEF retentionPhase, Phase
    <3>2. retentionPhase' = retentionPhase /\ retainedManifest' = retainedManifest /\ toldStored' = toldStored
      BY <2>2 DEF retentionPhase, Phase, retainedManifest, toldStored
    <3>3. playableAudio' = [playableAudio EXCEPT ![s] = playableAudio'[s]]
      BY <2>1, <2>2, <2>3, OneSession
    <3>4. playableAudio'[s] \in SUBSET playableAudio[s]
      BY <2>1, <2>2, <2>3, <2>5 DEF playableAudio
    <3> QED
      BY <2>1, <3>1, <3>2, <3>3, <3>4 DEF Contract!Next, Contract!RemoveAudio
  <2> QED
    BY <2>4, <2>5
<1>23. ASSUME NEW a \in Actors, ServeRow(a) PROVE [Contract!Next]_(Contract!vars)
  <2>0. PICK s \in Sessions : s = target[a]
    BY DEF TypeInv, ErasersTyped
  <2>1. s \in erasing /\ epc[a] = "row"
    BY <1>23, <2>0 DEF ServeRow, IntactInv, ErasingKnown, TypeInv, ErasersTyped
  <2>2. UNCHANGED <<objects, erasing, told>>
    BY <1>23 DEF ServeRow, handlers
  <2>3. CASE row' = row /\ segs' = segs
    BY <1>s, <2>2, <2>3
  <2>4. CASE row' = [row EXCEPT ![s] = "deleted"] /\ segs' = [segs EXCEPT ![s] = {}]
    <3>1. segs[s] \cap objects[s] = {} /\ row[s] # "none"
      BY <2>0, <2>1 DEF EraseInv, ManifestKnown, RefineInv, RowOfErasing
    <3>2. \A x \in Sessions \ {s} :
             /\ row'[x] = row[x] /\ (x \in erasing' <=> x \in erasing)
             /\ segs'[x] = segs[x] /\ objects'[x] = objects[x]
      BY <2>2, <2>4 DEF TypeInv, StoresTyped
    <3>3. row'[s] = "deleted" /\ segs'[s] = {}
      BY <2>1, <2>4 DEF TypeInv, StoresTyped
    <3>4. retainedManifest'[s] = {} /\ playableAudio'[s] = {} /\ playableAudio[s] = {}
      BY <2>1, <3>1, <3>3 DEF retainedManifest, playableAudio
    <3>5. /\ retainedManifest' = [retainedManifest EXCEPT ![s] = {}]
          /\ playableAudio' = [playableAudio EXCEPT ![s] = {}]
          /\ retentionPhase' = [retentionPhase EXCEPT ![s] = "erased"]
      <4>1. Phase(s)' = "erased"
        BY <3>3 DEF Phase
      <4> QED
        BY <3>2, <3>4, <4>1, OneSession
    <3>6. playableAudio' = playableAudio
      BY <2>1, <3>4, <3>5 DEF playableAudio
    <3>7. toldStored' = toldStored
      BY <2>2 DEF toldStored
    <3>8. CASE row[s] = "deleted"
      <4>1. retainedManifest[s] = {} /\ retentionPhase[s] = "erased"
        BY <2>1, <3>8 DEF retainedManifest, retentionPhase, Phase
      <4>2. retainedManifest' = retainedManifest /\ retentionPhase' = retentionPhase
        BY <2>1, <3>5, <4>1 DEF retainedManifest, retentionPhase
      <4> QED
        BY <3>6, <3>7, <4>2 DEF Contract!vars
    <3>9. CASE row[s] # "deleted"
      <4>1. retentionPhase[s] = "erasing"
        BY <1>0, <2>1, <3>1, <3>9 DEF retentionPhase, Phase
      <4> QED
        BY <2>1, <3>4, <3>5, <3>6, <3>7, <4>1 DEF Contract!Next, Contract!RemoveRecord
    <3> QED
      BY <3>8, <3>9
  <2> QED
    BY <1>23, <2>0, <2>3, <2>4 DEF ServeRow
<1>24. CASE Close
  <2>1. Quiet
    BY <1>0, <1>24 DEF Close, AfterPcs, stores, handlers, TypeInv, StoresTyped,
       HandlersTyped
  <2> QED
    BY <1>s, <2>1
<1>25. CASE Restart
  <2>1. Quiet
    BY <1>0, <1>25 DEF Restart, AfterPcs, stores, TypeInv, StoresTyped, HandlersTyped
  <2> QED
    BY <1>s, <2>1
<1>26. CASE UNCHANGED vars
  BY <1>s, <1>26 DEF vars, stores, handlers
<1> QED
  BY <1>1, <1>2, <1>3, <1>4, <1>5, <1>6, <1>7, <1>8, <1>9, <1>10, <1>11, <1>12, <1>13,
     <1>14, <1>15, <1>16, <1>17, <1>18, <1>19, <1>20, <1>21, <1>22, <1>23, <1>24, <1>25,
     <1>26 DEF Next, HandlerStep, EraseStep

\* Every step of the service is a step of the contract or changes nothing the contract
\* speaks of: with every failed call, cancellation, close and restart, retention keeps
\* what RetentionContract promises.
THEOREM Refinement ==
    ASSUME Remote = {}
    PROVE  Spec => ImplementsContract
<1>1. TypeInv /\ ExclusionInv /\ IntactInv /\ EraseInv /\ RefineInv /\ [Next]_vars
          => [Contract!Next]_(Contract!vars)
  BY ContractStep
<1>2. Spec => []TypeInv /\ []ExclusionInv
  BY TypeInit, TypeStep, ExclusionInit, ExclusionStep, PTL DEF Spec
<1>3. Spec => []IntactInv /\ []EraseInv /\ []RefineInv
  BY <1>2, IntactInit, IntactStep, EraseInit, EraseStepInv, RefineInit, RefineInvStep, PTL
     DEF Spec
<1> QED
  BY <1>1, <1>2, <1>3, ContractInit, PTL DEF Spec, ImplementsContract, Contract!Spec
==============================================================================
