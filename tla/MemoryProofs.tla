---------------------------- MODULE MemoryProofs ----------------------------
(***************************************************************************)
(* Proofs about Memory, for any sizes, device, ceiling and behaviour of    *)
(* other programs.                                                         *)
(***************************************************************************)
EXTENDS Memory, TLAPS

\* The device memory of a set of models.
Weight(m, S) == IF m \in S THEN Size[m] ELSE 0
Used(S) == Weight("ocr", S) + Weight("translation", S)

\* The models that were loaded by an accepted load.
Kept == IF pc \in {"installed", "budget", "judge"}
        THEN resident \ {target} ELSE resident

\* What the engine holds is what its models take, and the place of the thread
\* says whether the model it loads is among them.
OwnInv ==
  /\ own = Used(resident) + (IF pc = "created" THEN Size[target] ELSE 0)
  /\ pc \in {"create", "created"} => target \notin resident
  /\ pc = "evict" => target \notin resident
  /\ pc = "unloaded" /\ after = "create" => target \notin resident
  /\ pc \in {"installed", "budget", "judge"} => target \in resident

\* The peak covers the load that is being judged, and the kept models are
\* within both the ceiling and the peak.
BudgetInv ==
  steady =>
    /\ reading.reliable
    /\ pc = "judge" => own + checked - OthersAtStart <= reading.peak
    /\ Kept # {} => /\ Used(Kept) + granted - OthersAtStart <= reading.peak
                    /\ Maximum # 0 =>
                         Used(Kept) <= Maximum + OthersAtStart - granted

IInv == TypeOK /\ OwnInv /\ BudgetInv

-----------------------------------------------------------------------------

LEMMA SizeFacts == /\ Size["ocr"] \in Nat /\ Size["translation"] \in Nat
                   /\ \A m \in Models : Size[m] \in Nat
  BY SizeAssumption DEF Models

\* A set of models without m takes what it takes with m, less m's size.
LEMMA UsedWithout ==
  ASSUME NEW S \in SUBSET Models, NEW m \in S
  PROVE  /\ Used(S) \in Nat
         /\ Used(S \ {m}) = Used(S) - Size[m]
         /\ Used(S \ {m}) \in Nat
  BY SizeFacts DEF Used, Weight, Models

LEMMA UsedWith ==
  ASSUME NEW S \in SUBSET Models, NEW m \in Models \ S
  PROVE  /\ Used(S) \in Nat
         /\ Used(S \cup {m}) = Used(S) + Size[m]
         /\ (S \cup {m}) \ {m} = S
  BY SizeFacts DEF Used, Weight, Models

\* A refresh keeps the types; a reliable one after a reliable one keeps the
\* baseline, never lowers the peak, and the peak covers the present use.
LEMMA RefreshFacts ==
  ASSUME TypeOK, RefreshMemory
  PROVE  /\ reading' \in ReadingType /\ steady' \in BOOLEAN
         /\ steady' => steady
         /\ steady' => reading'.reliable
         /\ steady' /\ reading.reliable =>
              /\ reading'.baseline = reading.baseline
              /\ reading.peak <= reading'.peak
              /\ own + others - (Total - reading.baseline) <= reading'.peak
  <1>1. PICK ok \in Readings :
          /\ reading' = IF ok THEN Reread(reading, Total - own - others)
                        ELSE [reading EXCEPT !.reliable = FALSE]
          /\ steady' = (steady /\ ok)
    BY DEF RefreshMemory
  <1> DEFINE free == Total - own - others
  <1>2. free \in 0..Total /\ ok \in BOOLEAN
    BY OtherAssumption, ReadingsAssumption, DeviceAssumption DEF TypeOK
  <1>3. CASE ok
    <2>1. reading' = Reread(reading, free) /\ steady' = steady
      BY <1>1, <1>3 DEF TypeOK
    <2> HIDE DEF free
    <2>2. /\ reading' \in ReadingType /\ reading'.reliable
          /\ reading.reliable =>
               /\ reading'.baseline = reading.baseline
               /\ reading.peak <= reading'.peak
               /\ reading.baseline - free <= reading'.peak
      BY <2>1, <1>2, DeviceAssumption
      DEF TypeOK, ReadingType, Reread, Max2
    <2>3. reading.reliable =>
            own + others - (Total - reading.baseline) = reading.baseline - free
      BY <1>2, DeviceAssumption, OtherAssumption
      DEF free, TypeOK, ReadingType
    <2> QED
      BY <2>1, <2>2, <2>3 DEF TypeOK
  <1>4. CASE ~ok
    <2>1. steady' = FALSE /\ reading' = [reading EXCEPT !.reliable = FALSE]
      BY <1>1, <1>2, <1>4
    <2> QED
      BY <2>1 DEF TypeOK, ReadingType
  <1> QED
    BY <1>2, <1>3, <1>4

LEMMA InitInv == Init => IInv
  <1> SUFFICES ASSUME Init PROVE IInv
    OBVIOUS
  <1>1. PICK ok \in Readings :
          /\ reading = IF ok THEN Reread(NoReading, Total - others)
                       ELSE NoReading
          /\ steady = ok
    BY DEF Init
  <1>2. /\ ok \in BOOLEAN /\ others \in 0..Total
        /\ Total - others \in 0..Total
    BY OtherAssumption, ReadingsAssumption, DeviceAssumption DEF Init
  <1>3. reading \in ReadingType /\ (steady => reading.reliable)
    BY <1>1, <1>2, DeviceAssumption DEF ReadingType, Reread, NoReading, Max2
  <1>4. TypeOK
    BY <1>1, <1>2, <1>3, DeviceAssumption DEF Init, TypeOK, Points, Models
  <1>5. OwnInv
    BY DEF Init, OwnInv, Used, Weight
  <1>6. BudgetInv
    BY <1>3 DEF Init, BudgetInv, Kept
  <1> QED
    BY <1>4, <1>5, <1>6 DEF IInv

-----------------------------------------------------------------------------

\* An unload of a model that is there, or of the one that is refused.
LEMMA UnloadStep ==
  ASSUME IInv, NEW m \in resident, NEW p \in {"idle", "create", "trim"},
         Unload(m, p),
         pc \in {"evict", "trim"} \/ (pc = "judge" /\ m = target),
         p = "create" => target \notin resident
  PROVE  IInv'
  <1> USE DEF IInv
  <1>1. m \in Models /\ Size[m] \in Nat
    BY SizeFacts DEF TypeOK
  <1>2. /\ Used(resident) \in Nat
        /\ Used(resident') = Used(resident) - Size[m]
        /\ Used(resident') \in Nat
    BY UsedWithout DEF TypeOK, Unload
  <1>3. own = Used(resident) /\ own' = Used(resident')
    BY <1>1, <1>2 DEF OwnInv, Unload
  <1>4. TypeOK'
    BY <1>1, <1>2, <1>3, DeviceAssumption, OtherAssumption
    DEF TypeOK, Unload, Goto, Points, historyVars
  <1>5. OwnInv'
    BY <1>2, <1>3 DEF OwnInv, Unload, Goto, TypeOK
  <1>6. ASSUME steady', Kept' # {}
        PROVE  Kept # {} /\ Used(Kept') \in Nat /\ Used(Kept) \in Nat
               /\ Used(Kept') <= Used(Kept)
    <2>1. Kept' = resident'
      BY DEF Kept, Unload, Goto
    <2>2. CASE pc = "judge"
      BY <2>1, <2>2, <1>2, <1>6 DEF Kept, Unload
    <2>3. CASE pc \in {"evict", "trim"}
      <3>1. Kept = resident /\ Kept # {}
        BY <2>3 DEF Kept
      <3> QED
        BY <2>1, <3>1, <1>1, <1>2
    <2> QED
      BY <2>2, <2>3
  <1>7. BudgetInv'
    <2> SUFFICES ASSUME steady' PROVE BudgetInv'
      BY DEF BudgetInv
    <2>1. steady /\ reading' = reading /\ granted' = granted
      BY DEF Unload, historyVars
    <2>2. pc' # "judge" /\ OthersAtStart' = OthersAtStart
      BY DEF Unload, Goto, OthersAtStart
    <2>3. OthersAtStart \in Int /\ granted \in Int /\ reading.peak \in Int
      BY DeviceAssumption DEF OthersAtStart, TypeOK, ReadingType
    <2>4. reading'.reliable
      BY <2>1 DEF BudgetInv
    <2>5. ASSUME Kept' # {}
          PROVE  /\ Used(Kept') + granted - OthersAtStart <= reading.peak
                 /\ Maximum # 0 =>
                      Used(Kept') <= Maximum + OthersAtStart - granted
      <3>1. /\ Used(Kept) + granted - OthersAtStart <= reading.peak
            /\ Maximum # 0 => Used(Kept) <= Maximum + OthersAtStart - granted
        BY <1>6, <2>1, <2>5 DEF BudgetInv
      <3>2. Used(Kept') \in Nat /\ Used(Kept) \in Nat
            /\ Used(Kept') <= Used(Kept)
        BY <1>6, <2>5
      <3> HIDE DEF IInv
      <3> QED
        BY <3>1, <3>2, <2>3, DeviceAssumption
    <2> QED
      BY <2>1, <2>2, <2>4, <2>5 DEF BudgetInv
  <1> QED
    BY <1>4, <1>5, <1>7

\* A refresh, wherever it is made: the place moves to p, and a judge's check is
\* covered by the peak it has just made.
LEMMA RefreshStep ==
  ASSUME IInv, RefreshMemory,
         UNCHANGED <<sequential, deviceVars, resident, target, after, granted>>,
         pc' \in Points, Kept' = Kept, OwnInv',
         \/ UNCHANGED <<pc, checked>>
         \/ pc' # "judge" /\ UNCHANGED checked
         \/ checked' = others
  PROVE  IInv'
  <1> USE DEF IInv
  <1>1. /\ own \in 0..Total /\ others \in 0..Total /\ Total \in Nat
        /\ checked \in 0..Total /\ granted \in 0..Total
        /\ Maximum \in Nat /\ reading \in ReadingType
    BY DeviceAssumption, OtherAssumption DEF TypeOK
  <1>2. TypeOK'
    BY <1>1, RefreshFacts DEF TypeOK, deviceVars
  <1>3. BudgetInv'
    <2> SUFFICES ASSUME steady' PROVE BudgetInv'
      BY DEF BudgetInv
    <2>1. /\ steady /\ reading.reliable /\ reading'.reliable
          /\ reading'.baseline = reading.baseline
          /\ reading.peak <= reading'.peak
          /\ own + others - OthersAtStart <= reading'.peak
      BY RefreshFacts DEF BudgetInv, OthersAtStart
    <2>2. OthersAtStart' = OthersAtStart /\ OthersAtStart \in Int
      BY <1>1, <2>1 DEF OthersAtStart, ReadingType
    <2>3. reading.peak \in Int /\ reading'.peak \in Int
      BY <1>1, RefreshFacts DEF ReadingType
    <2>4. pc' = "judge" => own' + checked' - OthersAtStart' <= reading'.peak
      BY <1>1, <2>1, <2>2, <2>3 DEF BudgetInv, deviceVars
    <2>5. Used(Kept') = Used(Kept) /\ granted' = granted
      BY DEF Used, Weight
    <2>6. Kept \in SUBSET Models
      BY DEF Kept, TypeOK
    <2>7. Used(Kept) \in Nat
      BY <2>6, SizeFacts DEF Used, Weight
    <2> QED
      BY <1>1, <2>1, <2>2, <2>3, <2>4, <2>5, <2>7 DEF BudgetInv
  <1> QED
    BY <1>2, <1>3

LEMMA StepInv == IInv /\ [Next]_vars => IInv'
  <1> SUFFICES ASSUME IInv, [Next]_vars PROVE IInv'
    OBVIOUS
  <1> USE DEF IInv
  <1>t. /\ own \in 0..Total /\ others \in 0..Total /\ Total \in Nat
        /\ checked \in 0..Total /\ granted \in 0..Total
        /\ Maximum \in Nat /\ reading \in ReadingType
        /\ resident \in SUBSET Models /\ target \in Models
        /\ Size[target] \in Nat /\ Used(resident) \in Nat
        /\ OthersAtStart \in Int /\ reading.peak \in Nat
    BY DeviceAssumption, OtherAssumption, SizeFacts
    DEF TypeOK, Used, Weight, OthersAtStart, ReadingType
  <1>1. ASSUME NEW m \in Models, LoadBegin(m) PROVE IInv'
    <2>1. TypeOK'
      BY <1>1 DEF TypeOK, LoadBegin, Goto, Points, deviceVars, historyVars
    <2>2. OwnInv'
      BY <1>1 DEF OwnInv, LoadBegin, Goto, deviceVars, Used, Weight
    <2>3. BudgetInv'
      BY <1>1 DEF BudgetInv, LoadBegin, Goto, deviceVars, historyVars, Kept,
                  OthersAtStart, Used, Weight
    <2> QED
      BY <2>1, <2>2, <2>3
  <1>2. ASSUME NEW m \in Models, Trim(m) PROVE IInv'
    BY <1>2, UnloadStep DEF Trim
  <1>3. CASE Evict
    <2>1. Other(target) \in resident /\ Unload(Other(target), "create")
          /\ target \notin resident /\ pc = "evict"
      BY <1>3 DEF Evict, Evicts, OwnInv
    <2> QED
      BY <2>1, UnloadStep
  <1>4. CASE EvictNone
    <2>1. TypeOK'
      BY <1>4 DEF TypeOK, EvictNone, Goto, Points, deviceVars, historyVars
    <2>2. OwnInv'
      BY <1>4 DEF OwnInv, EvictNone, Goto, deviceVars, Used, Weight
    <2>3. BudgetInv'
      BY <1>4 DEF BudgetInv, EvictNone, Goto, deviceVars, historyVars, Kept,
                  OthersAtStart, Used, Weight
    <2> QED
      BY <2>1, <2>2, <2>3
  <1>5. CASE Create
    <2>1. TypeOK'
      BY <1>t, <1>5 DEF TypeOK, Create, Goto, Points, historyVars
    <2>2. OwnInv'
      BY <1>t, <1>5 DEF OwnInv, Create, Goto, Used, Weight
    <2>3. BudgetInv'
      BY <1>5 DEF BudgetInv, Create, Goto, historyVars, Kept,
                  OthersAtStart, Used, Weight
    <2> QED
      BY <2>1, <2>2, <2>3
  <1>6. CASE CreateFails
    <2>1. own' = Used(resident) /\ own' \in 0..own
      BY <1>t, <1>6 DEF CreateFails, OwnInv
    <2>2. TypeOK'
      BY <1>t, <1>6, <2>1 DEF TypeOK, CreateFails, Goto, Points, historyVars
    <2>3. OwnInv'
      BY <1>t, <1>6, <2>1 DEF OwnInv, CreateFails, Goto, Used, Weight
    <2>4. BudgetInv'
      BY <1>6 DEF BudgetInv, CreateFails, Goto, historyVars, Kept,
                  OthersAtStart, Used, Weight
    <2> QED
      BY <2>2, <2>3, <2>4
  <1>7. CASE Install
    <2>1. /\ target \in Models \ resident /\ resident' = resident \cup {target}
          /\ pc = "created" /\ pc' = "installed"
          /\ UNCHANGED <<sequential, own, others, target, after, reading,
                         steady, checked, granted>>
      BY <1>7 DEF OwnInv, TypeOK, Install, Goto, deviceVars, historyVars
    <2>2. Used(resident') = Used(resident) + Size[target] /\ Kept' = Kept
      BY <2>1, UsedWith, <1>t DEF Kept
    <2>3. TypeOK'
      BY <2>1 DEF TypeOK, Points
    <2>4. OwnInv'
      BY <1>t, <2>1, <2>2 DEF OwnInv
    <2>5. Used(Kept') = Used(Kept) /\ OthersAtStart' = OthersAtStart
      BY <2>1, <2>2 DEF Used, Weight, OthersAtStart
    <2>6. BudgetInv'
      BY <2>1, <2>2, <2>5 DEF BudgetInv
    <2> QED
      BY <2>3, <2>4, <2>6
  <1>8. CASE Measure
    <2>1. OwnInv' /\ Kept' = Kept
      BY <1>8 DEF OwnInv, Measure, Goto, deviceVars, Used, Weight, Kept
    <2> QED
      BY <1>8, <2>1, RefreshStep
      DEF Measure, Goto, Points, historyVars
  <1>9. CASE MeasureBudget
    <2>1. OwnInv' /\ Kept' = Kept
      BY <1>9 DEF OwnInv, MeasureBudget, Goto, deviceVars, Used, Weight, Kept
    <2> QED
      BY <1>9, <2>1, RefreshStep DEF MeasureBudget, Goto, Points
  <1>10. CASE Accept
    <2>1. TypeOK'
      BY <1>10 DEF TypeOK, Accept, Goto, Points, deviceVars
    <2>2. OwnInv'
      BY <1>10 DEF OwnInv, Accept, Goto, deviceVars, Used, Weight
    <2>3. /\ Kept' = resident /\ Used(Kept') = own /\ granted' = checked
          /\ OthersAtStart' = OthersAtStart /\ UNCHANGED <<reading, steady>>
          /\ pc = "judge" /\ pc' = "idle" /\ ~Over(reading)
      BY <1>t, <1>10 DEF Accept, Goto, Kept, OwnInv, OthersAtStart, deviceVars,
                         Used, Weight
    <2>4. BudgetInv'
      BY <1>t, <2>3 DEF BudgetInv, Over
    <2> QED
      BY <2>1, <2>2, <2>4
  <1>11. CASE Refuse
    BY <1>11, UnloadStep DEF Refuse, OwnInv
  <1>12. CASE Unloaded
    <2>1. OwnInv' /\ Kept' = Kept
      BY <1>12 DEF OwnInv, Unloaded, Goto, deviceVars, Used, Weight, Kept, TypeOK
    <2> QED
      BY <1>12, <2>1, RefreshStep
      DEF Unloaded, Goto, Points, historyVars, TypeOK
  <1>13. CASE TrimBegin
    <2>1. TypeOK'
      BY <1>13 DEF TypeOK, TrimBegin, Goto, Points, deviceVars, historyVars
    <2>2. OwnInv'
      BY <1>13 DEF OwnInv, TrimBegin, Goto, deviceVars, Used, Weight
    <2>3. BudgetInv'
      BY <1>13 DEF BudgetInv, TrimBegin, Goto, deviceVars, historyVars, Kept,
                   OthersAtStart, Used, Weight
    <2> QED
      BY <2>1, <2>2, <2>3
  <1>14. CASE TrimEnd
    <2>1. TypeOK'
      BY <1>14 DEF TypeOK, TrimEnd, Goto, Points, deviceVars, historyVars
    <2>2. OwnInv'
      BY <1>14 DEF OwnInv, TrimEnd, Goto, deviceVars, Used, Weight
    <2>3. BudgetInv'
      BY <1>14 DEF BudgetInv, TrimEnd, Goto, deviceVars, historyVars, Kept,
                   OthersAtStart, Used, Weight
    <2> QED
      BY <2>1, <2>2, <2>3
  <1>15. CASE MemoryInfo
    <2>1. OwnInv' /\ Kept' = Kept
      BY <1>15 DEF OwnInv, MemoryInfo, deviceVars, loadVars, Used, Weight, Kept
    <2> QED
      BY <1>15, <2>1, RefreshStep
      DEF MemoryInfo, loadVars, historyVars, TypeOK
  <1>16. CASE OthersChange
    <2>1. TypeOK'
      BY <1>16 DEF TypeOK, OthersChange, loadVars, historyVars
    <2>2. OwnInv'
      BY <1>16 DEF OwnInv, OthersChange, loadVars, Used, Weight
    <2>3. BudgetInv'
      BY <1>16 DEF BudgetInv, OthersChange, loadVars, historyVars, Kept,
                   OthersAtStart, Used, Weight
    <2> QED
      BY <2>1, <2>2, <2>3
  <1>17. CASE UNCHANGED vars
    <2>1. TypeOK'
      BY <1>17 DEF TypeOK, vars, deviceVars, loadVars, historyVars
    <2>2. OwnInv' /\ BudgetInv'
      BY <1>17 DEF OwnInv, BudgetInv, vars, deviceVars, loadVars, historyVars,
                   Kept, OthersAtStart, Used, Weight
    <2> QED
      BY <2>1, <2>2
  <1> QED
    BY <1>1, <1>2, <1>3, <1>4, <1>5, <1>6, <1>7, <1>8, <1>9, <1>10, <1>11,
       <1>12, <1>13, <1>14, <1>15, <1>16, <1>17 DEF Next

-----------------------------------------------------------------------------

\* The inductive invariant: what the engine holds, which models are accounted
\* for, and that the peak covers them (refresh_memory, over_vram_budget).
THEOREM InvariantHolds == Spec => []IInv
  BY InitInv, StepInv, PTL DEF Spec

\* Every variable has its type: no unsigned difference of the accounting wraps.
THEOREM TypeCorrect == Spec => []TypeOK
  <1>1. IInv => TypeOK
    BY DEF IInv
  <1> QED
    BY <1>1, InvariantHolds, PTL

\* While every reading is reliable, the models that stay loaded after a load's
\* budget check are within the ceiling, whatever memory_info reads in between.
THEOREM CeilingIsEnforced == Spec => []CeilingEnforced
  <1>1. IInv => CeilingEnforced
    <2> SUFFICES ASSUME IInv, Maximum # 0, steady, pc = "idle", resident # {}
                 PROVE  own <= Maximum + OthersAtStart - granted
      BY DEF CeilingEnforced
    <2>1. Kept = resident /\ own = Used(resident)
      BY SizeFacts DEF IInv, OwnInv, Kept, Used, Weight
    <2> QED
      BY <2>1 DEF IInv, BudgetInv
  <1> QED
    BY <1>1, InvariantHolds, PTL

\* The peak that memory_info reports covers every model that is still loaded.
THEOREM PeakCovers == Spec => []PeakCoversLoaded
  <1>1. IInv => PeakCoversLoaded
    <2> SUFFICES ASSUME IInv, steady, pc = "idle", resident # {}
                 PROVE  reading.peak >= own + granted - OthersAtStart
      BY DEF PeakCoversLoaded
    <2>1. Kept = resident /\ own = Used(resident)
      BY SizeFacts DEF IInv, OwnInv, Kept, Used, Weight
    <2>2. /\ reading.peak \in Int /\ own \in Int /\ granted \in Int
          /\ OthersAtStart \in Int
      BY DeviceAssumption DEF IInv, TypeOK, ReadingType, OthersAtStart
    <2> QED
      BY <2>1, <2>2 DEF IInv, BudgetInv
  <1> QED
    BY <1>1, InvariantHolds, PTL

=============================================================================
