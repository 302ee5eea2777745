---------------------------- MODULE EngineProofs ----------------------------
(***************************************************************************)
(* Proofs about Engine, for any threads, configurations and bounds: its    *)
(* type invariant, that one model is in memory at a time, that no native   *)
(* object is leaked or left dangling, that the text is called back exactly *)
(* when a call succeeds, and that the engine implements EngineService:     *)
(* each of its steps is one of the service or one that no client can see.  *)
(***************************************************************************)
EXTENDS EngineRefinement, FiniteSetTheorems, TLAPS

-----------------------------------------------------------------------------
(* The inductive invariant.                                                *)

\* Who is inside, and for what.
HolderInv ==
  /\ holder = NoClient <=> pc = "free"
  /\ holder = Trimmer <=> pc = "trim"
  /\ pc \in Points <=> op \in Calls
  /\ pc \notin Points => told = 0

\* Which points the calls go through.
PathInv ==
  /\ pc \in {"furigana", "detect", "recognize"} => op = "furigana"
  /\ pc \in {"load", "alloc", "budget"} => op # "furigana"
  /\ pc \in {"prepare", "segment", "check", "prompt", "decode"}
       => op \in {"ocr", "translate"}
  /\ pc \in {"deliver", "told"} => op \in Inference
  /\ pc = "told" => told = 1
  /\ told = 1 => pc \in {"told", "leave"}

\* What a call that is about to return says.
OutcomeInv ==
  pc = "leave" => /\ outcome # "BUSY"
                  /\ outcome = "CANCELLED" => cancelRequested

\* The parts of a model that is being loaded are the first ones it needs, and no
\* other of its kind is there.
Prefixes(m) == {{}, {"weights"}, {"weights", "context"}, PartSet(m)}

BuildingInv == pc = "alloc" => /\ building \in Prefixes(Target)
                               /\ Target \notin resident

\* In sequential mode there is one resident model, and it is the target of the
\* load in progress.
SequentialInv ==
  flags["sequential"] /\ ~flags["keep"] =>
    /\ resident # Models
    /\ pc \in {"alloc", "budget"} => resident \subseteq {Target}

ControlInv == TypeOK /\ HolderInv /\ PathInv /\ OutcomeInv /\ CallbackExactlyWhenOk
MemoryInv  == NativeObjectsOwned /\ BuildingInv /\ SequentialInv
IInv       == ControlInv /\ MemoryInv

-----------------------------------------------------------------------------
(* The parts of the models.                                                *)

\* What a model consists of, spelled out.
LEMMA PartsOf ==
  /\ PartSet("ocr") = {"weights", "context", "projector"}
  /\ PartSet("translation") = {"weights", "context"}
<1>1. DOMAIN Parts("ocr") = 1..3 /\ DOMAIN Parts("translation") = 1..2
  BY DEF Parts
<1>2. PartSet("ocr") = {Parts("ocr")[1], Parts("ocr")[2], Parts("ocr")[3]}
  BY <1>1 DEF PartSet
<1>3. PartSet("translation") = {Parts("translation")[1], Parts("translation")[2]}
  BY <1>1 DEF PartSet
<1> QED BY <1>2, <1>3 DEF Parts

\* How many parts a model has that has got so far.
LEMMA PrefixSizes ==
  /\ Cardinality({}) = 0
  /\ Cardinality({"weights"}) = 1
  /\ Cardinality({"weights", "context"}) = 2
<1>1. Cardinality({}) = 0 /\ IsFiniteSet({})
  BY FS_EmptySet
<1>2. Cardinality({"weights"}) = 1 /\ IsFiniteSet({"weights"})
  BY FS_Singleton
<1>3. Cardinality({"weights"} \cup {"context"}) = 2
  BY <1>2, FS_AddElement
<1>4. {"weights"} \cup {"context"} = {"weights", "context"}
  OBVIOUS
<1> QED BY <1>1, <1>2, <1>3, <1>4

\* The next part of a model that is not whole is one of its parts, and a new
\* one; with it the model has got one further.
LEMMA NextPartFits ==
  ASSUME building \in Prefixes(Target), building # PartSet(Target)
  PROVE  /\ NextPart \in PartSet(Target)
         /\ building \cup {NextPart} \in Prefixes(Target)
<1> DEFINE P == Parts(Target)
<1>1. Target \in Models
  BY DEF Target, Models
<1>2. P[1] = "weights" /\ P[2] = "context"
  BY <1>1 DEF Parts, Models
<1>3. CASE building = {}
  BY <1>1, <1>2, <1>3, PrefixSizes, PartsOf DEF NextPart, Prefixes, Models
<1>4. CASE building = {"weights"}
  <2>1. NextPart = "context"
    BY <1>2, <1>4, PrefixSizes DEF NextPart
  <2> QED BY <1>1, <1>4, <2>1, PartsOf DEF Prefixes, Models
<1>5. CASE building = {"weights", "context"}
  <2>1. Target = "ocr"
    BY <1>1, <1>5, PartsOf DEF Models
  <2>2. NextPart = "projector"
    BY <1>5, <2>1, PrefixSizes DEF NextPart, Parts
  <2> QED BY <1>5, <2>1, <2>2, PartsOf DEF Prefixes
<1> QED BY <1>3, <1>4, <1>5 DEF Prefixes



\* The objects of some models.
Owned(R) == UNION {Whole(m) : m \in R}

\* An object says which model it belongs to.
LEMMA FirstOfWhole == \A m, x : x \in Whole(m) => x[1] = m
BY DEF Whole

-----------------------------------------------------------------------------
(* The initial states.                                                     *)

\* A freshly created engine satisfies the invariant.
LEMMA InitInv == Init => IInv
<1> SUFFICES ASSUME Init PROVE IInv
  OBVIOUS
<1>1. TypeOK
  <2>1. result \in [Clients -> Statuses \cup {"none", "running", "threw"}]
    BY DEF Init
  <2>2. resident \subseteq Models /\ building \subseteq PartSet("ocr")
        /\ live \subseteq Whole("ocr") \cup Whole("translation")
    BY DEF Init
  <2>3. pass \in 1..2 /\ passes \in 1..MaxSegments /\ tokens \in 0..MaxTokens
        /\ told \in 0..1
    BY BoundsAssumption DEF Init
  <2> QED BY <2>1, <2>2, <2>3 DEF Init, TypeOK, Statuses
<1>2. HolderInv /\ PathInv /\ OutcomeInv /\ CallbackExactlyWhenOk
  BY ClientsAssumption
  DEF Init, HolderInv, PathInv, OutcomeInv, CallbackExactlyWhenOk, Points,
      BeforeCheck, Calls, Inference
<1>3. MemoryInv
  BY DEF Init, MemoryInv, NativeObjectsOwned, BuildingInv, SequentialInv, Models
<1> QED BY <1>1, <1>2, <1>3 DEF IInv, ControlInv

-----------------------------------------------------------------------------
(* The steps.                                                              *)

\* The types.
LEMMA TypeStep ==
  ASSUME IInv, Next
  PROVE  TypeOK'
<1> USE ClientsAssumption, BoundsAssumption
    DEF IInv, ControlInv, TypeOK, HolderInv, Points, BeforeCheck, Calls,
        Inference, Statuses, engineVars, callVars, genVars, modelVars
<1>1. ASSUME NEW c \in Clients, NEW o \in Calls, Enter(c, o)
      PROVE  TypeOK'
  <2>1. /\ unrecorded' \in BOOLEAN /\ holder' = c /\ pc' = "reset" /\ op' = o
        /\ result' = [result EXCEPT ![c] = "running"]
    BY <1>1 DEF Enter, Goto
  <2>2. UNCHANGED <<flags, alive, outcome, told, cancelRequested, error>>
    BY <1>1 DEF Enter
  <2>3. UNCHANGED <<pass, passes, tokens, resident, building, live, furigana,
                    asked>>
    BY <1>1 DEF Enter
  <2> QED BY <2>1, <2>2, <2>3
<1>2. ASSUME NEW c \in Clients, NEW st \in {"INVALID", "BUSY"},
             Refused(c, st)
      PROVE  TypeOK'
  <2>1. unrecorded' \in BOOLEAN /\ error' = c /\ result' = [result EXCEPT ![c] = st]
    BY <1>2 DEF Refused
  <2>2. UNCHANGED <<flags, alive, holder, pc, op, outcome, told>>
    BY <1>2 DEF Refused
  <2>3. UNCHANGED <<pass, passes, tokens, cancelRequested, resident, building,
                    live, furigana, asked>>
    BY <1>2 DEF Refused
  <2> QED BY <2>1, <2>2, <2>3
<1>3. ASSUME NEW c \in Clients, Caught(c)
      PROVE  TypeOK'
  <2>1. unrecorded' \in BOOLEAN /\ error' \in {c, error}
    BY <1>3 DEF Caught, SetUnexpectedError
  <2>2. PICK st \in {"OUT_OF_MEMORY", "FAILED"} : result' = [result EXCEPT ![c] = st]
    BY <1>3 DEF Caught
  <2>3. UNCHANGED <<flags, alive, holder, pc, op, outcome, told>>
    BY <1>3 DEF Caught
  <2>4. UNCHANGED <<pass, passes, tokens, cancelRequested, resident, building,
                    live, furigana, asked>>
    BY <1>3 DEF Caught
  <2> QED BY <2>1, <2>2, <2>3, <2>4
<1>4. CASE Reset
  <2>1. pc' \in Points /\ cancelRequested' \in BOOLEAN
    BY <1>4 DEF Reset, Goto
  <2>2. UNCHANGED <<flags, alive, holder, op, result, outcome, told>>
        /\ unrecorded' \in BOOLEAN
    BY <1>4 DEF Reset
  <2>3. UNCHANGED <<pass, passes, tokens, error, resident, building, live,
                    furigana, asked>>
    BY <1>4 DEF Reset
  <2> QED BY <2>1, <2>2, <2>3
<1>5. CASE LoadAlready
  BY <1>5 DEF LoadAlready, Loaded, Goto
<1>6. CASE LoadMissing
  BY <1>6 DEF LoadMissing, Fail, Goto
<1>7. CASE LoadEvict
  BY <1>7 DEF LoadEvict, Goto
<1>8. CASE LoadPart
  <2>1. building' \subseteq PartSet("ocr")
    BY <1>8, NextPartFits, PartsOf DEF LoadPart, MemoryInv, BuildingInv, Target
  <2>2. live' \subseteq Whole("ocr") \cup Whole("translation")
    BY <1>8, NextPartFits DEF LoadPart, MemoryInv, BuildingInv, Target, Whole
  <2> QED BY <1>8, <2>1, <2>2 DEF LoadPart
<1>9. ASSUME NEW st \in {"CANCELLED", "LOAD_FAILED", "INVALID"},
             LoadPartFails(st)
      PROVE  TypeOK'
  BY <1>9 DEF LoadPartFails, Fail, Goto
<1>10. CASE LoadInstall
  <2>1. resident' \subseteq Models
    BY <1>10 DEF LoadInstall, Target, Models
  <2> QED BY <1>10, <2>1 DEF LoadInstall, Goto
<1>11. CASE LoadOverBudget
  BY <1>11 DEF LoadOverBudget, Fail, Goto
<1>12. CASE LoadDone
  BY <1>12 DEF LoadDone, Loaded, Goto
<1>13. ASSUME NEW st \in {"NOT_FOUND", "INVALID", "UNSUPPORTED", "FAILED"},
             PrepareFails(st)
      PROVE  TypeOK'
  BY <1>13 DEF PrepareFails, Fail, Goto
<1>14. ASSUME NEW n \in 1..MaxSegments, Prepare(n)
      PROVE  TypeOK'
  BY <1>14 DEF Prepare, Goto
<1>15. CASE Segment
  BY <1>15 DEF Segment, Fail, Goto
<1>16. CASE Check
  BY <1>16 DEF Check, Stop, Goto
<1>17. CASE Prompt
  BY <1>17 DEF Prompt, Goto
<1>18. CASE Token
  BY <1>18 DEF Token
<1>19. ASSUME NEW st \in {"CANCELLED", "FAILED", "OUT_OF_MEMORY"},
             GenerationFails(st)
      PROVE  TypeOK'
  BY <1>19 DEF GenerationFails, Failure, Optional, Fail, Goto
<1>20. CASE GenerationDone
  <2>1. pass' \in 1..2 \cup 1..MaxSegments
    BY <1>20 DEF GenerationDone, After, Recover
  <2>2. pc' \in Points
    BY <1>20 DEF GenerationDone, After, Recover, Goto
  <2> QED BY <1>20, <2>1, <2>2 DEF GenerationDone
<1>21. CASE Deliver
  BY <1>21 DEF Deliver, Goto, PathInv
<1>22. CASE Succeed
  BY <1>22 DEF Succeed, Goto
<1>23. ASSUME NEW st \in {"NOT_FOUND", "FAILED"}, FuriganaRefused(st)
      PROVE  TypeOK'
  BY <1>23 DEF FuriganaRefused, Fail, Goto
<1>24. CASE FuriganaCreate
  BY <1>24 DEF FuriganaCreate, Goto
<1>25. ASSUME NEW st \in {"CANCELLED", "LOAD_FAILED", "INVALID",
                        "UNSUPPORTED", "FAILED"},
             FuriganaFails(st)
      PROVE  TypeOK'
  BY <1>25 DEF FuriganaFails, Fail, Goto
<1>26. CASE FuriganaStep
  BY <1>26 DEF FuriganaStep, Goto
<1>27. CASE TrimEnd
  BY <1>27 DEF TrimEnd, Goto
<1>28. CASE Leave
  BY <1>28 DEF Leave, Release, Goto
<1>29. CASE Throws
  BY <1>29 DEF Throws, Release, Goto
<1>30. CASE Cancel
  BY <1>30 DEF Cancel, Found
<1>31. CASE TrimBusy
  BY <1>31 DEF TrimBusy, Cancel, Found
<1>32. CASE TrimBegin
  BY <1>32 DEF TrimBegin, Goto
<1>33. CASE Destroy
  BY <1>33 DEF Destroy, Calling
<1>34. ASSUME NEW c \in Clients, RefusedThrows(c)
      PROVE  TypeOK'
  <2>1. /\ unrecorded' \in BOOLEAN /\ error' = error
        /\ result' = [result EXCEPT ![c] = "threw"]
    BY <1>34 DEF RefusedThrows
  <2>2. UNCHANGED <<flags, alive, holder, pc, op, outcome, told>>
    BY <1>34 DEF RefusedThrows
  <2>3. UNCHANGED <<pass, passes, tokens, cancelRequested, resident, building,
                    live, furigana, asked>>
    BY <1>34 DEF RefusedThrows
  <2> QED BY <2>1, <2>2, <2>3
<1>35. CASE LoadThrows
  BY <1>35 DEF LoadThrows, Release, Goto
<1> QED
  BY <1>1, <1>2, <1>3, <1>4, <1>5, <1>6, <1>7, <1>8, <1>9, <1>10, <1>11,
     <1>12, <1>13, <1>14, <1>15, <1>16, <1>17, <1>18, <1>19, <1>20,
     <1>21, <1>22, <1>23, <1>24, <1>25, <1>26, <1>27, <1>28, <1>29,
     <1>30, <1>31, <1>32, <1>33, <1>34, <1>35
  DEF Next, Inside, Load, Generate, Furigana

\* Who is inside and where, and what the call will say.
LEMMA ControlStep ==
  ASSUME IInv, Next
  PROVE  HolderInv' /\ PathInv' /\ OutcomeInv' /\ CallbackExactlyWhenOk'
<1> DEFINE Goal == HolderInv /\ PathInv /\ OutcomeInv /\ CallbackExactlyWhenOk
<1> USE ClientsAssumption
    DEF IInv, ControlInv, TypeOK, HolderInv, PathInv, OutcomeInv,
        CallbackExactlyWhenOk, Points, BeforeCheck, Calls, Inference,
        engineVars, callVars, genVars, modelVars
<1>1. ASSUME NEW c \in Clients, NEW o \in Calls, Enter(c, o)
      PROVE  Goal'
  BY <1>1 DEF Enter, Goto, Calling
<1>2. ASSUME NEW c \in Clients, NEW st \in {"INVALID", "BUSY"},
             Refused(c, st)
      PROVE  Goal'
  BY <1>2 DEF Refused
<1>3. ASSUME NEW c \in Clients, Caught(c)
      PROVE  Goal'
  BY <1>3 DEF Caught
<1>4. CASE Reset
  BY <1>4 DEF Reset, Goto
<1>5. CASE LoadAlready
  BY <1>5 DEF LoadAlready, Loaded, Goto
<1>6. CASE LoadMissing
  BY <1>6 DEF LoadMissing, Fail, Goto
<1>7. CASE LoadEvict
  BY <1>7 DEF LoadEvict, Goto
<1>8. CASE LoadPart
  BY <1>8 DEF LoadPart
<1>9. ASSUME NEW st \in {"CANCELLED", "LOAD_FAILED", "INVALID"},
             LoadPartFails(st)
      PROVE  Goal'
  BY <1>9 DEF LoadPartFails, Fail, Goto
<1>10. CASE LoadInstall
  BY <1>10 DEF LoadInstall, Goto
<1>11. CASE LoadOverBudget
  BY <1>11 DEF LoadOverBudget, Fail, Goto
<1>12. CASE LoadDone
  BY <1>12 DEF LoadDone, Loaded, Goto
<1>13. ASSUME NEW st \in {"NOT_FOUND", "INVALID", "UNSUPPORTED", "FAILED"},
             PrepareFails(st)
      PROVE  Goal'
  BY <1>13 DEF PrepareFails, Fail, Goto
<1>14. ASSUME NEW n \in 1..MaxSegments, Prepare(n)
      PROVE  Goal'
  BY <1>14 DEF Prepare, Goto
<1>15. CASE Segment
  BY <1>15 DEF Segment, Fail, Goto
<1>16. CASE Check
  BY <1>16 DEF Check, Stop, Goto
<1>17. CASE Prompt
  BY <1>17 DEF Prompt, Goto
<1>18. CASE Token
  BY <1>18 DEF Token
<1>19. ASSUME NEW st \in {"CANCELLED", "FAILED", "OUT_OF_MEMORY"},
             GenerationFails(st)
      PROVE  Goal'
  BY <1>19 DEF GenerationFails, Failure, Optional, Fail, Goto
<1>20. CASE GenerationDone
  BY <1>20 DEF GenerationDone, After, Recover, Goto
<1>21. CASE Deliver
  BY <1>21 DEF Deliver, Goto
<1>22. CASE Succeed
  BY <1>22 DEF Succeed, Goto
<1>23. ASSUME NEW st \in {"NOT_FOUND", "FAILED"}, FuriganaRefused(st)
      PROVE  Goal'
  BY <1>23 DEF FuriganaRefused, Fail, Goto
<1>24. CASE FuriganaCreate
  BY <1>24 DEF FuriganaCreate, Goto
<1>25. ASSUME NEW st \in {"CANCELLED", "LOAD_FAILED", "INVALID",
                        "UNSUPPORTED", "FAILED"},
             FuriganaFails(st)
      PROVE  Goal'
  BY <1>25 DEF FuriganaFails, Fail, Goto
<1>26. CASE FuriganaStep
  BY <1>26 DEF FuriganaStep, Goto
<1>27. CASE TrimEnd
  BY <1>27 DEF TrimEnd, Goto
<1>28. CASE Leave
  BY <1>28 DEF Leave, Release, Goto
<1>29. CASE Throws
  BY <1>29 DEF Throws, Release, Goto
<1>30. CASE Cancel
  BY <1>30 DEF Cancel, Found
<1>31. CASE TrimBusy
  BY <1>31 DEF TrimBusy, Cancel, Found
<1>32. CASE TrimBegin
  BY <1>32 DEF TrimBegin, Goto
<1>33. CASE Destroy
  BY <1>33 DEF Destroy, Calling
<1>34. ASSUME NEW c \in Clients, RefusedThrows(c)
      PROVE  Goal'
  BY <1>34 DEF RefusedThrows, Calling
<1>35. CASE LoadThrows
  BY <1>35 DEF LoadThrows, Release, Goto
<1> QED
  BY <1>1, <1>2, <1>3, <1>4, <1>5, <1>6, <1>7, <1>8, <1>9, <1>10, <1>11,
     <1>12, <1>13, <1>14, <1>15, <1>16, <1>17, <1>18, <1>19, <1>20,
     <1>21, <1>22, <1>23, <1>24, <1>25, <1>26, <1>27, <1>28, <1>29,
     <1>30, <1>31, <1>32, <1>33, <1>34, <1>35
  DEF Next, Inside, Load, Generate, Furigana

\* A step that touches no model, and neither starts nor moves within a load,
\* keeps what is known of memory.
LEMMA MemoryKept ==
  ASSUME MemoryInv, UNCHANGED <<flags, modelVars>>,
         \/ UNCHANGED <<pc, op>>
         \/ pc # "alloc" /\ pc' \notin {"alloc", "budget"}
  PROVE  MemoryInv'
BY DEF MemoryInv, NativeObjectsOwned, BuildingInv, SequentialInv, modelVars,
       Target, PartSet, Parts, Whole, Prefixes, Models

\* What is loaded, and what belongs to it.
LEMMA MemoryStep ==
  ASSUME IInv, Next
  PROVE  MemoryInv'
<1> USE DEF IInv, MemoryInv, engineVars, callVars, genVars, modelVars
<1>1. ASSUME NEW c \in Clients, NEW o \in Calls, Enter(c, o)
      PROVE  MemoryInv'
  BY <1>1, MemoryKept DEF Enter, Goto, ControlInv, HolderInv
<1>2. ASSUME NEW c \in Clients, NEW st \in {"INVALID", "BUSY"},
             Refused(c, st)
      PROVE  MemoryInv'
  BY <1>2, MemoryKept DEF Refused
<1>3. ASSUME NEW c \in Clients, Caught(c)
      PROVE  MemoryInv'
  BY <1>3, MemoryKept DEF Caught
<1>4. CASE Reset
  BY <1>4, MemoryKept DEF Reset, Goto
<1>5. CASE LoadAlready
  BY <1>5, MemoryKept DEF LoadAlready, Loaded, Goto
<1>6. CASE LoadMissing
  BY <1>6, MemoryKept DEF LoadMissing, Fail, Goto
<1>7. CASE LoadEvict
  <2>1. NativeObjectsOwned'
    BY <1>7 DEF LoadEvict, Goto, Evicted, NativeObjectsOwned, Whole
  <2>2. BuildingInv'
    BY <1>7 DEF LoadEvict, Goto, Evicted, BuildingInv, Prefixes, Target
  <2>3. SequentialInv'
    BY <1>7 DEF LoadEvict, Goto, Evicted, SequentialInv, Target, Models
  <2> QED BY <2>1, <2>2, <2>3
<1>8. CASE LoadPart
  <2>1. NativeObjectsOwned'
    <3>1. Target' = Target /\ pc = "alloc" /\ pc' = pc /\ resident' = resident
      BY <1>8 DEF LoadPart, Target
    <3>2. {Target} \X building' = {Target} \X building \cup {<<Target, NextPart>>}
      BY <1>8 DEF LoadPart
    <3>3. live = Owned(resident) \cup {Target} \X building
      BY <3>1 DEF NativeObjectsOwned, Owned
    <3>4. live' = live \cup {<<Target, NextPart>>}
      BY <1>8 DEF LoadPart
    <3>5. live' = Owned(resident) \cup {Target} \X building'
      BY <3>2, <3>3, <3>4
    <3> QED BY <3>1, <3>5 DEF NativeObjectsOwned, Owned
  <2>2. BuildingInv'
    BY <1>8, NextPartFits DEF LoadPart, BuildingInv, Prefixes, Target
  <2>3. SequentialInv'
    BY <1>8 DEF LoadPart, SequentialInv, Target
  <2> QED BY <2>1, <2>2, <2>3
<1>9. ASSUME NEW st \in {"CANCELLED", "LOAD_FAILED", "INVALID"},
             LoadPartFails(st)
      PROVE  MemoryInv'
  <2>1. NativeObjectsOwned'
    <3>1. Owned(resident) \cap FreedOnFailure = {}
      BY <1>9, FirstOfWhole DEF LoadPartFails, FreedOnFailure, BuildingInv, Owned
    <3>2. live = Owned(resident) \cup FreedOnFailure
      BY <1>9 DEF LoadPartFails, FreedOnFailure, NativeObjectsOwned, Owned
    <3>3. live' = live \ FreedOnFailure
      BY <1>9 DEF LoadPartFails
    <3>4. live' = Owned(resident)
      BY <3>1, <3>2, <3>3
    <3>5. resident' = resident /\ building' = {} /\ pc' = "leave"
      BY <1>9 DEF LoadPartFails, Fail, Goto
    <3> QED BY <3>4, <3>5 DEF NativeObjectsOwned, Owned
  <2> QED BY <1>9, <2>1 DEF LoadPartFails, Fail, Goto, BuildingInv, SequentialInv
<1>10. CASE LoadInstall
  <2>1. NativeObjectsOwned'
    <3>1. live = Owned(resident) \cup Whole(Target)
      BY <1>10 DEF LoadInstall, NativeObjectsOwned, Owned, Whole
    <3>2. live = Owned(resident \cup {Target})
      BY <3>1 DEF Owned
    <3>3. /\ live' = live /\ resident' = resident \cup {Target}
          /\ building' = {} /\ pc' = "budget"
      BY <1>10 DEF LoadInstall, Goto
    <3> QED BY <3>2, <3>3 DEF NativeObjectsOwned, Owned
  <2>2. SequentialInv'
    BY <1>10 DEF LoadInstall, Goto, SequentialInv, Target, Models
  <2> QED BY <1>10, <2>1, <2>2 DEF LoadInstall, Goto, BuildingInv
<1>11. CASE LoadOverBudget
  <2>1. NativeObjectsOwned'
    <3>1. live = UNION {Whole(m) : m \in resident} /\ building = {}
      BY <1>11 DEF LoadOverBudget, NativeObjectsOwned
    <3>2. live' = UNION {Whole(m) : m \in resident'}
      BY <1>11, <3>1, FirstOfWhole DEF LoadOverBudget
    <3> QED BY <1>11, <3>1, <3>2 DEF LoadOverBudget, Fail, Goto, NativeObjectsOwned
  <2>2. SequentialInv'
    BY <1>11 DEF LoadOverBudget, Fail, Goto, SequentialInv, Models
  <2>3. BuildingInv'
    BY <1>11 DEF LoadOverBudget, Fail, Goto, BuildingInv
  <2> QED BY <2>1, <2>2, <2>3
<1>12. CASE LoadDone
  BY <1>12, MemoryKept DEF LoadDone, Loaded, Goto
<1>13. ASSUME NEW st \in {"NOT_FOUND", "INVALID", "UNSUPPORTED", "FAILED"},
             PrepareFails(st)
      PROVE  MemoryInv'
  BY <1>13, MemoryKept DEF PrepareFails, Fail, Goto
<1>14. ASSUME NEW n \in 1..MaxSegments, Prepare(n)
      PROVE  MemoryInv'
  BY <1>14, MemoryKept DEF Prepare, Goto
<1>15. CASE Segment
  BY <1>15, MemoryKept DEF Segment, Fail, Goto
<1>16. CASE Check
  BY <1>16, MemoryKept DEF Check, Stop, Goto
<1>17. CASE Prompt
  BY <1>17, MemoryKept DEF Prompt, Goto
<1>18. CASE Token
  BY <1>18, MemoryKept DEF Token
<1>19. ASSUME NEW st \in {"CANCELLED", "FAILED", "OUT_OF_MEMORY"},
             GenerationFails(st)
      PROVE  MemoryInv'
  BY <1>19, MemoryKept DEF GenerationFails, Failure, Optional, Fail, Goto
<1>20. CASE GenerationDone
  BY <1>20, MemoryKept DEF GenerationDone, After, Recover, Goto
<1>21. CASE Deliver
  BY <1>21, MemoryKept DEF Deliver, Goto
<1>22. CASE Succeed
  BY <1>22, MemoryKept DEF Succeed, Goto
<1>23. ASSUME NEW st \in {"NOT_FOUND", "FAILED"}, FuriganaRefused(st)
      PROVE  MemoryInv'
  BY <1>23, MemoryKept DEF FuriganaRefused, Fail, Goto
<1>24. CASE FuriganaCreate
  BY <1>24, MemoryKept DEF FuriganaCreate, Goto
<1>25. ASSUME NEW st \in {"CANCELLED", "LOAD_FAILED", "INVALID",
                        "UNSUPPORTED", "FAILED"},
             FuriganaFails(st)
      PROVE  MemoryInv'
  BY <1>25, MemoryKept DEF FuriganaFails, Fail, Goto
<1>26. CASE FuriganaStep
  BY <1>26, MemoryKept DEF FuriganaStep, Goto
<1>27. CASE TrimEnd
  <2>1. NativeObjectsOwned'
    BY <1>27 DEF TrimEnd, Goto, NativeObjectsOwned
  <2> QED BY <1>27, <2>1 DEF TrimEnd, Goto, BuildingInv, SequentialInv, Models
<1>28. CASE Leave
  BY <1>28, MemoryKept DEF Leave, Release, Goto
<1>29. CASE Throws
  BY <1>29, MemoryKept DEF Throws, Release, Goto
<1>30. CASE Cancel
  BY <1>30, MemoryKept DEF Cancel
<1>31. CASE TrimBusy
  BY <1>31, MemoryKept DEF TrimBusy, Cancel
<1>32. CASE TrimBegin
  BY <1>32, MemoryKept DEF TrimBegin, Goto, ControlInv, HolderInv
<1>33. CASE Destroy
  <2>1. pc = "free"
    BY <1>33 DEF Destroy, ControlInv, HolderInv
  <2>2. NativeObjectsOwned'
    BY <1>33, <2>1 DEF Destroy, NativeObjectsOwned
  <2> QED BY <1>33, <2>1, <2>2 DEF Destroy, BuildingInv, SequentialInv, Models
<1>34. ASSUME NEW c \in Clients, RefusedThrows(c)
      PROVE  MemoryInv'
  BY <1>34, MemoryKept DEF RefusedThrows
<1>35. ASSUME LoadThrows
      PROVE  MemoryInv'
  <2>1. CASE pc = "alloc"
    <3>1. Owned(resident) \cap FreedOnFailure = {}
      BY <2>1, FirstOfWhole DEF FreedOnFailure, BuildingInv, Owned
    <3>2. live = Owned(resident) \cup FreedOnFailure
      BY <2>1 DEF FreedOnFailure, NativeObjectsOwned, Owned
    <3>3. live' = live \ FreedOnFailure /\ resident' = resident
      BY <1>35, <2>1 DEF LoadThrows
    <3>4. live' = UNION {Whole(m) : m \in resident'}
      BY <3>1, <3>2, <3>3 DEF Owned
    <3>5. building' = {} /\ pc' = "free" /\ flags' = flags
      BY <1>35 DEF LoadThrows, Release, Goto
    <3> QED BY <3>3, <3>4, <3>5 DEF NativeObjectsOwned, BuildingInv, SequentialInv
  <2>2. CASE pc = "budget"
    <3>1. live = UNION {Whole(m) : m \in resident} /\ building = {}
      BY <2>2 DEF NativeObjectsOwned
    <3>2. live' = live \ Whole(Target) /\ resident' = resident \ {Target}
      BY <1>35, <2>2 DEF LoadThrows
    <3>3. live' = UNION {Whole(m) : m \in resident'}
      BY <3>1, <3>2, FirstOfWhole
    <3>4. building' = {} /\ pc' = "free" /\ flags' = flags
      BY <1>35 DEF LoadThrows, Release, Goto
    <3>5. NativeObjectsOwned'
      BY <3>3, <3>4 DEF NativeObjectsOwned
    <3>6. resident' # Models
      BY <3>2 DEF Models, Target
    <3>7. SequentialInv'
      BY <3>4, <3>6 DEF SequentialInv
    <3> QED BY <3>4, <3>5, <3>7 DEF BuildingInv
  <2> QED BY <1>35, <2>1, <2>2 DEF LoadThrows
<1> QED
  BY <1>1, <1>2, <1>3, <1>4, <1>5, <1>6, <1>7, <1>8, <1>9, <1>10, <1>11,
     <1>12, <1>13, <1>14, <1>15, <1>16, <1>17, <1>18, <1>19, <1>20,
     <1>21, <1>22, <1>23, <1>24, <1>25, <1>26, <1>27, <1>28, <1>29,
     <1>30, <1>31, <1>32, <1>33, <1>34, <1>35
  DEF Next, Inside, Load, Generate, Furigana

\* Nothing happens.
LEMMA StutterStep ==
  ASSUME IInv, UNCHANGED vars
  PROVE  IInv'
<1>1. ControlInv'
  BY DEF IInv, ControlInv, TypeOK, HolderInv, PathInv, OutcomeInv,
         CallbackExactlyWhenOk, vars, engineVars, callVars, genVars, modelVars
<1>2. MemoryInv'
  BY MemoryKept DEF IInv, vars, engineVars, callVars, genVars, modelVars
<1> QED BY <1>1, <1>2 DEF IInv

-----------------------------------------------------------------------------
(* The theorems.                                                           *)

\* The inductive invariant: who is inside and where, which parts of which model
\* exist, and what a call may say when it returns.
THEOREM InvariantHolds == Spec => []IInv
<1>1. IInv /\ [Next]_vars => IInv'
  BY TypeStep, ControlStep, MemoryStep, StutterStep DEF IInv, ControlInv
<1> QED BY InitInv, <1>1, PTL DEF Spec

\* Every variable of the engine has its type; the bounds of passes, segments
\* and tokens hold.
THEOREM TypeCorrect == Spec => []TypeOK
BY InvariantHolds, PTL DEF IInv, ControlInv

\* No failing step of a load, eviction, budget check or trim leaks a native
\* object or leaves one that is gone in use.
THEOREM NativeObjectsAreOwned == Spec => []NativeObjectsOwned
BY InvariantHolds, PTL DEF IInv, MemoryInv

\* In sequential mode no part of one model is in memory with a part of the other.
THEOREM OneModelIsInMemory == Spec => []OneModelAtATime
<1>1. IInv => OneModelAtATime
  <2> SUFFICES ASSUME IInv, flags["sequential"], ~flags["keep"]
               PROVE  live \cap Whole("ocr") = {} \/ live \cap Whole("translation") = {}
    BY DEF OneModelAtATime
  <2>1. PICK m \in Models : resident \subseteq {m} /\ (pc = "alloc" => m = Target)
    BY DEF IInv, ControlInv, TypeOK, MemoryInv, SequentialInv, Models, Target
  <2>2. \A x \in live : x[1] = m
    <3>1. live = (UNION {Whole(n) : n \in resident})
                 \cup (IF pc = "alloc" THEN {Target} \X building ELSE {})
      BY DEF IInv, MemoryInv, NativeObjectsOwned
    <3>2. \A n \in resident : \A x \in Whole(n) : x[1] = m
      BY <2>1, FirstOfWhole
    <3>3. pc = "alloc" => \A x \in {Target} \X building : x[1] = m
      BY <2>1
    <3>4. CASE pc = "alloc"
      BY <3>1, <3>2, <3>3, <3>4
    <3>5. CASE pc # "alloc"
      BY <3>1, <3>2, <3>5
    <3> QED BY <3>4, <3>5
  <2> QED BY <2>2, FirstOfWhole
<1> QED BY InvariantHolds, <1>1, PTL

\* Whatever path a call takes, its text is called back exactly when it says OK.
THEOREM CallbackIsExact == Spec => []CallbackExactlyWhenOk
BY InvariantHolds, PTL DEF IInv, ControlInv

-----------------------------------------------------------------------------
(* Cancels.                                                                *)

\* A cancel that a call has found before one of its checks stays pending, and
\* the call has not got past the check, unless it is on its way out.
AskedInv ==
  /\ holder \notin Clients => asked = "no"
  /\ asked = "beforeCheck" => cancelRequested /\ pc \in BeforeCheck \cup {"leave"}

LEMMA AskedStep == IInv /\ AskedInv /\ [Next]_vars => AskedInv'
<1> SUFFICES ASSUME IInv, AskedInv, [Next]_vars PROVE AskedInv'
  OBVIOUS
<1> USE ClientsAssumption
    DEF AskedInv, IInv, ControlInv, TypeOK, HolderInv, PathInv, Points, BeforeCheck,
        Calls, Inference, Goto, Fail, Stop, engineVars, callVars, genVars, modelVars
<1>1. ASSUME NEW c \in Clients,
             \/ \E o \in Calls : Enter(c, o)
             \/ \E st \in {"INVALID", "BUSY"} : Refused(c, st)
             \/ RefusedThrows(c) \/ Caught(c)
      PROVE  AskedInv'
  BY <1>1 DEF Enter, Refused, RefusedThrows, Caught
<1>2. CASE Reset
  BY <1>2 DEF Reset
<1>3. CASE Load
  BY <1>3 DEF Load, LoadAlready, LoadMissing, LoadEvict, LoadPart, LoadPartFails,
              LoadInstall, LoadOverBudget, LoadDone, Loaded
<1>4. CASE Generate
  BY <1>4 DEF Generate, PrepareFails, Prepare, Segment, Check, Prompt, Token,
              GenerationFails, Failure, GenerationDone, Deliver, Succeed
<1>5. CASE Furigana
  BY <1>5 DEF Furigana, FuriganaRefused, FuriganaCreate, FuriganaFails, FuriganaStep
<1>6. CASE TrimEnd \/ TrimBegin \/ Destroy
  BY <1>6 DEF TrimEnd, TrimBegin, Destroy
<1>7. CASE Leave \/ LoadThrows \/ Throws
  BY <1>7 DEF Leave, LoadThrows, Throws, Release
<1>8. CASE Cancel \/ TrimBusy
  BY <1>8 DEF Cancel, TrimBusy, Found
<1>9. CASE UNCHANGED vars
  BY <1>9 DEF vars
<1> QED BY <1>1, <1>2, <1>3, <1>4, <1>5, <1>6, <1>7, <1>8, <1>9 DEF Next, Inside

\* A cancel that a call finds before one of its checks keeps its text from being
\* delivered, whatever loads, segments and passes lie between.
THEOREM CancelBeforeCheckIsHonoured == Spec => []CancelBeforeCheckHonoured
<1>1. Init => AskedInv
  BY DEF Init, AskedInv
<1>2. AskedInv => CancelBeforeCheckHonoured
  BY DEF AskedInv, CancelBeforeCheckHonoured, BeforeCheck
<1> QED BY <1>1, <1>2, AskedStep, InvariantHolds, PTL DEF Spec

-----------------------------------------------------------------------------
(* Messages.                                                               *)

\* Only a call that is inside clears the message, it has no result while it is
\* there, and it leaves with a message if it fails.
MessageInv ==
  /\ holder \in Clients => result[holder] = "running"
  /\ pc = "leave" /\ outcome \notin {"OK", "CANCELLED"} => error \in Clients
  /\ FailureLeavesMessage

LEMMA MessageStep == IInv /\ MessageInv /\ [Next]_vars => MessageInv'
<1> SUFFICES ASSUME IInv, MessageInv, [Next]_vars PROVE MessageInv'
  OBVIOUS
<1> USE ClientsAssumption
    DEF MessageInv, FailureLeavesMessage, IInv, ControlInv, TypeOK, HolderInv, Points,
        BeforeCheck, Statuses, Goto, Fail, Stop, engineVars, callVars, genVars,
        modelVars
<1>1. ASSUME NEW c \in Clients, NEW o \in Calls, Enter(c, o)
      PROVE  MessageInv'
  BY <1>1 DEF Enter
<1>2. ASSUME NEW c \in Clients, NEW st \in {"INVALID", "BUSY"}, Refused(c, st)
      PROVE  MessageInv'
  BY <1>2 DEF Refused, Calling
<1>3. ASSUME NEW c \in Clients, RefusedThrows(c) \/ Caught(c)
      PROVE  MessageInv'
  BY <1>3 DEF RefusedThrows, Calling, Caught, SetUnexpectedError
<1>4. CASE Reset \/ TrimEnd \/ TrimBegin \/ Destroy
  BY <1>4 DEF Reset, TrimEnd, TrimBegin, Destroy
<1>5. CASE Load
  BY <1>5 DEF Load, LoadAlready, LoadMissing, LoadEvict, LoadPart, LoadPartFails,
              LoadInstall, LoadOverBudget, LoadDone, Loaded
<1>6. CASE Generate
  <2>1. ASSUME holder \in Clients, UNCHANGED <<holder, result>>,
               pc' = "leave" /\ outcome' \notin {"OK", "CANCELLED"} => error' \in Clients
        PROVE  MessageInv'
    BY <2>1
  <2>2. holder \in Clients
    BY <1>6 DEF Generate, PrepareFails, Prepare, Segment, Check, Prompt, Token,
                GenerationFails, Failure, GenerationDone, Deliver, Succeed
  <2>3. ASSUME NEW st, PrepareFails(st) \/ GenerationFails(st)
        PROVE  MessageInv'
    BY <2>1, <2>2, <2>3 DEF PrepareFails, GenerationFails
  <2>4. ASSUME NEW n \in 1..MaxSegments, Prepare(n)
        PROVE  MessageInv'
    BY <2>1, <2>2, <2>4 DEF Prepare
  <2>5. CASE Segment \/ Check \/ Prompt \/ Token
    BY <2>1, <2>2, <2>5 DEF Segment, Check, Prompt, Token
  <2>6. CASE GenerationDone \/ Deliver \/ Succeed
    BY <2>1, <2>2, <2>6 DEF GenerationDone, After, Deliver, Succeed
  <2> QED BY <1>6, <2>3, <2>4, <2>5, <2>6 DEF Generate
<1>7. CASE Furigana
  BY <1>7 DEF Furigana, FuriganaRefused, FuriganaCreate, FuriganaFails, FuriganaStep
<1>8. CASE Leave \/ LoadThrows \/ Throws
  BY <1>8 DEF Leave, LoadThrows, Throws, Release
<1>9. CASE Cancel \/ TrimBusy
  BY <1>9 DEF Cancel, TrimBusy
<1>10. CASE UNCHANGED vars
  BY <1>10 DEF vars
<1> QED BY <1>1, <1>2, <1>3, <1>4, <1>5, <1>6, <1>7, <1>8, <1>9, <1>10
        DEF Next, Inside

\* When the latest call of every thread has failed, last_error has a message,
\* whoever ran, was refused or cleared the message of another in between; only an
\* exception that could not be recorded may leave none.
THEOREM FailuresLeaveAMessage == Spec => []FailureLeavesMessage
<1>1. Init => MessageInv
  BY ClientsAssumption DEF Init, MessageInv, FailureLeavesMessage, Statuses
<1>2. MessageInv => FailureLeavesMessage
  BY DEF MessageInv
<1> QED BY <1>1, <1>2, MessageStep, InvariantHolds, PTL DEF Spec

-----------------------------------------------------------------------------
(* The refinement.                                                         *)

\* A freshly created engine is an idle service.
LEMMA InitRefines == Init => Service!Init
BY DEF Init, Service!Init, stageBar

\* Each action of the engine is the step of the service named here; loading,
\* preparing, generating and failing inside a call are none.
LEMMA StepRefines == IInv /\ [Next]_vars => [Service!Next]_(Service!vars)
<1> SUFFICES ASSUME IInv, [Next]_vars PROVE [Service!Next]_(Service!vars)
  OBVIOUS
<1> USE ClientsAssumption
    DEF IInv, ControlInv, TypeOK, HolderInv, PathInv, OutcomeInv,
        CallbackExactlyWhenOk, Points, BeforeCheck, Calls, Inference, Statuses,
        engineVars, callVars, genVars, modelVars, stageBar, Service!vars
<1>1. ASSUME NEW c \in Clients, NEW o \in Calls, Enter(c, o)
      PROVE  Service!Enter(c, o)
  BY <1>1 DEF Enter, Goto, Calling, Service!Enter, Service!Waits
<1>2. ASSUME NEW c \in Clients, NEW st \in {"INVALID", "BUSY"},
             Refused(c, st)
      PROVE  Service!Refuse(c, st)
  BY <1>2 DEF Refused, Service!Refuse, Service!Waits, Calling
<1>3. ASSUME NEW c \in Clients, Caught(c)
      PROVE  Service!Caught(c)
  BY <1>3 DEF Caught, Service!Caught
<1>4. Reset => Service!Begin
  BY DEF Reset, Goto, Service!Begin
<1>5. LoadAlready => UNCHANGED Service!vars
  BY DEF LoadAlready, Loaded, Goto
<1>6. LoadMissing => UNCHANGED Service!vars
  BY DEF LoadMissing, Fail, Goto
<1>7. LoadEvict => UNCHANGED Service!vars
  BY DEF LoadEvict, Goto
<1>8. LoadPart => UNCHANGED Service!vars
  BY DEF LoadPart
<1>9. ASSUME NEW st \in {"CANCELLED", "LOAD_FAILED", "INVALID"},
             LoadPartFails(st)
      PROVE  UNCHANGED Service!vars
  BY <1>9 DEF LoadPartFails, Fail, Goto
<1>10. LoadInstall => UNCHANGED Service!vars
  BY DEF LoadInstall, Goto
<1>11. LoadOverBudget => UNCHANGED Service!vars
  BY DEF LoadOverBudget, Fail, Goto
<1>12. LoadDone => UNCHANGED Service!vars
  BY DEF LoadDone, Loaded, Goto
<1>13. ASSUME NEW st \in {"NOT_FOUND", "INVALID", "UNSUPPORTED", "FAILED"},
             PrepareFails(st)
      PROVE  UNCHANGED Service!vars
  BY <1>13 DEF PrepareFails, Fail, Goto
<1>14. ASSUME NEW n \in 1..MaxSegments, Prepare(n)
      PROVE  UNCHANGED Service!vars
  BY <1>14 DEF Prepare, Goto
<1>15. Segment => UNCHANGED Service!vars
  BY DEF Segment, Fail, Goto
<1>16. Check => UNCHANGED Service!vars
  BY DEF Check, Stop, Goto
<1>17. Prompt => UNCHANGED Service!vars
  BY DEF Prompt, Goto
<1>18. Token => UNCHANGED Service!vars
  BY DEF Token
<1>19. ASSUME NEW st \in {"CANCELLED", "FAILED", "OUT_OF_MEMORY"},
             GenerationFails(st)
      PROVE  UNCHANGED Service!vars
  BY <1>19 DEF GenerationFails, Failure, Optional, Fail, Goto
<1>20. GenerationDone => UNCHANGED Service!vars
  BY DEF GenerationDone, After, Recover, Goto
<1>21. Deliver => Service!Deliver
  BY DEF Deliver, Goto, Service!Deliver
<1>22. Succeed => UNCHANGED Service!vars
  BY DEF Succeed, Goto
<1>23. ASSUME NEW st \in {"NOT_FOUND", "FAILED"}, FuriganaRefused(st)
      PROVE  UNCHANGED Service!vars
  BY <1>23 DEF FuriganaRefused, Fail, Goto
<1>24. FuriganaCreate => UNCHANGED Service!vars
  BY DEF FuriganaCreate, Goto
<1>25. ASSUME NEW st \in {"CANCELLED", "LOAD_FAILED", "INVALID",
                        "UNSUPPORTED", "FAILED"},
             FuriganaFails(st)
      PROVE  UNCHANGED Service!vars
  BY <1>25 DEF FuriganaFails, Fail, Goto
<1>26. FuriganaStep => UNCHANGED Service!vars
  BY DEF FuriganaStep, Goto
<1>27. TrimEnd => Service!TrimEnd
  BY DEF TrimEnd, Goto, Service!TrimEnd
<1>28. ASSUME Leave PROVE Service!Return
  <2>1. pc = "leave" /\ stageBar = (IF told = 0 THEN "working" ELSE "delivered")
  BY <1>28 DEF Leave
  <2>2. outcome \in Statuses \ {"BUSY"} /\ Service!Earned(outcome)
    BY <2>1 DEF Service!Earned
  <2>3. /\ result' = [result EXCEPT ![holder] = outcome]
        /\ holder' = NoClient /\ op' = "none" /\ stageBar' = "idle"
        /\ UNCHANGED <<alive, cancelRequested>>
  BY <1>28 DEF Leave, Release, Goto
  <2> QED BY <2>2, <2>3 DEF Service!Return
<1>29. Throws => Service!Return
  BY DEF Throws, Release, Goto, Service!Return, Service!MayThrow
<1>30. Cancel => Service!Cancel
  BY DEF Cancel, Found, Service!Cancel
<1>31. TrimBusy => Service!Cancel
  BY DEF TrimBusy, Cancel, Found, Service!Cancel
<1>32. TrimBegin => Service!TrimBegin
  BY DEF TrimBegin, Goto, Service!TrimBegin
<1>33. Destroy => Service!Destroy
  BY DEF Destroy, Calling, Service!Destroy, Service!Waits
<1>34. ASSUME NEW c \in Clients, RefusedThrows(c)
      PROVE  Service!Refuse(c, "threw")
  BY <1>34 DEF RefusedThrows, Service!Refuse, Service!Waits, Calling
<1>35. LoadThrows => Service!Return
  BY DEF LoadThrows, Release, Goto, Service!Return, Service!MayThrow
<1>36. UNCHANGED vars => UNCHANGED Service!vars
  BY DEF vars
<1> QED
  BY <1>1, <1>2, <1>3, <1>4, <1>5, <1>6, <1>7, <1>8, <1>9, <1>10, <1>11,
     <1>12, <1>13, <1>14, <1>15, <1>16, <1>17, <1>18, <1>19, <1>20,
     <1>21, <1>22, <1>23, <1>24, <1>25, <1>26, <1>27, <1>28, <1>29,
     <1>30, <1>31, <1>32, <1>33, <1>34, <1>35, <1>36
  DEF Next, Inside, Load, Generate, Furigana, Service!Next, Service!Inside

\* Every behaviour of the engine is one of the abstract service.
THEOREM EngineImplementsService == Spec => ImplementsService
<1>1. Init => Service!Init
  BY InitRefines
<1>2. IInv /\ [Next]_vars => [Service!Next]_(Service!vars)
  BY StepRefines
<1>3. Spec => []IInv
  BY InvariantHolds
<1> QED BY <1>1, <1>2, <1>3, PTL DEF Spec, ImplementsService, Service!Spec

=============================================================================
