------------------------------- MODULE Memory -------------------------------
(***************************************************************************)
(* The accounting of device memory in localai::Engine: refresh_memory,     *)
(* over_vram_budget and memory_info                                        *)
(* (src/src/engine/local_ai_engine.cpp).                                   *)
(*                                                                         *)
(* The engine cannot ask how much memory it uses itself.  It compares the  *)
(* device's free bytes with those of its first reading, so what other      *)
(* programs take or give back counts as well, and a reading that the       *)
(* backend cannot give makes the next one a new baseline.  The thread that *)
(* holds operation_mutex_ loads and unloads models; memory_info reads the  *)
(* device from any thread at any moment, between any two of its steps.     *)
(***************************************************************************)
EXTENDS Integers

CONSTANTS Size,       \* device memory of each model: weights, context, projector
          Total,      \* device memory
          Maximum,    \* LocalAIConfig::maximum_vram_bytes, 0 for no ceiling
          OtherUse,   \* the amounts other programs may hold
          Readings    \* whether the backend reports totals: a subset of BOOLEAN

Models == {"ocr", "translation"}

ASSUME SizeAssumption     == Size \in [Models -> Nat]
ASSUME DeviceAssumption   == Total \in Nat /\ Maximum \in Nat
ASSUME OtherAssumption    == OtherUse \subseteq 0..Total
ASSUME ReadingsAssumption == Readings \subseteq BOOLEAN

VARIABLES
  sequential,  \* SEQUENTIAL_MODELS without KEEP_INACTIVE_MODELS
  others,      \* what other programs hold of the device
  own,         \* what the engine holds of it
  resident,    \* which of ocr_ and translation_ are set
  pc,          \* where the thread inside the engine is
  target,      \* the model it loads
  after,       \* where it goes on after an unload
  reading,     \* the engine's fields: reliable, baseline, free, current, peak
  steady,      \* history: the backend has reported totals at every reading
  checked,     \* history: what others held when the budget was last checked
  granted      \* history: and when a load was last accepted

deviceVars  == <<others, own>>
loadVars    == <<resident, pc, target, after>>
historyVars == <<checked, granted>>
vars == <<sequential, deviceVars, loadVars, reading, steady, historyVars>>

Other(m) == IF m = "ocr" THEN "translation" ELSE "ocr"

-----------------------------------------------------------------------------
(* refresh_memory.                                                         *)

NoReading == [reliable |-> FALSE, baseline |-> 0, free |-> 0,
              current |-> 0, peak |-> 0]

Max2(a, b) == IF a >= b THEN a ELSE b

(* Plausible bugs. *)

\* the peak follows the present value
RereadPeakFollows(r, free) ==
  LET base    == IF r.reliable THEN r.baseline ELSE free
      current == Max2(0, base - free)
  IN  [reliable |-> TRUE, baseline |-> base, free |-> free,
       current |-> current, peak |-> current]
\* a model over budget stays
RefuseKeeps ==
  /\ pc = "judge"
  /\ pc' = "idle"
  /\ UNCHANGED <<sequential, deviceVars, resident, target, after, reading,
                 steady, historyVars>>

\* The fields after a reading of `free' bytes: the first after an unreliable
\* one is the new baseline and starts a new peak.
Reread(r, free) ==
  LET base    == IF r.reliable THEN r.baseline ELSE free
      peak    == IF r.reliable THEN r.peak ELSE 0
      current == Max2(0, base - free)
  IN  [reliable |-> TRUE, baseline |-> base, free |-> free,
       current |-> current, peak |-> Max2(peak, current)]

-----------------------------------------------------------------------------

RefreshMemory ==
  \E ok \in Readings :
    /\ reading' = IF ok THEN Reread(reading, Total - own - others)
                  ELSE [reading EXCEPT !.reliable = FALSE]
    /\ steady' = (steady /\ ok)

\* over_vram_budget, after its refresh.
Over(r) == Maximum # 0 /\ r.reliable /\ r.peak > Maximum

\* The constructor refreshes.
Init ==
  /\ sequential \in BOOLEAN
  /\ others \in OtherUse /\ own = 0
  /\ resident = {} /\ pc = "idle" /\ target = "ocr" /\ after = "idle"
  /\ \E ok \in Readings :
       /\ reading = IF ok THEN Reread(NoReading, Total - others) ELSE NoReading
       /\ steady = ok
  /\ checked = 0 /\ granted = 0

Goto(p) == pc' = p

-----------------------------------------------------------------------------
(* unload_ocr_locked, unload_translation_locked: free, then refresh.       *)

Unload(m, p) ==
  /\ resident' = resident \ {m}
  /\ own' = own - Size[m]
  /\ Goto("unloaded") /\ after' = p
  /\ UNCHANGED <<sequential, others, target, reading, steady, historyVars>>

Unloaded ==
  /\ pc = "unloaded"
  /\ RefreshMemory
  /\ Goto(after)
  /\ UNCHANGED <<sequential, deviceVars, resident, target, after, historyVars>>

-----------------------------------------------------------------------------
(* load_ocr_locked, load_translation_locked.                               *)

LoadBegin(m) ==
  /\ pc = "idle" /\ m \notin resident
  /\ target' = m
  /\ Goto("evict")
  /\ UNCHANGED <<sequential, deviceVars, resident, after, reading, steady,
                 historyVars>>

\* In sequential mode the other model goes first.
Evicts == sequential /\ Other(target) \in resident

Evict == pc = "evict" /\ Evicts /\ Unload(Other(target), "create")

EvictNone ==
  /\ pc = "evict" /\ ~Evicts
  /\ Goto("create")
  /\ UNCHANGED <<sequential, deviceVars, resident, target, after, reading,
                 steady, historyVars>>

Create ==
  /\ pc = "create"
  /\ own + Size[target] + others <= Total
  /\ own' = own + Size[target]
  /\ Goto("created")
  /\ UNCHANGED <<sequential, others, resident, target, after, reading, steady,
                 historyVars>>

\* A part does not come into being: the others are freed, without a refresh.
CreateFails ==
  /\ pc \in {"create", "created"}
  /\ own' = IF pc = "created" THEN own - Size[target] ELSE own
  /\ Goto("idle")
  /\ UNCHANGED <<sequential, others, resident, target, after, reading, steady,
                 historyVars>>

Install ==
  /\ pc = "created"
  /\ resident' = resident \cup {target}
  /\ Goto("installed")
  /\ UNCHANGED <<sequential, deviceVars, target, after, reading, steady,
                 historyVars>>

\* The refresh after the load, and the one over_vram_budget makes itself.
Measure ==
  /\ pc = "installed"
  /\ RefreshMemory
  /\ Goto("budget")
  /\ UNCHANGED <<sequential, deviceVars, resident, target, after, historyVars>>

MeasureBudget ==
  /\ pc = "budget"
  /\ RefreshMemory
  /\ checked' = others
  /\ Goto("judge")
  /\ UNCHANGED <<sequential, deviceVars, resident, target, after, granted>>

\* The fields may have been read once more since, by memory_info.
Accept ==
  /\ pc = "judge" /\ ~Over(reading)
  /\ granted' = checked
  /\ Goto("idle")
  /\ UNCHANGED <<sequential, deviceVars, resident, target, after, reading,
                 steady, checked>>

Refuse == pc = "judge" /\ Over(reading) /\ Unload(target, "idle")

-----------------------------------------------------------------------------
(* trim_memory, memory_info and the rest of the machine.                   *)

TrimBegin ==
  /\ pc = "idle"
  /\ Goto("trim")
  /\ UNCHANGED <<sequential, deviceVars, resident, target, after, reading,
                 steady, historyVars>>

\* OCR first, then translation.
Trim(m) ==
  /\ pc = "trim" /\ m \in resident
  /\ m = "translation" => "ocr" \notin resident
  /\ Unload(m, "trim")

TrimEnd ==
  /\ pc = "trim" /\ resident = {}
  /\ Goto("idle")
  /\ UNCHANGED <<sequential, deviceVars, resident, target, after, reading,
                 steady, historyVars>>

\* What it reports is `reading', which a second critical section copies.
MemoryInfo ==
  /\ RefreshMemory
  /\ UNCHANGED <<sequential, deviceVars, loadVars, historyVars>>

OthersChange ==
  /\ others' \in OtherUse /\ others' # others
  /\ own + others' <= Total
  /\ UNCHANGED <<sequential, own, loadVars, reading, steady, historyVars>>

Next == \/ \E m \in Models : LoadBegin(m) \/ Trim(m)
        \/ Evict \/ EvictNone \/ Create \/ CreateFails \/ Install
        \/ Measure \/ MeasureBudget \/ Accept \/ Refuse \/ Unloaded
        \/ TrimBegin \/ TrimEnd
        \/ MemoryInfo \/ OthersChange

Spec == Init /\ [][Next]_vars

-----------------------------------------------------------------------------
(* Properties.                                                             *)

Points == {"idle", "evict", "create", "created", "installed", "budget",
           "judge", "unloaded", "trim"}

ReadingType == [reliable : BOOLEAN, baseline : 0..Total, free : 0..Total,
                current : 0..Total, peak : 0..Total]

\* Every variable has its type; the device is never overcommitted.
TypeOK ==
  /\ sequential \in BOOLEAN
  /\ others \in OtherUse /\ own \in 0..Total /\ own + others <= Total
  /\ resident \subseteq Models /\ target \in Models
  /\ pc \in Points /\ after \in {"idle", "create", "trim"}
  /\ reading \in ReadingType
  /\ steady \in BOOLEAN
  /\ checked \in 0..Total /\ granted \in 0..Total

\* What other programs held when the engine was created, as far as it knows.
OthersAtStart == Total - reading.baseline

\* README.md: the engine "enforces the configured 6 GiB ceiling when reliable
\* information is available".  As long as every reading is reliable, the models
\* that stay loaded after a call never take more than the ceiling, but for what
\* other programs have given back between the baseline and the check - whatever
\* loads failed or were refused before and however memory_info came in between.
CeilingEnforced ==
  Maximum # 0 /\ steady /\ pc = "idle" /\ resident # {} =>
    own <= Maximum + OthersAtStart - granted

\* "The GUI and LocalAIMemoryInfo expose the peak": it is never below what the
\* models that are still loaded took when their load was checked, even after
\* others have been loaded, refused and unloaded.
PeakCoversLoaded ==
  steady /\ pc = "idle" /\ resident # {} =>
    reading.peak >= own + granted - OthersAtStart

\* "OCR model loading exceeded the configured VRAM budget": a load is refused
\* only when the memory in use after it exceeds the ceiling.
RefusedOnlyOverBudget ==
  pc = "judge" /\ Over(reading) => reading.current > Maximum

=============================================================================
