--------------------------- MODULE EngineService ---------------------------
(***************************************************************************)
(* What a LocalAI engine promises the threads that call it, without        *)
(* models, segments, tokens or passes: one call inside at a time and       *)
(* everybody else refused; a text delivered at most once, by a call that   *)
(* then can only succeed; CANCELLED only while somebody has asked for it;  *)
(* an end for every call.  Engine implements it (EngineRefinement).        *)
(***************************************************************************)
CONSTANTS Clients, NoClient, Trimmer,
          Inference,   \* the calls that deliver a text
          Calls,       \* all calls
          Failures     \* the statuses of a call that got inside and failed,
                       \* CANCELLED apart

VARIABLES exists,   \* the engine has been created and not destroyed
          caller,   \* who is inside, or NoClient
          call,     \* what that is for, or "none"
          stage,    \* "idle", "entered", "working", "delivered"
          cancel,   \* a cancel is pending
          answer    \* each client: its latest status; "running" while it is
                    \* inside, "threw" until an exception has been caught

vars == <<exists, caller, call, stage, cancel, answer>>

Init ==
  /\ exists = TRUE
  /\ caller = NoClient /\ call = "none" /\ stage = "idle"
  /\ cancel = FALSE
  /\ answer = [c \in Clients |-> "none"]

Waits(c) == answer[c] \in {"running", "threw"}

Enter(c, o) ==
  /\ exists /\ stage = "idle" /\ ~Waits(c)
  /\ caller' = c /\ call' = o /\ stage' = "entered"
  /\ answer' = [answer EXCEPT ![c] = "running"]
  /\ UNCHANGED <<exists, cancel>>

\* BUSY is said only while somebody is inside, or the models are trimmed; a
\* refusal may also throw.
Refuse(c, st) ==
  /\ exists /\ ~Waits(c)
  /\ st = "BUSY" => caller # NoClient
  /\ answer' = [answer EXCEPT ![c] = st]
  /\ UNCHANGED <<exists, caller, call, stage, cancel>>

\* The call forgets what was asked of the one before it.
Begin ==
  /\ stage = "entered"
  /\ stage' = "working" /\ cancel' = FALSE
  /\ UNCHANGED <<exists, caller, call, answer>>

Deliver ==
  /\ stage = "working" /\ call \in Inference
  /\ stage' = "delivered"
  /\ UNCHANGED <<exists, caller, call, cancel, answer>>

\* An inference call succeeds exactly when it has delivered.
Earned(st) ==
  \/ st = "OK" /\ stage = IF call \in Inference THEN "delivered" ELSE "working"
  \/ st = "CANCELLED" /\ stage = "working" /\ cancel
  \/ st \in Failures /\ stage = "working"

\* An exception may also come after the text, from the allocations between the
\* callbacks of a furigana call.
MayThrow == stage = "working" \/ (stage = "delivered" /\ call = "furigana")

Return ==
  /\ \/ \E st \in Failures \cup {"OK", "CANCELLED"} :
          Earned(st) /\ answer' = [answer EXCEPT ![caller] = st]
     \/ MayThrow /\ answer' = [answer EXCEPT ![caller] = "threw"]
  /\ caller' = NoClient /\ call' = "none" /\ stage' = "idle"
  /\ UNCHANGED <<exists, cancel>>

Caught(c) ==
  /\ answer[c] = "threw"
  /\ \E st \in {"OUT_OF_MEMORY", "FAILED"} : answer' = [answer EXCEPT ![c] = st]
  /\ UNCHANGED <<exists, caller, call, stage, cancel>>

Cancel == /\ exists
          /\ cancel' = TRUE
          /\ UNCHANGED <<exists, caller, call, stage, answer>>

TrimBegin == /\ exists /\ stage = "idle"
             /\ caller' = Trimmer /\ stage' = "trimming"
             /\ UNCHANGED <<exists, call, cancel, answer>>

TrimEnd == /\ stage = "trimming"
           /\ caller' = NoClient /\ stage' = "idle"
           /\ UNCHANGED <<exists, call, cancel, answer>>

Destroy == /\ exists /\ stage = "idle" /\ \A c \in Clients : ~Waits(c)
           /\ exists' = FALSE
           /\ UNCHANGED <<caller, call, stage, cancel, answer>>

Inside == Begin \/ Deliver \/ Return \/ TrimEnd

Next == \/ \E c \in Clients :
             \/ \E o \in Calls : Enter(c, o)
             \/ \E st \in {"INVALID", "BUSY", "threw"} : Refuse(c, st)
             \/ Caught(c)
        \/ Inside \/ Cancel \/ TrimBegin \/ Destroy

Spec == Init /\ [][Next]_vars

(* Whoever is inside gets out, and an exception is caught.                 *)
FairSpec == Spec /\ WF_vars(Inside) /\ \A c \in Clients : WF_vars(Caught(c))

=============================================================================
