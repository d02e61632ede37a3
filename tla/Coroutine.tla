------------------------------- MODULE Coroutine -------------------------------
(***************************************************************************)
(* What a client of LuaThread may rely on: the life of a coroutine.  It is *)
(* idle until it is started, then it runs, resumes others, yields and is   *)
(* resumed.  When its function returns it is idle again and may be started *)
(* once more; when its function fails it is never usable again.  A resume  *)
(* of anything but a suspended coroutine is refused and changes nothing.   *)
(***************************************************************************)
EXTENDS Integers, Sequences

CONSTANTS Coroutines

VARIABLES
  phase,     \* phase[c]: "idle", "active", "suspended" or "failed"
  resumers,  \* the active coroutines, each one resumed by the one before it
  outcome    \* how the last resume that came back ended

vars == <<phase, resumers, outcome>>

Init ==
  /\ phase = [c \in Coroutines |-> "idle"]
  /\ resumers = <<>>
  /\ outcome = "none"

Goes(c, p) == phase' = [phase EXCEPT ![c] = p]

Enter(c) == Goes(c, "active") /\ resumers' = Append(resumers, c) /\ UNCHANGED outcome

\* The innermost coroutine hands control back to what resumed it.
Leave(p, how) ==
  /\ resumers # <<>>
  /\ Goes(resumers[Len(resumers)], p)
  /\ resumers' = SubSeq(resumers, 1, Len(resumers) - 1)
  /\ outcome' = how

Start(c) == phase[c] = "idle" /\ Enter(c)
Resume(c) == phase[c] = "suspended" /\ Enter(c)

\* A coroutine that had nothing left to do after its yield.
ResumeToEnd(c) ==
  phase[c] = "suspended" /\ Goes(c, "idle") /\ outcome' = "done" /\ UNCHANGED resumers

\* It was given something that is no function.
StartFails(c) ==
  phase[c] = "idle" /\ Goes(c, "failed") /\ outcome' = "error" /\ UNCHANGED resumers

Refuse(c) ==
  phase[c] # "suspended" /\ outcome' = "error" /\ UNCHANGED <<phase, resumers>>

\* A call that is given something of another instance throws before it resumes anything.
Throw == outcome' = "thrown" /\ UNCHANGED <<phase, resumers>>

Next ==
  \/ \E c \in Coroutines : Start(c) \/ Resume(c) \/ ResumeToEnd(c) \/ StartFails(c) \/ Refuse(c)
  \/ Throw
  \/ Leave("suspended", "yield") \/ Leave("idle", "done")
  \/ Leave("failed", "error") \/ Leave("failed", "thrown")

Spec == Init /\ [][Next]_vars
=============================================================================
