------------------------------- MODULE Recaptcha -------------------------------
(***************************************************************************)
(* The load of the reCAPTCHA script, shared by all forms that wait for it: *)
(* from one host after the other, each with its time-outs, while the pages *)
(* of signing in are left, which takes script, API and promise away.  A    *)
(* script whose tag is gone runs all the same once it has arrived.         *)
(***************************************************************************)
EXTENDS Naturals

CONSTANT MaxLoads  \* loads begun, a bound

ASSUME LoadsAssumption == MaxLoads \in Nat \ {0}

VARIABLES api,     \* window.grecaptcha: "none", "starting": it has ready(), "ready": execute too
          tag,     \* a load whose script tag is in the document, NoLoad
          current, \* recaptchaLoadPromise: a load, NoLoad
          load,    \* load[l]
          coming,  \* scripts asked for that may still run, and those they bring along
          parted   \* history: the pages were left with a load or an attempt under way

captchaVars == <<api, tag, current, load, coming, parted>>

NoLoad == 0
Loads == 1 .. MaxLoads
Hosts == 1 .. 2

(* at: "unused", "stale": waits for a script found in the document,        *)
(* "script": for its own to load, "ready": asks every 50 ms for the API,   *)
(* "called": has left a callback with ready(), and no time-out;            *)
(* "done", "failed"; found: what the wait for a script found leads to.     *)
Loading(l) == load[l].at \notin {"unused", "done", "failed"}

CaptchaInit ==
  /\ api = "none" /\ tag = NoLoad /\ current = NoLoad
  /\ load = [l \in Loads |-> [at |-> "unused", host |-> 1, found |-> FALSE]]
  /\ coming = {} /\ parted = FALSE

(* removeRecaptchaScripts and injectRecaptchaScript.                       *)
Inject(l, h) ==
  /\ tag' = l /\ coming' = coming \cup {<<l, h>>}
  /\ load' = [load EXCEPT ![l] = [at |-> "script", host |-> h, found |-> FALSE]]

(* loadRecaptcha, when no promise is kept.                                 *)
BeginLoad(l) ==
  /\ load[l].at = "unused" /\ \A k \in Loads : k < l => load[k].at # "unused"
  /\ current' = l
  /\ IF tag = NoLoad THEN Inject(l, 1)
     ELSE load' = [load EXCEPT ![l].at = "stale", ![l].found = TRUE] /\ UNCHANGED <<tag, coming>>
  /\ UNCHANGED <<api, parted>>

(* The next host, or the end: the promise kept by now is forgotten, though *)
(* it may be that of a later load.                                         *)
NextHost(l) ==
  CASE load[l].found -> Inject(l, 1) /\ UNCHANGED current
    [] ~load[l].found /\ load[l].host = 1 -> Inject(l, 2) /\ UNCHANGED current
    [] ~load[l].found /\ load[l].host = 2 ->
         /\ load' = [load EXCEPT ![l].at = "failed"] /\ current' = NoLoad
         /\ UNCHANGED <<tag, coming>>

(* The script runs and brings the API's own along (host 0); its tag tells  *)
(* the load that waits for it.                                             *)
ScriptRuns(l, h) ==
  /\ <<l, h>> \in coming /\ h \in Hosts
  /\ coming' = (coming \ {<<l, h>>}) \cup {<<l, 0>>}
  /\ api' = IF api = "none" THEN "starting" ELSE api
  /\ load' = IF load[l].at = "script" /\ load[l].host = h THEN [load EXCEPT ![l].at = "ready"] ELSE load
  /\ UNCHANGED <<tag, current, parted>>

ApiStarts(l) ==
  /\ <<l, 0>> \in coming /\ coming' = coming \ {<<l, 0>>}
  /\ api' = "ready"
  /\ UNCHANGED <<tag, current, load, parted>>

(* onerror, or the time-out of the script, which takes its tag away.       *)
ScriptFails(l) ==
  /\ load[l].at = "script" /\ NextHost(l)
  /\ UNCHANGED <<api, parted>>

(* waitForRecaptchaReady.                                                  *)
LeaveCallback(l) ==
  /\ load[l].at \in {"stale", "ready"} /\ api = "starting"
  /\ load' = [load EXCEPT ![l].at = "called"]
  /\ UNCHANGED <<api, tag, current, coming, parted>>

(* The callback runs when the API has started; gone again, it is asked for *)
(* as before.                                                              *)
CalledBack(l) ==
  /\ load[l].at = "called" /\ api # "starting"
  /\ load' = [load EXCEPT ![l].at = IF api = "ready" THEN "done" ELSE "ready"]
  /\ UNCHANGED <<api, tag, current, coming, parted>>

ApiFound(l) ==
  /\ load[l].at \in {"stale", "ready"} /\ api = "ready"
  /\ load' = [load EXCEPT ![l].at = "done"]
  /\ UNCHANGED <<api, tag, current, coming, parted>>

ApiTimesOut(l) ==
  /\ load[l].at \in {"stale", "ready"} /\ api # "ready" /\ NextHost(l)
  /\ UNCHANGED <<api, parted>>

(* unloadRecaptcha.                                                        *)
Unload(busy) ==
  /\ api' = "none" /\ tag' = NoLoad /\ current' = NoLoad /\ UNCHANGED <<load, coming>>
  /\ parted' = (parted \/ busy \/ coming # {} \/ \E l \in Loads : Loading(l))

CaptchaStep ==
  \E l \in Loads :
    \/ ApiStarts(l) \/ ScriptFails(l) \/ LeaveCallback(l) \/ CalledBack(l) \/ ApiFound(l) \/ ApiTimesOut(l)
    \/ \E h \in Hosts : ScriptRuns(l, h)

(* A form that joins a load that has ended finds the API; and as long as   *)
(* the pages were not left with something under way, loads do not overlap. *)
LoadsShared ==
  /\ current # NoLoad /\ load[current].at = "done" => api = "ready"
  /\ current # NoLoad => load[current].at \in {"stale", "script", "ready", "called", "done"}
  /\ ~parted => \A l \in Loads : Loading(l) => l = current
=============================================================================
