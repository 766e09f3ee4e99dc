----------------------------- MODULE LaunchNotify -----------------------------
(***************************************************************************)
(* The launch list: an insert raced by a timer (withDbTimeout), which does *)
(* not stop it.                                                            *)
(***************************************************************************)
EXTENDS Naturals, FiniteSets

CONSTANTS Addresses, Notifiers

VARIABLES list,    \* LaunchNotify rows
          insert,  \* insert[r]: "rest", "going", "late": its request was answered, "done"
          address, \* address[r]
          reply    \* reply[r]: the answer

launchVars == <<list, insert, address, reply>>

LaunchInit ==
  /\ list = {}
  /\ insert = [r \in Notifiers |-> "rest"]
  /\ address \in [Notifiers -> Addresses]
  /\ reply = [r \in Notifiers |-> "none"]

Enter(r) ==
  /\ insert[r] = "rest" /\ insert' = [insert EXCEPT ![r] = "going"]
  /\ UNCHANGED <<list, address, reply>>

Reply(r, text) == reply' = IF insert[r] = "late" THEN reply ELSE [reply EXCEPT ![r] = text]

(* The address is unique; whoever waits no longer is not answered again.   *)
(* Mutant: the address is not unique.                                      *)
InsertAgain(r) ==
  /\ insert[r] \in {"going", "late"} /\ insert' = [insert EXCEPT ![r] = "done"]
  /\ list' = list \cup {address[r]}
  /\ Reply(r, "ok")
  /\ UNCHANGED address

Insert(r) ==
  /\ insert[r] \in {"going", "late"} /\ insert' = [insert EXCEPT ![r] = "done"]
  /\ list' = list \cup {address[r]}
  /\ Reply(r, IF address[r] \in list THEN "conflict" ELSE "ok")
  /\ UNCHANGED address

InsertFails(r) ==
  /\ insert[r] \in {"going", "late"} /\ insert' = [insert EXCEPT ![r] = "done"]
  /\ Reply(r, "error")
  /\ UNCHANGED <<list, address>>

TimesOut(r) ==
  /\ insert[r] = "going" /\ insert' = [insert EXCEPT ![r] = "late"]
  /\ reply' = [reply EXCEPT ![r] = "timeout"]
  /\ UNCHANGED <<list, address>>

LaunchNext == \E r \in Notifiers : Enter(r) \/ Insert(r) \/ InsertFails(r) \/ TimesOut(r)

LaunchSpec == LaunchInit /\ [][LaunchNext]_launchVars

Told(e, text) == {r \in Notifiers : address[r] = e /\ reply[r] = text}

(* Whoever is told that the address was accepted, or was there before, has *)
(* it on the list.                                                         *)
ToldIsListed == \A r \in Notifiers : reply[r] \in {"ok", "conflict"} => address[r] \in list

(* An address is accepted at most once; it is refused as registered only   *)
(* to somebody who comes after another acceptance or after a time-out.     *)
AcceptedOrTimedOut ==
  \A e \in Addresses :
    /\ Cardinality(Told(e, "ok")) <= 1
    /\ Told(e, "conflict") # {} => Told(e, "ok") \cup Told(e, "timeout") # {}

(* What a person is told of the launch list is true of it.                 *)
LaunchInv == ToldIsListed /\ AcceptedOrTimedOut
=============================================================================
