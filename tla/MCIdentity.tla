------------------------------ MODULE MCIdentity -------------------------------
(***************************************************************************)
(* ClientSession and Passkeys side by side: a behaviour is one of either,  *)
(* while the other rests.  Bounds: one call at most signs in at a time,    *)
(* one request at most bears no answer, among two challenges.              *)
(* The first owner's passkey is credential 1, the second's credential 2,   *)
(* if the second has one at first: other beginnings are these renamed.     *)
(***************************************************************************)
EXTENDS ClientSession, Passkeys, TLC

CONSTANTS a1, a2, c1, c2, t1

VARIABLE focus

Init ==
  /\ SessionInit /\ PasskeyInit
  /\ focus \in {"session", "passkeys"}
  /\ focus = "session" => \A o \in Owners : passkeys[o] = {}
  /\ passkeys[a1] \subseteq {1} /\ passkeys[a2] \subseteq {2}
  /\ passkeys[a1] = {} => passkeys[a2] = {}

Next ==
  \/ focus = "session" /\ SessionNext /\ UNCHANGED <<passkeyVars, focus>>
     /\ \E c \in Calls : job'[c].op \notin SignIns
  \/ focus = "passkeys" /\ PasskeyNext /\ UNCHANGED <<sessionVars, focus>>
     /\ (wasted' # {} => Len(made') < MaxChallenges)
     /\ (wasted' # wasted => wasted = {})

Spec == Init /\ [][Next]_<<sessionVars, passkeyVars, focus>>

Interchangeable == Permutations({a1, a2}) \cup Permutations({c1, c2})
=============================================================================
