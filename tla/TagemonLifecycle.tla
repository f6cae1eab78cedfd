--------------------------- MODULE TagemonLifecycle ---------------------------
(***************************************************************************)
(* What the reconciler of src/internal/yacehandler/controller.go promises  *)
(* the users of a Tagemon, without caches, work queues, working copies,    *)
(* names, versions or failures: a Tagemon that was asked for is served,    *)
(* follows the changes of what is wanted, and is gone only once what it    *)
(* was given has been taken away.                                          *)
(***************************************************************************)
CONSTANTS
  Tagemons, Specs, NoSpec,
  Configs, ConfigOf,        \* the configuration a spec asks for
  Resources, ResourcesOf,   \* the pod resources a spec asks for
  Nothing                   \* what is not there

VARIABLES
  phase,    \* where each Tagemon is in its life
  guarded,  \* those that are cleaned up after when they are deleted
  wanted,   \* the spec its user wants now
  asked,    \* the specs asked for that are not forgotten yet
  given     \* the configuration and the pod resources it has

vars == <<phase, guarded, wanted, asked, given>>

Given == [config: Configs \cup {Nothing}, resources: Resources \cup {Nothing}]

NothingGiven == [config |-> Nothing, resources |-> Nothing]

(* All a spec asks for.                                                    *)
AllOf(spec) == [config |-> ConfigOf[spec], resources |-> ResourcesOf[spec]]

Init ==
  /\ phase = [t \in Tagemons |-> "absent"]
  /\ guarded = {}
  /\ wanted = [t \in Tagemons |-> NoSpec]
  /\ asked = [t \in Tagemons |-> {}]
  /\ given = [t \in Tagemons |-> NothingGiven]

(* A Tagemon goes from one phase to another.                               *)
Passes(t, from, to) ==
  /\ phase[t] \in from
  /\ phase' = [phase EXCEPT ![t] = to]

-----------------------------------------------------------------------------
(* The user                                                                *)

Ask(t) ==
  /\ Passes(t, {"absent"}, "new")
  /\ \E spec \in Specs : wanted' = [wanted EXCEPT ![t] = spec]
  /\ UNCHANGED <<guarded, given>>

Change(t) ==
  /\ \/ phase[t] \in {"new", "leaving"} /\ UNCHANGED phase
     \/ Passes(t, {"served", "outdated"}, "outdated")
  /\ \E spec \in Specs \ {wanted[t]} : wanted' = [wanted EXCEPT ![t] = spec]
  /\ UNCHANGED <<guarded, given>>

Leave(t) ==
  /\ t \in guarded
  /\ Passes(t, {"served", "outdated"}, "leaving")
  /\ UNCHANGED <<guarded, wanted, given>>

(* A Tagemon nobody guards is gone at once, whatever it was given.         *)
Vanish(t) ==
  /\ t \notin guarded
  /\ Passes(t, {"new", "served", "outdated"}, "absent")
  /\ wanted' = [wanted EXCEPT ![t] = NoSpec]
  /\ given' = [given EXCEPT ![t] = NothingGiven]
  /\ UNCHANGED guarded

-----------------------------------------------------------------------------
(* The reconciler                                                          *)

(* A new Tagemon is given all it wants at once.                            *)
Serve(t) ==
  /\ Passes(t, {"new"}, "served")
  /\ given' = [given EXCEPT ![t] = AllOf(wanted[t])]
  /\ UNCHANGED <<guarded, wanted>>

Guard(t) ==
  /\ phase[t] = "served"
  /\ guarded' = guarded \cup {t}
  /\ UNCHANGED <<phase, wanted, given>>

(* The configuration or the pod resources follow a spec asked for, the     *)
(* last one or one before; not while all is as wanted.                     *)
Adapt(t) ==
  /\ phase[t] \in {"outdated", "leaving"}
  /\ \E spec \in asked[t] :
       \/ /\ given[t].config # Nothing
          /\ given' = [given EXCEPT ![t].config = ConfigOf[spec]]
       \/ /\ given[t].resources # Nothing
          /\ given' = [given EXCEPT ![t].resources = ResourcesOf[spec]]
  /\ UNCHANGED <<phase, guarded, wanted>>

(* Reported as observed only when all is as wanted now.                    *)
Settle(t) ==
  /\ Passes(t, {"outdated"}, "served")
  /\ given[t] = AllOf(wanted[t])
  /\ UNCHANGED <<guarded, wanted, given>>

Remove(t) ==
  /\ phase[t] = "leaving"
  /\ \/ given' = [given EXCEPT ![t].config = Nothing]
     \/ given' = [given EXCEPT ![t].resources = Nothing]
  /\ UNCHANGED <<phase, guarded, wanted>>

Gone(t) ==
  /\ Passes(t, {"leaving"}, "absent")
  /\ given[t] = NothingGiven
  /\ guarded' = guarded \ {t}
  /\ wanted' = [wanted EXCEPT ![t] = NoSpec]
  /\ UNCHANGED given

-----------------------------------------------------------------------------
(* Specs are forgotten at any time, but what is wanted is not; nothing is  *)
(* remembered that was not asked for.                                      *)
Remembers ==
  \A t \in Tagemons :
    /\ asked'[t] \subseteq asked[t] \cup {wanted'[t]}
    /\ wanted'[t] # NoSpec => wanted'[t] \in asked'[t]

Step(t) ==
  \/ Ask(t) \/ Change(t) \/ Leave(t) \/ Vanish(t)
  \/ Serve(t) \/ Guard(t) \/ Adapt(t) \/ Settle(t) \/ Remove(t) \/ Gone(t)

Next ==
  /\ Remembers
  /\ \/ \E t \in Tagemons : Step(t)
     \/ UNCHANGED <<phase, guarded, wanted, given>>

Spec == Init /\ [][Next]_vars
===============================================================================
