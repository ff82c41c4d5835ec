---------------------------- MODULE RetentionLog ----------------------------
(***************************************************************************)
(* What a telescope store promises about retention, with no tiers, files,  *)
(* pages, pods or prune cycles: an entry is stamped when it is recorded,   *)
(* accepted when the store holds it, and from then on it can be read until *)
(* it is older than the retention window, which is when it goes.           *)
(***************************************************************************)
EXTENDS Integers

CONSTANTS Entry,      \* everything the application may ever record
          Retention   \* prune.afterMs: how long an entry must stay readable

VARIABLES clock,      \* the time of day, in ticks
          stamp,      \* createdAt of every stamped entry
          stamped,    \* entries that were given a createdAt
          accepted,   \* entries the store took
          kept        \* accepted entries a reader must still be shown

vars == <<clock, stamp, stamped, accepted, kept>>

\* Older than the retention window at time t: the cycle may delete it.
Expired(e, t) == stamp[e] < t - Retention

Init ==
  /\ clock = 0
  /\ stamp = [e \in Entry |-> 0]
  /\ stamped = {}
  /\ accepted = {}
  /\ kept = {}

Stamp(e) ==
  /\ e \notin stamped
  /\ stamped' = stamped \cup {e}
  /\ stamp' = [stamp EXCEPT ![e] = clock]
  /\ UNCHANGED <<clock, accepted, kept>>

Accept(S) ==
  /\ S \subseteq stamped \ accepted
  /\ accepted' = accepted \cup S
  /\ kept' = kept \cup {e \in S : ~ Expired(e, clock)}
  /\ UNCHANGED <<clock, stamp, stamped>>

Tick ==
  /\ clock' = clock + 1
  /\ kept' = {e \in kept : ~ Expired(e, clock')}
  /\ UNCHANGED <<stamp, stamped, accepted>>

Next ==
  \/ Tick
  \/ \E e \in Entry : Stamp(e)
  \/ \E S \in SUBSET Entry : Accept(S)

Spec == Init /\ [][Next]_vars
=============================================================================
