---------------------------- MODULE AtLeastOnce ----------------------------
(***************************************************************************)
(* What an export target promises: the watermark only ever moves to a      *)
(* point at or below which every stored reading has been published, and no *)
(* unpublished reading turns up behind it.  It may move back (readings are *)
(* then published again), and readings may be published any number of      *)
(* times.  A reading may be given up only when it turns up out of order,   *)
(* or when there are more than a run takes.                                *)
(***************************************************************************)
EXTENDS Naturals

CONSTANTS
  Times,
  Overfull    \* sets of readings that one run may not take whole

VARIABLES
  readings,   \* timestamps in the readings table
  published,  \* timestamps the destination holds
  mark,       \* last_export_ts, 0 when empty
  missed      \* timestamps nothing is promised of any more

vars == <<readings, published, mark, missed>>

Settled(m) == \A t \in readings : t <= m => t \in published \cup missed

Init == readings = {} /\ published = {} /\ mark = 0 /\ missed = {}

Store(t) ==
  /\ t > mark \/ t \in published \cup missed
  /\ readings' = readings \cup {t}
  /\ UNCHANGED <<published, mark, missed>>

(* A reading turns up out of order. *)
StoreLate(t) ==
  /\ t \notin readings
  /\ readings' = readings \cup {t}
  /\ missed' = missed \cup {t}
  /\ UNCHANGED <<published, mark>>

(* More readings than a run takes: the older ones are left out. *)
Overflow(S) ==
  /\ readings \in Overfull
  /\ S \subseteq readings
  /\ missed' = missed \cup S
  /\ UNCHANGED <<readings, published, mark>>

Prune(b) ==
  /\ readings' = {t \in readings : t >= b}
  /\ UNCHANGED <<published, mark, missed>>

(* The destination's content changes; no stored reading disappears there.  *)
Publish(S) ==
  /\ published \cap readings \subseteq S
  /\ published' = S
  /\ UNCHANGED <<readings, mark, missed>>

Settle(m) ==
  /\ Settled(m)
  /\ mark' = m
  /\ UNCHANGED <<readings, published, missed>>

Next ==
  \/ \E t \in Times : Store(t) \/ StoreLate(t) \/ Prune(t) \/ Settle(t)
  \/ \E S \in SUBSET Times : Publish(S) \/ Overflow(S)

Spec == Init /\ [][Next]_vars
=============================================================================
