----------------------------- MODULE MCScheduler -----------------------------
(* Small instances of Scheduler for TLC. *)
EXTENDS Scheduler, TLC

CONSTANTS once, cron, s1, s2, e1, p1, p2

OneProcessPerSlot == [s \in Slots |-> s]
OneProcess        == [s \in Slots |-> s1]
OneSession        == [j \in Jobs |-> 1]
\* The slots of one-slot processes are interchangeable.
SlotSymmetry      == Permutations(Slots)
EveryInstant      == e1 :> (1..MaxTime)

\* Two instances in one run: two jobs of one session that nobody edits and that
\* skip what they missed; one cron job of any policy, which is edited.
Instances ==
  \/ edits = 0 /\ \A j \in used : job[j].policy = "skip"
  \/ used \subseteq {cron}

\* A job that keeps its first prompt; a job whose prompt is edited, with one loss
\* and a clock that is not set back.
OnePromptOrOneLoss ==
  \/ \A j \in used : job[j].prompt = p1
  \/ losses <= 1 /\ setBacks = 0
=============================================================================
